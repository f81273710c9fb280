------------------------- MODULE ResultsIngestProofs -------------------------
(***************************************************************************)
(* Proofs about ResultsIngest, for every set of sites, batches, attempts,  *)
(* workers and requests, every payload and every bound.                    *)
(***************************************************************************)
EXTENDS ResultsIngest, TLAPS

(* Helper lemmas: the shape of payloads and of running transactions.       *)

\* The payload of a recorded batch is a non-empty sequence of uploads.
LEMMA PayloadType ==
  ASSUME TypeOK, NEW b \in Batch, batches[b] # None
  PROVE  /\ batches[b] \in BatchRow
         /\ PayloadOf(b) \in Seq(Upload)
         /\ Len(PayloadOf(b)) \in Nat \ {0}
<1>1. batches[b] \in BatchRow
  BY DEF TypeOK
<1>2. <<batches[b].site, b>> \in Site \X Batch
  BY <1>1 DEF BatchRow
<1>3. PayloadOf(b) \in Seq(Upload) \ {<<>>}
  BY <1>2, ConstantsAssumption DEF PayloadOf
<1>4. QED
  BY <1>1, <1>3

\* What a run that is not idle refers to.
LEMMA RunType1 ==
  ASSUME TypeOK, NEW w \in Worker, RunInOrder(w), run[w].pc # "idle"
  PROVE  LET b == BatchOf(run[w].job)
         IN /\ run[w] \in RunType /\ run[w].job \in JobId
            /\ b \in Batch /\ batches[b] # None /\ batches[b] \in BatchRow
            /\ PayloadOf(b) \in Seq(Upload)
            /\ Len(PayloadOf(b)) \in Nat \ {0}
            /\ run[w].outcomes \in Seq(Verdict) /\ Len(run[w].outcomes) \in Nat
            /\ Len(run[w].outcomes) <= Len(PayloadOf(b))
<1> DEFINE b == BatchOf(run[w].job)
<1>1. run[w] \in RunType
  BY DEF TypeOK
<1>2. run[w].job \in JobId /\ batches[b] # None
  BY DEF RunInOrder
<1>3. b \in Batch
  BY <1>2 DEF JobId, BatchOf
<1>4. /\ batches[b] \in BatchRow
      /\ PayloadOf(b) \in Seq(Upload)
      /\ Len(PayloadOf(b)) \in Nat \ {0}
  BY <1>2, <1>3, PayloadType
<1>5. run[w].outcomes \in Seq(Verdict) /\ Len(run[w].outcomes) \in Nat
  BY <1>1 DEF RunType
<1>6. run[w].pc \in {"begin", "read", "grade", "finish"} \cup InTransaction
  BY <1>1 DEF RunType, InTransaction
<1>7. Len(run[w].outcomes) <= Len(PayloadOf(b))
  BY <1>4, <1>5, <1>6 DEF RunInOrder
<1>8. QED
  BY <1>1, <1>2, <1>3, <1>4, <1>5, <1>7

\* A run inside a transaction works on an upload of its batch.
LEMMA CurrentUploadType ==
  ASSUME TypeOK, NEW w \in Worker, RunInOrder(w), run[w].pc \in InTransaction
  PROVE  LET p == PayloadOf(BatchOf(run[w].job))
             n == Len(run[w].outcomes) + 1
         IN n \in 1..Len(p) /\ CurrentUpload(w) = p[n] /\ CurrentUpload(w) \in Upload
<1> DEFINE p == PayloadOf(BatchOf(run[w].job))
           n == Len(run[w].outcomes) + 1
<1>1. run[w].pc # "idle"
  BY DEF InTransaction
<1>2. p \in Seq(Upload) /\ Len(p) \in Nat /\ Len(run[w].outcomes) \in Nat
  BY <1>1, RunType1
<1>3. Len(run[w].outcomes) < Len(p)
  BY <1>1 DEF RunInOrder
<1>4. n \in 1..Len(p)
  BY <1>2, <1>3
<1>5. p[n] \in Upload
  BY <1>2, <1>4
<1>6. QED
  BY <1>4, <1>5 DEF CurrentUpload
-----------------------------------------------------------------------------
(* Frame conditions: what a step must leave alone for a part of the        *)
(* invariant to survive it.                                                *)

BatchesPersist ==
  \A b \in Batch : batches[b] # None =>
    batches'[b] # None /\ batches'[b].site = batches[b].site

KeptPersists == \A u \in Upload : Kept(u) => Kept(u)'

\* A payload stays what it is as long as batches persist.
LEMMA PayloadFrame ==
  ASSUME BatchesPersist, NEW b \in Batch, batches[b] # None
  PROVE  PayloadOf(b)' = PayloadOf(b)
BY DEF BatchesPersist, PayloadOf

\* A run that a step does not touch keeps its part of the invariant.
LEMMA RunFrame ==
  ASSUME IndInv, BatchesPersist, KeptPersists, NEW v \in Worker,
         run'[v] = run[v],
         run[v].pc = "update" =>
           attempts'[CurrentUpload(v).attempt] = attempts[CurrentUpload(v).attempt]
  PROVE  /\ RunInOrder(v)' /\ RunKept(v)' /\ LockedRowIsOlder(v)'
         /\ run[v].pc \in InTransaction => CurrentUpload(v)' = CurrentUpload(v)
<1> DEFINE b == BatchOf(run[v].job)
<1>0. TypeOK /\ RunInOrder(v) /\ RunKept(v) /\ LockedRowIsOlder(v)
  BY DEF IndInv
<1>1. CASE run[v].pc = "idle"
  BY <1>1 DEF RunInOrder, RunKept, LockedRowIsOlder, InTransaction
<1>2. CASE run[v].pc # "idle"
  <2>1. /\ b \in Batch /\ batches[b] # None /\ PayloadOf(b) \in Seq(Upload)
        /\ Len(PayloadOf(b)) \in Nat /\ Len(run[v].outcomes) \in Nat
        /\ Len(run[v].outcomes) <= Len(PayloadOf(b))
    BY <1>0, <1>2, RunType1
  <2>2. /\ batches'[b] # None /\ batches'[b].site = batches[b].site
        /\ run'[v] = run[v]
    BY <2>1 DEF BatchesPersist
  <2>3. RunInOrder(v)'
    BY <1>0, <2>2 DEF RunInOrder, BatchOf, PayloadOf
  <2>4. RunKept(v)'
    <3> SUFFICES ASSUME NEW i \in 1..Len(run[v].outcomes), run[v].outcomes[i] \in Accepted,
                        NEW u, u = PayloadOf(b)[i]
                 PROVE  Kept(u)'
      BY <1>2, <2>2 DEF RunKept, Kept, BatchOf, PayloadOf
    <3>1. Kept(u)
      BY <1>0, <1>2 DEF RunKept
    <3>2. u \in Upload
      BY <2>1
    <3>3. QED
      BY <3>1, <3>2 DEF KeptPersists
  <2>5. CurrentUpload(v)' = CurrentUpload(v)
    BY <2>2 DEF CurrentUpload, BatchOf, PayloadOf
  <2>6. LockedRowIsOlder(v)'
    BY <1>0, <2>2, <2>5 DEF LockedRowIsOlder
  <2>7. QED
    BY <2>3, <2>4, <2>5, <2>6
<1>3. QED
  BY <1>1, <1>2

\* A batch whose verdicts a step does not touch keeps its part of the invariant.
LEMMA BatchFrame ==
  ASSUME IndInv, BatchesPersist, KeptPersists, NEW b \in Batch, batches[b] # None,
         batches'[b].outcomes = batches[b].outcomes
  PROVE  OutcomesFit(b)' /\ OutcomesKept(b)'
<1>1. batches'[b].site = batches[b].site
  BY DEF BatchesPersist
<1>2. /\ PayloadOf(b) \in Seq(Upload) /\ Len(PayloadOf(b)) \in Nat \ {0}
      /\ OutcomesFit(b) /\ OutcomesKept(b)
  BY PayloadType DEF IndInv, AcceptedIsKept
<1>3. OutcomesFit(b)'
  BY <1>1, <1>2 DEF OutcomesFit, PayloadOf
<1>4. OutcomesKept(b)'
  <2> SUFFICES ASSUME NEW i \in 1..Len(batches[b].outcomes),
                      batches[b].outcomes[i] \in Accepted,
                      NEW u, u = PayloadOf(b)[i]
               PROVE  Kept(u)'
    BY <1>1 DEF OutcomesKept, Kept, PayloadOf
  <2>1. Kept(u)
    BY <1>2 DEF OutcomesKept
  <2>2. u \in Upload
    BY <1>2 DEF OutcomesFit
  <2>3. QED
    BY <2>1, <2>2 DEF KeptPersists
<1>5. QED
  BY <1>3, <1>4

\* What steps that add no verdict leave of the invariant of batches, requests and jobs.
VerdictsPersist ==
  \A b \in Batch : batches'[b] # None =>
    batches'[b].outcomes = IF batches[b] # None THEN batches[b].outcomes ELSE <<>>

JobsPersist == \A j \in JobId : jobs'[j].state # "none" => jobs[j].state # "none"

LEMMA VerdictsFrame ==
  ASSUME IndInv, BatchesPersist, KeptPersists, VerdictsPersist
  PROVE  AcceptedIsKept' /\ \A b \in Batch : batches'[b] # None => OutcomesFit(b)'
<1> SUFFICES ASSUME NEW b \in Batch, batches'[b] # None
             PROVE  OutcomesFit(b)' /\ OutcomesKept(b)'
  BY DEF AcceptedIsKept
<1>1. CASE batches[b] # None
  BY <1>1, BatchFrame DEF VerdictsPersist
<1>2. CASE batches[b] = None
  <2>1. batches'[b].outcomes = <<>>
    BY <1>2 DEF VerdictsPersist
  <2>2. QED
    BY <2>1 DEF OutcomesFit, OutcomesKept
<1>3. QED
  BY <1>1, <1>2

LEMMA RequestFrame ==
  ASSUME TypeOK, NEW h \in Http, RequestInOrder(h), BatchesPersist, http'[h] = http[h]
  PROVE  RequestInOrder(h)'
<1>1. http[h].job \in JobId => BatchOf(http[h].job) \in Batch
  BY DEF JobId, BatchOf
<1>2. QED
  BY <1>1 DEF RequestInOrder, BatchesPersist, BatchOf

LEMMA JobsFrame ==
  ASSUME JobsHaveBatch, BatchesPersist, JobsPersist
  PROVE  JobsHaveBatch'
<1>1. \A j \in JobId : BatchOf(j) \in Batch
  BY DEF JobId, BatchOf
<1>2. QED
  BY <1>1 DEF JobsHaveBatch, JobsPersist, BatchesPersist, BatchOf

\* A step outside the workers: no run moves and no locked row changes.
RowsUnderLockPersist ==
  \A v \in Worker : run[v].pc = "update" =>
    attempts'[CurrentUpload(v).attempt] = attempts[CurrentUpload(v).attempt]

LEMMA OutsideStep ==
  ASSUME IndInv, TypeOK', BatchesPersist, KeptPersists, VerdictsPersist,
         RowsUnderLockPersist, run' = run,
         \A h \in Http : RequestInOrder(h)', JobsHaveBatch'
  PROVE  IndInv'
<1>1. \A w \in Worker : /\ RunInOrder(w)' /\ RunKept(w)' /\ LockedRowIsOlder(w)'
                        /\ run[w].pc \in InTransaction => CurrentUpload(w)' = CurrentUpload(w)
  BY RunFrame DEF RowsUnderLockPersist
<1>2. LockIsExclusive'
  BY <1>1 DEF LockIsExclusive, IndInv, InTransaction
<1>3. QED
  BY <1>1, <1>2, VerdictsFrame DEF IndInv

\* A step of worker w: the other runs do not move, the rows they hold do not change.
OthersPersist(w) ==
  \A v \in Worker \ {w} :
    /\ run'[v] = run[v]
    /\ run[v].pc = "update" =>
         attempts'[CurrentUpload(v).attempt] = attempts[CurrentUpload(v).attempt]

LEMMA WorkerStep ==
  ASSUME IndInv, TypeOK', BatchesPersist, KeptPersists, NEW w \in Worker,
         OthersPersist(w), JobsPersist, http' = http,
         RunInOrder(w)', RunKept(w)', LockedRowIsOlder(w)',
         run'[w].pc = "update" =>
           \A v \in Worker \ {w} : run[v].pc = "update" =>
             CurrentUpload(v).attempt # CurrentUpload(w)'.attempt,
         AcceptedIsKept', \A b \in Batch : batches'[b] # None => OutcomesFit(b)'
  PROVE  IndInv'
<1>1. \A v \in Worker \ {w} :
        /\ RunInOrder(v)' /\ RunKept(v)' /\ LockedRowIsOlder(v)'
        /\ run[v].pc \in InTransaction => CurrentUpload(v)' = CurrentUpload(v)
        /\ run'[v] = run[v]
  BY RunFrame DEF OthersPersist
<1>2. LockIsExclusive'
  BY <1>1 DEF LockIsExclusive, IndInv, InTransaction
<1>3. JobsHaveBatch' /\ \A h \in Http : RequestInOrder(h)'
  BY JobsFrame, RequestFrame DEF IndInv
<1>4. QED
  BY <1>1, <1>2, <1>3 DEF IndInv
-----------------------------------------------------------------------------
(* The initial state.                                                      *)

LEMMA InitInv == Init => IndInv
<1> SUFFICES ASSUME Init PROVE IndInv
  OBVIOUS
<1> USE DEF Init
<1>1. TypeOK
  BY ConstantsAssumption
  DEF TypeOK, IdleRequest, IdleRun, RequestType, RunType, Queue!Init, Queue!NotAdded, Queue!Job
<1>2. /\ \A h \in Http : RequestInOrder(h)
      /\ JobsHaveBatch
      /\ \A w \in Worker : RunInOrder(w) /\ RunKept(w) /\ LockedRowIsOlder(w)
      /\ LockIsExclusive /\ AcceptedIsKept
  BY DEF RequestInOrder, JobsHaveBatch, RunInOrder, RunKept, LockedRowIsOlder, LockIsExclusive,
         AcceptedIsKept, IdleRequest, IdleRun, Queue!Init, Queue!NotAdded
<1>3. QED
  BY <1>1, <1>2 DEF IndInv
-----------------------------------------------------------------------------
(* Steps outside the workers.                                              *)

LEMMA KeptFrame ==
  ASSUME attempts' = attempts, deleted' = deleted
  PROVE  KeptPersists
BY DEF KeptPersists, Kept

LEMMA BatchesFrame ==
  ASSUME batches' = batches
  PROVE  BatchesPersist /\ VerdictsPersist
BY DEF BatchesPersist, VerdictsPersist

\* Requests of a site that record nothing, and those that fail.
LEMMA RequestOnlyInv ==
  ASSUME IndInv, NEW h \in Http,
         \/ \E s \in Site, b \in Batch : PostKnown(h, s, b) \/ PostNew(h, s, b)
         \/ PutPayload(h) \/ HttpFails(h)
  PROVE  IndInv'
<1> USE DEF storeVars, requestVars
<1>0. /\ TypeOK /\ \A g \in Http : RequestInOrder(g)
      /\ JobsHaveBatch
  BY DEF IndInv
<1>1. UNCHANGED <<batches, jobs, run, storeVars>>
  BY DEF PostKnown, PostNew, PutPayload, HttpFails
<1>2. BatchesPersist /\ VerdictsPersist /\ KeptPersists /\ RowsUnderLockPersist
  BY <1>0, <1>1, BatchesFrame, KeptFrame DEF RowsUnderLockPersist
<1>3. /\ http' \in [Http -> RequestType] /\ acks' \subseteq Site \X Batch
      /\ objects' \subseteq Site \X Batch
      /\ faults' \in 0..MaxFaults /\ reprocesses' \in 0..MaxReprocess
      /\ RequestInOrder(h)' /\ \A g \in Http \ {h} : http'[g] = http[g]
  <2>1. CASE \E s \in Site, b \in Batch : PostKnown(h, s, b)
    BY <1>0, <2>1 DEF PostKnown, TypeOK, RequestInOrder, IdleRequest
  <2>2. CASE \E s \in Site, b \in Batch : PostNew(h, s, b)
    BY <1>0, <2>2, ConstantsAssumption
    DEF PostNew, TypeOK, RequestInOrder, IdleRequest, RequestType, JobId
  <2>3. CASE PutPayload(h)
    <3>1. http[h].site \in Site /\ BatchOf(http[h].job) \in Batch
      BY <1>0, <2>3 DEF PutPayload, RequestInOrder, JobId, BatchOf
    <3>2. QED
      BY <1>0, <2>3, <3>1 DEF PutPayload, TypeOK, RequestInOrder, RequestType
  <2>4. CASE HttpFails(h)
    BY <1>0, <2>4, ConstantsAssumption
    DEF HttpFails, Fault, TypeOK, RequestInOrder, IdleRequest, RequestType
  <2>5. QED
    BY <2>1, <2>2, <2>3, <2>4
<1>4. TypeOK'
  BY <1>0, <1>1, <1>3 DEF TypeOK
<1>5. \A g \in Http : RequestInOrder(g)'
  BY <1>0, <1>2, <1>3, RequestFrame
<1>6. JobsHaveBatch'
  BY <1>0, <1>1 DEF JobsHaveBatch, BatchOf
<1>7. QED
  BY <1>1, <1>2, <1>4, <1>5, <1>6, OutsideStep

LEMMA InsertBatchInv ==
  ASSUME IndInv, NEW h \in Http, InsertBatch(h)
  PROVE  IndInv'
<1> DEFINE s == http[h].site
           b == BatchOf(http[h].job)
           row == [site |-> s, status |-> "received", outcomes |-> <<>>]
<1> USE DEF storeVars
<1>0. /\ TypeOK /\ \A g \in Http : RequestInOrder(g)
      /\ JobsHaveBatch
  BY DEF IndInv
<1>1. UNCHANGED <<objects, jobs, run, storeVars, reprocesses, faults>> /\ http[h].pc = "insert"
  BY DEF InsertBatch
<1>2. s \in Site /\ http[h].job \in JobId /\ b \in Batch
  BY <1>0, <1>1 DEF RequestInOrder, JobId, BatchOf
<1>3. row \in BatchRow /\ row # None /\ row.outcomes = <<>>
  <2>1. <<>> \in Seq(Verdict)
    OBVIOUS
  <2>2. row \in BatchRow
    BY <1>2, <2>1 DEF BatchRow, BatchStatus
  <2>3. QED
    BY <2>2, NoneAssumption
<1>4. \/ /\ batches[b] = None /\ batches' = [batches EXCEPT ![b] = row]
         /\ http' = [http EXCEPT ![h].pc = "enqueue"] /\ acks' = acks
      \/ /\ batches' = batches /\ http' = [http EXCEPT ![h] = IdleRequest]
         /\ acks' = acks \cup {<<s, b>>}
  BY DEF InsertBatch
<1>5. /\ BatchesPersist /\ VerdictsPersist
      /\ batches' \in [Batch -> BatchRow \cup {None}]
  BY <1>0, <1>2, <1>3, <1>4 DEF BatchesPersist, VerdictsPersist, TypeOK
<1>6. KeptPersists /\ RowsUnderLockPersist /\ JobsPersist
  BY <1>1, KeptFrame DEF RowsUnderLockPersist, JobsPersist
<1>7. TypeOK'
  BY <1>0, <1>1, <1>2, <1>4, <1>5 DEF TypeOK, RequestType, IdleRequest
<1>8. ASSUME NEW g \in Http PROVE RequestInOrder(g)'
  <2>1. CASE g # h
    <3>1. http'[g] = http[g]
      BY <1>0, <1>4, <2>1 DEF TypeOK
    <3>2. QED
      BY <1>0, <1>5, <3>1, RequestFrame
  <2>2. CASE g = h
    <3>1. http \in [Http -> RequestType]
      BY <1>0 DEF TypeOK
    <3>2. CASE batches' = [batches EXCEPT ![b] = row] /\ http' = [http EXCEPT ![h].pc = "enqueue"]
      <4>1. /\ http'[h].job = http[h].job /\ http'[h].site = s
        BY <3>1, <3>2 DEF RequestType
      <4>2. batches'[b] # None
        BY <1>0, <1>2, <1>3, <3>2 DEF TypeOK
      <4>3. QED
        BY <1>2, <2>2, <4>1, <4>2 DEF RequestInOrder, BatchOf
    <3>3. CASE http' = [http EXCEPT ![h] = IdleRequest]
      BY <2>2, <3>1, <3>3 DEF RequestInOrder, IdleRequest
    <3>4. QED
      BY <1>4, <3>2, <3>3
  <2>3. QED
    BY <2>1, <2>2
<1>9. QED
  BY <1>0, <1>1, <1>5, <1>6, <1>7, <1>8, JobsFrame, OutsideStep

\* The queue accepts the job of a recorded batch.
LEMMA EnqueueInv ==
  ASSUME IndInv, NEW h \in Http, EnqueueIngest(h) \/ RequeueBatch(h)
  PROVE  IndInv'
<1> DEFINE j == http[h].job
<1> USE DEF storeVars
<1>0. TypeOK /\ JobsHaveBatch /\ \A g \in Http : RequestInOrder(g)
  BY DEF IndInv
<1>1. /\ UNCHANGED <<objects, batches, run, storeVars, reprocesses, faults>>
      /\ http[h].pc \in {"enqueue", "requeue"}
      /\ http' = [http EXCEPT ![h] = IdleRequest]
      /\ acks' \in {acks, acks \cup {<<http[h].site, BatchOf(j)>>}}
      /\ Queue!Add(j)
  BY DEF EnqueueIngest, RequeueBatch
<1>2. http[h].site \in Site /\ j \in JobId /\ BatchOf(j) \in Batch /\ batches[BatchOf(j)] # None
  BY <1>0, <1>1 DEF RequestInOrder, JobId, BatchOf
<1>3. BatchesPersist /\ VerdictsPersist /\ KeptPersists /\ RowsUnderLockPersist
  BY <1>1, BatchesFrame, KeptFrame DEF RowsUnderLockPersist
<1>4. jobs' \in [JobId -> Queue!Job] /\ \A i \in JobId \ {j} : jobs'[i] = jobs[i]
  BY <1>0, <1>1, <1>2 DEF TypeOK, Queue!Add, Queue!Job
<1>5. TypeOK'
  BY <1>0, <1>1, <1>2, <1>4 DEF TypeOK, RequestType, IdleRequest
<1>6. \A g \in Http : RequestInOrder(g)'
  <2>1. \A g \in Http \ {h} : http'[g] = http[g]
    BY <1>0, <1>1 DEF TypeOK
  <2>2. RequestInOrder(h)'
    BY <1>0, <1>1 DEF TypeOK, RequestInOrder, IdleRequest
  <2>3. QED
    BY <1>0, <1>3, <2>1, <2>2, RequestFrame
<1>7. JobsHaveBatch'
  BY <1>0, <1>1, <1>2, <1>4 DEF JobsHaveBatch, BatchOf
<1>8. QED
  BY <1>1, <1>3, <1>5, <1>6, <1>7, OutsideStep

LEMMA ReprocessInv ==
  ASSUME IndInv, NEW h \in Http, NEW b \in Batch, ReprocessBatch(h, b)
  PROVE  IndInv'
<1> USE DEF storeVars
<1>0. TypeOK /\ JobsHaveBatch /\ \A g \in Http : RequestInOrder(g)
  BY DEF IndInv
<1>1. /\ UNCHANGED <<acks, objects, jobs, run, storeVars, faults>>
      /\ batches[b] # None /\ batches[b] \in BatchRow
      /\ batches' = [batches EXCEPT ![b].status = "received"]
      /\ http' = [http EXCEPT ![h] =
           [pc |-> "requeue", site |-> batches[b].site, job |-> <<b, reprocesses + 1>>]]
      /\ reprocesses' \in 0..MaxReprocess /\ reprocesses' = reprocesses + 1
  BY <1>0, ConstantsAssumption DEF ReprocessBatch, TypeOK
<1>2. /\ batches'[b] \in BatchRow /\ batches'[b].site = batches[b].site
      /\ batches'[b].outcomes = batches[b].outcomes
      /\ \A c \in Batch \ {b} : batches'[c] = batches[c]
      /\ batches' \in [Batch -> BatchRow \cup {None}]
  BY <1>0, <1>1 DEF TypeOK, BatchRow, BatchStatus
<1>3. BatchesPersist /\ VerdictsPersist
  BY <1>1, <1>2, NoneAssumption DEF BatchesPersist, VerdictsPersist
<1>4. KeptPersists /\ RowsUnderLockPersist /\ JobsPersist
  BY <1>1, KeptFrame DEF RowsUnderLockPersist, JobsPersist
<1>5. batches[b].site \in Site /\ <<b, reprocesses + 1>> \in JobId
  BY <1>1 DEF BatchRow, JobId
<1>6. TypeOK'
  BY <1>0, <1>1, <1>2, <1>5 DEF TypeOK, RequestType
<1>7. \A g \in Http : RequestInOrder(g)'
  <2>1. \A g \in Http \ {h} : http'[g] = http[g]
    BY <1>0, <1>1 DEF TypeOK
  <2>2. RequestInOrder(h)'
    BY <1>0, <1>1, <1>2, <1>5, NoneAssumption DEF TypeOK, RequestInOrder, BatchOf
  <2>3. QED
    BY <1>0, <1>3, <2>1, <2>2, RequestFrame
<1>8. QED
  BY <1>0, <1>1, <1>3, <1>4, <1>6, <1>7, JobsFrame, OutsideStep

\* A job changes hands while the runs go on.
LEMMA StallInv ==
  ASSUME IndInv, NEW j \in JobId, RecoverStalled(j) \/ LoseLock(j)
  PROVE  IndInv'
<1> USE DEF storeVars, requestVars
<1>0. TypeOK /\ JobsHaveBatch /\ \A h \in Http : RequestInOrder(h)
  BY DEF IndInv
<1>1. /\ UNCHANGED <<requestVars, batches, run, storeVars>>
      /\ faults' \in {faults, faults + 1} /\ (faults' # faults => faults < MaxFaults)
      /\ Queue!Stall(j)
  BY DEF RecoverStalled, LoseLock, Fault
<1>2. jobs' \in [JobId -> Queue!Job] /\ JobsPersist
  <2>1. jobs \in [JobId -> Queue!Job] /\ jobs[j] \in Queue!Job
    BY <1>0 DEF TypeOK
  <2>2. jobs[j].stalls < MaxStalls => jobs[j].stalls + 1 \in 0..MaxStalls
    BY <2>1, ConstantsAssumption DEF Queue!Job
  <2>3. jobs'[j] \in Queue!Job
    BY <1>1, <2>1, <2>2 DEF Queue!Stall, Queue!Job
  <2>4. \A i \in JobId \ {j} : jobs'[i] = jobs[i]
    BY <1>1, <2>1 DEF Queue!Stall
  <2>5. jobs' \in [JobId -> Queue!Job]
    BY <1>1, <2>1, <2>3, <2>4 DEF Queue!Stall
  <2>6. QED
    BY <1>1, <2>4, <2>5 DEF Queue!Stall, JobsPersist
<1>3. faults' \in 0..MaxFaults
  BY <1>0, <1>1, ConstantsAssumption DEF TypeOK
<1>4. TypeOK'
  BY <1>0, <1>1, <1>2, <1>3 DEF TypeOK
<1>5. BatchesPersist /\ VerdictsPersist /\ KeptPersists /\ RowsUnderLockPersist
  BY <1>1, BatchesFrame, KeptFrame DEF RowsUnderLockPersist
<1>6. \A h \in Http : RequestInOrder(h)'
  BY <1>0, <1>1, <1>5, RequestFrame
<1>7. QED
  BY <1>0, <1>1, <1>2, <1>4, <1>5, <1>6, JobsFrame, OutsideStep

\* Grading and deletion wait for the row lock; a deleted attempt is on record.
LEMMA AttemptStepInv ==
  ASSUME IndInv, NEW a \in Attempt, GradeAttempt(a) \/ DeleteAttempt(a)
  PROVE  IndInv'
<1> USE DEF requestVars
<1>0. /\ TypeOK /\ JobsHaveBatch /\ \A h \in Http : RequestInOrder(h)
      /\ \A w \in Worker : RunInOrder(w)
  BY DEF IndInv
<1>1. UNCHANGED <<requestVars, batches, jobs, run, assigned, faults>> /\ ~Locked(a)
  BY DEF GradeAttempt, DeleteAttempt
<1>2. /\ attempts' \in [Attempt -> AttemptRow \cup {None}]
      /\ \A c \in Attempt \ {a} : attempts'[c] = attempts[c]
      /\ deleted' \subseteq Attempt /\ gradeQueue' \subseteq Attempt
  BY <1>0 DEF TypeOK, GradeAttempt, DeleteAttempt, AttemptRow
<1>3. TypeOK'
  BY <1>0, <1>1, <1>2 DEF TypeOK
<1>4. KeptPersists
  <2>1. CASE GradeAttempt(a)
    <3>1. deleted' = deleted
      BY <2>1 DEF GradeAttempt
    <3>2. CASE attempts[a] = None
      BY <2>1, <3>1, <3>2, KeptFrame DEF GradeAttempt
    <3>3. CASE attempts[a] # None
      <4>1. attempts[a] \in AttemptRow /\ attempts' = [attempts EXCEPT ![a].pending = FALSE]
        BY <1>0, <2>1, <3>3 DEF GradeAttempt, TypeOK
      <4>2. /\ attempts'[a] \in AttemptRow /\ attempts'[a] # None
            /\ attempts'[a].seat = attempts[a].seat
            /\ attempts'[a].sequence = attempts[a].sequence
        <5>1. /\ attempts'[a] \in AttemptRow
              /\ attempts'[a].seat = attempts[a].seat
              /\ attempts'[a].sequence = attempts[a].sequence
          BY <1>0, <4>1 DEF TypeOK, AttemptRow
        <5>2. QED
          BY <5>1, NoneAssumption
      <4>3. QED
        BY <1>2, <3>1, <4>2 DEF KeptPersists, Kept, Upload
    <3>4. QED
      BY <3>2, <3>3
  <2>2. CASE DeleteAttempt(a)
    BY <1>2, <2>2 DEF DeleteAttempt, KeptPersists, Kept, Upload
  <2>3. QED
    BY <2>1, <2>2
<1>5. RowsUnderLockPersist
  <2> SUFFICES ASSUME NEW v \in Worker, run[v].pc = "update"
               PROVE  attempts'[CurrentUpload(v).attempt] = attempts[CurrentUpload(v).attempt]
    BY DEF RowsUnderLockPersist
  <2>1. CurrentUpload(v) \in Upload
    BY <1>0, CurrentUploadType DEF InTransaction
  <2>2. CurrentUpload(v).attempt \in Attempt \ {a}
    BY <1>1, <2>1 DEF Locked, Upload
  <2>3. QED
    BY <1>2, <2>2
<1>6. BatchesPersist /\ VerdictsPersist /\ JobsPersist
  BY <1>1, BatchesFrame DEF JobsPersist
<1>7. \A h \in Http : RequestInOrder(h)'
  BY <1>0, <1>1, <1>6, RequestFrame
<1>8. QED
  BY <1>0, <1>1, <1>3, <1>4, <1>5, <1>6, <1>7, JobsFrame, OutsideStep

LEMMA RosterInv ==
  ASSUME IndInv, NEW seat \in Seat, AddParticipant(seat) \/ RemoveParticipant(seat)
  PROVE  IndInv'
<1> USE DEF requestVars
<1>0. TypeOK /\ JobsHaveBatch /\ \A h \in Http : RequestInOrder(h)
  BY DEF IndInv
<1>1. /\ UNCHANGED <<requestVars, batches, jobs, run, attempts, deleted, gradeQueue, faults>>
      /\ assigned' \in {assigned \cup {seat}, assigned \ {seat}}
  BY DEF AddParticipant, RemoveParticipant
<1>2. TypeOK'
  BY <1>0, <1>1 DEF TypeOK
<1>3. /\ BatchesPersist /\ VerdictsPersist /\ JobsPersist
      /\ KeptPersists /\ RowsUnderLockPersist
  BY <1>1, BatchesFrame, KeptFrame DEF RowsUnderLockPersist, JobsPersist
<1>4. \A h \in Http : RequestInOrder(h)'
  BY <1>0, <1>1, <1>3, RequestFrame
<1>5. QED
  BY <1>0, <1>1, <1>2, <1>3, <1>4, JobsFrame, OutsideStep
-----------------------------------------------------------------------------
(* What all steps of a worker have in common.                              *)

\* What a slot reports about a job leaves the queue well formed.
LEMMA JobReport ==
  ASSUME TypeOK, NEW w \in Worker, NEW j \in JobId,
         Queue!Complete(w, j) \/ Queue!Throw(w, j)
  PROVE  jobs' \in [JobId -> Queue!Job] /\ JobsPersist
<1>1. jobs \in [JobId -> Queue!Job] /\ jobs[j] \in Queue!Job
  BY DEF TypeOK
<1>2. jobs[j].tries < MaxTries => jobs[j].tries + 1 \in 0..MaxTries
  BY <1>1, ConstantsAssumption DEF Queue!Job
<1>3. jobs'[j] \in Queue!Job /\ (jobs'[j].state # "none" => jobs[j].state # "none")
  <2>1. CASE ~Queue!Owns(w, j)
    BY <1>1, <2>1 DEF Queue!Complete, Queue!Throw
  <2>2. CASE Queue!Owns(w, j) /\ Queue!Complete(w, j)
    BY <1>1, <2>2 DEF Queue!Complete, Queue!Owns, Queue!Job
  <2>3. CASE Queue!Owns(w, j) /\ Queue!Throw(w, j)
    BY <1>1, <1>2, <2>3 DEF Queue!Throw, Queue!Owns, Queue!Job
  <2>4. QED
    BY <2>1, <2>2, <2>3
<1>4. \A i \in JobId \ {j} : jobs'[i] = jobs[i]
  BY <1>1 DEF Queue!Complete, Queue!Throw
<1>5. jobs' \in [JobId -> Queue!Job]
  <2>1. \E f : jobs' = [i \in JobId |-> f[i]]
    BY <1>1 DEF Queue!Complete, Queue!Throw
  <2>2. QED
    BY <1>1, <1>3, <1>4, <2>1
<1>6. QED
  BY <1>3, <1>4, <1>5 DEF JobsPersist

\* A run that ends, in whatever way, leaves nothing to protect.
LEMMA RunEnds ==
  ASSUME IndInv, TypeOK', NEW w \in Worker, run' = [run EXCEPT ![w] = IdleRun],
         BatchesPersist, JobsPersist, http' = http, attempts' = attempts, deleted' = deleted,
         AcceptedIsKept', \A b \in Batch : batches'[b] # None => OutcomesFit(b)'
  PROVE  IndInv'
<1>1. run'[w] = IdleRun /\ \A v \in Worker \ {w} : run'[v] = run[v]
  BY DEF IndInv, TypeOK
<1>2. KeptPersists /\ OthersPersist(w)
  BY <1>1, KeptFrame DEF OthersPersist
<1>3. RunInOrder(w)' /\ RunKept(w)' /\ LockedRowIsOlder(w)' /\ run'[w].pc # "update"
  BY <1>1 DEF RunInOrder, RunKept, LockedRowIsOlder, IdleRun
<1>4. QED
  BY <1>2, <1>3, WorkerStep

\* A run that moves to its next statement: no row and no verdict changes.
LEMMA RunAdvances ==
  ASSUME IndInv, TypeOK', NEW w \in Worker, run[w].pc # "idle",
         run'[w].job = run[w].job, run'[w].outcomes = run[w].outcomes,
         \A v \in Worker \ {w} : run'[v] = run[v], BatchesPersist, VerdictsPersist, jobs' = jobs, http' = http,
         attempts' = attempts, deleted' = deleted,
         RunInOrder(w)', LockedRowIsOlder(w)',
         run'[w].pc = "update" => ~Locked(CurrentUpload(w)'.attempt)
  PROVE  IndInv'
<1> DEFINE b == BatchOf(run[w].job)
<1>0. /\ TypeOK /\ RunInOrder(w) /\ RunKept(w)
      /\ b \in Batch /\ batches[b] # None /\ PayloadOf(b) \in Seq(Upload)
      /\ Len(PayloadOf(b)) \in Nat /\ Len(run[w].outcomes) \in Nat
      /\ Len(run[w].outcomes) <= Len(PayloadOf(b))
  BY RunType1 DEF IndInv
<1>1. run'[w].job = run[w].job /\ run'[w].outcomes = run[w].outcomes
  OBVIOUS
<1>2. KeptPersists /\ OthersPersist(w) /\ JobsPersist
  BY KeptFrame DEF OthersPersist, JobsPersist
<1>3. RunKept(w)'
  <2> SUFFICES ASSUME NEW i \in 1..Len(run[w].outcomes), run[w].outcomes[i] \in Accepted,
                      NEW u, u = PayloadOf(b)[i]
               PROVE  Kept(u)'
    <3>1. batches'[b].site = batches[b].site
      BY <1>0 DEF BatchesPersist
    <3>2. QED
      BY <1>1, <3>1 DEF RunKept, Kept, BatchOf, PayloadOf
  <2>1. Kept(u)
    BY <1>0 DEF RunKept
  <2>2. u \in Upload
    BY <1>0
  <2>3. QED
    BY <1>2, <2>1, <2>2 DEF KeptPersists
<1>4. run'[w].pc = "update" =>
        \A v \in Worker \ {w} : run[v].pc = "update" =>
          CurrentUpload(v).attempt # CurrentUpload(w)'.attempt
  BY DEF Locked
<1>5. AcceptedIsKept' /\ \A c \in Batch : batches'[c] # None => OutcomesFit(c)'
  BY <1>2, VerdictsFrame
<1>6. QED
  BY <1>2, <1>3, <1>4, <1>5, WorkerStep
\* A transaction that ends with a verdict, which is sound if the upload is kept.
LEMMA EndTxInv ==
  ASSUME IndInv, NEW w \in Worker, run[w].pc \in InTransaction,
         NEW verdict \in Verdict, NEW grade, EndTx(w, verdict, grade),
         UNCHANGED <<requestVars, batches, jobs, assigned, deleted, gradeQueue, faults>>,
         attempts' \in [Attempt -> AttemptRow \cup {None}],
         KeptPersists, OthersPersist(w),
         NEW u, u = CurrentUpload(w), verdict \in Accepted => Kept(u)'
  PROVE  IndInv'
<1> DEFINE b == BatchOf(run[w].job)
           n == Len(run[w].outcomes)
           done == Append(run[w].outcomes, verdict)
           toGrade == IF grade THEN Append(run[w].toGrade, u.attempt) ELSE run[w].toGrade
           pc == IF Len(done) < Len(PayloadOf(b)) THEN "check"
                 ELSE IF toGrade # <<>> THEN "grade" ELSE "finish"
<1> USE DEF requestVars
<1>0. /\ TypeOK /\ RunInOrder(w) /\ RunKept(w) /\ run[w].pc # "idle"
      /\ run[w] \in RunType /\ run[w].job \in JobId
      /\ b \in Batch /\ batches[b] # None /\ PayloadOf(b) \in Seq(Upload)
      /\ Len(PayloadOf(b)) \in Nat /\ run[w].outcomes \in Seq(Verdict) /\ n \in Nat
  BY RunType1 DEF IndInv, InTransaction
<1>1. n + 1 \in 1..Len(PayloadOf(b)) /\ u = PayloadOf(b)[n + 1] /\ u \in Upload
  BY <1>0, CurrentUploadType
<1>2. run' = [run EXCEPT ![w] =
        [pc |-> pc, job |-> run[w].job, outcomes |-> done, toGrade |-> toGrade]]
  BY DEF EndTx
<1>3. /\ done \in Seq(Verdict) /\ Len(done) = n + 1 /\ done[n + 1] = verdict
      /\ \A i \in 1..n : done[i] = run[w].outcomes[i]
  BY <1>0
<1>4. toGrade \in Seq(Attempt)
  BY <1>0, <1>1 DEF RunType, Upload
<1>5. run' \in [Worker -> RunType]
  <2>1. [pc |-> pc, job |-> run[w].job, outcomes |-> done, toGrade |-> toGrade] \in RunType
    BY <1>0, <1>3, <1>4 DEF RunType
  <2>2. QED
    BY <1>0, <1>2, <2>1 DEF TypeOK
<1>6. TypeOK'
  BY <1>0, <1>5 DEF TypeOK
<1>7. BatchesPersist /\ VerdictsPersist /\ JobsPersist
  BY BatchesFrame DEF JobsPersist
<1>8. /\ run'[w].pc = pc /\ run'[w].job = run[w].job /\ run'[w].outcomes = done
      /\ run'[w].toGrade = toGrade
  BY <1>0, <1>2 DEF TypeOK
<1>9. RunInOrder(w)'
  <2> DEFINE p == PayloadOf(b)
  <2>1. /\ pc \in {"check", "grade", "finish"}
        /\ pc = "check" => n + 1 < Len(p)
        /\ pc # "check" => n + 1 = Len(p)
        /\ pc = "grade" => toGrade # <<>>
    BY <1>0, <1>1, <1>3
  <2>2. PayloadOf(BatchOf(run[w].job))' = p
    BY <1>8 DEF PayloadOf, BatchOf
  <2> HIDE DEF p, pc, toGrade, done
  <2>3. QED
    BY <1>0, <1>3, <1>8, <2>1, <2>2 DEF RunInOrder, BatchOf, InTransaction
<1>10. RunKept(w)'
  <2> SUFFICES ASSUME NEW i \in 1..(n + 1), done[i] \in Accepted,
                      NEW x, x = PayloadOf(b)[i]
               PROVE  Kept(x)'
    BY <1>3, <1>8 DEF RunKept, Kept, BatchOf, PayloadOf
  <2>1. CASE i = n + 1
    BY <1>1, <1>3, <2>1 DEF Kept
  <2>2. CASE i \in 1..n
    <3>1. run[w].outcomes[i] \in Accepted
      BY <1>3, <2>2
    <3>2. Kept(x) /\ x \in Upload
      BY <1>0, <1>1, <2>2, <3>1 DEF RunKept
    <3>3. QED
      BY <3>2 DEF KeptPersists
  <2>3. QED
    BY <1>0, <2>1, <2>2
<1>11. LockedRowIsOlder(w)' /\ run'[w].pc # "update"
  BY <1>8 DEF LockedRowIsOlder
<1>12. AcceptedIsKept' /\ \A c \in Batch : batches'[c] # None => OutcomesFit(c)'
  BY <1>7, VerdictsFrame
<1>13. QED
  BY <1>6, <1>7, <1>9, <1>10, <1>11, <1>12, WorkerStep
\* The record a run is when only its program counter moves.
LEMMA NextStatementRun ==
  ASSUME TypeOK, NEW w \in Worker, NEW pc, NextStatement(w, pc)
  PROVE  run' = [run EXCEPT ![w] = [pc |-> pc, job |-> run[w].job,
                                    outcomes |-> run[w].outcomes, toGrade |-> run[w].toGrade]]
<1>1. run \in [Worker -> RunType] /\ run[w] \in RunType
  BY DEF TypeOK
<1>2. [run[w] EXCEPT !.pc = pc] = [pc |-> pc, job |-> run[w].job,
         outcomes |-> run[w].outcomes, toGrade |-> run[w].toGrade]
  BY <1>1 DEF RunType
<1>3. run' = [run EXCEPT ![w] = [run[w] EXCEPT !.pc = pc]]
  BY <1>1 DEF NextStatement
<1>4. QED
  BY <1>2, <1>3

\* A transaction that goes on to its next statement.
LEMMA StatementInv ==
  ASSUME IndInv, NEW w \in Worker, run[w].pc \in InTransaction,
         NEW pc \in InTransaction, NextStatement(w, pc),
         UNCHANGED <<requestVars, batches, jobs, storeVars, faults>>,
         NEW u, u = CurrentUpload(w),
         pc = "update" =>
           /\ ~Locked(u.attempt) /\ attempts[u.attempt] # None
           /\ attempts[u.attempt].seat = u.seat /\ attempts[u.attempt].sequence <= u.sequence
  PROVE  IndInv'
<1> DEFINE b == BatchOf(run[w].job)
<1> USE DEF requestVars, storeVars
<1>0. /\ TypeOK /\ RunInOrder(w) /\ run[w] \in RunType /\ run[w].pc # "idle"
      /\ Len(run[w].outcomes) < Len(PayloadOf(b)) /\ run[w].job \in JobId /\ batches[b] # None
  BY RunType1 DEF IndInv, InTransaction, RunInOrder
<1>1. run' = [run EXCEPT ![w] = [pc |-> pc, job |-> run[w].job,
                                 outcomes |-> run[w].outcomes, toGrade |-> run[w].toGrade]]
  BY <1>0, NextStatementRun
<1>2. TypeOK'
  BY <1>0, <1>1 DEF TypeOK, RunType, InTransaction
<1>3. BatchesPersist /\ VerdictsPersist
  BY BatchesFrame
<1>4. /\ run'[w].pc = pc /\ run'[w].job = run[w].job
      /\ run'[w].outcomes = run[w].outcomes
      /\ \A v \in Worker \ {w} : run'[v] = run[v]
  BY <1>0, <1>1 DEF TypeOK
<1>5. CurrentUpload(w)' = u
  BY <1>4 DEF CurrentUpload, PayloadOf, BatchOf
<1>6. RunInOrder(w)'
  BY <1>0, <1>4 DEF RunInOrder, InTransaction, BatchOf, PayloadOf
<1>7. LockedRowIsOlder(w)'
  BY <1>4, <1>5 DEF LockedRowIsOlder
<1>8. pc = "update" => ~Locked(CurrentUpload(w)'.attempt)
  BY <1>5 DEF Locked
<1>9. QED
  BY <1>0, <1>2, <1>3, <1>4, <1>6, <1>7, <1>8, RunAdvances
-----------------------------------------------------------------------------
(* The steps of a worker.                                                  *)

LEMMA TakeJobInv ==
  ASSUME IndInv, NEW w \in Worker, TakeJob(w)
  PROVE  IndInv'
<1> USE DEF requestVars, storeVars
<1>0. TypeOK /\ JobsHaveBatch
  BY DEF IndInv
<1> PICK j \in JobId : SkipProcessed(w, j) \/ StartIngest(w, j)
  BY DEF TakeJob
<1>1. /\ UNCHANGED <<requestVars, batches, storeVars, faults>>
      /\ run[w] = IdleRun /\ jobs[j].state = "waiting"
      /\ \/ jobs' = [jobs EXCEPT ![j].state = "completed"]
         \/ jobs' = [jobs EXCEPT ![j].state = "active", ![j].owner = w]
  BY DEF SkipProcessed, StartIngest, Queue!Take
<1>2. jobs' \in [JobId -> Queue!Job] /\ JobsPersist
  <2>1. jobs \in [JobId -> Queue!Job] /\ jobs[j] \in Queue!Job
    BY <1>0 DEF TypeOK
  <2>2. jobs'[j] \in Queue!Job
    BY <1>1, <2>1 DEF Queue!Job
  <2>3. \A i \in JobId \ {j} : jobs'[i] = jobs[i]
    BY <1>1, <2>1
  <2>4. jobs' \in [JobId -> Queue!Job]
    BY <1>1, <2>1, <2>2, <2>3
  <2>5. QED
    BY <1>1, <2>3, <2>4 DEF JobsPersist
<1>3. BatchesPersist /\ VerdictsPersist /\ KeptPersists
  BY <1>1, BatchesFrame, KeptFrame
<1>4. CASE SkipProcessed(w, j)
  <2>1. run' = run
    BY <1>4 DEF SkipProcessed
  <2>2. TypeOK'
    BY <1>0, <1>1, <1>2, <2>1 DEF TypeOK
  <2>3. \A h \in Http : RequestInOrder(h)'
    BY <1>0, <1>1, <1>3, RequestFrame DEF IndInv
  <2>4. QED
    BY <1>0, <1>1, <1>2, <1>3, <2>1, <2>2, <2>3, JobsFrame, OutsideStep DEF RowsUnderLockPersist
<1>5. CASE StartIngest(w, j)
  <2>1. /\ run' = [run EXCEPT ![w] = [pc |-> "begin", job |-> j,
                                      outcomes |-> <<>>, toGrade |-> <<>>]]
        /\ batches[BatchOf(j)] # None
    BY <1>5 DEF StartIngest
  <2>2. TypeOK'
    BY <1>0, <1>1, <1>2, <2>1 DEF TypeOK, RunType
  <2>3. /\ run'[w] = [pc |-> "begin", job |-> j, outcomes |-> <<>>, toGrade |-> <<>>]
        /\ \A v \in Worker \ {w} : run'[v] = run[v]
    BY <1>0, <2>1 DEF TypeOK
  <2>4. RunInOrder(w)' /\ RunKept(w)' /\ LockedRowIsOlder(w)' /\ run'[w].pc # "update"
    BY <1>1, <2>1, <2>3 DEF RunInOrder, RunKept, LockedRowIsOlder, InTransaction, BatchOf
  <2>5. OthersPersist(w)
    BY <1>1, <2>3 DEF OthersPersist
  <2>6. QED
    BY <1>1, <1>2, <1>3, <2>2, <2>4, <2>5, VerdictsFrame, WorkerStep
<1>6. QED
  BY <1>4, <1>5
\* Changing the status of a batch changes neither its site nor its verdicts.
LEMMA StatusFrame ==
  ASSUME TypeOK, NEW b \in Batch, batches[b] # None, NEW status \in BatchStatus,
         batches' = [batches EXCEPT ![b].status = status]
  PROVE  /\ batches' \in [Batch -> BatchRow \cup {None}]
         /\ BatchesPersist /\ VerdictsPersist
<1>1. /\ batches[b] \in BatchRow /\ batches'[b] \in BatchRow
      /\ batches'[b].site = batches[b].site
      /\ batches'[b].outcomes = batches[b].outcomes
      /\ \A c \in Batch \ {b} : batches'[c] = batches[c]
      /\ batches' \in [Batch -> BatchRow \cup {None}]
  BY DEF TypeOK, BatchRow
<1>2. QED
  BY <1>1, NoneAssumption DEF BatchesPersist, VerdictsPersist

\* From the job to the payload.
LEMMA BeginInv ==
  ASSUME IndInv, NEW w \in Worker, MarkProcessing(w) \/ ReadPayload(w)
  PROVE  IndInv'
<1> DEFINE b == BatchOf(run[w].job)
           pc == IF run[w].pc = "begin" THEN "read" ELSE "check"
<1> USE DEF requestVars, storeVars
<1>0. TypeOK /\ RunInOrder(w) /\ run[w].pc \in {"begin", "read"}
  BY DEF IndInv, MarkProcessing, ReadPayload
<1>1. /\ UNCHANGED <<requestVars, jobs, storeVars, faults>> /\ NextStatement(w, pc)
      /\ \/ batches' = [batches EXCEPT ![b].status = "processing"]
         \/ batches' = batches
  BY DEF MarkProcessing, ReadPayload, NextStatement
<1>2. /\ run[w] \in RunType /\ run[w].job \in JobId /\ b \in Batch /\ batches[b] # None
      /\ Len(PayloadOf(b)) \in Nat \ {0} /\ Len(run[w].outcomes) = 0
  BY <1>0, RunType1 DEF RunInOrder
<1>3. batches' \in [Batch -> BatchRow \cup {None}] /\ BatchesPersist /\ VerdictsPersist
  <2>1. CASE batches' = batches
    BY <1>0, <2>1, BatchesFrame DEF TypeOK
  <2>2. CASE batches' = [batches EXCEPT ![b].status = "processing"]
    BY <1>0, <1>2, <2>2, StatusFrame DEF BatchStatus
  <2>3. QED
    BY <1>1, <2>1, <2>2
<1>4. run' = [run EXCEPT ![w] = [pc |-> pc, job |-> run[w].job,
                outcomes |-> run[w].outcomes, toGrade |-> run[w].toGrade]]
  BY <1>0, <1>1, NextStatementRun
<1>5. /\ run'[w].pc = pc /\ run'[w].job = run[w].job
      /\ run'[w].outcomes = run[w].outcomes
      /\ \A v \in Worker \ {w} : run'[v] = run[v]
      /\ run' \in [Worker -> RunType]
  BY <1>0, <1>2, <1>4 DEF TypeOK, RunType
<1>6. TypeOK'
  BY <1>0, <1>1, <1>3, <1>5 DEF TypeOK
<1>7. RunInOrder(w)'
  <2>1. batches'[b] # None /\ PayloadOf(BatchOf(run[w].job))' = PayloadOf(b)
    BY <1>2, <1>3, <1>5 DEF BatchesPersist, PayloadOf, BatchOf
  <2>2. QED
    BY <1>0, <1>2, <1>5, <2>1 DEF RunInOrder, InTransaction, BatchOf
<1>8. LockedRowIsOlder(w)' /\ pc # "update"
  BY <1>5 DEF LockedRowIsOlder
<1>9. QED
  BY <1>0, <1>1, <1>3, <1>5, <1>6, <1>7, <1>8, RunAdvances

LEMMA PayloadUnreadableInv ==
  ASSUME IndInv, NEW w \in Worker, PayloadUnreadable(w)
  PROVE  IndInv'
<1> DEFINE b == BatchOf(run[w].job)
<1> USE DEF requestVars, storeVars
<1>0. /\ TypeOK /\ RunInOrder(w) /\ run[w].pc # "idle"
      /\ run[w].job \in JobId /\ b \in Batch /\ batches[b] # None
  BY RunType1 DEF IndInv, PayloadUnreadable
<1>1. /\ UNCHANGED <<requestVars, storeVars>>
      /\ batches' = [batches EXCEPT ![b].status = "failed"]
      /\ Queue!Complete(w, run[w].job) /\ run' = [run EXCEPT ![w] = IdleRun]
      /\ faults' \in {faults, faults + 1} /\ (faults' # faults => faults < MaxFaults)
  BY DEF PayloadUnreadable, Fault
<1>2. batches' \in [Batch -> BatchRow \cup {None}] /\ BatchesPersist /\ VerdictsPersist
  BY <1>0, <1>1, StatusFrame DEF BatchStatus
<1>3. jobs' \in [JobId -> Queue!Job] /\ JobsPersist
  BY <1>0, <1>1, JobReport
<1>4. run' \in [Worker -> RunType]
  BY <1>0, <1>1 DEF TypeOK, RunType, IdleRun
<1>5. faults' \in 0..MaxFaults
  BY <1>0, <1>1, ConstantsAssumption DEF TypeOK
<1>6. TypeOK'
  BY <1>0, <1>1, <1>2, <1>3, <1>4, <1>5 DEF TypeOK
<1>7. QED
  BY <1>1, <1>2, <1>3, <1>6, KeptFrame, VerdictsFrame, RunEnds

\* A run that dies, or whose transaction was rolled back.
LEMMA RunAborts ==
  ASSUME IndInv, NEW w \in Worker,
         InsertConflict(w) \/ WorkerThrows(w) \/ WorkerCrash(w)
  PROVE  IndInv'
<1> USE DEF requestVars, storeVars
<1>0. TypeOK /\ RunInOrder(w) /\ run[w].pc # "idle" /\ run[w].job \in JobId
  BY DEF IndInv, RunInOrder, InsertConflict, WorkerThrows, WorkerCrash
<1>1. /\ UNCHANGED <<requestVars, batches, storeVars>>
      /\ run' = [run EXCEPT ![w] = IdleRun]
      /\ jobs' = jobs \/ Queue!Throw(w, run[w].job)
      /\ faults' \in {faults, faults + 1} /\ (faults' # faults => faults < MaxFaults)
  BY DEF InsertConflict, WorkerThrows, WorkerCrash, Rethrow, Fault
<1>2. jobs' \in [JobId -> Queue!Job] /\ JobsPersist
  BY <1>0, <1>1, JobReport DEF TypeOK, JobsPersist
<1>3. run' \in [Worker -> RunType] /\ faults' \in 0..MaxFaults
  BY <1>0, <1>1, ConstantsAssumption DEF TypeOK, RunType, IdleRun
<1>4. TypeOK'
  BY <1>0, <1>1, <1>2, <1>3 DEF TypeOK
<1>5. QED
  BY <1>1, <1>2, <1>4, BatchesFrame, KeptFrame, VerdictsFrame, RunEnds

LEMMA CheckUploadInv ==
  ASSUME IndInv, NEW w \in Worker, CheckUpload(w)
  PROVE  IndInv'
<1> USE DEF requestVars, storeVars
<1>1. /\ UNCHANGED <<requestVars, batches, jobs, storeVars, faults>>
      /\ run[w].pc \in InTransaction /\ TypeOK
      /\ NextStatement(w, "lock") \/ EndTx(w, "invalid", FALSE)
  BY DEF CheckUpload, InTransaction, IndInv
<1>2. CASE NextStatement(w, "lock")
  <2>1. "lock" \in InTransaction /\ "lock" # "update"
    BY DEF InTransaction
  <2>2. QED
    BY <1>1, <1>2, <2>1, StatementInv
<1>3. CASE EndTx(w, "invalid", FALSE)
  <2>1. "invalid" \in Verdict /\ "invalid" \notin Accepted
    BY DEF Verdict, Accepted
  <2>2. OthersPersist(w)
    BY <1>1, <1>3 DEF OthersPersist, EndTx, TypeOK
  <2>3. attempts' \in [Attempt -> AttemptRow \cup {None}]
    BY <1>1 DEF TypeOK
  <2>4. QED
    BY <1>1, <1>3, <2>1, <2>2, <2>3, KeptFrame, EndTxInv
<1>4. QED
  BY <1>1, <1>2, <1>3

\* The row lock is free, and whatever the row shows now stays while it is held.
LEMMA LockAttemptInv ==
  ASSUME IndInv, NEW w \in Worker, LockAttempt(w)
  PROVE  IndInv'
<1> USE DEF requestVars, storeVars
<1> DEFINE u == CurrentUpload(w)
           row == attempts[u.attempt]
<1>0. TypeOK /\ RunInOrder(w)
  BY DEF IndInv
<1>1. /\ UNCHANGED <<requestVars, batches, jobs, storeVars, faults>>
      /\ run[w].pc \in InTransaction /\ ~Locked(u.attempt)
  BY DEF LockAttempt, InTransaction
<1>2. u \in Upload
  BY <1>0, <1>1, CurrentUploadType
<1>3. row # None => row \in AttemptRow
  BY <1>0, <1>2 DEF TypeOK, Upload
<1>4. CASE NextStatement(w, "other")
  <2>1. "other" \in InTransaction /\ "other" # "update"
    BY DEF InTransaction
  <2>2. QED
    BY <1>1, <1>4, <2>1, StatementInv
<1>5. CASE /\ NextStatement(w, "update") /\ row # None
           /\ row.seat = u.seat /\ u.sequence >= row.sequence
  <2>1. "update" \in InTransaction
    BY DEF InTransaction
  <2>2. row.sequence <= u.sequence
    BY <1>2, <1>3, <1>5 DEF Upload, AttemptRow
  <2>3. QED
    BY <1>1, <1>5, <2>1, <2>2, StatementInv
<1>6. ASSUME NEW verdict \in {"mismatch", "stale"}, EndTx(w, verdict, FALSE),
             verdict = "stale" => row # None /\ row.seat = u.seat /\ u.sequence < row.sequence
      PROVE  IndInv'
  <2>1. verdict \in Verdict /\ (verdict \in Accepted => verdict = "stale")
    BY DEF Verdict, Accepted
  <2>2. OthersPersist(w)
    BY <1>0, <1>1, <1>6 DEF OthersPersist, EndTx, TypeOK
  <2>3. attempts' \in [Attempt -> AttemptRow \cup {None}]
    BY <1>0, <1>1 DEF TypeOK
  <2>4. SUFFICES ASSUME NEW x, x = u PROVE verdict \in Accepted => Kept(x)'
    BY <1>1, <1>6, <2>1, <2>2, <2>3, KeptFrame, EndTxInv
  <2>5. QED
    BY <1>1, <1>2, <1>3, <1>6, <2>1, <2>4 DEF Kept, Upload, AttemptRow
<1>7. \/ NextStatement(w, "other")
      \/ NextStatement(w, "update") /\ row # None /\ row.seat = u.seat /\ u.sequence >= row.sequence
      \/ EndTx(w, "mismatch", FALSE)
      \/ EndTx(w, "stale", FALSE) /\ row # None /\ row.seat = u.seat /\ u.sequence < row.sequence
  BY DEF LockAttempt
<1>8. QED
  BY <1>4, <1>5, <1>6, <1>7

LEMMA CheckOtherInv ==
  ASSUME IndInv, NEW w \in Worker, CheckOther(w)
  PROVE  IndInv'
<1> USE DEF requestVars, storeVars
<1>1. /\ UNCHANGED <<requestVars, batches, jobs, storeVars, faults>>
      /\ run[w].pc \in InTransaction /\ TypeOK
      /\ NextStatement(w, "insert") \/ EndTx(w, "other", FALSE)
  BY DEF CheckOther, InTransaction, IndInv
<1>2. CASE NextStatement(w, "insert")
  <2>1. "insert" \in InTransaction /\ "insert" # "update"
    BY DEF InTransaction
  <2>2. QED
    BY <1>1, <1>2, <2>1, StatementInv
<1>3. CASE EndTx(w, "other", FALSE)
  <2>1. "other" \in Verdict /\ "other" \notin Accepted
    BY DEF Verdict, Accepted
  <2>2. OthersPersist(w)
    BY <1>1, <1>3 DEF OthersPersist, EndTx, TypeOK
  <2>3. attempts' \in [Attempt -> AttemptRow \cup {None}]
    BY <1>1 DEF TypeOK
  <2>4. QED
    BY <1>1, <1>3, <2>1, <2>2, <2>3, KeptFrame, EndTxInv
<1>4. QED
  BY <1>1, <1>2, <1>3

\* Overwriting a row by one that is not older keeps everything that is kept.
LEMMA StoreFrame ==
  ASSUME TypeOK, NEW a \in Attempt, NEW row \in AttemptRow,
         attempts' = [attempts EXCEPT ![a] = row], deleted' = deleted,
         attempts[a] # None =>
           row.seat = attempts[a].seat /\ row.sequence >= attempts[a].sequence
  PROVE  /\ attempts' \in [Attempt -> AttemptRow \cup {None}]
         /\ attempts'[a] = row /\ row # None
         /\ \A c \in Attempt \ {a} : attempts'[c] = attempts[c]
         /\ KeptPersists
<1>1. row # None
  BY NoneAssumption
<1>2. /\ attempts' \in [Attempt -> AttemptRow \cup {None}] /\ attempts'[a] = row
      /\ \A c \in Attempt \ {a} : attempts'[c] = attempts[c]
  BY DEF TypeOK
<1>3. KeptPersists
  <2> SUFFICES ASSUME NEW x \in Upload, Kept(x), x.attempt \notin deleted
               PROVE  Kept(x)'
    BY DEF KeptPersists, Kept
  <2>1. /\ x.attempt \in Attempt /\ x.sequence \in Nat
        /\ attempts[x.attempt] # None /\ attempts[x.attempt].seat = x.seat
        /\ attempts[x.attempt].sequence >= x.sequence
    BY DEF Kept, Upload
  <2>2. CASE x.attempt # a
    BY <1>2, <2>1, <2>2 DEF Kept
  <2>3. CASE x.attempt = a
    <3>1. attempts[a] \in AttemptRow
      BY <2>1, <2>3 DEF TypeOK
    <3>2. row.sequence >= x.sequence /\ row.seat = x.seat
      BY <2>1, <2>3, <3>1 DEF AttemptRow
    <3>3. QED
      BY <1>1, <1>2, <2>3, <3>2 DEF Kept
  <2>4. QED
    BY <2>2, <2>3
<1>4. QED
  BY <1>1, <1>2, <1>3

LEMMA StoreInv ==
  ASSUME IndInv, NEW w \in Worker, InsertAttempt(w) \/ UpdateAttempt(w)
  PROVE  IndInv'
<1> USE DEF requestVars
<1> DEFINE u == CurrentUpload(w)
           old == attempts[u.attempt]
           changed == IF InsertAttempt(w) THEN TRUE ELSE old.pending \/ old.response # u.response
           row == [seat |-> u.seat, sequence |-> u.sequence, final |-> u.final,
                   response |-> u.response, pending |-> changed]
<1>0. /\ TypeOK /\ RunInOrder(w) /\ LockedRowIsOlder(w) /\ LockIsExclusive
      /\ \A v \in Worker : LockedRowIsOlder(v) /\ RunInOrder(v)
  BY DEF IndInv
<1>1. /\ UNCHANGED <<requestVars, batches, jobs, assigned, deleted, gradeQueue, faults>>
      /\ run[w].pc \in {"insert", "update"} /\ run[w].pc \in InTransaction
      /\ run[w].pc = "insert" => old = None
      /\ EndTx(w, "stored", u.final)
  BY DEF InsertAttempt, UpdateAttempt, InTransaction
<1>2. u \in Upload /\ u.attempt \in Attempt
  BY <1>0, <1>1, CurrentUploadType DEF Upload
<1>3. changed \in BOOLEAN
  <2>1. CASE InsertAttempt(w)
    BY <2>1
  <2>2. CASE ~InsertAttempt(w)
    <3>1. old \in AttemptRow
      BY <1>0, <1>2, <2>2 DEF LockedRowIsOlder, TypeOK, UpdateAttempt
    <3>2. old.pending \in BOOLEAN
      BY <3>1 DEF AttemptRow
    <3>3. (old.pending \/ old.response # u.response) \in BOOLEAN
      BY <3>2, Zenon
    <3>4. QED
      BY <2>2, <3>3, Zenon
  <2>3. QED
    BY <2>1, <2>2
<1>4. attempts' = [attempts EXCEPT ![u.attempt] = row]
  <2>1. CASE InsertAttempt(w)
    BY <2>1, Zenon DEF InsertAttempt
  <2>2. CASE ~InsertAttempt(w)
    BY <2>2, Zenon DEF UpdateAttempt
  <2>3. QED
    BY <2>1, <2>2
<1> HIDE DEF changed
<1>5. /\ row \in AttemptRow /\ row.seat = u.seat /\ row.sequence = u.sequence
  BY <1>2, <1>3 DEF AttemptRow, Upload
<1>6. old # None => row.seat = old.seat /\ row.sequence >= old.sequence
  <2> SUFFICES ASSUME old # None
               PROVE  row.seat = old.seat /\ row.sequence >= old.sequence
    OBVIOUS
  <2>1. run[w].pc = "update" /\ old \in AttemptRow
    BY <1>0, <1>1, <1>2 DEF TypeOK
  <2>2. old.seat = u.seat /\ old.sequence <= u.sequence
    BY <1>0, <2>1 DEF LockedRowIsOlder
  <2>3. QED
    BY <1>2, <1>5, <2>1, <2>2 DEF AttemptRow, Upload
<1> HIDE DEF row
<1>7. /\ attempts' \in [Attempt -> AttemptRow \cup {None}] /\ KeptPersists
      /\ attempts'[u.attempt] = row /\ row # None
      /\ \A c \in Attempt \ {u.attempt} : attempts'[c] = attempts[c]
  BY <1>0, <1>1, <1>2, <1>4, <1>5, <1>6, StoreFrame
<1>8. OthersPersist(w)
  <2> SUFFICES ASSUME NEW v \in Worker \ {w}, run[v].pc = "update"
               PROVE  attempts'[CurrentUpload(v).attempt] = attempts[CurrentUpload(v).attempt]
    BY <1>0, <1>1 DEF OthersPersist, EndTx, TypeOK
  <2>1. CurrentUpload(v) \in Upload
    BY <1>0, CurrentUploadType DEF InTransaction
  <2>2. CurrentUpload(v).attempt # u.attempt
    BY <1>0, <1>1 DEF LockedRowIsOlder, LockIsExclusive
  <2>3. QED
    BY <1>7, <2>1, <2>2 DEF Upload
<1>9. SUFFICES ASSUME NEW x, x = u PROVE Kept(x)'
  <2>1. "stored" \in Verdict
    BY DEF Verdict
  <2>2. QED
    BY <1>1, <1>7, <1>8, <1>9, <2>1, EndTxInv
<1>10. x.sequence \in Nat
  BY <1>2, <1>9 DEF Upload
<1>11. QED
  BY <1>5, <1>7, <1>9, <1>10 DEF Kept

LEMMA EnqueueGradingInv ==
  ASSUME IndInv, NEW w \in Worker, EnqueueGrading(w)
  PROVE  IndInv'
<1> DEFINE b == BatchOf(run[w].job)
           pc == IF Len(run[w].toGrade) > 1 THEN "grade" ELSE "finish"
<1> USE DEF requestVars
<1>0. /\ TypeOK /\ RunInOrder(w) /\ run[w].pc = "grade"
      /\ run[w] \in RunType /\ run[w].job \in JobId /\ batches[b] # None
      /\ Len(run[w].outcomes) = Len(PayloadOf(b)) /\ run[w].toGrade # <<>>
      /\ run[w].toGrade \in Seq(Attempt)
  BY RunType1 DEF IndInv, EnqueueGrading, RunInOrder, RunType
<1>1. /\ UNCHANGED <<requestVars, batches, jobs, attempts, assigned, deleted, faults>>
      /\ gradeQueue' = gradeQueue \cup {Head(run[w].toGrade)}
      /\ run' = [run EXCEPT ![w].toGrade = Tail(@), ![w].pc = pc]
  BY DEF EnqueueGrading
<1>2. /\ Head(run[w].toGrade) \in Attempt /\ Tail(run[w].toGrade) \in Seq(Attempt)
      /\ Len(run[w].toGrade) > 1 => Tail(run[w].toGrade) # <<>>
  <2> DEFINE q == run[w].toGrade
  <2>1. q \in Seq(Attempt) /\ q # <<>> /\ Len(q) \in Nat
    BY <1>0
  <2> HIDE DEF q
  <2>2. Head(q) \in Attempt /\ Tail(q) \in Seq(Attempt) /\ Len(Tail(q)) = Len(q) - 1
    BY <2>1
  <2>3. Len(q) > 1 => Tail(q) # <<>>
    <3>1. Len(q) > 1 => Len(Tail(q)) # 0
      BY <2>1, <2>2
    <3>2. Len(<<>>) = 0
      OBVIOUS
    <3>3. QED
      BY <3>1, <3>2
  <2>4. QED
    BY <2>2, <2>3 DEF q
<1>3. /\ run' \in [Worker -> RunType]
      /\ run'[w].pc = pc /\ run'[w].toGrade = Tail(run[w].toGrade)
      /\ run'[w].job = run[w].job /\ run'[w].outcomes = run[w].outcomes
      /\ \A v \in Worker \ {w} : run'[v] = run[v]
  BY <1>0, <1>1, <1>2 DEF TypeOK, RunType
<1>4. TypeOK'
  BY <1>0, <1>1, <1>2, <1>3 DEF TypeOK
<1>5. RunInOrder(w)'
  <2>1. PayloadOf(BatchOf(run[w].job))' = PayloadOf(b)
    BY <1>1, <1>3 DEF PayloadOf, BatchOf
  <2>2. QED
    BY <1>0, <1>1, <1>2, <1>3, <2>1 DEF RunInOrder, InTransaction, BatchOf
<1>6. LockedRowIsOlder(w)' /\ run'[w].pc # "update"
  BY <1>3 DEF LockedRowIsOlder
<1>7. QED
  BY <1>0, <1>1, <1>3, <1>4, <1>5, <1>6, BatchesFrame, RunAdvances

\* The verdicts become visible: one for each upload, accepted only if kept.
LEMMA FinishBatchInv ==
  ASSUME IndInv, NEW w \in Worker, FinishBatch(w)
  PROVE  IndInv'
<1> USE DEF requestVars, storeVars
<1>12. BatchOf(run[w].job) \in Batch
  BY RunType1 DEF IndInv, FinishBatch
<1> PICK b \in Batch : b = BatchOf(run[w].job)
  BY <1>12
<1>0. /\ TypeOK /\ RunInOrder(w) /\ RunKept(w) /\ run[w].pc = "finish"
      /\ run[w] \in RunType /\ run[w].job \in JobId
      /\ b \in Batch /\ batches[b] # None /\ batches[b] \in BatchRow
      /\ PayloadOf(b) \in Seq(Upload)
      /\ run[w].outcomes \in Seq(Verdict) /\ Len(run[w].outcomes) = Len(PayloadOf(b))
  BY RunType1 DEF IndInv, FinishBatch, RunInOrder
<1>1. /\ UNCHANGED <<requestVars, storeVars, faults>>
      /\ batches' = [batches EXCEPT ![b].status = "processed",
                                    ![b].outcomes = run[w].outcomes]
      /\ Queue!Complete(w, run[w].job) /\ run' = [run EXCEPT ![w] = IdleRun]
  BY DEF FinishBatch
<1>2. /\ batches'[b] \in BatchRow /\ batches'[b].site = batches[b].site
      /\ batches'[b].outcomes = run[w].outcomes
      /\ \A c \in Batch \ {b} : batches'[c] = batches[c]
      /\ batches' \in [Batch -> BatchRow \cup {None}]
  BY <1>0, <1>1 DEF TypeOK, BatchRow, BatchStatus
<1>3. BatchesPersist
  BY <1>2, NoneAssumption DEF BatchesPersist
<1>4. jobs' \in [JobId -> Queue!Job] /\ JobsPersist
  BY <1>0, <1>1, JobReport
<1>5. run' \in [Worker -> RunType]
  BY <1>0, <1>1 DEF TypeOK, RunType, IdleRun
<1>6. TypeOK'
  BY <1>0, <1>1, <1>2, <1>4, <1>5 DEF TypeOK
<1>7. OutcomesFit(b)' /\ OutcomesKept(b)'
  <2>1. PayloadOf(b) = Payload[<<batches'[b].site, b>>]
    BY <1>2 DEF PayloadOf
  <2>2. OutcomesFit(b)'
    BY <1>0, <1>1, <1>2, <2>1 DEF OutcomesFit, PayloadOf
  <2>3. OutcomesKept(b)'
    <3> SUFFICES ASSUME NEW i \in 1..Len(run[w].outcomes), run[w].outcomes[i] \in Accepted,
                        NEW u, u = PayloadOf(b)[i]
                 PROVE  Kept(u)'
      BY <1>2, <2>1 DEF OutcomesKept, Kept, PayloadOf
    <3>1. Kept(u)
      BY <1>0 DEF RunKept
    <3>2. QED
      BY <1>1, <3>1 DEF Kept
  <2>4. QED
    BY <2>2, <2>3
<1>8. KeptPersists
  BY <1>1, KeptFrame
<1>9. ASSUME NEW c \in Batch, batches'[c] # None PROVE OutcomesFit(c)' /\ OutcomesKept(c)'
  <2>1. CASE c = b
    BY <1>7, <2>1
  <2>2. CASE c # b
    BY <1>2, <1>3, <1>8, <1>9, <2>2, BatchFrame
  <2>3. QED
    BY <2>1, <2>2
<1>10. AcceptedIsKept'
  BY <1>9 DEF AcceptedIsKept
<1>11. QED
  BY <1>1, <1>3, <1>4, <1>6, <1>9, <1>10, RunEnds
-----------------------------------------------------------------------------
(* The theorems.                                                           *)

LEMMA RunStepInv ==
  ASSUME IndInv, NEW w \in Worker, RunStep(w)
  PROVE  IndInv'
BY BeginInv, PayloadUnreadableInv, CheckUploadInv, LockAttemptInv, CheckOtherInv, StoreInv,
   RunAborts, EnqueueGradingInv, FinishBatchInv
   DEF RunStep

LEMMA StutterInv ==
  ASSUME IndInv, UNCHANGED vars
  PROVE  IndInv'
<1> USE DEF vars
<1>1. TypeOK'
  BY DEF IndInv, TypeOK
<1>2. /\ BatchesPersist /\ VerdictsPersist /\ KeptPersists /\ RowsUnderLockPersist
      /\ JobsPersist
  BY BatchesFrame, KeptFrame DEF RowsUnderLockPersist, JobsPersist
<1>3. \A h \in Http : RequestInOrder(h)'
  BY <1>2, RequestFrame DEF IndInv
<1>4. QED
  BY <1>1, <1>2, <1>3, JobsFrame, OutsideStep DEF IndInv

\* Every step preserves the invariant: one lemma for each group of actions.
LEMMA NextInv == IndInv /\ [Next]_vars => IndInv'
<1> SUFFICES ASSUME IndInv, [Next]_vars PROVE IndInv'
  OBVIOUS
<1>1. CASE \E h \in Http, s \in Site, b \in Batch : PostKnown(h, s, b) \/ PostNew(h, s, b)
  BY <1>1, RequestOnlyInv
<1>2. CASE \E h \in Http, b \in Batch : ReprocessBatch(h, b)
  BY <1>2, ReprocessInv
<1>3. CASE \E h \in Http : RequestStep(h) \/ HttpFails(h)
  BY <1>3, RequestOnlyInv, InsertBatchInv, EnqueueInv DEF RequestStep
<1>4. CASE \E w \in Worker : TakeJob(w) \/ RunStep(w) \/ WorkerThrows(w) \/ WorkerCrash(w)
  BY <1>4, TakeJobInv, RunStepInv, RunAborts
<1>5. CASE \E j \in JobId : RecoverStalled(j) \/ LoseLock(j)
  BY <1>5, StallInv
<1>6. CASE \E a \in Attempt : GradeAttempt(a) \/ DeleteAttempt(a)
  BY <1>6, AttemptStepInv
<1>7. CASE \E seat \in Seat : AddParticipant(seat) \/ RemoveParticipant(seat)
  BY <1>7, RosterInv
<1>8. CASE UNCHANGED vars
  BY <1>8, StutterInv
<1>9. QED
  BY <1>1, <1>2, <1>3, <1>4, <1>5, <1>6, <1>7, <1>8 DEF Next

\* The inductive invariant holds in every reachable state.
THEOREM Invariance == Spec => []IndInv
BY InitInv, NextInv, PTL DEF Spec

\* The variables keep their types: rows, jobs, requests and runs are well formed.
THEOREM TypeCorrect == Spec => []TypeOK
<1>1. IndInv => TypeOK
  BY DEF IndInv
<1>2. QED
  BY <1>1, Invariance, PTL

\* Whatever batches, workers, crashes, stalls, retries and administrators do, an
\* upload reported as accepted is in the database, at its sequence or a later one,
\* until its attempt is deleted (ingestBatch and upsertAttempt).
THEOREM AcceptedStaysKept == Spec => []AcceptedIsKept
<1>1. IndInv => AcceptedIsKept
  BY DEF IndInv
<1>2. QED
  BY <1>1, Invariance, PTL

\* What one step may do to a stored attempt.
LEMMA StepAdvances ==
  ASSUME IndInv, [Next]_vars, NEW a \in Attempt, attempts[a] # None, attempts'[a] # None
  PROVE  /\ attempts'[a].seat = attempts[a].seat
         /\ attempts'[a].sequence >= attempts[a].sequence
<1>0. attempts[a] \in AttemptRow /\ attempts[a].sequence \in Nat
  BY DEF IndInv, TypeOK, AttemptRow
<1>1. CASE attempts'[a] = attempts[a]
  BY <1>0, <1>1
<1>2. CASE \E w \in Worker : InsertAttempt(w)
  BY <1>0, <1>2 DEF InsertAttempt, IndInv, TypeOK
<1>3. CASE \E w \in Worker : UpdateAttempt(w)
  <2> PICK w \in Worker : UpdateAttempt(w)
    BY <1>3
  <2> DEFINE u == CurrentUpload(w)
  <2>1. /\ u \in Upload /\ attempts[u.attempt].seat = u.seat
        /\ attempts[u.attempt].sequence <= u.sequence
    BY CurrentUploadType DEF IndInv, LockedRowIsOlder, UpdateAttempt, InTransaction
  <2>2. CASE a = u.attempt
    <3>1. attempts'[a].seat = u.seat /\ attempts'[a].sequence = u.sequence
      BY <2>2 DEF UpdateAttempt, IndInv, TypeOK
    <3>2. QED
      BY <1>0, <2>1, <2>2, <3>1 DEF Upload
  <2>3. CASE a # u.attempt
    BY <1>0, <2>3 DEF UpdateAttempt, IndInv, TypeOK
  <2>4. QED
    BY <2>2, <2>3
<1>4. CASE \E c \in Attempt : GradeAttempt(c)
  BY <1>0, <1>4 DEF GradeAttempt, IndInv, TypeOK, AttemptRow
<1>5. CASE \E c \in Attempt : DeleteAttempt(c)
  BY <1>0, <1>5 DEF DeleteAttempt, IndInv, TypeOK
<1>6. QED
  BY <1>1, <1>2, <1>3, <1>4, <1>5
  DEF Next, vars, storeVars, RequestStep, RunStep, TakeJob, PostKnown, PostNew, PutPayload,
      InsertBatch, EnqueueIngest, ReprocessBatch, RequeueBatch, HttpFails, SkipProcessed,
      StartIngest, MarkProcessing, ReadPayload, PayloadUnreadable, CheckUpload, LockAttempt,
      CheckOther, InsertConflict, Rethrow, EnqueueGrading, FinishBatch, WorkerThrows,
      WorkerCrash, RecoverStalled, LoseLock, AddParticipant, RemoveParticipant

\* No step replaces a stored attempt by an older upload or moves it to another seat.
THEOREM ResultsOnlyAdvance == Spec => StoredOnlyAdvances
<1>1. IndInv /\ [Next]_vars =>
        [\A a \in Attempt : attempts[a] # None /\ attempts'[a] # None =>
           /\ attempts'[a].seat = attempts[a].seat
           /\ attempts'[a].sequence >= attempts[a].sequence]_vars
  BY StepAdvances
<1>2. QED
  BY <1>1, Invariance, PTL DEF Spec, StoredOnlyAdvances

\* Only an insert makes an attempt appear, and it found the seat free.
LEMMA StepInserts ==
  ASSUME IndInv, [Next]_vars, NEW a \in Attempt, attempts[a] = None, attempts'[a] # None
  PROVE  \E w \in Worker : InsertAttempt(w) /\ CurrentUpload(w).attempt = a
<1>1. CASE \E w \in Worker : InsertAttempt(w)
  BY <1>1 DEF InsertAttempt, IndInv, TypeOK
<1>2. CASE \E w \in Worker : UpdateAttempt(w)
  <2> PICK w \in Worker : UpdateAttempt(w)
    BY <1>2
  <2>1. attempts[CurrentUpload(w).attempt] # None
    BY DEF IndInv, LockedRowIsOlder, UpdateAttempt
  <2>2. QED
    BY <2>1 DEF UpdateAttempt, IndInv, TypeOK
<1>3. CASE \E c \in Attempt : GradeAttempt(c) \/ DeleteAttempt(c)
  BY <1>3 DEF GradeAttempt, DeleteAttempt, IndInv, TypeOK
<1>4. QED
  BY <1>1, <1>2, <1>3
  DEF Next, vars, storeVars, RequestStep, RunStep, TakeJob, PostKnown, PostNew, PutPayload,
      InsertBatch, EnqueueIngest, ReprocessBatch, RequeueBatch, HttpFails, SkipProcessed,
      StartIngest, MarkProcessing, ReadPayload, PayloadUnreadable, CheckUpload, LockAttempt,
      CheckOther, InsertConflict, Rethrow, EnqueueGrading, FinishBatch, WorkerThrows,
      WorkerCrash, RecoverStalled, LoseLock, AddParticipant, RemoveParticipant

LEMMA SeatStep == IndInv /\ OneAttemptPerSeat /\ [Next]_vars => OneAttemptPerSeat'
<1> SUFFICES ASSUME IndInv, OneAttemptPerSeat, [Next]_vars,
                    NEW a \in Attempt, NEW c \in Attempt,
                    attempts'[a] # None, attempts'[c] # None,
                    attempts'[a].seat = attempts'[c].seat, a # c
             PROVE  FALSE
  BY DEF OneAttemptPerSeat
<1>1. ASSUME NEW x \in Attempt, NEW y \in Attempt, x # y, attempts'[y] # None,
             attempts[x] = None, attempts'[x] # None, attempts'[x].seat = attempts'[y].seat
      PROVE  FALSE
  <2> PICK w \in Worker : InsertAttempt(w) /\ CurrentUpload(w).attempt = x
    BY <1>1, StepInserts
  <2>1. /\ attempts'[x].seat = CurrentUpload(w).seat
        /\ attempts'[y] = attempts[y] /\ ~SeatTaken(CurrentUpload(w).seat)
    BY <1>1 DEF InsertAttempt, IndInv, TypeOK
  <2>2. QED
    BY <1>1, <2>1 DEF SeatTaken
<1>2. attempts[a] # None /\ attempts[c] # None
  BY <1>1
<1>3. attempts'[a].seat = attempts[a].seat /\ attempts'[c].seat = attempts[c].seat
  BY <1>2, StepAdvances
<1>4. QED
  BY <1>2, <1>3 DEF OneAttemptPerSeat

\* A participant has at most one attempt per schedule, although upsertAttempt looks
\* for another attempt without a lock.
THEOREM SeatsAreUnique == Spec => []OneAttemptPerSeat
<1>1. Init => OneAttemptPerSeat
  BY DEF Init, OneAttemptPerSeat
<1>2. QED
  BY <1>1, SeatStep, Invariance, PTL DEF Spec
=============================================================================
