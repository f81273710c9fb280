------------------------ MODULE IngestRefinementProofs ------------------------
(***************************************************************************)
(* More proofs about ResultsIngest, on top of its inductive invariant:     *)
(* payloads are archived before their batch is recorded, a stored attempt  *)
(* is one upload of the site that owns the schedule, and the pipeline      *)
(* implements AttemptRegister.                                             *)
(***************************************************************************)
EXTENDS IngestRefinement, ResultsIngestProofs

(* What one step may do to the batches.                                    *)

\* The steps that leave sync_batches alone need no more than their UNCHANGED.
LEMMA StepBatches ==
  ASSUME IndInv, [Next]_vars
  PROVE  \/ batches' = batches
         \/ \E h \in Http : InsertBatch(h)
         \/ \E h \in Http, b \in Batch : ReprocessBatch(h, b)
         \/ \E w \in Worker : MarkProcessing(w) \/ PayloadUnreadable(w) \/ FinishBatch(w)
BY DEF Next, vars, storeVars, requestVars, RequestStep, RunStep, TakeJob, PostKnown, PostNew,
       PutPayload, EnqueueIngest, RequeueBatch, HttpFails, SkipProcessed, StartIngest,
       ReadPayload, CheckUpload, LockAttempt, CheckOther, InsertAttempt, InsertConflict,
       UpdateAttempt, Rethrow, EnqueueGrading, WorkerThrows, WorkerCrash, RecoverStalled,
       LoseLock, GradeAttempt, DeleteAttempt, AddParticipant, RemoveParticipant

\* The batch of a run that is not idle.
LEMMA RunBatch ==
  ASSUME IndInv, NEW w \in Worker, run[w].pc # "idle"
  PROVE  /\ BatchOf(run[w].job) \in Batch /\ batches[BatchOf(run[w].job)] # None
         /\ batches[BatchOf(run[w].job)] \in BatchRow
BY RunType1 DEF IndInv

\* A step changes the status of one batch, or finishes a run, or records a batch
\* that was not there; sites never change.
LEMMA BatchesStep ==
  ASSUME IndInv, [Next]_vars, NEW b \in Batch
  PROVE  \/ batches'[b] = batches[b]
         \/ /\ batches[b] = None
            /\ \E h \in Http : /\ InsertBatch(h) /\ BatchOf(http[h].job) = b
                               /\ batches'[b] = [site |-> http[h].site, status |-> "received",
                                                 outcomes |-> <<>>]
         \/ /\ batches[b] # None /\ batches'[b] # None
            /\ batches'[b].site = batches[b].site
            /\ \/ batches'[b].outcomes = batches[b].outcomes
               \/ \E w \in Worker :
                    /\ FinishBatch(w) /\ BatchOf(run[w].job) = b
                    /\ batches'[b].outcomes = run[w].outcomes
<1>0. /\ batches \in [Batch -> BatchRow \cup {None}]
      /\ \A c \in Batch : batches[c] # None => batches[c] \in BatchRow
      /\ \A h \in Http : RequestInOrder(h)
  BY DEF IndInv, TypeOK
<1>a. ASSUME NEW c \in Batch, batches[c] # None, NEW status \in BatchStatus,
             batches' = [batches EXCEPT ![c].status = status]
      PROVE  /\ batches'[b] = batches[b]
             \/ /\ batches[b] # None /\ batches'[b] # None
                /\ batches'[b].site = batches[b].site
                /\ batches'[b].outcomes = batches[b].outcomes
  BY <1>0, <1>a, StatusFrame DEF IndInv, BatchesPersist, VerdictsPersist
<1>1. CASE batches' = batches
  BY <1>1
<1>2. CASE \E h \in Http : InsertBatch(h)
  <2> PICK h \in Http : InsertBatch(h)
    BY <1>2
  <2>1. BatchOf(http[h].job) \in Batch
    BY <1>0 DEF InsertBatch, RequestInOrder, JobId, BatchOf
  <2>2. QED
    BY <1>0, <2>1 DEF InsertBatch
<1>3. CASE \E h \in Http, c \in Batch : ReprocessBatch(h, c)
  BY <1>3, <1>a DEF ReprocessBatch, BatchStatus
<1>4. CASE \E w \in Worker : MarkProcessing(w)
  BY <1>4, <1>a, RunBatch DEF MarkProcessing, BatchStatus
<1>5. CASE \E w \in Worker : PayloadUnreadable(w)
  BY <1>5, <1>a, RunBatch DEF PayloadUnreadable, BatchStatus
<1>6. CASE \E w \in Worker : FinishBatch(w)
  <2> PICK w \in Worker : FinishBatch(w)
    BY <1>6
  <2> DEFINE c == BatchOf(run[w].job)
  <2>1. c \in Batch /\ batches[c] # None /\ batches[c] \in BatchRow
    BY RunBatch DEF FinishBatch
  <2>2. run[w].outcomes \in Seq(Verdict)
    BY RunType1 DEF IndInv, FinishBatch
  <2>3. CASE b # c
    BY <1>0, <2>1, <2>3 DEF FinishBatch
  <2>4. CASE b = c
    <3>1. /\ batches'[b] = [batches[b] EXCEPT !.status = "processed", !.outcomes = run[w].outcomes]
      BY <1>0, <2>1, <2>4 DEF FinishBatch
    <3>2. /\ batches'[b] \in BatchRow /\ batches'[b].site = batches[b].site
          /\ batches'[b].outcomes = run[w].outcomes
      BY <2>1, <2>2, <2>4, <3>1 DEF BatchRow, BatchStatus
    <3>3. QED
      BY <2>1, <2>4, <3>2, NoneAssumption
  <2>5. QED
    BY <2>3, <2>4
<1>7. QED
  BY <1>1, <1>2, <1>3, <1>4, <1>5, <1>6, StepBatches

\* Recorded batches stay recorded, for the site that sent them.
LEMMA StepBatchesPersist ==
  ASSUME IndInv, [Next]_vars
  PROVE  BatchesPersist
BY BatchesStep DEF BatchesPersist
-----------------------------------------------------------------------------
(* Payloads are archived before their batch is recorded.                   *)

\* The handler of POST /api/sync/results reaches its INSERT after the put.
PutBeforeInsert ==
  \A h \in Http : http[h].pc = "insert" => <<http[h].site, BatchOf(http[h].job)>> \in objects

LEMMA PayloadStep ==
  ASSUME IndInv, PutBeforeInsert, RecordedHasPayload, [Next]_vars
  PROVE  PutBeforeInsert' /\ RecordedHasPayload'
<1>1. objects \subseteq objects'
  BY DEF Next, vars, storeVars, requestVars, RequestStep, RunStep, TakeJob, PostKnown, PostNew,
         PutPayload, InsertBatch, EnqueueIngest, ReprocessBatch, RequeueBatch, HttpFails,
         SkipProcessed, StartIngest, MarkProcessing, ReadPayload, PayloadUnreadable, CheckUpload,
         LockAttempt, CheckOther, InsertAttempt, InsertConflict, UpdateAttempt, Rethrow,
         EnqueueGrading, FinishBatch, WorkerThrows, WorkerCrash, RecoverStalled, LoseLock,
         GradeAttempt, DeleteAttempt, AddParticipant, RemoveParticipant
<1>2. \A h \in Http : \/ http'[h] = http[h]
                      \/ http'[h].pc # "insert"
                      \/ PutPayload(h)
  <2>0. http \in [Http -> RequestType]
    BY DEF IndInv, TypeOK
  <2>1. \/ http' = http
        \/ \E h \in Http, pc \in {"put", "idle", "enqueue", "requeue"} : \E s, j :
             http' = [http EXCEPT ![h] = [pc |-> pc, site |-> s, job |-> j]]
        \/ \E h \in Http : http' = [http EXCEPT ![h].pc = "enqueue"]
        \/ \E h \in Http : PutPayload(h)
    BY DEF Next, vars, storeVars, requestVars, RequestStep, RunStep, TakeJob, PostKnown, PostNew,
           InsertBatch, EnqueueIngest, ReprocessBatch, RequeueBatch, HttpFails, SkipProcessed,
           StartIngest, MarkProcessing, ReadPayload, PayloadUnreadable, CheckUpload, LockAttempt,
           CheckOther, InsertAttempt, InsertConflict, UpdateAttempt, Rethrow, EnqueueGrading,
           FinishBatch, WorkerThrows, WorkerCrash, RecoverStalled, LoseLock, GradeAttempt,
           DeleteAttempt, AddParticipant, RemoveParticipant, IdleRequest
  <2>2. CASE \E h \in Http : PutPayload(h)
    BY <2>0, <2>2 DEF PutPayload
  <2>3. QED
    BY <2>0, <2>1, <2>2 DEF RequestType
<1>3. PutBeforeInsert'
  <2> SUFFICES ASSUME NEW h \in Http, http'[h].pc = "insert"
               PROVE  <<http'[h].site, BatchOf(http'[h].job)>> \in objects'
    BY DEF PutBeforeInsert, BatchOf
  <2>1. CASE http'[h] = http[h]
    BY <1>1, <2>1 DEF PutBeforeInsert
  <2>2. CASE PutPayload(h)
    BY <2>2 DEF PutPayload, IndInv, TypeOK, RequestType
  <2>3. QED
    BY <1>2, <2>1, <2>2
<1>4. RecordedHasPayload'
  <2> SUFFICES ASSUME NEW b \in Batch, batches'[b] # None
               PROVE  <<batches'[b].site, b>> \in objects'
    BY DEF RecordedHasPayload
  <2>1. CASE batches[b] # None
    BY <1>1, <2>1, StepBatchesPersist DEF RecordedHasPayload, BatchesPersist
  <2>2. CASE batches[b] = None
    <3>0. \E h \in Http : /\ InsertBatch(h) /\ BatchOf(http[h].job) = b
                          /\ batches'[b] = [site |-> http[h].site, status |-> "received",
                                            outcomes |-> <<>>]
      BY <2>2, BatchesStep
    <3> PICK h \in Http : /\ InsertBatch(h) /\ BatchOf(http[h].job) = b
                          /\ batches'[b].site = http[h].site
      BY <3>0
    <3>1. http[h].pc = "insert"
      BY DEF InsertBatch
    <3>2. QED
      BY <1>1, <3>1 DEF PutBeforeInsert
  <2>3. QED
    BY <2>1, <2>2
<1>5. QED
  BY <1>3, <1>4

\* A recorded batch has its payload in object storage, whatever fails between the put
\* and the insert of POST /api/sync/results: reprocessing finds what it needs.
THEOREM PayloadsAreArchived == Spec => []RecordedHasPayload
<1>1. Init => PutBeforeInsert /\ RecordedHasPayload
  BY DEF Init, PutBeforeInsert, RecordedHasPayload, IdleRequest
<1>2. IndInv /\ (PutBeforeInsert /\ RecordedHasPayload) /\ [Next]_vars
        => (PutBeforeInsert /\ RecordedHasPayload)'
  BY PayloadStep
<1>3. QED
  BY <1>1, <1>2, Invariance, PTL DEF Spec
-----------------------------------------------------------------------------
(* A stored attempt is one upload of the site that owns the schedule.      *)

\* Past its check, a run works on an upload its site may send (upsertAttempt).
CheckedUpload(w) ==
  run[w].pc \in {"lock", "other", "insert", "update"} =>
    /\ CurrentUpload(w).packageOk
    /\ SiteOf[CurrentUpload(w).seat] = batches[BatchOf(run[w].job)].site

\* The steps of a run; all others leave every run alone.
LEMMA StepOfRun ==
  ASSUME IndInv, [Next]_vars
  PROVE  \/ run' = run
         \/ \E w \in Worker, j \in JobId : StartIngest(w, j)
         \/ \E w \in Worker : run[w].pc # "idle" /\ run' = [run EXCEPT ![w] = IdleRun]
         \/ \E w \in Worker : MarkProcessing(w) \/ ReadPayload(w) \/ EnqueueGrading(w)
         \/ \E w \in Worker : CheckUpload(w) \/ LockAttempt(w) \/ CheckOther(w)
         \/ \E w \in Worker : InsertAttempt(w) \/ UpdateAttempt(w)
BY DEF Next, vars, storeVars, requestVars, RequestStep, RunStep, TakeJob, PostKnown, PostNew,
       PutPayload, InsertBatch, EnqueueIngest, ReprocessBatch, RequeueBatch, HttpFails,
       SkipProcessed, PayloadUnreadable, InsertConflict, Rethrow, FinishBatch, WorkerThrows,
       WorkerCrash, RecoverStalled, LoseLock, GradeAttempt, DeleteAttempt, AddParticipant,
       RemoveParticipant

\* The transaction of a run ends with a verdict: the run turns to its next upload.
LEMMA EndTxRun ==
  ASSUME TypeOK, NEW w \in Worker, NEW verdict, NEW grade, EndTx(w, verdict, grade)
  PROVE  /\ \A v \in Worker \ {w} : run'[v] = run[v]
         /\ run'[w].pc \in {"check", "grade", "finish"}
         /\ run'[w].job = run[w].job
         /\ run'[w].outcomes = Append(run[w].outcomes, verdict)
         /\ run'[w].toGrade = IF grade THEN Append(run[w].toGrade, CurrentUpload(w).attempt)
                                       ELSE run[w].toGrade
BY DEF EndTx, TypeOK

LEMMA NextStatementRuns ==
  ASSUME TypeOK, NEW w \in Worker, NEW pc, NextStatement(w, pc)
  PROVE  /\ \A v \in Worker \ {w} : run'[v] = run[v]
         /\ run'[w].pc = pc /\ run'[w].job = run[w].job
         /\ run'[w].outcomes = run[w].outcomes /\ run'[w].toGrade = run[w].toGrade
BY DEF NextStatement, TypeOK, RunType

\* How a run gets to the statements behind the check of its upload.
LEMMA StepRuns ==
  ASSUME IndInv, [Next]_vars, NEW w \in Worker
  PROVE  \/ run'[w] = run[w]
         \/ run'[w].pc \in {"idle", "begin", "read", "check", "grade", "finish"}
         \/ CheckUpload(w) /\ NextStatement(w, "lock")
         \/ /\ run[w].pc \in {"lock", "other"}
            /\ run'[w].job = run[w].job /\ run'[w].outcomes = run[w].outcomes
<1>0. TypeOK /\ run \in [Worker -> RunType]
  BY DEF IndInv, TypeOK
<1>1. CASE run' = run
  BY <1>1
<1>2. CASE \E v \in Worker, j \in JobId : StartIngest(v, j)
  BY <1>0, <1>2 DEF StartIngest
<1>3. CASE \E v \in Worker : run[v].pc # "idle" /\ run' = [run EXCEPT ![v] = IdleRun]
  BY <1>0, <1>3 DEF IdleRun
<1>4. CASE \E v \in Worker : MarkProcessing(v) \/ ReadPayload(v) \/ EnqueueGrading(v)
  BY <1>0, <1>4 DEF MarkProcessing, ReadPayload, EnqueueGrading, RunType
<1>5. CASE \E v \in Worker : CheckUpload(v) \/ LockAttempt(v) \/ CheckOther(v)
  <2> PICK v \in Worker : CheckUpload(v) \/ LockAttempt(v) \/ CheckOther(v)
    BY <1>5
  <2>1. CASE \E verdict \in Verdict, grade \in BOOLEAN : EndTx(v, verdict, grade)
    BY <1>0, <2>1, EndTxRun
  <2>2. CASE CheckUpload(v) /\ NextStatement(v, "lock")
    BY <1>0, <2>2, NextStatementRuns
  <2>3. CASE /\ run[v].pc \in {"lock", "other"}
             /\ \E pc \in {"other", "update", "insert"} : NextStatement(v, pc)
    BY <1>0, <2>3, NextStatementRuns
  <2>4. QED
    BY <2>1, <2>2, <2>3 DEF CheckUpload, LockAttempt, CheckOther, Verdict
<1>6. CASE \E v \in Worker : InsertAttempt(v) \/ UpdateAttempt(v)
  BY <1>0, <1>6, EndTxRun DEF InsertAttempt, UpdateAttempt
<1>7. QED
  BY <1>1, <1>2, <1>3, <1>4, <1>5, <1>6, StepOfRun

\* A run that keeps its place keeps its upload.
LEMMA UploadFrame ==
  ASSUME IndInv, [Next]_vars, NEW w \in Worker, run[w].pc # "idle",
         run'[w].job = run[w].job, run'[w].outcomes = run[w].outcomes
  PROVE  /\ CurrentUpload(w)' = CurrentUpload(w)
         /\ batches'[BatchOf(run'[w].job)].site = batches[BatchOf(run[w].job)].site
<1>1. BatchOf(run[w].job) \in Batch /\ batches[BatchOf(run[w].job)] # None
  BY RunBatch
<1>2. BatchesPersist
  BY StepBatchesPersist
<1>3. batches'[BatchOf(run'[w].job)].site = batches[BatchOf(run[w].job)].site
  BY <1>1, <1>2 DEF BatchesPersist
<1>4. PayloadOf(BatchOf(run[w].job))' = PayloadOf(BatchOf(run[w].job))
  BY <1>3 DEF PayloadOf, BatchOf
<1>5. QED
  BY <1>3, <1>4 DEF CurrentUpload, BatchOf

LEMMA CheckedStep ==
  ASSUME IndInv, \A w \in Worker : CheckedUpload(w), [Next]_vars, NEW w \in Worker
  PROVE  CheckedUpload(w)'
<1> DEFINE past == {"lock", "other", "insert", "update"}
<1> SUFFICES ASSUME run'[w].pc \in past
             PROVE  /\ CurrentUpload(w)'.packageOk
                    /\ SiteOf[CurrentUpload(w)'.seat] = batches'[BatchOf(run'[w].job)].site
  BY DEF CheckedUpload, BatchOf
<1>0. TypeOK
  BY DEF IndInv
<1>1. CASE run'[w] = run[w]
  BY <1>1, UploadFrame DEF CheckedUpload
<1>2. CASE CheckUpload(w) /\ NextStatement(w, "lock")
  <2>1. /\ run'[w].job = run[w].job /\ run'[w].outcomes = run[w].outcomes
        /\ run[w].pc = "check"
    BY <1>0, <1>2, NextStatementRuns DEF CheckUpload
  <2>2. /\ CurrentUpload(w).packageOk
        /\ SiteOf[CurrentUpload(w).seat] = batches[BatchOf(run[w].job)].site
    <3>1. ~\E verdict \in Verdict, grade \in BOOLEAN : EndTx(w, verdict, grade)
      BY <1>0, <1>2, EndTxRun, NextStatementRuns
    <3>2. QED
      BY <1>2, <3>1 DEF CheckUpload, Verdict
  <2>3. QED
    BY <2>1, <2>2, UploadFrame
<1>3. CASE /\ run[w].pc \in {"lock", "other"}
           /\ run'[w].job = run[w].job /\ run'[w].outcomes = run[w].outcomes
  BY <1>3, UploadFrame DEF CheckedUpload
<1>4. QED
  BY <1>1, <1>2, <1>3, StepRuns

\* What one step may leave in the attempts table.
LEMMA StepAttempts ==
  ASSUME IndInv, [Next]_vars, NEW a \in Attempt, attempts'[a] # None
  PROVE  \/ /\ attempts[a] # None
            /\ attempts'[a].seat = attempts[a].seat
            /\ attempts'[a].sequence = attempts[a].sequence
            /\ attempts'[a].final = attempts[a].final
            /\ attempts'[a].response = attempts[a].response
         \/ \E w \in Worker :
              LET u == CurrentUpload(w)
              IN /\ InsertAttempt(w) \/ UpdateAttempt(w)
                 /\ u.attempt = a
                 /\ attempts'[a].seat = u.seat /\ attempts'[a].sequence = u.sequence
                 /\ attempts'[a].final = u.final /\ attempts'[a].response = u.response
<1>0. attempts \in [Attempt -> AttemptRow \cup {None}]
  BY DEF IndInv, TypeOK
<1>1. CASE attempts' = attempts
  BY <1>1
<1>2. CASE \E w \in Worker : InsertAttempt(w)
  <2> PICK w \in Worker : InsertAttempt(w)
    BY <1>2
  <2> DEFINE u == CurrentUpload(w)
  <2>1. \E p : attempts' = [attempts EXCEPT ![u.attempt] =
          [seat |-> u.seat, sequence |-> u.sequence, final |-> u.final,
           response |-> u.response, pending |-> p]]
    BY DEF InsertAttempt
  <2>2. CASE a = u.attempt
    BY <1>0, <2>1, <2>2
  <2>3. CASE a # u.attempt
    BY <1>0, <2>1, <2>3
  <2>4. QED
    BY <2>2, <2>3
<1>3. CASE \E w \in Worker : UpdateAttempt(w)
  <2> PICK w \in Worker : UpdateAttempt(w)
    BY <1>3
  <2> DEFINE u == CurrentUpload(w)
  <2>1. \E p : attempts' = [attempts EXCEPT ![u.attempt] =
          [seat |-> u.seat, sequence |-> u.sequence, final |-> u.final,
           response |-> u.response, pending |-> p]]
    BY DEF UpdateAttempt
  <2>2. CASE a = u.attempt
    BY <1>0, <2>1, <2>2
  <2>3. CASE a # u.attempt
    BY <1>0, <2>1, <2>3
  <2>4. QED
    BY <2>2, <2>3
<1>4. CASE \E c \in Attempt : GradeAttempt(c)
  BY <1>0, <1>4 DEF GradeAttempt, AttemptRow
<1>5. CASE \E c \in Attempt : DeleteAttempt(c)
  BY <1>0, <1>5 DEF DeleteAttempt
<1>6. QED
  BY <1>1, <1>2, <1>3, <1>4, <1>5
  DEF Next, vars, storeVars, RequestStep, RunStep, TakeJob, PostKnown, PostNew, PutPayload,
      InsertBatch, EnqueueIngest, ReprocessBatch, RequeueBatch, HttpFails, SkipProcessed,
      StartIngest, MarkProcessing, ReadPayload, PayloadUnreadable, CheckUpload, LockAttempt,
      CheckOther, InsertConflict, Rethrow, EnqueueGrading, FinishBatch, WorkerThrows,
      WorkerCrash, RecoverStalled, LoseLock, AddParticipant, RemoveParticipant

\* The stored attempt a is an upload of batch b.
IsUploadOf(a, b) ==
  \E i \in 1..Len(PayloadOf(b)) :
    LET u == PayloadOf(b)[i]
    IN /\ u.attempt = a /\ u.packageOk
       /\ SiteOf[u.seat] = batches[b].site
       /\ attempts[a].seat = u.seat /\ attempts[a].sequence = u.sequence
       /\ attempts[a].final = u.final /\ attempts[a].response = u.response

LEMMA UploadStep ==
  ASSUME IndInv, \A w \in Worker : CheckedUpload(w), StoredIsOneUpload, [Next]_vars
  PROVE  StoredIsOneUpload'
<1> SUFFICES ASSUME NEW a \in Attempt, attempts'[a] # None
             PROVE  \E b \in Batch : batches'[b] # None /\ IsUploadOf(a, b)'
  BY DEF StoredIsOneUpload, IsUploadOf
<1>0. TypeOK /\ BatchesPersist
  BY StepBatchesPersist DEF IndInv
<1>1. CASE /\ attempts[a] # None
           /\ attempts'[a].seat = attempts[a].seat
           /\ attempts'[a].sequence = attempts[a].sequence
           /\ attempts'[a].final = attempts[a].final
           /\ attempts'[a].response = attempts[a].response
  <2> PICK b \in Batch : batches[b] # None /\ IsUploadOf(a, b)
    BY <1>1 DEF StoredIsOneUpload, IsUploadOf
  <2>1. batches'[b] # None /\ batches'[b].site = batches[b].site
    BY <1>0 DEF BatchesPersist
  <2>2. IsUploadOf(a, b)'
    BY <1>1, <2>1 DEF IsUploadOf, PayloadOf
  <2>3. QED
    BY <2>1, <2>2
<1>2. ASSUME NEW w \in Worker, InsertAttempt(w) \/ UpdateAttempt(w), NEW u,
             u = CurrentUpload(w), u.attempt = a,
             attempts'[a].seat = u.seat, attempts'[a].sequence = u.sequence,
             attempts'[a].final = u.final, attempts'[a].response = u.response
      PROVE  \E b \in Batch : batches'[b] # None /\ IsUploadOf(a, b)'
  <2>1. run[w].pc \in {"insert", "update"}
    BY <1>2 DEF InsertAttempt, UpdateAttempt
  <2> PICK b \in Batch : b = BatchOf(run[w].job) /\ batches[b] # None
    BY <2>1, RunBatch
  <2>2. PICK n \in 1..Len(PayloadOf(b)) : u = PayloadOf(b)[n]
    BY <1>0, <1>2, <2>1, CurrentUploadType DEF InTransaction, IndInv
  <2>3. u.packageOk /\ SiteOf[u.seat] = batches[b].site
    BY <1>2, <2>1 DEF CheckedUpload
  <2>4. batches'[b] # None /\ batches'[b].site = batches[b].site
    BY <1>0 DEF BatchesPersist
  <2>5. PayloadOf(b)' = PayloadOf(b)
    BY <2>4 DEF PayloadOf
  <2>6. IsUploadOf(a, b)'
    BY <1>2, <2>2, <2>3, <2>4, <2>5 DEF IsUploadOf
  <2>7. QED
    BY <2>4, <2>6
<1>3. QED
  BY <1>1, <1>2, StepAttempts

\* A stored attempt is one upload of a recorded batch, whole, and the site of that batch
\* owns the schedule: concurrent batches, retries and two sites that send the same
\* attempt id never mix (upsertAttempt).
THEOREM AttemptsAreUploads == Spec => []StoredIsOneUpload
<1>1. Init => StoredIsOneUpload /\ \A w \in Worker : CheckedUpload(w)
  BY DEF Init, StoredIsOneUpload, CheckedUpload, IdleRun
<1>2. IndInv /\ (StoredIsOneUpload /\ \A w \in Worker : CheckedUpload(w)) /\ [Next]_vars
        => (StoredIsOneUpload /\ \A w \in Worker : CheckedUpload(w))'
  BY CheckedStep, UploadStep
<1>3. QED
  BY <1>1, <1>2, Invariance, PTL DEF Spec
-----------------------------------------------------------------------------
(* The refinement: every step is a step of the register, or changes nothing *)
(* that the register shows.                                                 *)

LEMMA UploadIsSent ==
  ASSUME IndInv, NEW b \in Batch, batches[b] # None, NEW i \in 1..Len(PayloadOf(b))
  PROVE  AbstractUpload(PayloadOf(b)[i]) \in SentUploads
<1>1. <<batches[b].site, b>> \in Site \X Batch
  BY PayloadType DEF IndInv, BatchRow
<1>2. QED
  BY <1>1 DEF SentUploads, PayloadOf

\* What the register shows of an attempt.
LEMMA StoredEntry ==
  ASSUME IndInv, NEW a \in Attempt
  PROVE  /\ attempts[a] = None => StoredAttempts[a] = None
         /\ attempts[a] # None =>
              /\ StoredAttempts[a] # None
              /\ StoredAttempts[a] = [seat |-> attempts[a].seat, sequence |-> attempts[a].sequence]
              /\ StoredAttempts[a].seat = attempts[a].seat
              /\ StoredAttempts[a].sequence = attempts[a].sequence
<1>1. attempts[a] # None => attempts[a].seat \in Seat /\ attempts[a].sequence \in Nat
  BY DEF IndInv, TypeOK, AttemptRow
<1>2. QED
  BY <1>1, NoEntryAssumption DEF StoredAttempts

\* Only verdicts that become visible are a report.
LEMMA ReportedPersists ==
  ASSUME IndInv, BatchesPersist, NEW b \in Batch,
         \/ batches'[b] = batches[b]
         \/ batches[b] = None /\ batches'[b].outcomes = <<>>
         \/ batches[b] # None /\ batches'[b].outcomes = batches[b].outcomes
  PROVE  ReportedUploads'[b] = ReportedUploads[b]
<1>1. CASE batches'[b] = batches[b]
  BY <1>1 DEF ReportedUploads, AcceptedIndexes, PayloadOf
<1>2. CASE batches[b] = None /\ batches'[b].outcomes = <<>>
  <2>1. AcceptedIndexes(b)' = {}
    BY <1>2 DEF AcceptedIndexes
  <2>2. QED
    BY <1>2, <2>1 DEF ReportedUploads
<1>3. CASE batches[b] # None /\ batches'[b].outcomes = batches[b].outcomes
  <2>1. batches'[b] # None /\ PayloadOf(b)' = PayloadOf(b)
    BY <1>3, PayloadFrame DEF BatchesPersist
  <2>2. AcceptedIndexes(b)' = AcceptedIndexes(b)
    BY <1>3 DEF AcceptedIndexes
  <2>3. QED
    BY <1>3, <2>1, <2>2 DEF ReportedUploads
<1>4. QED
  BY <1>1, <1>2, <1>3

\* An insert or an update stores one upload.
LEMMA StoreRefines ==
  ASSUME IndInv, OneAttemptPerSeat, [Next]_vars, NEW w \in Worker,
         InsertAttempt(w) \/ UpdateAttempt(w)
  PROVE  Register!Next
<1> DEFINE u == CurrentUpload(w)
<1>0. /\ TypeOK /\ TypeOK' /\ IndInv'
  BY NextInv DEF IndInv
<1>1. run[w].pc \in InTransaction /\ run[w].pc # "idle"
  BY DEF InsertAttempt, UpdateAttempt, InTransaction
<1>2. /\ u \in Upload /\ AbstractUpload(u) \in SentUploads
  BY <1>0, <1>1, CurrentUploadType, UploadIsSent, RunBatch DEF IndInv
<1>3. UNCHANGED <<deleted, batches>>
  BY DEF InsertAttempt, UpdateAttempt, requestVars
<1>4. ReportedUploads' = ReportedUploads
  BY <1>3 DEF ReportedUploads, AcceptedIndexes, PayloadOf
<1>5. \E p \in BOOLEAN : attempts' = [attempts EXCEPT ![u.attempt] =
        [seat |-> u.seat, sequence |-> u.sequence, final |-> u.final,
         response |-> u.response, pending |-> p]]
  <2>1. CASE InsertAttempt(w)
    BY <2>1 DEF InsertAttempt
  <2>2. CASE UpdateAttempt(w)
    <3>1. (attempts[u.attempt].pending \/ attempts[u.attempt].response # u.response) \in BOOLEAN
      OBVIOUS
    <3>2. QED
      BY <2>2, <3>1 DEF UpdateAttempt
  <2>3. QED
    BY <2>1, <2>2
<1> PICK p \in BOOLEAN : attempts' = [attempts EXCEPT ![u.attempt] =
        [seat |-> u.seat, sequence |-> u.sequence, final |-> u.final,
         response |-> u.response, pending |-> p]]
  BY <1>5
<1> DEFINE row == [seat |-> u.seat, sequence |-> u.sequence, final |-> u.final,
                   response |-> u.response, pending |-> p]
<1>6. u.attempt \in Attempt /\ u.seat \in Seat /\ u.sequence \in Nat
  BY <1>2 DEF Upload
<1>7. row \in AttemptRow /\ row # None
  <2>1. row \in AttemptRow
    BY <1>2 DEF Upload, AttemptRow
  <2>2. QED
    BY <2>1, NoneAssumption
<1>8. StoredAttempts' = [StoredAttempts EXCEPT
        ![u.attempt] = [seat |-> u.seat, sequence |-> u.sequence]]
  <2>1. /\ attempts'[u.attempt] = row
        /\ \A a \in Attempt \ {u.attempt} : attempts'[a] = attempts[a]
    BY <1>0, <1>6 DEF TypeOK
  <2>2. row.seat = u.seat /\ row.sequence = u.sequence
    OBVIOUS
  <2> HIDE DEF row
  <2>3. QED
    BY <1>6, <1>7, <2>1, <2>2 DEF StoredAttempts
<1>9. IF StoredAttempts[u.attempt] = None
      THEN Register!SeatFree(u.seat)
      ELSE /\ StoredAttempts[u.attempt].seat = u.seat
           /\ StoredAttempts[u.attempt].sequence <= u.sequence
  <2>1. CASE InsertAttempt(w)
    <3>1. attempts[u.attempt] = None /\ ~SeatTaken(u.seat)
      BY <2>1 DEF InsertAttempt
    <3>2. StoredAttempts[u.attempt] = None
      BY <1>6, <3>1, StoredEntry
    <3>3. Register!SeatFree(u.seat)
      BY <3>1, StoredEntry DEF Register!SeatFree, SeatTaken
    <3>4. QED
      BY <3>2, <3>3
  <2>2. CASE UpdateAttempt(w)
    <3>1. /\ attempts[u.attempt] # None /\ attempts[u.attempt].seat = u.seat
          /\ attempts[u.attempt].sequence <= u.sequence
      BY <2>2 DEF UpdateAttempt, IndInv, LockedRowIsOlder
    <3>2. QED
      BY <1>6, <3>1, StoredEntry
  <2>3. QED
    BY <2>1, <2>2
<1>10. Register!Store(AbstractUpload(u))
  BY <1>3, <1>4, <1>8, <1>9 DEF Register!Store, AbstractUpload
<1>11. QED
  BY <1>2, <1>10 DEF Register!Next

LEMMA DeleteRefines ==
  ASSUME IndInv, NEW a \in Attempt, DeleteAttempt(a)
  PROVE  Register!Next
<1>1. /\ attempts[a] # None /\ attempts' = [attempts EXCEPT ![a] = None]
      /\ deleted' = deleted \cup {a} /\ batches' = batches
  BY DEF DeleteAttempt, requestVars
<1>2. attempts \in [Attempt -> AttemptRow \cup {None}]
  BY DEF IndInv, TypeOK
<1>3. ReportedUploads' = ReportedUploads
  BY <1>1 DEF ReportedUploads, AcceptedIndexes, PayloadOf
<1>4. StoredAttempts' = [StoredAttempts EXCEPT ![a] = None]
  BY <1>1, <1>2 DEF StoredAttempts
<1>5. StoredAttempts[a] # None
  BY <1>1, StoredEntry
<1>6. Register!Delete(a)
  BY <1>1, <1>3, <1>4, <1>5 DEF Register!Delete
<1>7. QED
  BY <1>6 DEF Register!Next

\* Grading shows nothing of an attempt but its answers.
LEMMA GradeRefines ==
  ASSUME IndInv, NEW a \in Attempt, GradeAttempt(a)
  PROVE  UNCHANGED Register!vars
<1>1. /\ attempts' = IF attempts[a] = None THEN attempts
                     ELSE [attempts EXCEPT ![a].pending = FALSE]
      /\ UNCHANGED <<deleted, batches>>
  BY DEF GradeAttempt, requestVars
<1>2. attempts \in [Attempt -> AttemptRow \cup {None}]
  BY DEF IndInv, TypeOK
<1>3. ReportedUploads' = ReportedUploads
  BY <1>1 DEF ReportedUploads, AcceptedIndexes, PayloadOf
<1>4. \A c \in Attempt : (attempts'[c] = None <=> attempts[c] = None)
        /\ (attempts[c] # None => /\ attempts'[c].seat = attempts[c].seat
                                  /\ attempts'[c].sequence = attempts[c].sequence)
  <2>1. CASE attempts[a] = None
    BY <1>1, <2>1
  <2>2. CASE attempts[a] # None
    <3>1. [attempts[a] EXCEPT !.pending = FALSE] \in AttemptRow
      BY <1>2, <2>2 DEF AttemptRow
    <3>2. /\ attempts'[a] # None /\ attempts'[a].seat = attempts[a].seat
          /\ attempts'[a].sequence = attempts[a].sequence
      BY <1>1, <1>2, <2>2, <3>1, NoneAssumption DEF AttemptRow
    <3>3. \A c \in Attempt \ {a} : attempts'[c] = attempts[c]
      BY <1>1, <1>2, <2>2
    <3>4. QED
      BY <2>2, <3>2, <3>3
  <2>3. QED
    BY <2>1, <2>2
<1>5. StoredAttempts' = StoredAttempts
  BY <1>4 DEF StoredAttempts
<1>6. QED
  BY <1>1, <1>3, <1>5 DEF Register!vars

\* A run that ends shows its verdicts: a report of what is kept.
LEMMA FinishRefines ==
  ASSUME IndInv, [Next]_vars, NEW w \in Worker, FinishBatch(w)
  PROVE  Register!Next
<1>1. run[w].pc # "idle" /\ UNCHANGED <<attempts, deleted>>
  BY DEF FinishBatch, storeVars
<1> PICK b \in Batch : b = BatchOf(run[w].job) /\ batches[b] # None
  BY <1>1, RunBatch
<1> DEFINE p == PayloadOf(b)
<1>2. /\ RunKept(w) /\ run[w].outcomes \in Seq(Verdict)
      /\ p \in Seq(Upload) /\ Len(run[w].outcomes) = Len(p)
  BY <1>1, RunType1 DEF IndInv, FinishBatch, RunInOrder
<1>3. /\ batches'[b] # None /\ PayloadOf(b)' = p
      /\ \A c \in Batch \ {b} : batches'[c] = batches[c]
      /\ batches'[b].outcomes = run[w].outcomes
  <2>1. batches[b] \in BatchRow /\ batches \in [Batch -> BatchRow \cup {None}]
    BY <1>1, RunBatch DEF IndInv, TypeOK
  <2>2. batches' = [batches EXCEPT ![b].status = "processed", ![b].outcomes = run[w].outcomes]
    BY DEF FinishBatch
  <2>3. batches'[b].outcomes = run[w].outcomes /\ \A c \in Batch \ {b} : batches'[c] = batches[c]
    BY <2>1, <2>2 DEF BatchRow
  <2>4. batches'[b] # None
    BY StepBatchesPersist DEF BatchesPersist
  <2>5. PayloadOf(b)' = p
    BY StepBatchesPersist, PayloadFrame
  <2>6. QED
    BY <2>3, <2>4, <2>5
<1> DEFINE indexes == {i \in 1..Len(run[w].outcomes) : run[w].outcomes[i] \in Accepted}
           accepted == {AbstractUpload(p[i]) : i \in indexes}
<1>4. accepted \subseteq SentUploads
  <2>1. \A i \in indexes : i \in 1..Len(p)
    BY <1>2
  <2>2. QED
    BY <2>1, UploadIsSent
<1>5. \A u \in accepted : Register!IsKept(u)
  <2> SUFFICES ASSUME NEW i \in indexes
               PROVE  Register!IsKept(AbstractUpload(p[i]))
    OBVIOUS
  <2>1. Kept(p[i])
    BY <1>1, <1>2 DEF RunKept
  <2>2. p[i] \in Upload
    BY <1>2
  <2>3. p[i].attempt \in Attempt
    BY <2>2 DEF Upload
  <2>4. QED
    BY <2>1, <2>3, StoredEntry DEF Kept, Register!IsKept, AbstractUpload
<1>6. ReportedUploads' = [ReportedUploads EXCEPT ![b] = accepted]
  <2>1. AcceptedIndexes(b)' = indexes
    BY <1>3 DEF AcceptedIndexes
  <2>2. ReportedUploads'[b] = accepted
    BY <1>3, <2>1 DEF ReportedUploads
  <2>3. \A c \in Batch \ {b} : ReportedUploads'[c] = ReportedUploads[c]
    BY <1>3, StepBatchesPersist, ReportedPersists
  <2>4. /\ ReportedUploads = [c \in Batch |-> ReportedUploads[c]]
        /\ ReportedUploads' = [c \in Batch |-> ReportedUploads'[c]]
    BY DEF ReportedUploads
  <2> HIDE DEF accepted
  <2>5. QED
    BY <2>2, <2>3, <2>4
<1>7. StoredAttempts' = StoredAttempts
  BY <1>1 DEF StoredAttempts
<1>8. Register!Report(b, accepted)
  BY <1>1, <1>5, <1>6, <1>7 DEF Register!Report
<1>9. QED
  BY <1>4, <1>8 DEF Register!Next

\* The other steps change no row that the register shows, and no visible verdict.
LEMMA OtherRefines ==
  ASSUME IndInv, [Next]_vars, UNCHANGED <<attempts, deleted>>,
         ~\E w \in Worker : FinishBatch(w)
  PROVE  UNCHANGED Register!vars
<1>1. StoredAttempts' = StoredAttempts
  BY DEF StoredAttempts
<1>2. BatchesPersist
  BY StepBatchesPersist
<1>3. ASSUME NEW b \in Batch PROVE ReportedUploads'[b] = ReportedUploads[b]
  <2>1. \/ batches'[b] = batches[b]
        \/ batches[b] = None /\ batches'[b].outcomes = <<>>
        \/ batches[b] # None /\ batches'[b].outcomes = batches[b].outcomes
    <3>1. (\E h \in Http : batches'[b] = [site |-> http[h].site, status |-> "received",
                                          outcomes |-> <<>>])
            => batches'[b].outcomes = <<>>
      OBVIOUS
    <3>2. QED
      BY <3>1, BatchesStep
  <2>2. QED
    BY <1>2, <2>1, ReportedPersists
<1>4. /\ ReportedUploads = [c \in Batch |-> ReportedUploads[c]]
      /\ ReportedUploads' = [c \in Batch |-> ReportedUploads'[c]]
  BY DEF ReportedUploads
<1>5. ReportedUploads' = ReportedUploads
  BY <1>3, <1>4
<1>6. QED
  BY <1>1, <1>5 DEF Register!vars

LEMMA StepRefines ==
  ASSUME IndInv, OneAttemptPerSeat, [Next]_vars
  PROVE  [Register!Next]_(Register!vars)
<1>1. \/ UNCHANGED <<attempts, deleted>>
      \/ \E w \in Worker : InsertAttempt(w) \/ UpdateAttempt(w)
      \/ \E a \in Attempt : GradeAttempt(a) \/ DeleteAttempt(a)
  BY DEF Next, vars, storeVars, RequestStep, RunStep, TakeJob, PostKnown, PostNew, PutPayload,
         InsertBatch, EnqueueIngest, ReprocessBatch, RequeueBatch, HttpFails, SkipProcessed,
         StartIngest, MarkProcessing, ReadPayload, PayloadUnreadable, CheckUpload, LockAttempt,
         CheckOther, InsertConflict, Rethrow, EnqueueGrading, FinishBatch, WorkerThrows,
         WorkerCrash, RecoverStalled, LoseLock, AddParticipant, RemoveParticipant
<1>2. QED
  BY <1>1, StoreRefines, DeleteRefines, GradeRefines, FinishRefines, OtherRefines

\* The ingest pipeline implements the register: whatever requests, retries, stalls,
\* crashes and administrators do, what the attempts table and the batches show is
\* explained by whole uploads stored one after the other, newest kept, and by reports
\* of uploads that are kept.
THEOREM IngestImplementsRegister == Spec => ImplementsRegister
<1>1. Init => Register!Init
  BY DEF Init, Register!Init, StoredAttempts, ReportedUploads
<1>2. IndInv /\ OneAttemptPerSeat /\ [Next]_vars => [Register!Next]_(Register!vars)
  BY StepRefines
<1>3. QED
  BY <1>1, <1>2, Invariance, SeatsAreUnique, PTL DEF Spec, ImplementsRegister, Register!Spec
===============================================================================
