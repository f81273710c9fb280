------------------------- MODULE IngestDeliveryProofs -------------------------
(***************************************************************************)
(* Proofs about ResultsIngest: no recorded batch is forgotten and no       *)
(* finished attempt misses the grader.  Both promises are conditional, and *)
(* the theorems name the faults and requests under which the code does not *)
(* keep them.                                                              *)
(***************************************************************************)
EXTENDS IngestRefinementProofs, SequenceTheorems

(* The invariants.                                                         *)

NumberOf(j) == j[2]

\* Jobs are numbered by the reprocess requests: 0 for the job of the first upload.
RequestIsNumbered(h) ==
  http[h].pc # "idle" => NumberOf(http[h].job) <= reprocesses
JobsAreNumbered ==
  \A j \in JobId : jobs[j].state # "none" => NumberOf(j) <= reprocesses

\* Without an expired lock under a slot that is only slow ("stall"), the slot that
\* executes a job owns it, so no two slots execute the same job.
RunOwnsJob(w) == run[w].pc # "idle" => Queue!Owns(w, run[w].job)

OwnershipInv ==
  /\ \A h \in Http : RequestIsNumbered(h)
  /\ JobsAreNumbered
  /\ "stall" \notin Environment => \A w \in Worker : RunOwnsJob(w)

\* A request that is about to queue a job is the only one, and the id is new.
RequestIsFresh(h) ==
  /\ http[h].pc \in {"put", "insert", "enqueue"} => NumberOf(http[h].job) = 0
  /\ http[h].pc = "requeue" => NumberOf(http[h].job) > 0
  /\ http[h].pc \in {"enqueue", "requeue"} =>
       /\ jobs[http[h].job].state = "none"
       /\ \A g \in Http : /\ http[g].pc \in {"enqueue", "requeue"}
                          /\ http[g].job = http[h].job
                          => g = h

\* A recorded batch that was not dealt with has a request or a job to it.
HasJob(b) == RequestPending(b) \/ JobPending(b) \/ JobFailed(b)
UnsettledHasJob(b) ==
  batches[b] # None /\ batches[b].status \in {"received", "processing"} => HasJob(b)

DeliveryInv ==
  /\ \A h \in Http : RequestIsFresh(h)
  /\ \A b \in Batch : UnsettledHasJob(b)

\* A run works on a batch that is not processed, and has queued all its grading when
\* it finishes.
RunIsOpen(w) ==
  run[w].pc # "idle" =>
    /\ batches[BatchOf(run[w].job)].status # "processed"
    /\ run[w].pc = "finish" => run[w].toGrade = <<>>

\* Upload i of batch b is what the row of attempt a was written from (or the same).
Matches(a, b, i) ==
  LET u == PayloadOf(b)[i]
  IN /\ u.attempt = a /\ u.packageOk
     /\ SiteOf[u.seat] = batches[b].site
     /\ attempts[a].seat = u.seat /\ attempts[a].sequence = u.sequence

\* The run will still look at the row with upload i.
StillAhead(w, i) ==
  LET n == Len(run[w].outcomes) + 1
  IN n < i \/ (n = i /\ run[w].pc \notin {"other", "insert"})

QueuesGrading(w, a) == \E k \in 1..Len(run[w].toGrade) : run[w].toGrade[k] = a

\* The job of a batch, the only one without reprocess requests, is not done; or the batch
\* is marked failed.
JobLeft(b) ==
  batches[b].status = "failed" \/ jobs[<<b, 0>>].state \in {"waiting", "active", "failed"}

\* Batch b will bring attempt a to the grader: its next run, or the one it has.
Carries(b, a) ==
  /\ batches[b] # None /\ batches[b].status # "processed" /\ JobLeft(b)
  /\ \E i \in 1..Len(PayloadOf(b)) :
       /\ Matches(a, b, i)
       /\ \A w \in Worker : run[w].pc # "idle" /\ BatchOf(run[w].job) = b =>
            StillAhead(w, i) \/ QueuesGrading(w, a)

NeedsGrading(a) == attempts[a] # None /\ attempts[a].final /\ attempts[a].pending

GradingInv ==
  /\ assigned = Seat /\ reprocesses = 0
  /\ \A w \in Worker : RunIsOpen(w)
  /\ \A a \in Attempt :
       NeedsGrading(a) => a \in gradeQueue \/ \E b \in Batch : Carries(b, a)
-----------------------------------------------------------------------------
(* What one step may do to requests, jobs and runs.                        *)

LEMMA StepRequests ==
  ASSUME IndInv, [Next]_vars
  PROVE  \/ UNCHANGED <<http, reprocesses>>
         \/ \E h \in Http, s \in Site, b \in Batch : PostNew(h, s, b)
         \/ \E h \in Http : PutPayload(h) \/ InsertBatch(h)
         \/ \E h \in Http : EnqueueIngest(h) \/ RequeueBatch(h)
         \/ \E h \in Http, b \in Batch : ReprocessBatch(h, b)
         \/ \E h \in Http : HttpFails(h)
BY DEF Next, vars, storeVars, requestVars, RequestStep, RunStep, TakeJob, PostKnown,
       SkipProcessed, StartIngest, MarkProcessing, ReadPayload, PayloadUnreadable, CheckUpload,
       LockAttempt, CheckOther, InsertAttempt, InsertConflict, UpdateAttempt, Rethrow,
       EnqueueGrading, FinishBatch, WorkerThrows, WorkerCrash, RecoverStalled, LoseLock,
       GradeAttempt, DeleteAttempt, AddParticipant, RemoveParticipant

\* A run that goes on with its job.
Continues(w) ==
  /\ jobs' = jobs /\ run[w].pc # "idle"
  /\ run'[w].job = run[w].job
  /\ \A v \in Worker \ {w} : run'[v] = run[v]

LEMMA StatementContinues ==
  ASSUME IndInv, NEW w \in Worker,
         \/ MarkProcessing(w) \/ ReadPayload(w) \/ EnqueueGrading(w)
         \/ CheckUpload(w) \/ LockAttempt(w) \/ CheckOther(w)
         \/ InsertAttempt(w) \/ UpdateAttempt(w)
  PROVE  Continues(w)
<1>1. TypeOK
  BY DEF IndInv
<1>2. CASE MarkProcessing(w) \/ ReadPayload(w) \/ EnqueueGrading(w)
  BY <1>1, <1>2 DEF Continues, MarkProcessing, ReadPayload, EnqueueGrading, TypeOK, RunType
<1>3. CASE CheckUpload(w) \/ LockAttempt(w) \/ CheckOther(w)
  <2>1. jobs' = jobs /\ run[w].pc # "idle"
    BY <1>3 DEF CheckUpload, LockAttempt, CheckOther
  <2>2. \/ \E pc \in InTransaction : NextStatement(w, pc)
        \/ \E verdict \in Verdict, grade \in BOOLEAN : EndTx(w, verdict, grade)
    BY <1>3 DEF CheckUpload, LockAttempt, CheckOther, Verdict, InTransaction
  <2>3. QED
    BY <1>1, <2>1, <2>2, NextStatementRuns, EndTxRun DEF Continues
<1>4. CASE InsertAttempt(w) \/ UpdateAttempt(w)
  BY <1>1, <1>4, EndTxRun DEF Continues, InsertAttempt, UpdateAttempt
<1>5. QED
  BY <1>2, <1>3, <1>4

LEMMA StepJobs ==
  ASSUME IndInv, [Next]_vars
  PROVE  \/ UNCHANGED <<jobs, run>>
         \/ \E h \in Http : EnqueueIngest(h) \/ RequeueBatch(h)
         \/ \E w \in Worker, j \in JobId : SkipProcessed(w, j) \/ StartIngest(w, j)
         \/ \E w \in Worker :
              /\ run[w].pc # "idle" /\ run' = [run EXCEPT ![w] = IdleRun]
              /\ \/ FinishBatch(w) \/ PayloadUnreadable(w)
                 \/ Queue!Throw(w, run[w].job) \/ jobs' = jobs
         \/ \E j \in JobId : RecoverStalled(j) \/ LoseLock(j)
         \/ \E w \in Worker : Continues(w)
<1>0. TypeOK
  BY DEF IndInv
<1>1. \/ UNCHANGED <<jobs, run>>
      \/ \E h \in Http : EnqueueIngest(h) \/ RequeueBatch(h)
      \/ \E w \in Worker, j \in JobId : SkipProcessed(w, j) \/ StartIngest(w, j)
      \/ \E w \in Worker :
           /\ run[w].pc # "idle" /\ run' = [run EXCEPT ![w] = IdleRun]
           /\ \/ FinishBatch(w) \/ PayloadUnreadable(w)
              \/ Queue!Throw(w, run[w].job) \/ jobs' = jobs
      \/ \E j \in JobId : RecoverStalled(j) \/ LoseLock(j)
      \/ \E w \in Worker : MarkProcessing(w) \/ ReadPayload(w) \/ EnqueueGrading(w)
      \/ \E w \in Worker : CheckUpload(w) \/ LockAttempt(w) \/ CheckOther(w)
      \/ \E w \in Worker : InsertAttempt(w) \/ UpdateAttempt(w)
  BY DEF Next, vars, storeVars, requestVars, RequestStep, RunStep, TakeJob, PostKnown, PostNew,
         PutPayload, InsertBatch, ReprocessBatch, HttpFails, PayloadUnreadable, InsertConflict,
         Rethrow, FinishBatch, WorkerThrows, WorkerCrash, GradeAttempt, DeleteAttempt,
         AddParticipant, RemoveParticipant
<1>2. QED
  BY <1>1, StatementContinues

LEMMA RequestMoves ==
  ASSUME IndInv, [Next]_vars, NEW h \in Http
  PROVE  /\ reprocesses' \in {reprocesses, reprocesses + 1}
         /\ \/ http'[h] = http[h]
            \/ http'[h].pc = "idle"
            \/ /\ http[h].pc = "idle" /\ http'[h].pc = "put"
               /\ \E b \in Batch : http'[h].job = <<b, 0>> /\ batches[b] = None
            \/ /\ http[h].pc = "put" /\ http'[h].pc = "insert"
               /\ http'[h].job = http[h].job
            \/ /\ http[h].pc = "insert" /\ http'[h].pc = "enqueue"
               /\ http'[h].job = http[h].job /\ jobs' = jobs
               /\ batches[BatchOf(http[h].job)] = None
               /\ \A g \in Http \ {h} : http'[g] = http[g]
            \/ /\ http[h].pc = "idle" /\ http'[h].pc = "requeue" /\ jobs' = jobs
               /\ reprocesses' = reprocesses + 1 /\ reprocesses < MaxReprocess
               /\ \E b \in Batch : http'[h].job = <<b, reprocesses + 1>>
               /\ \A g \in Http \ {h} : http'[g] = http[g]
<1>0. http \in [Http -> RequestType]
  BY DEF IndInv, TypeOK
<1>1. CASE UNCHANGED <<http, reprocesses>>
  BY <1>1
<1>2. CASE \E g \in Http, s \in Site, b \in Batch : PostNew(g, s, b)
  BY <1>0, <1>2 DEF PostNew, IdleRequest
<1>3. CASE \E g \in Http : PutPayload(g) \/ InsertBatch(g)
  <2>1. CASE \E g \in Http : PutPayload(g)
    BY <1>0, <2>1 DEF PutPayload, RequestType
  <2>2. CASE \E g \in Http : InsertBatch(g)
    <3> PICK g \in Http : InsertBatch(g)
      BY <2>2
    <3>1. /\ http[g].pc = "insert" /\ jobs' = jobs /\ reprocesses' = reprocesses
          /\ \/ /\ batches[BatchOf(http[g].job)] = None
                /\ http' = [http EXCEPT ![g].pc = "enqueue"]
             \/ http' = [http EXCEPT ![g] = IdleRequest]
      BY DEF InsertBatch
    <3>2. QED
      BY <1>0, <3>1 DEF RequestType, IdleRequest
  <2>3. QED
    BY <1>3, <2>1, <2>2
<1>4. CASE \E g \in Http : EnqueueIngest(g) \/ RequeueBatch(g)
  BY <1>0, <1>4 DEF EnqueueIngest, RequeueBatch, IdleRequest
<1>5. CASE \E g \in Http, b \in Batch : ReprocessBatch(g, b)
  BY <1>0, <1>5 DEF ReprocessBatch, IdleRequest
<1>6. CASE \E g \in Http : HttpFails(g)
  BY <1>0, <1>6 DEF HttpFails, IdleRequest
<1>7. QED
  BY <1>1, <1>2, <1>3, <1>4, <1>5, <1>6, StepRequests
-----------------------------------------------------------------------------
(* Jobs are numbered, and owned by the slots that execute them.            *)

\* What happens to the state of one job.
LEMMA JobMoves ==
  ASSUME IndInv, [Next]_vars, NEW j \in JobId
  PROVE  \/ jobs'[j] = jobs[j]
         \/ /\ jobs[j].state = "none" /\ jobs'[j].state = "waiting"
            /\ \E h \in Http : /\ EnqueueIngest(h) \/ RequeueBatch(h)
                               /\ j = http[h].job
         \/ \E w \in Worker : SkipProcessed(w, j) /\ jobs'[j].state = "completed"
         \/ /\ jobs[j].state = "waiting" /\ jobs'[j].state = "active"
            /\ \E w \in Worker : StartIngest(w, j) /\ jobs'[j].owner = w
         \/ /\ jobs[j].state = "active"
            /\ \E w \in Worker :
                 /\ run[w].pc # "idle" /\ run[w].job = j /\ Queue!Owns(w, j)
                 /\ run' = [run EXCEPT ![w] = IdleRun]
                 /\ \/ FinishBatch(w) \/ PayloadUnreadable(w)
                    \/ jobs'[j].state \in {"waiting", "failed"}
         \/ /\ jobs[j].state = "active" /\ jobs'[j].state \in {"waiting", "failed"}
            /\ RecoverStalled(j) \/ LoseLock(j)
<1>0. jobs \in [JobId -> Queue!Job]
  BY DEF IndInv, TypeOK
<1>1. CASE UNCHANGED <<jobs, run>> \/ \E w \in Worker : Continues(w)
  BY <1>1 DEF Continues
<1>2. CASE \E h \in Http : EnqueueIngest(h) \/ RequeueBatch(h)
  <2> PICK h \in Http : EnqueueIngest(h) \/ RequeueBatch(h)
    BY <1>2
  <2>1. jobs' = [jobs EXCEPT ![http[h].job].state = IF @ = "none" THEN "waiting" ELSE @]
    BY DEF EnqueueIngest, RequeueBatch, Queue!Add
  <2>2. CASE j # http[h].job
    BY <1>0, <2>1, <2>2
  <2>3. CASE j = http[h].job
    <3>1. jobs'[j] = [jobs[j] EXCEPT !.state = IF @ = "none" THEN "waiting" ELSE @]
      BY <1>0, <2>1, <2>3
    <3>2. QED
      BY <1>0, <2>3, <3>1 DEF Queue!Job
  <2>4. QED
    BY <2>2, <2>3
<1>3. CASE \E w \in Worker, i \in JobId : SkipProcessed(w, i)
  BY <1>0, <1>3 DEF SkipProcessed, Queue!Job
<1>4. CASE \E w \in Worker, i \in JobId : StartIngest(w, i)
  <2> PICK w \in Worker, i \in JobId : StartIngest(w, i)
    BY <1>4
  <2>1. /\ jobs[i].state = "waiting"
        /\ jobs' = [jobs EXCEPT ![i].state = "active", ![i].owner = w]
    BY DEF StartIngest, Queue!Take
  <2>2. CASE j # i
    BY <1>0, <2>1, <2>2
  <2>3. CASE j = i
    <3>1. jobs'[j] = [jobs[j] EXCEPT !.state = "active", !.owner = w]
      BY <1>0, <2>1, <2>3
    <3>2. QED
      BY <1>0, <2>1, <2>3, <3>1 DEF Queue!Job
  <2>4. QED
    BY <2>2, <2>3
<1>5. ASSUME NEW w \in Worker, run[w].pc # "idle", run' = [run EXCEPT ![w] = IdleRun],
             \/ FinishBatch(w) \/ PayloadUnreadable(w)
             \/ Queue!Throw(w, run[w].job) \/ jobs' = jobs
      PROVE  \/ jobs'[j] = jobs[j]
             \/ /\ jobs[j].state = "active" /\ run[w].job = j /\ Queue!Owns(w, j)
                /\ \/ FinishBatch(w) \/ PayloadUnreadable(w)
                   \/ jobs'[j].state \in {"waiting", "failed"}
  BY <1>0, <1>5 DEF FinishBatch, PayloadUnreadable, Queue!Complete, Queue!Throw, Queue!Owns, Queue!Job
<1>6. CASE \E i \in JobId : RecoverStalled(i) \/ LoseLock(i)
  <2> PICK i \in JobId : RecoverStalled(i) \/ LoseLock(i)
    BY <1>6
  <2>1. /\ jobs[i].state = "active"
        /\ \E state \in {"waiting", "failed"} : \E stalls :
             jobs' = [jobs EXCEPT ![i].state = state, ![i].stalls = stalls, ![i].owner = None]
    BY DEF RecoverStalled, LoseLock, Queue!Stall
  <2>2. CASE j # i
    BY <1>0, <2>1, <2>2
  <2>3. CASE j = i
    <3>1. \E state \in {"waiting", "failed"} : \E stalls :
            jobs'[j] = [jobs[j] EXCEPT !.state = state, !.stalls = stalls, !.owner = None]
      BY <1>0, <2>1, <2>3
    <3>2. jobs'[j].state \in {"waiting", "failed"}
      BY <1>0, <3>1 DEF Queue!Job
    <3>3. QED
      BY <2>1, <2>3, <3>2
  <2>4. QED
    BY <2>2, <2>3
<1>7. QED
  BY <1>1, <1>2, <1>3, <1>4, <1>5, <1>6, StepJobs

LEMMA NumberingStep ==
  ASSUME IndInv, OwnershipInv, [Next]_vars
  PROVE  (\A h \in Http : RequestIsNumbered(h)') /\ JobsAreNumbered'
<1>0. /\ TypeOK /\ reprocesses \in Nat /\ \A h \in Http : RequestInOrder(h)
      /\ jobs \in [JobId -> Queue!Job]
  BY DEF IndInv, TypeOK
<1>1. ASSUME NEW h \in Http PROVE RequestIsNumbered(h)'
  <2> SUFFICES ASSUME http'[h].pc # "idle"
               PROVE  NumberOf(http'[h].job) <= reprocesses'
    BY DEF RequestIsNumbered, NumberOf
  <2>1. reprocesses' \in {reprocesses, reprocesses + 1}
    BY RequestMoves
  <2>2. CASE http[h].pc # "idle" /\ http'[h].job = http[h].job
    <3>1. NumberOf(http[h].job) \in Nat /\ NumberOf(http[h].job) <= reprocesses
      BY <1>0, <2>2 DEF OwnershipInv, RequestIsNumbered, RequestInOrder, JobId, NumberOf
    <3>2. QED
      BY <1>0, <2>1, <2>2, <3>1
  <2>3. CASE \E b \in Batch : http'[h].job = <<b, 0>>
    BY <1>0, <2>1, <2>3 DEF NumberOf
  <2>4. CASE /\ reprocesses' = reprocesses + 1
             /\ \E b \in Batch : http'[h].job = <<b, reprocesses + 1>>
    BY <1>0, <2>4 DEF NumberOf
  <2>5. CASE http'[h] = http[h]
    BY <2>2, <2>5
  <2>6. QED
    BY <2>2, <2>3, <2>4, <2>5, RequestMoves
<1>2. reprocesses' \in {reprocesses, reprocesses + 1}
  BY StepRequests DEF PostNew, PutPayload, InsertBatch, EnqueueIngest, RequeueBatch,
                      ReprocessBatch, HttpFails
<1>3. JobsAreNumbered'
  <2> SUFFICES ASSUME NEW j \in JobId, jobs'[j].state # "none"
               PROVE  NumberOf(j) <= reprocesses'
    BY DEF JobsAreNumbered, NumberOf
  <2>1. NumberOf(j) \in Nat
    BY ConstantsAssumption DEF JobId, NumberOf
  <2>2. CASE jobs[j].state # "none"
    <3>1. NumberOf(j) <= reprocesses
      BY <2>2 DEF OwnershipInv, JobsAreNumbered
    <3>2. QED
      BY <1>0, <1>2, <2>1, <3>1
  <2>3. CASE jobs[j].state = "none"
    <3>1. PICK h \in Http : /\ http[h].pc # "idle" /\ j = http[h].job
      BY <2>3, JobMoves DEF EnqueueIngest, RequeueBatch, SkipProcessed
    <3>2. QED
      BY <1>0, <1>2, <2>1, <3>1 DEF OwnershipInv, RequestIsNumbered
  <2>4. QED
    BY <2>2, <2>3
<1>4. QED
  BY <1>1, <1>3

\* A run that is under way was under way with the same job, or has just begun.
LEMMA RunMoves ==
  ASSUME IndInv, [Next]_vars, NEW w \in Worker, run'[w].pc # "idle"
  PROVE  \/ run[w].pc # "idle" /\ run'[w].job = run[w].job
         \/ /\ run[w].pc = "idle" /\ run'[w].pc = "begin" /\ run'[w].outcomes = <<>>
            /\ StartIngest(w, run'[w].job) /\ run'[w].job \in JobId
<1>0. run \in [Worker -> RunType]
  BY DEF IndInv, TypeOK
<1>1. CASE UNCHANGED <<jobs, run>> \/ \E v \in Worker : Continues(v)
  BY <1>1 DEF Continues
<1>2. CASE \E v \in Worker, i \in JobId : StartIngest(v, i)
  <2> PICK v \in Worker, i \in JobId : StartIngest(v, i)
    BY <1>2
  <2>1. /\ run[v].pc = "idle"
        /\ run' = [run EXCEPT ![v] =
             [pc |-> "begin", job |-> i, outcomes |-> <<>>, toGrade |-> <<>>]]
    BY DEF StartIngest, IdleRun
  <2>2. CASE v = w
    <3>1. /\ run'[w].pc = "begin" /\ run'[w].job = i /\ run'[w].outcomes = <<>>
      BY <1>0, <2>1, <2>2
    <3>2. QED
      BY <2>1, <2>2, <3>1
  <2>3. CASE v # w
    BY <1>0, <2>1, <2>3
  <2>4. QED
    BY <2>2, <2>3
<1>3. CASE \E v \in Worker : run[v].pc # "idle" /\ run' = [run EXCEPT ![v] = IdleRun]
  BY <1>0, <1>3 DEF IdleRun
<1>4. CASE run' = run
  BY <1>4
<1>5. QED
  BY <1>1, <1>2, <1>3, <1>4, StepJobs
  DEF EnqueueIngest, RequeueBatch, SkipProcessed, RecoverStalled, LoseLock

LEMMA OwnershipStep ==
  ASSUME IndInv, OwnershipInv, [Next]_vars, "stall" \notin Environment, NEW w \in Worker
  PROVE  RunOwnsJob(w)'
<1> SUFFICES ASSUME run'[w].pc # "idle"
             PROVE  jobs'[run'[w].job].state = "active" /\ jobs'[run'[w].job].owner = w
  BY DEF RunOwnsJob, Queue!Owns
<1>0. run \in [Worker -> RunType] /\ jobs \in [JobId -> Queue!Job]
  BY DEF IndInv, TypeOK
<1>1. CASE run[w].pc # "idle" /\ run'[w].job = run[w].job
  <2> DEFINE j == run[w].job
  <2>1. Queue!Owns(w, j) /\ j \in JobId
    BY <1>1 DEF OwnershipInv, RunOwnsJob, IndInv, RunInOrder
  <2>2. jobs[j].state = "active" /\ jobs[j].owner = w
    BY <2>1 DEF Queue!Owns
  <2>3. ~\E v \in Worker : SkipProcessed(v, j)
    BY <2>2 DEF SkipProcessed
  <2>4. ~(RecoverStalled(j) \/ LoseLock(j))
    BY <2>1 DEF RecoverStalled, LoseLock, Alive, Fault
  <2>5. ~\E v \in Worker : Queue!Owns(v, j) /\ run' = [run EXCEPT ![v] = IdleRun]
    BY <1>0, <2>2 DEF Queue!Owns, IdleRun
  <2>6. jobs'[j] = jobs[j]
    BY <2>1, <2>2, <2>3, <2>4, <2>5, JobMoves
  <2>7. QED
    BY <1>1, <2>2, <2>6
<1>2. ASSUME NEW i \in JobId, StartIngest(w, i), run'[w].job = i
      PROVE  jobs'[i].state = "active" /\ jobs'[i].owner = w
  <2>1. jobs'[i] = [jobs[i] EXCEPT !.state = "active", !.owner = w]
    BY <1>0, <1>2 DEF StartIngest, Queue!Take
  <2>2. QED
    BY <1>0, <2>1 DEF Queue!Job
<1>3. QED
  BY <1>1, <1>2, RunMoves

LEMMA OwnershipInit == Init => OwnershipInv
BY ConstantsAssumption
   DEF Init, OwnershipInv, RequestIsNumbered, JobsAreNumbered, RunOwnsJob, IdleRequest, IdleRun,
       Queue!Init, Queue!NotAdded

LEMMA OwnershipInvariant == Spec => []OwnershipInv
<1>1. IndInv /\ OwnershipInv /\ [Next]_vars => OwnershipInv'
  BY NumberingStep, OwnershipStep DEF OwnershipInv
<1>2. QED
  BY <1>1, OwnershipInit, Invariance, PTL DEF Spec
-----------------------------------------------------------------------------
(* No recorded batch is forgotten.                                         *)

LEMMA FreshStep ==
  ASSUME IndInv, OwnershipInv, DeliveryInv, [Next]_vars, NEW h \in Http
  PROVE  RequestIsFresh(h)'
<1> DEFINE queueing == {"enqueue", "requeue"}
<1>0. /\ reprocesses \in Nat /\ JobsHaveBatch /\ jobs \in [JobId -> Queue!Job]
      /\ \A g \in Http : RequestInOrder(g) /\ RequestIsFresh(g) /\ RequestIsNumbered(g)
      /\ \A g \in Http : http[g].pc # "idle" => /\ http[g].job \in JobId
                                                /\ NumberOf(http[g].job) \in Nat
                                                /\ NumberOf(http[g].job) <= reprocesses
  BY DEF IndInv, TypeOK, OwnershipInv, DeliveryInv, RequestInOrder, JobId, NumberOf,
         RequestIsNumbered
<1>1. /\ http'[h].pc \in {"put", "insert", "enqueue"} => NumberOf(http'[h].job) = 0
      /\ http'[h].pc = "requeue" => NumberOf(http'[h].job) > 0
  <2>1. CASE http'[h] = http[h]
    BY <1>0, <2>1 DEF RequestIsFresh
  <2>2. QED
    BY <1>0, <2>1, RequestMoves DEF RequestIsFresh, NumberOf
\* A request that is about to queue a job had it before, or has just got a new one.
<1>2. ASSUME NEW g \in Http, http'[g].pc \in queueing
      PROVE  \/ /\ http'[g] = http[g] /\ http[g].pc \in queueing
             \/ /\ jobs' = jobs /\ http'[g].job \in JobId
                /\ jobs[http'[g].job].state = "none"
                /\ \A f \in Http \ {g} :
                     http'[f] = http[f] /\ (http[f].pc \in queueing => http[f].job # http'[g].job)
  <2>1. CASE /\ http[g].pc = "insert" /\ http'[g].job = http[g].job /\ jobs' = jobs
             /\ batches[BatchOf(http[g].job)] = None
             /\ \A f \in Http \ {g} : http'[f] = http[f]
    BY <1>0, <2>1 DEF JobsHaveBatch, RequestInOrder
  <2>2. CASE /\ jobs' = jobs /\ reprocesses < MaxReprocess
             /\ \E b \in Batch : http'[g].job = <<b, reprocesses + 1>>
             /\ \A f \in Http \ {g} : http'[f] = http[f]
    <3>1. PICK b \in Batch : http'[g].job = <<b, reprocesses + 1>>
      BY <2>2
    <3>2. http'[g].job \in JobId /\ NumberOf(http'[g].job) = reprocesses + 1
      BY <1>0, <2>2, <3>1, ConstantsAssumption DEF JobId, NumberOf
    <3>3. ~(NumberOf(http'[g].job) <= reprocesses)
      BY <1>0, <3>2
    <3>4. jobs[http'[g].job].state = "none"
      BY <3>2, <3>3 DEF OwnershipInv, JobsAreNumbered
    <3>5. QED
      BY <1>0, <2>2, <3>2, <3>3, <3>4
  <2>3. QED
    BY <1>2, <2>1, <2>2, RequestMoves
<1>3. ASSUME http'[h].pc \in queueing PROVE jobs'[http'[h].job].state = "none"
  <2>1. CASE http'[h] = http[h] /\ http[h].pc \in queueing
    <3> DEFINE j == http[h].job
    <3>1. j \in JobId /\ jobs[j].state = "none"
      BY <1>0, <2>1 DEF RequestIsFresh
    <3>2. ~\E g \in Http : (EnqueueIngest(g) \/ RequeueBatch(g)) /\ j = http[g].job
      <4> SUFFICES ASSUME NEW g \in Http, EnqueueIngest(g) \/ RequeueBatch(g), j = http[g].job
                   PROVE  FALSE
        OBVIOUS
      <4>1. http[g].pc \in queueing /\ http' = [http EXCEPT ![g] = IdleRequest]
        BY DEF EnqueueIngest, RequeueBatch
      <4>2. g = h
        BY <1>0, <2>1, <4>1 DEF RequestIsFresh
      <4>3. QED
        BY <2>1, <4>1, <4>2 DEF IdleRequest, IndInv, TypeOK
    <3>3. ~\E w \in Worker : SkipProcessed(w, j)
      BY <3>1 DEF SkipProcessed
    <3>4. jobs'[j] = jobs[j]
      BY <3>1, <3>2, <3>3, JobMoves
    <3>5. QED
      BY <2>1, <3>1, <3>4
  <2>2. QED
    BY <1>2, <1>3, <2>1
<1>4. ASSUME http'[h].pc \in queueing, NEW g \in Http, http'[g].pc \in queueing,
             http'[g].job = http'[h].job
      PROVE  g = h
  <2>1. CASE http'[g] = http[g] /\ http[g].pc \in queueing /\ http'[h] = http[h]
    BY <1>0, <1>4, <2>1 DEF RequestIsFresh
  <2>2. QED
    BY <1>2, <1>4, <2>1
<1>5. QED
  BY <1>1, <1>3, <1>4 DEF RequestIsFresh, NumberOf

\* What happens to the status of a batch.
LEMMA StatusMoves ==
  ASSUME IndInv, [Next]_vars, NEW b \in Batch, batches[b] # None
  PROVE  \/ batches'[b].status = batches[b].status
         \/ \E h \in Http : ReprocessBatch(h, b)
         \/ \E w \in Worker : MarkProcessing(w) /\ BatchOf(run[w].job) = b
         \/ \E w \in Worker : /\ PayloadUnreadable(w) /\ BatchOf(run[w].job) = b
                             /\ batches'[b].status = "failed"
         \/ \E w \in Worker : /\ FinishBatch(w) /\ BatchOf(run[w].job) = b
                             /\ batches'[b].status = "processed"
<1>0. batches \in [Batch -> BatchRow \cup {None}] /\ batches[b] \in BatchRow
  BY DEF IndInv, TypeOK
<1>1. CASE batches' = batches
  BY <1>1
<1>2. CASE \E h \in Http : InsertBatch(h)
  BY <1>0, <1>2 DEF InsertBatch
<1>3. CASE \E h \in Http, c \in Batch : ReprocessBatch(h, c)
  BY <1>0, <1>3 DEF ReprocessBatch
<1>4. CASE \E w \in Worker : MarkProcessing(w)
  BY <1>0, <1>4 DEF MarkProcessing
<1>5. CASE \E w \in Worker : PayloadUnreadable(w)
  <2> PICK w \in Worker : PayloadUnreadable(w)
    BY <1>5
  <2>1. batches' = [batches EXCEPT ![BatchOf(run[w].job)].status = "failed"]
    BY DEF PayloadUnreadable
  <2>2. CASE b = BatchOf(run[w].job)
    BY <1>0, <2>1, <2>2 DEF BatchRow
  <2>3. CASE b # BatchOf(run[w].job)
    BY <1>0, <2>1, <2>3
  <2>4. QED
    BY <2>2, <2>3
<1>6. CASE \E w \in Worker : FinishBatch(w)
  <2> PICK w \in Worker : FinishBatch(w)
    BY <1>6
  <2>1. batches' = [batches EXCEPT ![BatchOf(run[w].job)].status = "processed",
                                   ![BatchOf(run[w].job)].outcomes = run[w].outcomes]
    BY DEF FinishBatch
  <2>2. CASE b = BatchOf(run[w].job)
    BY <1>0, <2>1, <2>2 DEF BatchRow
  <2>3. CASE b # BatchOf(run[w].job)
    BY <1>0, <2>1, <2>3
  <2>4. QED
    BY <2>2, <2>3
<1>7. QED
  BY <1>1, <1>2, <1>3, <1>4, <1>5, <1>6, StepBatches

LEMMA UnsettledStep ==
  ASSUME IndInv, OwnershipInv, DeliveryInv, [Next]_vars,
         "stall" \notin Environment, "crash-http" \notin Environment,
         NEW b \in Batch
  PROVE  UnsettledHasJob(b)'
<1> DEFINE open == {"received", "processing"}
<1> SUFFICES ASSUME batches'[b] # None, batches'[b].status \in open
             PROVE  HasJob(b)'
  BY DEF UnsettledHasJob
<1>0. /\ http \in [Http -> RequestType] /\ jobs \in [JobId -> Queue!Job]
      /\ \A k \in 0..MaxReprocess : <<b, k>> \in JobId
  BY DEF IndInv, TypeOK, JobId
<1>1. ASSUME NEW k \in 0..MaxReprocess, jobs'[<<b, k>>].state \in {"waiting", "active", "failed"}
      PROVE  HasJob(b)'
  BY <1>1 DEF HasJob, JobPending, JobFailed, Queue!Unfinished
<1>2. ASSUME NEW h \in Http, http'[h].pc \in {"enqueue", "requeue"}, BatchOf(http'[h].job) = b
      PROVE  HasJob(b)'
  BY <1>2 DEF HasJob, RequestPending, BatchOf
<1>3. CASE batches[b] = None
  <2>1. PICK h \in Http : InsertBatch(h) /\ BatchOf(http[h].job) = b
    BY <1>3, BatchesStep
  <2>2. http' = [http EXCEPT ![h].pc = "enqueue"]
    BY <1>3, <2>1 DEF InsertBatch
  <2>3. http'[h].pc = "enqueue" /\ http'[h].job = http[h].job
    BY <1>0, <2>2 DEF RequestType
  <2>4. QED
    BY <1>2, <2>1, <2>3
<1>4. CASE \E h \in Http : ReprocessBatch(h, b)
  BY <1>0, <1>2, <1>4 DEF ReprocessBatch, BatchOf
<1>5. CASE \E w \in Worker : MarkProcessing(w) /\ BatchOf(run[w].job) = b
  <2> PICK w \in Worker : MarkProcessing(w) /\ BatchOf(run[w].job) = b
    BY <1>5
  <2>1. Queue!Owns(w, run[w].job) /\ run[w].job \in JobId /\ jobs' = jobs
    BY DEF MarkProcessing, OwnershipInv, RunOwnsJob, IndInv, RunInOrder
  <2>2. \E k \in 0..MaxReprocess : run[w].job = <<b, k>>
    BY <2>1 DEF JobId, BatchOf
  <2>3. QED
    BY <1>1, <2>1, <2>2 DEF Queue!Owns
<1>6. CASE batches[b] # None /\ batches'[b].status = batches[b].status
  <2>1. HasJob(b)
    BY <1>6 DEF DeliveryInv, UnsettledHasJob
  <2>2. CASE RequestPending(b)
    <3> PICK h \in Http : http[h].pc \in {"enqueue", "requeue"} /\ BatchOf(http[h].job) = b
      BY <2>2 DEF RequestPending
    <3>1. CASE http'[h] = http[h]
      BY <1>2, <3>1
    <3>2. CASE EnqueueIngest(h) \/ RequeueBatch(h)
      <4> DEFINE j == http[h].job
      <4>1. j \in JobId /\ jobs[j].state = "none"
        BY DEF DeliveryInv, RequestIsFresh, IndInv, RequestInOrder
      <4>2. jobs' = [jobs EXCEPT ![j].state = IF @ = "none" THEN "waiting" ELSE @]
        BY <3>2 DEF EnqueueIngest, RequeueBatch, Queue!Add
      <4>3. jobs'[j] = [jobs[j] EXCEPT !.state = "waiting"]
        BY <1>0, <4>1, <4>2
      <4>4. jobs'[j].state = "waiting"
        BY <1>0, <4>1, <4>3 DEF Queue!Job
      <4>5. \E k \in 0..MaxReprocess : j = <<b, k>>
        BY <4>1 DEF JobId, BatchOf
      <4>6. QED
        BY <1>1, <4>4, <4>5
    <3>3. http'[h] = http[h] \/ EnqueueIngest(h) \/ RequeueBatch(h)
      <4>1. ~\E g \in Http : HttpFails(g)
        BY DEF HttpFails, Fault
      <4>2. CASE \E g \in Http, s \in Site, c \in Batch : PostNew(g, s, c)
        BY <1>0, <4>2 DEF PostNew, IdleRequest
      <4>3. CASE \E g \in Http : PutPayload(g)
        BY <1>0, <4>3 DEF PutPayload
      <4>4. CASE \E g \in Http : InsertBatch(g)
        BY <1>0, <4>4 DEF InsertBatch
      <4>5. CASE \E g \in Http : EnqueueIngest(g) \/ RequeueBatch(g)
        BY <1>0, <4>5 DEF EnqueueIngest, RequeueBatch
      <4>6. CASE \E g \in Http, c \in Batch : ReprocessBatch(g, c)
        BY <1>0, <4>6 DEF ReprocessBatch, IdleRequest
      <4>7. QED
        BY <4>1, <4>2, <4>3, <4>4, <4>5, <4>6, StepRequests
    <3>4. QED
      BY <3>1, <3>2, <3>3
  <2>3. CASE JobPending(b) \/ JobFailed(b)
    <3>1. PICK k \in 0..MaxReprocess : jobs[<<b, k>>].state \in {"waiting", "active", "failed"}
      BY <2>3 DEF JobPending, JobFailed, Queue!Unfinished
    <3> DEFINE j == <<b, k>>
    <3>2. BatchOf(j) = b /\ j \in JobId
      BY <1>0 DEF BatchOf
    <3>3. ~\E w \in Worker : SkipProcessed(w, j)
      BY <1>6, <3>2 DEF SkipProcessed
    <3>4. ~\E w \in Worker : run[w].job = j /\ (FinishBatch(w) \/ PayloadUnreadable(w))
      <4> SUFFICES ASSUME NEW w \in Worker, run[w].job = j, FinishBatch(w) \/ PayloadUnreadable(w)
                   PROVE  FALSE
        OBVIOUS
      <4>1. batches \in [Batch -> BatchRow \cup {None}] /\ batches[b] \in BatchRow
        BY <1>6 DEF IndInv, TypeOK
      <4>2. \/ batches' = [batches EXCEPT ![b].status = "failed"]
            \/ batches' = [batches EXCEPT ![b].status = "processed", ![b].outcomes = run[w].outcomes]
        BY <3>2 DEF FinishBatch, PayloadUnreadable
      <4>3. batches'[b].status \in {"failed", "processed"}
        BY <4>1, <4>2 DEF BatchRow
      <4>4. QED
        BY <4>3
    <3>5. jobs'[j].state \in {"waiting", "active", "failed"}
      BY <3>1, <3>2, <3>3, <3>4, JobMoves
    <3>6. QED
      BY <1>1, <3>5
  <2>4. QED
    BY <2>1, <2>2, <2>3 DEF HasJob
<1>7. QED
  BY <1>3, <1>4, <1>5, <1>6, StatusMoves

\* A batch that a site was told is received, and that is not processed or failed yet, has
\* a request about to queue it, a job, or a job that used up its attempts.  Whatever
\* workers, calls and storage do, it is not forgotten, unless the API dies between the
\* insert of the batch and the enqueue ("crash-http", which BatchSettles of the run
\* ResultsIngest_lost shows) or a job runs twice at once ("stall").
THEOREM BatchesAreNotForgotten ==
  ASSUME "crash-http" \notin Environment, "stall" \notin Environment
  PROVE  Spec => []NoBatchStranded
<1>1. Init => DeliveryInv
  BY DEF Init, DeliveryInv, RequestIsFresh, UnsettledHasJob, IdleRequest
<1>2. IndInv /\ OwnershipInv /\ DeliveryInv /\ [Next]_vars => DeliveryInv'
  BY FreshStep, UnsettledStep DEF DeliveryInv
<1>3. DeliveryInv => NoBatchStranded
  BY DEF DeliveryInv, UnsettledHasJob, HasJob, NoBatchStranded
<1>4. QED
  BY <1>1, <1>2, <1>3, Invariance, OwnershipInvariant, PTL DEF Spec
-----------------------------------------------------------------------------
(* No finished attempt misses the grader.                                  *)

\* Where no job runs twice and no batch is reprocessed, a batch has one run.
\* The run of a batch has its first job.
LEMMA RunHasJob ==
  ASSUME IndInv, OwnershipInv, "stall" \notin Environment, reprocesses = 0,
         NEW w \in Worker, run[w].pc # "idle"
  PROVE  /\ run[w].job = <<BatchOf(run[w].job), 0>>
         /\ jobs[<<BatchOf(run[w].job), 0>>].state = "active"
<1>1. run[w].job \in JobId /\ Queue!Owns(w, run[w].job)
  BY DEF OwnershipInv, RunOwnsJob, IndInv, RunInOrder
<1>2. NumberOf(run[w].job) <= 0
  BY <1>1 DEF OwnershipInv, JobsAreNumbered, Queue!Owns
<1>3. NumberOf(run[w].job) \in Nat
  BY <1>1, ConstantsAssumption DEF JobId, NumberOf
<1>4. NumberOf(run[w].job) = 0
  BY <1>2, <1>3
<1>5. QED
  BY <1>1, <1>4 DEF JobId, NumberOf, BatchOf, Queue!Owns

LEMMA OneRunPerBatch ==
  ASSUME IndInv, OwnershipInv, "stall" \notin Environment, reprocesses = 0,
         NEW v \in Worker, NEW w \in Worker, run[v].pc # "idle", run[w].pc # "idle",
         BatchOf(run[v].job) = BatchOf(run[w].job)
  PROVE  v = w
<1>1. ASSUME NEW x \in Worker, run[x].pc # "idle"
      PROVE  /\ run[x].job \in JobId /\ Queue!Owns(x, run[x].job)
             /\ NumberOf(run[x].job) = 0
  <2>1. run[x].job \in JobId /\ Queue!Owns(x, run[x].job)
    BY <1>1 DEF OwnershipInv, RunOwnsJob, IndInv, RunInOrder
  <2>2. NumberOf(run[x].job) <= 0
    BY <2>1 DEF OwnershipInv, JobsAreNumbered, Queue!Owns
  <2>3. NumberOf(run[x].job) \in Nat
    BY <2>1, ConstantsAssumption DEF JobId, NumberOf
  <2>4. QED
    BY <2>1, <2>2, <2>3
<1>2. run[v].job = run[w].job
  BY <1>1 DEF JobId, NumberOf, BatchOf
<1>3. QED
  BY <1>1, <1>2 DEF Queue!Owns

\* A run that finishes has queued the grading of its attempts.
LEMMA FinishedHasQueued ==
  ASSUME IndInv, [Next]_vars, NEW w \in Worker, run'[w].pc = "finish", run'[w] # run[w]
  PROVE  run'[w].toGrade = <<>>
<1>0. TypeOK /\ run \in [Worker -> RunType]
  BY DEF IndInv, TypeOK
<1>1. ASSUME NEW v \in Worker, NEW verdict, NEW grade, EndTx(v, verdict, grade)
      PROVE  run'[w].toGrade = <<>>
  <2>1. v = w
    BY <1>0, <1>1, EndTxRun
  <2> DEFINE toGrade == IF grade THEN Append(run[w].toGrade, CurrentUpload(w).attempt)
                                 ELSE run[w].toGrade
  <2>2. run'[w].toGrade = toGrade
    BY <1>0, <1>1, <2>1, EndTxRun
  <2>3. toGrade # <<>> => run'[w].pc # "finish"
    BY <1>0, <1>1, <2>1 DEF EndTx
  <2>4. QED
    BY <2>2, <2>3
<1>2. CASE \E v \in Worker, j \in JobId : StartIngest(v, j)
  BY <1>0, <1>2 DEF StartIngest
<1>3. CASE \E v \in Worker : run' = [run EXCEPT ![v] = IdleRun]
  BY <1>0, <1>3 DEF IdleRun
<1>4. CASE \E v \in Worker : MarkProcessing(v) \/ ReadPayload(v)
  BY <1>0, <1>4 DEF MarkProcessing, ReadPayload, RunType
<1>5. CASE \E v \in Worker : EnqueueGrading(v)
  <2> PICK v \in Worker : EnqueueGrading(v)
    BY <1>5
  <2> DEFINE q == run[w].toGrade
             pc == IF Len(run[v].toGrade) > 1 THEN "grade" ELSE "finish"
  <2>1. run' = [run EXCEPT ![v].toGrade = Tail(@), ![v].pc = pc] /\ run[v].pc = "grade"
    BY DEF EnqueueGrading
  <2>2. v = w
    BY <1>0, <2>1
  <2>3. q \in Seq(Attempt) /\ q # <<>>
    BY <1>0, <2>1, <2>2 DEF RunType, IndInv, RunInOrder
  <2>4. run'[w].toGrade = Tail(q) /\ run'[w].pc = pc
    BY <1>0, <2>1, <2>2 DEF RunType
  <2>5. /\ Len(q) \in Nat \ {0} /\ Tail(q) \in Seq(Attempt)
        /\ Len(Tail(q)) = Len(q) - 1
    BY <2>3, HeadTailProperties, EmptySeq
  <2>6. Tail(q) = <<>>
    <3>0. Len(q) > 1 => pc = "grade"
      BY <2>2
    <3>1. ~(Len(q) > 1)
      BY <2>4, <3>0
    <3> HIDE DEF q
    <3>2. Len(q) = 1
      BY <2>5, <3>1
    <3>3. Len(Tail(q)) = 0
      BY <2>5, <3>2
    <3>4. QED
      BY <2>5, <3>3, EmptySeq
  <2>7. QED
    BY <2>4, <2>6
<1>6. CASE \E v \in Worker : CheckUpload(v) \/ LockAttempt(v) \/ CheckOther(v)
  <2> PICK v \in Worker : CheckUpload(v) \/ LockAttempt(v) \/ CheckOther(v)
    BY <1>6
  <2>1. ~\E pc \in InTransaction : NextStatement(v, pc)
    BY <1>0, NextStatementRuns DEF InTransaction
  <2>2. \E verdict \in Verdict, grade \in BOOLEAN : EndTx(v, verdict, grade)
    BY <2>1 DEF CheckUpload, LockAttempt, CheckOther, Verdict, InTransaction
  <2>3. QED
    BY <1>1, <2>2
<1>7. CASE \E v \in Worker : InsertAttempt(v) \/ UpdateAttempt(v)
  BY <1>1, <1>7 DEF InsertAttempt, UpdateAttempt
<1>8. QED
  BY <1>2, <1>3, <1>4, <1>5, <1>6, <1>7, StepOfRun

\* What a run that goes on does to the grading of an attempt it did not store, which one
\* of its uploads stored in an earlier run: it has not reached that upload, or it has
\* noted the attempt for the grader.
LEMMA AheadStep ==
  ASSUME IndInv, [Next]_vars, assigned = Seat,
         NEW a \in Attempt, attempts[a] # None,
         NEW b \in Batch, NEW i \in 1..Len(PayloadOf(b)), Matches(a, b, i),
         NEW w \in Worker, run[w].pc # "idle", BatchOf(run[w].job) = b, run'[w].pc # "idle",
         StillAhead(w, i) \/ QueuesGrading(w, a),
         ~((InsertAttempt(w) \/ UpdateAttempt(w)) /\ CurrentUpload(w).attempt = a)
  PROVE  StillAhead(w, i)' \/ QueuesGrading(w, a)' \/ a \in gradeQueue'
<1> DEFINE n == Len(run[w].outcomes) + 1
<1>0. /\ TypeOK /\ run \in [Worker -> RunType] /\ RunInOrder(w)
      /\ run[w].toGrade \in Seq(Attempt) /\ run[w].outcomes \in Seq(Verdict)
      /\ Len(run[w].outcomes) \in Nat /\ i \in Nat /\ Len(PayloadOf(b)) \in Nat
  BY RunType1 DEF IndInv, TypeOK, RunType
<1>1. ASSUME run'[w].outcomes = run[w].outcomes, run'[w].toGrade = run[w].toGrade,
             StillAhead(w, i) => n < i \/ run'[w].pc \notin {"other", "insert"}
      PROVE  StillAhead(w, i)' \/ QueuesGrading(w, a)'
  BY <1>1 DEF StillAhead, QueuesGrading
<1>2. ASSUME NEW verdict \in Verdict, NEW grade, EndTx(w, verdict, grade),
             run[w].pc \in InTransaction,
             CurrentUpload(w).attempt \in Attempt, StillAhead(w, i) => n # i
      PROVE  StillAhead(w, i)' \/ QueuesGrading(w, a)'
  <2> DEFINE q == run[w].toGrade
             c == CurrentUpload(w).attempt
  <2>1. /\ run'[w].outcomes = Append(run[w].outcomes, verdict)
        /\ run'[w].pc \in {"check", "grade", "finish"}
        /\ run'[w].toGrade = IF grade THEN Append(q, c) ELSE q
    BY <1>0, <1>2, EndTxRun
  <2>2. Len(run'[w].outcomes) = n
    BY <1>0, <2>1, AppendProperties
  <2>3. CASE StillAhead(w, i)
    <3>1. n < i
      BY <1>2, <2>3 DEF StillAhead
    <3>2. Len(run'[w].outcomes) + 1 < i \/ Len(run'[w].outcomes) + 1 = i
      BY <1>0, <2>2, <3>1
    <3>3. QED
      BY <2>1, <3>2 DEF StillAhead
  <2>4. CASE QueuesGrading(w, a)
    <3> PICK k \in 1..Len(q) : q[k] = a
      BY <2>4 DEF QueuesGrading
    <3>1. k \in 1..Len(Append(q, c)) /\ Append(q, c)[k] = a
      BY <1>0, <1>2, AppendProperties, LenProperties
    <3>2. QED
      BY <2>1, <3>1 DEF QueuesGrading
  <2>5. QED
    BY <2>3, <2>4
\* The upload that stored the row passes all checks again, and finds the row.
<1>3. ASSUME StillAhead(w, i), n = i, run[w].pc \in InTransaction
      PROVE  /\ CurrentUpload(w) = PayloadOf(b)[i] /\ CurrentUpload(w).attempt = a
             /\ CurrentUpload(w).packageOk
             /\ SiteOf[CurrentUpload(w).seat] = batches[b].site
             /\ CurrentUpload(w).seat \in assigned
             /\ attempts[a].seat = CurrentUpload(w).seat
             /\ ~(CurrentUpload(w).sequence < attempts[a].sequence)
             /\ run[w].pc \in {"check", "lock", "update"}
  <2>1. CurrentUpload(w) = PayloadOf(b)[i] /\ CurrentUpload(w) \in Upload
    BY <1>0, <1>3, CurrentUploadType DEF CurrentUpload
  <2>2. CurrentUpload(w).seat \in Seat /\ CurrentUpload(w).sequence \in Nat
    BY <2>1 DEF Upload
  <2>3. run[w].pc \in {"check", "lock", "update"}
    BY <1>0, <1>3 DEF StillAhead, InTransaction
  <2>4. QED
    BY <2>1, <2>2, <2>3 DEF Matches
<1>4. CASE run'[w] = run[w]
  BY <1>1, <1>4 DEF StillAhead
<1>5. CASE MarkProcessing(w) \/ ReadPayload(w)
  BY <1>0, <1>1, <1>5 DEF MarkProcessing, ReadPayload, RunType
<1>6. CASE EnqueueGrading(w)
  <2> DEFINE q == run[w].toGrade
             pc == IF Len(q) > 1 THEN "grade" ELSE "finish"
  <2>1. /\ run[w].pc = "grade" /\ gradeQueue' = gradeQueue \cup {Head(q)}
        /\ run' = [run EXCEPT ![w].toGrade = Tail(@), ![w].pc = pc]
    BY <1>6 DEF EnqueueGrading
  <2>2. run'[w].toGrade = Tail(q) /\ q # <<>> /\ n = Len(PayloadOf(b)) + 1
    BY <1>0, <2>1 DEF RunType, RunInOrder
  <2>3. QueuesGrading(w, a)
    BY <1>0, <2>2 DEF StillAhead
  <2> PICK k \in 1..Len(q) : q[k] = a
    BY <2>3 DEF QueuesGrading
  <2>4. CASE k = 1
    <3>1. Head(q) = a
      BY <1>0, <2>4
    <3>2. QED
      BY <2>1, <3>1
  <2>5. CASE k # 1
    <3>1. Len(q) \in Nat
      BY <1>0, LenProperties
    <3>2. k - 1 \in 1..Len(Tail(q)) /\ Tail(q)[k - 1] = q[(k - 1) + 1]
      BY <1>0, <2>2, <2>5, <3>1, HeadTailProperties
    <3>3. (k - 1) + 1 = k
      BY <3>1
    <3>4. QED
      BY <2>2, <3>2, <3>3 DEF QueuesGrading
  <2>6. QED
    BY <2>4, <2>5
<1>7. CASE CheckUpload(w)
  <2>1. run[w].pc \in InTransaction /\ run[w].pc = "check"
    BY <1>7 DEF CheckUpload, InTransaction
  <2>2. CASE NextStatement(w, "lock")
    BY <1>0, <1>1, <2>2, NextStatementRuns
  <2>3. CASE EndTx(w, "invalid", FALSE) /\ ~NextStatement(w, "lock")
    <3>1. ~(StillAhead(w, i) /\ n = i)
      BY <1>3, <1>7, <2>1, <2>3 DEF CheckUpload
    <3>2. CurrentUpload(w).attempt \in Attempt
      BY <1>0, <2>1, CurrentUploadType DEF Upload
    <3>3. QED
      BY <1>2, <2>1, <2>3, <3>1, <3>2 DEF Verdict
  <2>4. QED
    BY <1>7, <2>2, <2>3 DEF CheckUpload
<1>8. CASE LockAttempt(w)
  <2>1. run[w].pc \in InTransaction /\ run[w].pc = "lock"
    BY <1>8 DEF LockAttempt, InTransaction
  <2>2. CurrentUpload(w).attempt \in Attempt
    BY <1>0, <2>1, CurrentUploadType DEF Upload
  <2>3. CASE NextStatement(w, "update")
    BY <1>0, <1>1, <2>3, NextStatementRuns
  <2>4. CASE attempts[CurrentUpload(w).attempt] = None /\ NextStatement(w, "other")
    <3>1. StillAhead(w, i) => n < i
      BY <1>3, <2>1, <2>4 DEF StillAhead
    <3>2. QED
      BY <1>0, <1>1, <2>4, <3>1, NextStatementRuns
  <2>5. CASE /\ attempts[CurrentUpload(w).attempt].seat # CurrentUpload(w).seat
             /\ EndTx(w, "mismatch", FALSE)
    BY <1>2, <1>3, <2>1, <2>2, <2>5 DEF Verdict
  <2>6. CASE /\ CurrentUpload(w).sequence < attempts[CurrentUpload(w).attempt].sequence
             /\ EndTx(w, "stale", FALSE)
    BY <1>2, <1>3, <2>1, <2>2, <2>6 DEF Verdict
  <2>7. QED
    BY <1>8, <2>3, <2>4, <2>5, <2>6 DEF LockAttempt
<1>9. CASE CheckOther(w)
  <2>1. run[w].pc \in InTransaction /\ run[w].pc = "other"
    BY <1>9 DEF CheckOther, InTransaction
  <2>2. StillAhead(w, i) => n < i
    BY <2>1 DEF StillAhead
  <2>3. CASE NextStatement(w, "insert")
    BY <1>0, <1>1, <2>2, <2>3, NextStatementRuns
  <2>4. CASE EndTx(w, "other", FALSE)
    <3>1. CurrentUpload(w).attempt \in Attempt
      BY <1>0, <2>1, CurrentUploadType DEF Upload
    <3>2. StillAhead(w, i) => n # i
      BY <1>0, <2>2
    <3>3. QED
      BY <1>2, <2>1, <2>4, <3>1, <3>2 DEF Verdict
  <2>5. QED
    BY <1>9, <2>3, <2>4 DEF CheckOther
<1>10. CASE InsertAttempt(w) \/ UpdateAttempt(w)
  <2>1. /\ run[w].pc \in InTransaction /\ CurrentUpload(w).attempt # a
        /\ EndTx(w, "stored", CurrentUpload(w).final)
    BY <1>10 DEF InsertAttempt, UpdateAttempt, InTransaction
  <2>2. CurrentUpload(w).attempt \in Attempt
    BY <1>0, <2>1, CurrentUploadType DEF Upload
  <2>3. StillAhead(w, i) => n # i
    BY <1>3, <2>1
  <2>4. QED
    BY <1>2, <2>1, <2>2, <2>3 DEF Verdict
<1>11. \/ run'[w] = run[w]
       \/ MarkProcessing(w) \/ ReadPayload(w) \/ EnqueueGrading(w)
       \/ CheckUpload(w) \/ LockAttempt(w) \/ CheckOther(w)
       \/ InsertAttempt(w) \/ UpdateAttempt(w)
  <2>1. ASSUME NEW v \in Worker, v # w,
               \/ MarkProcessing(v) \/ ReadPayload(v) \/ EnqueueGrading(v)
               \/ CheckUpload(v) \/ LockAttempt(v) \/ CheckOther(v)
               \/ InsertAttempt(v) \/ UpdateAttempt(v)
        PROVE  run'[w] = run[w]
    BY <2>1, StatementContinues DEF Continues
  <2>2. CASE \E v \in Worker, j \in JobId : StartIngest(v, j)
    BY <1>0, <2>2 DEF StartIngest, IdleRun
  <2>3. CASE \E v \in Worker : run' = [run EXCEPT ![v] = IdleRun]
    BY <1>0, <2>3 DEF IdleRun
  <2>4. QED
    BY <2>1, <2>2, <2>3, StepOfRun
<1>12. QED
  BY <1>4, <1>5, <1>6, <1>7, <1>8, <1>9, <1>10, <1>11

\* What a step does to a stored attempt and its place in the grading queue.
LEMMA RowMoves ==
  ASSUME IndInv, [Next]_vars, NEW a \in Attempt, NeedsGrading(a)'
  PROVE  \/ /\ attempts'[a] = attempts[a] /\ NeedsGrading(a)
            /\ a \in gradeQueue => a \in gradeQueue'
            /\ ~\E w \in Worker : /\ InsertAttempt(w) \/ UpdateAttempt(w)
                                /\ CurrentUpload(w).attempt = a
         \/ \E w \in Worker : /\ InsertAttempt(w) \/ UpdateAttempt(w)
                             /\ CurrentUpload(w).attempt = a
                             /\ attempts'[a].seat = CurrentUpload(w).seat
                             /\ attempts'[a].sequence = CurrentUpload(w).sequence
                             /\ CurrentUpload(w).final
<1>0. attempts \in [Attempt -> AttemptRow \cup {None}] /\ attempts'[a] # None
  BY DEF IndInv, TypeOK, NeedsGrading
<1>1. ASSUME NEW w \in Worker, InsertAttempt(w) \/ UpdateAttempt(w)
      PROVE  /\ gradeQueue' = gradeQueue
             /\ \/ /\ CurrentUpload(w).attempt = a
                   /\ attempts'[a].seat = CurrentUpload(w).seat
                   /\ attempts'[a].sequence = CurrentUpload(w).sequence
                   /\ attempts'[a].final = CurrentUpload(w).final
                \/ /\ CurrentUpload(w).attempt # a
                   /\ attempts'[a] = attempts[a]
  <2> DEFINE u == CurrentUpload(w)
  <2>1. \E p : attempts' = [attempts EXCEPT ![u.attempt] =
          [seat |-> u.seat, sequence |-> u.sequence, final |-> u.final,
           response |-> u.response, pending |-> p]]
    BY <1>1 DEF InsertAttempt, UpdateAttempt
  <2>2. gradeQueue' = gradeQueue
    BY <1>1 DEF InsertAttempt, UpdateAttempt
  <2>3. CASE a = u.attempt
    BY <1>0, <2>1, <2>2, <2>3
  <2>4. CASE a # u.attempt
    BY <1>0, <2>1, <2>2, <2>4
  <2>5. QED
    BY <2>3, <2>4
<1>2. CASE \E w \in Worker : InsertAttempt(w) \/ UpdateAttempt(w)
  <2> PICK w \in Worker : InsertAttempt(w) \/ UpdateAttempt(w)
    BY <1>2
  <2>1. CASE CurrentUpload(w).attempt = a
    BY <1>1, <2>1 DEF NeedsGrading
  <2>2. CASE CurrentUpload(w).attempt # a
    <3>1. attempts'[a] = attempts[a] /\ gradeQueue' = gradeQueue
      BY <1>1, <2>2
    <3>2. ASSUME NEW v \in Worker, InsertAttempt(v) \/ UpdateAttempt(v),
                 CurrentUpload(v).attempt = a
          PROVE  FALSE
      <4>1. v = w
        <5>1. run'[w].outcomes # run[w].outcomes
          <6>1. run[w].outcomes \in Seq(Verdict)
            BY DEF IndInv, TypeOK, RunType
          <6>2. run'[w].outcomes = Append(run[w].outcomes, "stored")
            BY EndTxRun DEF InsertAttempt, UpdateAttempt, IndInv
          <6>3. Len(run'[w].outcomes) = Len(run[w].outcomes) + 1 /\ Len(run[w].outcomes) \in Nat
            BY <6>1, <6>2, AppendProperties, LenProperties DEF Verdict
          <6>4. QED
            BY <6>3
        <5>2. v # w => run'[w] = run[w]
          BY <3>2, StatementContinues DEF Continues
        <5>3. QED
          BY <5>1, <5>2
      <4>2. QED
        BY <2>2, <3>2, <4>1
    <3>3. QED
      BY <3>1, <3>2 DEF NeedsGrading
  <2>3. QED
    BY <2>1, <2>2
<1>3. CASE \E c \in Attempt : GradeAttempt(c)
  <2> PICK c \in Attempt : GradeAttempt(c)
    BY <1>3
  <2>1. /\ gradeQueue' = gradeQueue \ {c} /\ run' = run
        /\ attempts' = IF attempts[c] = None THEN attempts
                       ELSE [attempts EXCEPT ![c].pending = FALSE]
    BY DEF GradeAttempt
  <2>2. a # c
    BY <1>0, <2>1 DEF NeedsGrading, AttemptRow
  <2>3. attempts'[a] = attempts[a] /\ (a \in gradeQueue => a \in gradeQueue')
    BY <1>0, <2>1, <2>2
  <2>4. QED
    BY <1>2, <2>3 DEF NeedsGrading
<1>4. CASE \E c \in Attempt : DeleteAttempt(c)
  <2>1. attempts'[a] = attempts[a] /\ gradeQueue' = gradeQueue
    BY <1>0, <1>4 DEF DeleteAttempt
  <2>2. QED
    BY <1>2, <2>1 DEF NeedsGrading
<1>5. CASE attempts' = attempts /\ gradeQueue \subseteq gradeQueue'
  BY <1>2, <1>5 DEF NeedsGrading
<1>6. QED
  BY <1>2, <1>3, <1>4, <1>5
  DEF Next, vars, storeVars, RequestStep, RunStep, TakeJob, PostKnown, PostNew, PutPayload,
      InsertBatch, EnqueueIngest, ReprocessBatch, RequeueBatch, HttpFails, SkipProcessed,
      StartIngest, MarkProcessing, ReadPayload, PayloadUnreadable, CheckUpload, LockAttempt,
      CheckOther, InsertConflict, Rethrow, EnqueueGrading, FinishBatch, WorkerThrows,
      WorkerCrash, RecoverStalled, LoseLock, AddParticipant, RemoveParticipant

\* A batch that is not processed stays so until its run finishes.
LEMMA StaysOpen ==
  ASSUME IndInv, [Next]_vars, NEW b \in Batch, batches[b] # None,
         batches[b].status # "processed", batches'[b].status = "processed"
  PROVE  \E w \in Worker : FinishBatch(w) /\ BatchOf(run[w].job) = b
<1>0. batches \in [Batch -> BatchRow \cup {None}] /\ batches[b] \in BatchRow
  BY DEF IndInv, TypeOK
<1>1. ASSUME NEW status \in {"received", "processing"},
             batches' = [batches EXCEPT ![b].status = status]
      PROVE  FALSE
  <2>1. batches'[b] = [batches[b] EXCEPT !.status = status]
    BY <1>0, <1>1
  <2>2. batches'[b].status = status
    BY <1>0, <2>1 DEF BatchRow
  <2>3. QED
    BY <2>2
<1>2. QED
  BY <1>1, StatusMoves DEF ReprocessBatch, MarkProcessing

\* The run that stores a final upload notes its attempt for the grader.
LEMMA CarriesStored ==
  ASSUME IndInv, OwnershipInv, GradingInv, \A w \in Worker : CheckedUpload(w), [Next]_vars,
         "stall" \notin Environment, NEW a \in Attempt,
         NEW w \in Worker, InsertAttempt(w) \/ UpdateAttempt(w), CurrentUpload(w).attempt = a,
         attempts'[a].seat = CurrentUpload(w).seat,
         attempts'[a].sequence = CurrentUpload(w).sequence, CurrentUpload(w).final
  PROVE  \E b \in Batch : Carries(b, a)'
<1> PICK b \in Batch : b = BatchOf(run[w].job) /\ batches[b] # None
  BY RunBatch DEF InsertAttempt, UpdateAttempt
<1> PICK i \in 1..Len(PayloadOf(b)) : CurrentUpload(w) = PayloadOf(b)[i]
  BY CurrentUploadType DEF IndInv, InsertAttempt, UpdateAttempt, InTransaction
<1>1. /\ batches' = batches /\ run[w].pc # "idle" /\ TypeOK
      /\ run[w].pc \in {"insert", "update"} /\ PayloadOf(b)' = PayloadOf(b)
      /\ EndTx(w, "stored", TRUE)
  BY DEF InsertAttempt, UpdateAttempt, PayloadOf, IndInv
<1>2. batches'[b] # None /\ batches'[b].status # "processed"
  BY <1>1 DEF GradingInv, RunIsOpen
<1>3. Matches(a, b, i)'
  <2>1. CurrentUpload(w).packageOk /\ SiteOf[CurrentUpload(w).seat] = batches[b].site
    BY <1>1 DEF CheckedUpload
  <2>2. QED
    BY <1>1, <2>1 DEF Matches
<1>4. ASSUME NEW v \in Worker, run'[v].pc # "idle", BatchOf(run'[v].job) = b
      PROVE  QueuesGrading(v, a)'
  <2>1. v = w
    <3>1. v # w => run'[v] = run[v]
      BY StatementContinues DEF Continues
    <3>2. reprocesses = 0
      BY DEF GradingInv
    <3>3. QED
      BY <1>1, <1>4, <3>1, <3>2, OneRunPerBatch
  <2> DEFINE q == run[w].toGrade
  <2>2. q \in Seq(Attempt)
    BY <1>1 DEF TypeOK, RunType
  <2>3. run'[v].toGrade = Append(q, a)
    BY <1>1, <2>1, EndTxRun
  <2>4. Len(q) + 1 \in 1..Len(Append(q, a)) /\ Append(q, a)[Len(q) + 1] = a
    BY <2>2, AppendProperties, LenProperties
  <2>5. QED
    BY <2>3, <2>4 DEF QueuesGrading
<1>5. i \in 1..Len(PayloadOf(b)')
  BY <1>1
<1>6. JobLeft(b)'
  <2>1. jobs' = jobs
    BY DEF InsertAttempt, UpdateAttempt
  <2>2. jobs[<<b, 0>>].state = "active"
    BY <1>1, RunHasJob DEF GradingInv
  <2>3. QED
    BY <2>1, <2>2 DEF JobLeft
<1>7. QED
  BY <1>2, <1>3, <1>4, <1>5, <1>6 DEF Carries, BatchOf

\* The job of a batch stays until the batch is processed or failed.
LEMMA JobLeftStep ==
  ASSUME IndInv, OwnershipInv, GradingInv, [Next]_vars, "stall" \notin Environment,
         "reprocess" \notin Environment,
         NEW b \in Batch, batches[b] # None, JobLeft(b),
         batches[b].status # "processed", batches'[b].status # "processed"
  PROVE  JobLeft(b)'
<1>0. reprocesses = 0 /\ <<b, 0>> \in JobId /\ BatchOf(<<b, 0>>) = b
  BY ConstantsAssumption DEF GradingInv, JobId, BatchOf
<1>1. CASE batches[b].status = "failed" /\ batches'[b].status # "failed"
  <2>1. PICK w \in Worker : MarkProcessing(w) /\ BatchOf(run[w].job) = b
    BY <1>1, StatusMoves DEF ReprocessBatch
  <2>2. run[w].pc # "idle" /\ jobs' = jobs
    BY <2>1 DEF MarkProcessing
  <2>3. jobs[<<b, 0>>].state = "active"
    BY <1>0, <2>1, <2>2, RunHasJob
  <2>4. QED
    BY <2>2, <2>3 DEF JobLeft
<1>2. CASE batches'[b].status = "failed"
  BY <1>2 DEF JobLeft
<1>3. CASE jobs[<<b, 0>>].state \in {"waiting", "active", "failed"} /\ batches'[b].status # "failed"
  <2>1. ASSUME NEW w \in Worker, FinishBatch(w) \/ PayloadUnreadable(w), run[w].job = <<b, 0>>
        PROVE  FALSE
    <3>0. batches \in [Batch -> BatchRow \cup {None}] /\ batches[b] \in BatchRow
      BY DEF IndInv, TypeOK
    <3>1. CASE FinishBatch(w)
      <4>1. batches'[b] = [batches[b] EXCEPT !.status = "processed", !.outcomes = run[w].outcomes]
        BY <1>0, <2>1, <3>0, <3>1 DEF FinishBatch
      <4>2. QED
        BY <3>0, <4>1 DEF BatchRow
    <3>2. CASE PayloadUnreadable(w)
      <4>1. batches'[b] = [batches[b] EXCEPT !.status = "failed"]
        BY <1>0, <2>1, <3>0, <3>2 DEF PayloadUnreadable
      <4>2. QED
        BY <1>3, <3>0, <4>1 DEF BatchRow
    <3>3. QED
      BY <2>1, <3>1, <3>2
  <2>2. ASSUME NEW w \in Worker, SkipProcessed(w, <<b, 0>>)
        PROVE  FALSE
    BY <1>0, <2>2 DEF SkipProcessed
  <2>3. jobs'[<<b, 0>>].state \in {"waiting", "active", "failed"}
    BY <1>0, <1>3, <2>1, <2>2, JobMoves
  <2>4. QED
    BY <2>3 DEF JobLeft
<1>4. QED
  BY <1>1, <1>2, <1>3 DEF JobLeft

\* A batch that carries an attempt goes on doing so until the attempt is queued.
LEMMA CarriesStep ==
  ASSUME IndInv, OwnershipInv, GradingInv, [Next]_vars, "stall" \notin Environment,
         "reprocess" \notin Environment,
         NEW a \in Attempt, attempts[a] # None, attempts'[a] = attempts[a],
         ~\E w \in Worker : /\ InsertAttempt(w) \/ UpdateAttempt(w)
                            /\ CurrentUpload(w).attempt = a,
         NEW b \in Batch, Carries(b, a)
  PROVE  Carries(b, a)' \/ a \in gradeQueue'
<1> SUFFICES ASSUME a \notin gradeQueue'
             PROVE  Carries(b, a)'
  OBVIOUS
<1> PICK i \in 1..Len(PayloadOf(b)) :
      /\ Matches(a, b, i)
      /\ \A w \in Worker : run[w].pc # "idle" /\ BatchOf(run[w].job) = b =>
           StillAhead(w, i) \/ QueuesGrading(w, a)
  BY DEF Carries
<1>0. batches[b] # None /\ batches[b].status # "processed" /\ TypeOK
  BY DEF Carries, IndInv
<1>1. /\ batches'[b] # None /\ batches'[b].site = batches[b].site
      /\ PayloadOf(b)' = PayloadOf(b)
  BY <1>0, StepBatchesPersist, PayloadFrame DEF BatchesPersist
<1>2. Len(PayloadOf(b)) \in Nat /\ i \in 1..Len(PayloadOf(b)')
  BY <1>0, <1>1, PayloadType
<1>3. batches'[b].status # "processed"
  <2> SUFFICES ASSUME batches'[b].status = "processed" PROVE FALSE
    OBVIOUS
  <2>1. PICK w \in Worker : FinishBatch(w) /\ BatchOf(run[w].job) = b
    BY <1>0, StaysOpen
  <2>2. run[w].pc = "finish"
    BY <2>1 DEF FinishBatch
  <2>3. Len(run[w].outcomes) = Len(PayloadOf(b)) /\ run[w].toGrade = <<>>
    BY <2>1, <2>2 DEF IndInv, RunInOrder, GradingInv, RunIsOpen
  <2>4. ~StillAhead(w, i)
    BY <1>2, <2>3 DEF StillAhead
  <2>5. ~QueuesGrading(w, a)
    BY <2>3 DEF QueuesGrading
  <2>6. QED
    BY <2>1, <2>2, <2>4, <2>5
<1>4. Matches(a, b, i)'
  BY <1>1 DEF Matches
<1>5. ASSUME NEW w \in Worker, run'[w].pc # "idle", BatchOf(run'[w].job) = b
      PROVE  StillAhead(w, i)' \/ QueuesGrading(w, a)'
  <2>1. CASE run[w].pc # "idle" /\ run'[w].job = run[w].job
    <3>1. BatchOf(run[w].job) = b
      BY <1>5, <2>1
    <3>2. assigned = Seat
      BY DEF GradingInv
    <3>3. QED
      BY <1>5, <2>1, <3>1, <3>2, AheadStep
  <2>2. CASE run'[w].pc = "begin" /\ run'[w].outcomes = <<>>
    <3>1. Len(run'[w].outcomes) + 1 = 1
      BY <2>2, EmptySeq
    <3>2. 1 < i \/ 1 = i
      BY <1>2
    <3>3. QED
      BY <2>2, <3>1, <3>2 DEF StillAhead
  <2>3. QED
    BY <1>5, <2>1, <2>2, RunMoves
<1>6. JobLeft(b)'
  BY <1>0, <1>3, JobLeftStep DEF Carries
<1>7. QED
  BY <1>1, <1>2, <1>3, <1>4, <1>5, <1>6 DEF Carries, BatchOf

LEMMA OpenStep ==
  ASSUME IndInv, OwnershipInv, GradingInv, [Next]_vars, "stall" \notin Environment,
         NEW w \in Worker
  PROVE  RunIsOpen(w)'
<1> SUFFICES ASSUME run'[w].pc # "idle"
             PROVE  /\ batches'[BatchOf(run'[w].job)].status # "processed"
                    /\ run'[w].pc = "finish" => run'[w].toGrade = <<>>
  BY DEF RunIsOpen, BatchOf
<1>0. TypeOK /\ RunIsOpen(w) /\ reprocesses = 0
  BY DEF IndInv, GradingInv
<1>1. run'[w].pc = "finish" => run'[w].toGrade = <<>>
  BY <1>0, FinishedHasQueued DEF RunIsOpen
<1>2. CASE run[w].pc # "idle" /\ run'[w].job = run[w].job
  <2> PICK b \in Batch : b = BatchOf(run[w].job) /\ batches[b] # None
    BY <1>2, RunBatch
  <2>1. batches[b].status # "processed"
    BY <1>0, <1>2 DEF RunIsOpen
  <2>2. ASSUME batches'[b].status = "processed" PROVE FALSE
    <3>1. PICK v \in Worker : FinishBatch(v) /\ BatchOf(run[v].job) = b
      BY <2>1, <2>2, StaysOpen
    <3>2. v = w
      BY <1>0, <1>2, <3>1, OneRunPerBatch DEF FinishBatch
    <3>3. run'[w] = IdleRun
      BY <1>0, <3>1, <3>2 DEF FinishBatch, TypeOK
    <3>4. QED
      BY <3>3 DEF IdleRun
  <2>3. QED
    BY <1>1, <1>2, <2>2
<1>3. CASE StartIngest(w, run'[w].job) /\ run'[w].job \in JobId
  BY <1>1, <1>3 DEF StartIngest
<1>4. QED
  BY <1>2, <1>3, RunMoves

LEMMA GradingStep ==
  ASSUME IndInv, OwnershipInv, GradingInv, \A w \in Worker : CheckedUpload(w), [Next]_vars,
         "stall" \notin Environment, "reprocess" \notin Environment,
         "roster" \notin Environment
  PROVE  GradingInv'
<1>1. assigned' = assigned
  BY DEF Next, vars, storeVars, RequestStep, RunStep, TakeJob, PostKnown, PostNew, PutPayload,
         InsertBatch, EnqueueIngest, ReprocessBatch, RequeueBatch, HttpFails, SkipProcessed,
         StartIngest, MarkProcessing, ReadPayload, PayloadUnreadable, CheckUpload, LockAttempt,
         CheckOther, InsertAttempt, InsertConflict, UpdateAttempt, Rethrow, EnqueueGrading,
         FinishBatch, WorkerThrows, WorkerCrash, RecoverStalled, LoseLock, GradeAttempt,
         DeleteAttempt, AddParticipant, RemoveParticipant
<1>2. reprocesses' = reprocesses
  BY StepRequests DEF PostNew, PutPayload, InsertBatch, EnqueueIngest, RequeueBatch,
                      ReprocessBatch, HttpFails
<1>3. ASSUME NEW a \in Attempt, NeedsGrading(a)'
      PROVE  a \in gradeQueue' \/ \E b \in Batch : Carries(b, a)'
  <2>1. CASE \E w \in Worker : /\ InsertAttempt(w) \/ UpdateAttempt(w)
                               /\ CurrentUpload(w).attempt = a
                               /\ attempts'[a].seat = CurrentUpload(w).seat
                               /\ attempts'[a].sequence = CurrentUpload(w).sequence
                               /\ CurrentUpload(w).final
    BY <2>1, CarriesStored
  <2>2. CASE /\ attempts'[a] = attempts[a] /\ NeedsGrading(a)
             /\ a \in gradeQueue => a \in gradeQueue'
             /\ ~\E w \in Worker : /\ InsertAttempt(w) \/ UpdateAttempt(w)
                                   /\ CurrentUpload(w).attempt = a
    <3>1. a \in gradeQueue \/ \E b \in Batch : Carries(b, a)
      BY <2>2 DEF GradingInv
    <3>2. ASSUME NEW b \in Batch, Carries(b, a)
          PROVE  Carries(b, a)' \/ a \in gradeQueue'
      BY <2>2, <3>2, CarriesStep DEF NeedsGrading
    <3>3. QED
      BY <2>2, <3>1, <3>2
  <2>3. QED
    BY <1>3, <2>1, <2>2, RowMoves
<1>4. QED
  BY <1>1, <1>2, <1>3, OpenStep DEF GradingInv

\* The batch that holds a was marked failed, its payload being out of reach when a retry
\* read it, or its job has used up its tries: nobody takes it up again by itself.
GivenUp(a) ==
  \E b \in Batch : Holds(b, a) /\ (batches[b].status = "failed" \/ JobFailed(b))

LEMMA GradingInvariant ==
  ASSUME "stall" \notin Environment, "reprocess" \notin Environment,
         "roster" \notin Environment
  PROVE  Spec => []GradingInv
<1> DEFINE Inv == GradingInv /\ \A w \in Worker : CheckedUpload(w)
<1>1. Init => Inv
  BY DEF Init, GradingInv, RunIsOpen, NeedsGrading, CheckedUpload, IdleRun
<1>2. IndInv /\ OwnershipInv /\ Inv /\ [Next]_vars => Inv'
  BY GradingStep, CheckedStep
<1>3. QED
  BY <1>1, <1>2, Invariance, OwnershipInvariant, PTL DEF Spec

LEMMA CarriedIsOnItsWay ==
  ASSUME NEW a \in Attempt, NEW b \in Batch, Carries(b, a)
  PROVE  Holds(b, a) /\ (batches[b].status = "failed" \/ JobFailed(b) \/ JobPending(b))
<1>1. Holds(b, a)
  BY DEF Carries, Matches, Holds
<1>2. 0 \in 0..MaxReprocess
  BY ConstantsAssumption
<1>3. QED
  BY <1>1, <1>2 DEF Carries, JobLeft, JobFailed, JobPending, Queue!Unfinished

\* A finished attempt with answers to grade is on its way to the grader (ingestBatch), or
\* its own batch was given up: by a storage error while a retry reads the payload, or by
\* errors and crashes that used up the tries of its job.  The retry of a run that died
\* between storing the attempt and queueing its grading finds the row, stores it again and
\* queues it; so it must come to the same verdict, which it need not when the participant
\* was taken off the roster in between ("roster"), and no other run of the batch may mark
\* it processed first ("reprocess", or a job that runs twice, "stall").
THEOREM FinalAttemptsMissOnlyIfGivenUp ==
  ASSUME "stall" \notin Environment, "reprocess" \notin Environment,
         "roster" \notin Environment
  PROVE  Spec => [](\A a \in Attempt : NeedsGrading(a) => OnItsWay(a) \/ GivenUp(a))
<1>1. GradingInv => \A a \in Attempt : NeedsGrading(a) => OnItsWay(a) \/ GivenUp(a)
  BY CarriedIsOnItsWay DEF GradingInv, OnItsWay, GivenUp
<1>2. QED
  BY <1>1, GradingInvariant, PTL

\* As long as no batch is marked failed and no job has used up its tries, every finished
\* attempt with answers to grade is on its way to the grader (ingestBatch), whatever
\* workers die, calls fail and attempts are deleted.
THEOREM FinalAttemptsReachGrader ==
  ASSUME "stall" \notin Environment, "reprocess" \notin Environment,
         "roster" \notin Environment
  PROVE  Spec => []((\A b \in Batch : batches[b] # None => batches[b].status # "failed" /\ ~JobFailed(b))
                      => FinalWillBeGraded)
<1>1. (\A a \in Attempt : NeedsGrading(a) => OnItsWay(a) \/ GivenUp(a)) =>
        ((\A b \in Batch : batches[b] # None => batches[b].status # "failed" /\ ~JobFailed(b))
           => FinalWillBeGraded)
  BY DEF FinalWillBeGraded, NeedsGrading, GivenUp, Holds
<1>2. QED
  BY <1>1, FinalAttemptsMissOnlyIfGivenUp, PTL
===============================================================================
