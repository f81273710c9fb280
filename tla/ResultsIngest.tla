---------------------------- MODULE ResultsIngest ----------------------------
(***************************************************************************)
(* How exam results reach the central database.                            *)
(*                                                                         *)
(*  - POST /api/sync/results (modules/sync.ts) archives the payload in     *)
(*    object storage, records the batch and queues an ingest job;          *)
(*  - the ingest worker (services/results-ingest.ts) splits the batch into *)
(*    attempts, one database transaction each, then queues grading;        *)
(*  - the grading worker grades an attempt (abstracted here to "no answer  *)
(*    is left pending");                                                   *)
(*  - administrators reprocess batches, delete attempts and change the     *)
(*    roster of a schedule (modules/results.ts, modules/schedules.ts).     *)
(*                                                                         *)
(* The database is PostgreSQL at READ COMMITTED: every statement sees what *)
(* was committed before it, SELECT ... FOR UPDATE waits for the row, and   *)
(* a unique violation aborts the transaction.  A seat is a (schedule,      *)
(* participant) pair.                                                      *)
(***************************************************************************)
EXTENDS Naturals, Sequences

CONSTANTS Site, Batch, Attempt, Seat, Response,
          Worker,        \* ingest slots (WORKER_CONCURRENCY)
          Http,          \* concurrent requests to the API
          None,          \* the absent value
          SiteOf,        \* [Seat -> Site]: the site that owns the schedule
          Payload,       \* [Site \X Batch -> Seq(Upload)]: what a site sends
          MaxTries, MaxStalls,
          MaxReprocess,  \* bound: reprocess requests in a behaviour
          MaxFaults,     \* bound: faults in a behaviour
          Environment    \* the faults and administrator actions that occur

JobId == Batch \X (0..MaxReprocess)

\* AttemptUpload.  packageOk: the schedule exists and the package belongs to it.
Upload == [attempt : Attempt, seat : Seat, sequence : Nat, final : BOOLEAN,
           packageOk : BOOLEAN, response : Response]

Verdict == {"stored", "stale", "invalid", "mismatch", "other"}
Accepted == {"stored", "stale"}
BatchStatus == {"received", "processing", "processed", "failed"}
BatchRow == [site : Site, status : BatchStatus, outcomes : Seq(Verdict)]
\* pending: some answer row has gradeStatus pending.
AttemptRow == [seat : Seat, sequence : Nat, final : BOOLEAN,
               response : Response, pending : BOOLEAN]

EnvironmentKinds == {"crash-http", "crash-worker", "throw", "storage", "stall",
                     "delete", "roster", "reprocess"}

ASSUME ConstantsAssumption ==
  /\ SiteOf \in [Seat -> Site]
  /\ Payload \in [Site \X Batch -> Seq(Upload) \ {<<>>}]
  /\ MaxTries \in Nat \ {0}
  /\ MaxStalls \in Nat
  /\ MaxReprocess \in Nat
  /\ MaxFaults \in Nat
  /\ Environment \subseteq EnvironmentKinds

ASSUME NoneAssumption ==
  /\ None \notin Worker
  /\ None \notin JobId
  /\ None \notin BatchRow
  /\ None \notin AttemptRow

VARIABLES
  http,       \* [Http -> request in progress]
  acks,       \* which site got a 2xx answer for which batch
  objects,    \* payloads in object storage
  batches,    \* sync_batches
  jobs,       \* the results-ingest queue
  run,        \* [Worker -> local state of ingestBatch]
  attempts,   \* attempts, with their answers
  assigned,   \* schedule_participants
  deleted,    \* audit_logs: attempts deleted by an administrator
  gradeQueue, \* the grading queue
  reprocesses, faults  \* counters of the bounds

vars == <<http, acks, objects, batches, jobs, run, attempts, assigned, deleted,
          gradeQueue, reprocesses, faults>>

Queue == INSTANCE JobQueue

IdleRequest == [pc |-> "idle", site |-> None, job |-> None]
IdleRun == [pc |-> "idle", job |-> None, outcomes |-> <<>>, toGrade |-> <<>>]

BatchOf(j) == j[1]
PayloadOf(b) == Payload[<<batches[b].site, b>>]
\* The attempt of the batch that worker w is processing.
CurrentUpload(w) == PayloadOf(BatchOf(run[w].job))[Len(run[w].outcomes) + 1]
SeatTaken(seat) == \E a \in Attempt : attempts[a] # None /\ attempts[a].seat = seat
\* The row lock that SELECT ... FOR UPDATE holds until the transaction ends.
Locked(a) == \E w \in Worker : run[w].pc = "update" /\ CurrentUpload(w).attempt = a
\* A slot still executes the job it owns.
Alive(j) == \E w \in Worker : Queue!Owns(w, j) /\ run[w].job = j

Init ==
  /\ http = [h \in Http |-> IdleRequest]
  /\ acks = {} /\ objects = {}
  /\ batches = [b \in Batch |-> None]
  /\ Queue!Init
  /\ run = [w \in Worker |-> IdleRun]
  /\ attempts = [a \in Attempt |-> None]
  /\ assigned = Seat
  /\ deleted = {} /\ gradeQueue = {}
  /\ reprocesses = 0 /\ faults = 0

Fault(kind) ==
  /\ kind \in Environment
  /\ faults < MaxFaults
  /\ faults' = faults + 1

storeVars == <<attempts, assigned, deleted, gradeQueue>>
requestVars == <<http, acks, objects, reprocesses>>
-----------------------------------------------------------------------------
(* POST /api/sync/results and the reprocess endpoint.                      *)

\* A batch id seen before: answered with its status, and nothing else.  (The
\* 409 for another site's id changes nothing.)
PostKnown(h, s, b) ==
  /\ http[h] = IdleRequest
  /\ batches[b] # None /\ batches[b].site = s
  /\ acks' = acks \cup {<<s, b>>}
  /\ UNCHANGED <<http, objects, batches, jobs, run, storeVars, reprocesses, faults>>

\* Mutant: the batch is recorded without archiving the payload first.
PostNew_NoPut(h, s, b) ==
  /\ http[h] = IdleRequest
  /\ batches[b] = None
  /\ http' = [http EXCEPT ![h] = [pc |-> "insert", site |-> s, job |-> <<b, 0>>]]
  /\ UNCHANGED <<acks, objects, batches, jobs, run, storeVars, reprocesses, faults>>

PostNew(h, s, b) ==
  /\ http[h] = IdleRequest
  /\ batches[b] = None
  /\ http' = [http EXCEPT ![h] = [pc |-> "put", site |-> s, job |-> <<b, 0>>]]
  /\ UNCHANGED <<acks, objects, batches, jobs, run, storeVars, reprocesses, faults>>

PutPayload(h) ==
  /\ http[h].pc = "put"
  /\ objects' = objects \cup {<<http[h].site, BatchOf(http[h].job)>>}
  /\ http' = [http EXCEPT ![h].pc = "insert"]
  /\ UNCHANGED <<acks, batches, jobs, run, storeVars, reprocesses, faults>>

\* INSERT ... ON CONFLICT DO NOTHING; who loses the race gets the winner's row.
InsertBatch(h) ==
  LET s == http[h].site
      b == BatchOf(http[h].job)
  IN /\ http[h].pc = "insert"
     /\ \/ /\ batches[b] = None
           /\ batches' = [batches EXCEPT ![b] =
                [site |-> s, status |-> "received", outcomes |-> <<>>]]
           /\ http' = [http EXCEPT ![h].pc = "enqueue"]
           /\ UNCHANGED acks
        \/ /\ batches[b] # None
           /\ acks' = acks \cup {<<s, b>>}
           /\ http' = [http EXCEPT ![h] = IdleRequest]
           /\ UNCHANGED batches
     /\ UNCHANGED <<objects, jobs, run, storeVars, reprocesses, faults>>

EnqueueIngest(h) ==
  /\ http[h].pc = "enqueue"
  /\ Queue!Add(http[h].job)
  /\ acks' = acks \cup {<<http[h].site, BatchOf(http[h].job)>>}
  /\ http' = [http EXCEPT ![h] = IdleRequest]
  /\ UNCHANGED <<objects, batches, run, storeVars, reprocesses, faults>>

ReprocessBatch(h, b) ==
  /\ "reprocess" \in Environment
  /\ reprocesses < MaxReprocess
  /\ http[h] = IdleRequest
  /\ batches[b] # None
  /\ reprocesses' = reprocesses + 1
  /\ batches' = [batches EXCEPT ![b].status = "received"]
  /\ http' = [http EXCEPT ![h] =
       [pc |-> "requeue", site |-> batches[b].site, job |-> <<b, reprocesses + 1>>]]
  /\ UNCHANGED <<acks, objects, jobs, run, storeVars, faults>>

RequeueBatch(h) ==
  /\ http[h].pc = "requeue"
  /\ Queue!Add(http[h].job)
  /\ http' = [http EXCEPT ![h] = IdleRequest]
  /\ UNCHANGED <<acks, objects, batches, run, storeVars, reprocesses, faults>>

\* The API process dies or a call to storage, database or Redis fails.
HttpFails(h) ==
  /\ http[h].pc # "idle"
  /\ Fault("crash-http")
  /\ http' = [http EXCEPT ![h] = IdleRequest]
  /\ UNCHANGED <<acks, objects, batches, jobs, run, storeVars, reprocesses>>
-----------------------------------------------------------------------------
(* ingestBatch: from the job to the first attempt.                         *)

\* The job of a batch that was processed already returns at once.
SkipProcessed(w, j) ==
  /\ run[w] = IdleRun
  /\ jobs[j].state = "waiting"
  /\ batches[BatchOf(j)].status = "processed"
  /\ jobs' = [jobs EXCEPT ![j].state = "completed"]
  /\ UNCHANGED <<requestVars, batches, run, storeVars, faults>>

StartIngest(w, j) ==
  /\ run[w] = IdleRun
  /\ batches[BatchOf(j)] # None
  /\ batches[BatchOf(j)].status # "processed"
  /\ Queue!Take(w, j)
  /\ run' = [run EXCEPT ![w] =
       [pc |-> "begin", job |-> j, outcomes |-> <<>>, toGrade |-> <<>>]]
  /\ UNCHANGED <<requestVars, batches, storeVars, faults>>

MarkProcessing(w) ==
  /\ run[w].pc = "begin"
  /\ batches' = [batches EXCEPT ![BatchOf(run[w].job)].status = "processing"]
  /\ run' = [run EXCEPT ![w].pc = "read"]
  /\ UNCHANGED <<requestVars, jobs, storeVars, faults>>

PayloadKey(w) ==
  <<batches[BatchOf(run[w].job)].site, BatchOf(run[w].job)>>

ReadPayload(w) ==
  /\ run[w].pc = "read"
  /\ PayloadKey(w) \in objects
  /\ run' = [run EXCEPT ![w].pc = "check"]
  /\ UNCHANGED <<requestVars, batches, jobs, storeVars, faults>>

\* Whatever goes wrong while the payload is read, a storage outage included,
\* ends the job normally with the batch marked failed.
PayloadUnreadable(w) ==
  /\ run[w].pc = "read"
  /\ \/ PayloadKey(w) \notin objects /\ UNCHANGED faults
     \/ Fault("storage")
  /\ batches' = [batches EXCEPT ![BatchOf(run[w].job)].status = "failed"]
  /\ Queue!Complete(w, run[w].job)
  /\ run' = [run EXCEPT ![w] = IdleRun]
  /\ UNCHANGED <<requestVars, storeVars>>
-----------------------------------------------------------------------------
(* upsertAttempt: one transaction per attempt of the payload.              *)

\* The transaction of w ends with this verdict; grade: it returned grade = true.
EndTx(w, verdict, grade) ==
  LET outcomes == Append(run[w].outcomes, verdict)
      toGrade  == IF grade THEN Append(run[w].toGrade, CurrentUpload(w).attempt)
                           ELSE run[w].toGrade
      more     == Len(outcomes) < Len(PayloadOf(BatchOf(run[w].job)))
  IN run' = [run EXCEPT ![w] =
       [pc |-> IF more THEN "check" ELSE IF toGrade # <<>> THEN "grade" ELSE "finish",
        job |-> run[w].job, outcomes |-> outcomes, toGrade |-> toGrade]]

NextStatement(w, pc) == run' = [run EXCEPT ![w].pc = pc]

\* Mutant: any site may send results for any schedule.
CheckUpload_NoSite(w) ==
  LET u == CurrentUpload(w)
      valid == u.packageOk /\ u.seat \in assigned
  IN /\ run[w].pc = "check"
     /\ \/ valid /\ NextStatement(w, "lock")
        \/ ~valid /\ EndTx(w, "invalid", FALSE)
     /\ UNCHANGED <<requestVars, batches, jobs, storeVars, faults>>

\* The site must own the schedule, the package must belong to the schedule and
\* the participant must be on its roster.
CheckUpload(w) ==
  LET u == CurrentUpload(w)
      valid == /\ u.packageOk
               /\ SiteOf[u.seat] = batches[BatchOf(run[w].job)].site
               /\ u.seat \in assigned
  IN /\ run[w].pc = "check"
     /\ \/ valid /\ NextStatement(w, "lock")
        \/ ~valid /\ EndTx(w, "invalid", FALSE)
     /\ UNCHANGED <<requestVars, batches, jobs, storeVars, faults>>

\* Mutants: the row read without FOR UPDATE; no comparison of sequences; an upload
\* of the same sequence taken for stale.
LockAttempt_NoLock(w) ==
  LET u == CurrentUpload(w)
      current == attempts[u.attempt]
  IN /\ run[w].pc = "lock"
     /\ \/ current = None /\ NextStatement(w, "other")
        \/ /\ current # None
           /\ \/ current.seat # u.seat /\ EndTx(w, "mismatch", FALSE)
              \/ /\ current.seat = u.seat
                 /\ \/ u.sequence < current.sequence /\ EndTx(w, "stale", FALSE)
                    \/ u.sequence >= current.sequence /\ NextStatement(w, "update")
     /\ UNCHANGED <<requestVars, batches, jobs, storeVars, faults>>

LockAttempt_NoSequence(w) ==
  LET u == CurrentUpload(w)
      current == attempts[u.attempt]
  IN /\ run[w].pc = "lock" /\ ~Locked(u.attempt)
     /\ \/ current = None /\ NextStatement(w, "other")
        \/ /\ current # None
           /\ \/ current.seat # u.seat /\ EndTx(w, "mismatch", FALSE)
              \/ current.seat = u.seat /\ NextStatement(w, "update")
     /\ UNCHANGED <<requestVars, batches, jobs, storeVars, faults>>

LockAttempt_EqualIsStale(w) ==
  LET u == CurrentUpload(w)
      current == attempts[u.attempt]
  IN /\ run[w].pc = "lock" /\ ~Locked(u.attempt)
     /\ \/ current = None /\ NextStatement(w, "other")
        \/ /\ current # None
           /\ \/ current.seat # u.seat /\ EndTx(w, "mismatch", FALSE)
              \/ /\ current.seat = u.seat
                 /\ \/ u.sequence <= current.sequence /\ EndTx(w, "stale", FALSE)
                    \/ u.sequence > current.sequence /\ NextStatement(w, "update")
     /\ UNCHANGED <<requestVars, batches, jobs, storeVars, faults>>

\* SELECT ... FOR UPDATE of the attempt, and what follows from the row found.
LockAttempt(w) ==
  LET u == CurrentUpload(w)
      current == attempts[u.attempt]
  IN /\ run[w].pc = "lock"
     /\ ~Locked(u.attempt)
     /\ \/ /\ current = None
           /\ NextStatement(w, "other")
        \/ /\ current # None /\ current.seat # u.seat
           /\ EndTx(w, "mismatch", FALSE)
        \/ /\ current # None /\ current.seat = u.seat
           /\ u.sequence < current.sequence
           /\ EndTx(w, "stale", FALSE)
        \/ /\ current # None /\ current.seat = u.seat
           /\ u.sequence >= current.sequence
           /\ NextStatement(w, "update")
     /\ UNCHANGED <<requestVars, batches, jobs, storeVars, faults>>

\* No row was found, hence no lock is held: look for another attempt of the seat.
CheckOther(w) ==
  LET u == CurrentUpload(w)
  IN /\ run[w].pc = "other"
     /\ \/ SeatTaken(u.seat) /\ EndTx(w, "other", FALSE)
        \/ ~SeatTaken(u.seat) /\ NextStatement(w, "insert")
     /\ UNCHANGED <<requestVars, batches, jobs, storeVars, faults>>

\* Mutant: the exception is caught and the job returns.
Rethrow_Swallowed(w) ==
  /\ Queue!Complete(w, run[w].job)
  /\ run' = [run EXCEPT ![w] = IdleRun]
  /\ UNCHANGED <<requestVars, batches, storeVars>>

\* The exception leaves ingestBatch: the transaction rolls back, BullMQ retries.
Rethrow(w) ==
  /\ Queue!Throw(w, run[w].job)
  /\ run' = [run EXCEPT ![w] = IdleRun]
  /\ UNCHANGED <<requestVars, batches, storeVars>>

\* Mutant: no unique index on (schedule, participant).
InsertAttempt_NoUnique(w) ==
  LET u == CurrentUpload(w)
  IN /\ run[w].pc = "insert"
     /\ attempts[u.attempt] = None
     /\ attempts' = [attempts EXCEPT ![u.attempt] =
          [seat |-> u.seat, sequence |-> u.sequence, final |-> u.final,
           response |-> u.response, pending |-> TRUE]]
     /\ EndTx(w, "stored", u.final)
     /\ UNCHANGED <<requestVars, batches, jobs, assigned, deleted, gradeQueue, faults>>

InsertAttempt(w) ==
  LET u == CurrentUpload(w)
  IN /\ run[w].pc = "insert"
     /\ attempts[u.attempt] = None /\ ~SeatTaken(u.seat)
     /\ attempts' = [attempts EXCEPT ![u.attempt] =
          [seat |-> u.seat, sequence |-> u.sequence, final |-> u.final,
           response |-> u.response, pending |-> TRUE]]
     /\ EndTx(w, "stored", u.final)
     /\ UNCHANGED <<requestVars, batches, jobs, assigned, deleted, gradeQueue, faults>>

\* The primary key or attempts_schedule_participant_uq is violated.
InsertConflict(w) ==
  LET u == CurrentUpload(w)
  IN /\ run[w].pc = "insert"
     /\ attempts[u.attempt] # None \/ SeatTaken(u.seat)
     /\ Rethrow(w)
     /\ UNCHANGED faults

\* Mutants: answers that exist are not overwritten; only new attempts are graded.
UpdateAttempt_KeepAnswers(w) ==
  LET u == CurrentUpload(w)
  IN /\ run[w].pc = "update"
     /\ attempts' = [attempts EXCEPT ![u.attempt].sequence = u.sequence,
                                     ![u.attempt].final = u.final]
     /\ EndTx(w, "stored", u.final)
     /\ UNCHANGED <<requestVars, batches, jobs, assigned, deleted, gradeQueue, faults>>

UpdateAttempt_NoGrade(w) ==
  LET u == CurrentUpload(w)
  IN /\ run[w].pc = "update"
     /\ attempts' = [attempts EXCEPT ![u.attempt] =
          [seat |-> u.seat, sequence |-> u.sequence, final |-> u.final,
           response |-> u.response,
           pending |-> @.pending \/ @.response # u.response]]
     /\ EndTx(w, "stored", FALSE)
     /\ UNCHANGED <<requestVars, batches, jobs, assigned, deleted, gradeQueue, faults>>

\* Only a changed response sends an answer back to the grader.
UpdateAttempt(w) ==
  LET u == CurrentUpload(w)
  IN /\ run[w].pc = "update"
     /\ attempts' = [attempts EXCEPT ![u.attempt] =
          [seat |-> u.seat, sequence |-> u.sequence, final |-> u.final,
           response |-> u.response,
           pending |-> @.pending \/ @.response # u.response]]
     /\ EndTx(w, "stored", u.final)
     /\ UNCHANGED <<requestVars, batches, jobs, assigned, deleted, gradeQueue, faults>>
-----------------------------------------------------------------------------
(* ingestBatch: after the last attempt.                                    *)

EnqueueGrading(w) ==
  /\ run[w].pc = "grade"
  /\ gradeQueue' = gradeQueue \cup {Head(run[w].toGrade)}
  /\ run' = [run EXCEPT ![w].toGrade = Tail(@),
                        ![w].pc = IF Len(run[w].toGrade) > 1 THEN "grade" ELSE "finish"]
  /\ UNCHANGED <<requestVars, batches, jobs, attempts, assigned, deleted, faults>>

FinishBatch(w) ==
  LET b == BatchOf(run[w].job)
  IN /\ run[w].pc = "finish"
     /\ batches' = [batches EXCEPT ![b].status = "processed",
                                   ![b].outcomes = run[w].outcomes]
     /\ Queue!Complete(w, run[w].job)
     /\ run' = [run EXCEPT ![w] = IdleRun]
     /\ UNCHANGED <<requestVars, storeVars, faults>>

\* A database or Redis call fails.  (While the payload is read the code catches
\* everything: PayloadUnreadable.)
WorkerThrows(w) ==
  /\ run[w].pc \notin {"idle", "read"}
  /\ Fault("throw")
  /\ Rethrow(w)

\* The worker process dies; its job stays active until the lock expires.
WorkerCrash(w) ==
  /\ run[w].pc # "idle"
  /\ Fault("crash-worker")
  /\ run' = [run EXCEPT ![w] = IdleRun]
  /\ UNCHANGED <<requestVars, batches, jobs, storeVars>>

RecoverStalled(j) ==
  /\ ~Alive(j)
  /\ Queue!Stall(j)
  /\ UNCHANGED <<requestVars, batches, run, storeVars, faults>>

\* The lock expires under a slot that is only slow: the job runs twice.
LoseLock(j) ==
  /\ Alive(j)
  /\ Fault("stall")
  /\ Queue!Stall(j)
  /\ UNCHANGED <<requestVars, batches, run, storeVars>>
-----------------------------------------------------------------------------
(* The grading worker and the administrator.                               *)

\* gradeAttempt runs in one transaction under the row lock.
GradeAttempt(a) ==
  /\ a \in gradeQueue
  /\ ~Locked(a)
  /\ gradeQueue' = gradeQueue \ {a}
  /\ attempts' = IF attempts[a] = None THEN attempts
                 ELSE [attempts EXCEPT ![a].pending = FALSE]
  /\ UNCHANGED <<requestVars, batches, jobs, run, assigned, deleted, faults>>

DeleteAttempt(a) ==
  /\ "delete" \in Environment
  /\ attempts[a] # None
  /\ ~Locked(a)
  /\ attempts' = [attempts EXCEPT ![a] = None]
  /\ deleted' = deleted \cup {a}
  /\ UNCHANGED <<requestVars, batches, jobs, run, assigned, gradeQueue, faults>>

AddParticipant(seat) ==
  /\ "roster" \in Environment
  /\ assigned' = assigned \cup {seat}
  /\ UNCHANGED <<requestVars, batches, jobs, run, attempts, deleted, gradeQueue, faults>>

RemoveParticipant(seat) ==
  /\ "roster" \in Environment
  /\ assigned' = assigned \ {seat}
  /\ UNCHANGED <<requestVars, batches, jobs, run, attempts, deleted, gradeQueue, faults>>
-----------------------------------------------------------------------------
RequestStep(h) == PutPayload(h) \/ InsertBatch(h) \/ EnqueueIngest(h) \/ RequeueBatch(h)

RunStep(w) ==
  \/ MarkProcessing(w) \/ ReadPayload(w) \/ PayloadUnreadable(w)
  \/ CheckUpload(w) \/ LockAttempt(w) \/ CheckOther(w)
  \/ InsertAttempt(w) \/ InsertConflict(w) \/ UpdateAttempt(w)
  \/ EnqueueGrading(w) \/ FinishBatch(w)

TakeJob(w) == \E j \in JobId : SkipProcessed(w, j) \/ StartIngest(w, j)

Next ==
  \/ \E h \in Http, s \in Site, b \in Batch : PostKnown(h, s, b) \/ PostNew(h, s, b)
  \/ \E h \in Http, b \in Batch : ReprocessBatch(h, b)
  \/ \E h \in Http : RequestStep(h) \/ HttpFails(h)
  \/ \E w \in Worker : TakeJob(w) \/ RunStep(w) \/ WorkerThrows(w) \/ WorkerCrash(w)
  \/ \E j \in JobId : RecoverStalled(j) \/ LoseLock(j)
  \/ \E a \in Attempt : GradeAttempt(a) \/ DeleteAttempt(a)
  \/ \E seat \in Seat : AddParticipant(seat) \/ RemoveParticipant(seat)

Spec == Init /\ [][Next]_vars

\* A request that started runs on, the workers serve their queues, and BullMQ's
\* stalled-job check runs periodically.  Sites, administrators and faults owe
\* nothing.
Fairness ==
  /\ \A h \in Http : WF_vars(RequestStep(h))
  /\ \A w \in Worker : WF_vars(TakeJob(w)) /\ WF_vars(RunStep(w))
  /\ \A j \in JobId : WF_vars(RecoverStalled(j))
  /\ \A a \in Attempt : WF_vars(GradeAttempt(a))

FairSpec == Spec /\ Fairness
-----------------------------------------------------------------------------
(* Properties.                                                             *)

RunType ==
  [pc : {"idle", "begin", "read", "check", "lock", "other", "insert", "update",
         "grade", "finish"},
   job : JobId \cup {None}, outcomes : Seq(Verdict), toGrade : Seq(Attempt)]

RequestType ==
  [pc : {"idle", "put", "insert", "enqueue", "requeue"},
   site : Site \cup {None}, job : JobId \cup {None}]

\* The types of the variables: rows of the tables, jobs of the queue and the
\* local state of the handlers.
TypeOK ==
  /\ http \in [Http -> RequestType]
  /\ acks \subseteq Site \X Batch
  /\ objects \subseteq Site \X Batch
  /\ batches \in [Batch -> BatchRow \cup {None}]
  /\ jobs \in [JobId -> Queue!Job]
  /\ run \in [Worker -> RunType]
  /\ attempts \in [Attempt -> AttemptRow \cup {None}]
  /\ assigned \subseteq Seat
  /\ deleted \subseteq Attempt
  /\ gradeQueue \subseteq Attempt
  /\ reprocesses \in 0..MaxReprocess
  /\ faults \in 0..MaxFaults

\* What "accepted: true" promises the site about an upload: its attempt is in the
\* database at this sequence or a later one, unless an administrator deleted it.
Kept(u) ==
  \/ u.attempt \in deleted
  \/ /\ attempts[u.attempt] # None
     /\ attempts[u.attempt].seat = u.seat
     /\ attempts[u.attempt].sequence >= u.sequence

\* A site marks an attempt as synchronised when its batch reports it accepted, and
\* may then forget it (docs/sinkronisasi.md section 8).  So every accepted outcome
\* a batch shows is kept, whatever ran, crashed or was retried in between.
OutcomesKept(b) ==
  \A i \in 1..Len(batches[b].outcomes) :
    batches[b].outcomes[i] \in Accepted => Kept(PayloadOf(b)[i])
AcceptedIsKept == \A b \in Batch : batches[b] # None => OutcomesKept(b)

\* Results move forward only: no step replaces a stored attempt by an older upload
\* or moves it to another seat (upsertAttempt under concurrent batches and retries).
StoredOnlyAdvances ==
  [][\A a \in Attempt : attempts[a] # None /\ attempts'[a] # None =>
       /\ attempts'[a].seat = attempts[a].seat
       /\ attempts'[a].sequence >= attempts[a].sequence]_vars

\* A stored attempt is one upload of a recorded batch of the site that owns the
\* schedule, whole: never a mix of two uploads, never another site's data.
StoredIsOneUpload ==
  \A a \in Attempt : attempts[a] # None =>
    \E b \in Batch : batches[b] # None /\ \E i \in 1..Len(PayloadOf(b)) :
      LET u == PayloadOf(b)[i]
      IN /\ u.attempt = a /\ u.packageOk
         /\ SiteOf[u.seat] = batches[b].site
         /\ attempts[a].seat = u.seat /\ attempts[a].sequence = u.sequence
         /\ attempts[a].final = u.final /\ attempts[a].response = u.response

\* One attempt per participant and schedule, although the check for another attempt
\* and the insert are separate statements (docs/sinkronisasi.md section 7).
OneAttemptPerSeat ==
  \A a, c \in Attempt :
    attempts[a] # None /\ attempts[c] # None /\ attempts[a].seat = attempts[c].seat
      => a = c

\* Work left for a batch: some job of it can still run.
JobPending(b) == \E k \in 0..MaxReprocess : Queue!Unfinished(<<b, k>>)
RequestPending(b) ==
  \E h \in Http : http[h].pc \in {"enqueue", "requeue"} /\ BatchOf(http[h].job) = b
RunPending(b) == \E w \in Worker : run[w].job # None /\ BatchOf(run[w].job) = b
JobFailed(b) == \E k \in 0..MaxReprocess : jobs[<<b, k>>].state = "failed"

\* A recorded batch that was not dealt with is still going to be: a request is about
\* to queue it, a job or a run of it is left, or its job used up its attempts.
NoBatchStranded ==
  \A b \in Batch : batches[b] # None /\ batches[b].status \in {"received", "processing"}
    => RequestPending(b) \/ JobPending(b) \/ RunPending(b) \/ JobFailed(b)

\* A batch that is not processed holds the upload that is stored.
Holds(b, a) ==
  /\ batches[b] # None /\ batches[b].status # "processed"
  /\ \E i \in 1..Len(PayloadOf(b)) :
       LET u == PayloadOf(b)[i]
       IN u.attempt = a /\ u.seat = attempts[a].seat /\ u.sequence = attempts[a].sequence

\* A finished attempt with ungraded answers is on its way to the grader: it is
\* queued, or a job that runs, or will run again, has the batch it came with, although
\* the grading is queued long after the attempt was committed (ingestBatch).
OnItsWay(a) == a \in gradeQueue \/ \E b \in Batch : Holds(b, a) /\ JobPending(b)
FinalWillBeGraded ==
  \A a \in Attempt : attempts[a] # None /\ attempts[a].final /\ attempts[a].pending => OnItsWay(a)

\* A recorded batch has its payload in object storage, which reprocessing relies on
\* (docs/arsitektur.md, principle 5).
RecordedHasPayload ==
  \A b \in Batch : batches[b] # None => <<batches[b].site, b>> \in objects

\* A batch that was answered with 2xx, and may be sent again at any time, is
\* eventually processed or marked failed.
BatchSettles ==
  \A s \in Site, b \in Batch :
    <<s, b>> \in acks ~>
      batches[b] # None /\ batches[b].status \in {"processed", "failed"}

\* A finished attempt is eventually graded, unless it is deleted or replaced by an
\* upload that is not final.
FinalGetsGraded ==
  \A a \in Attempt :
    (attempts[a] # None /\ attempts[a].final) ~>
      (attempts[a] # None => ~(attempts[a].final /\ attempts[a].pending))
-----------------------------------------------------------------------------
(* The inductive invariant behind AcceptedIsKept, StoredOnlyAdvances and   *)
(* OneAttemptPerSeat (ResultsIngestProofs).                                *)

InTransaction == {"check", "lock", "other", "insert", "update"}

\* Requests and jobs refer to recorded batches.
RequestInOrder(h) ==
  http[h].pc # "idle" =>
    /\ http[h].site \in Site /\ http[h].job \in JobId
    /\ http[h].pc \in {"enqueue", "requeue"} => batches[BatchOf(http[h].job)] # None
JobsHaveBatch ==
  \A j \in JobId : jobs[j].state # "none" => batches[BatchOf(j)] # None

\* A batch shows no verdicts yet, or one for each upload of its payload.
OutcomesFit(b) == Len(batches[b].outcomes) \in {0, Len(PayloadOf(b))}

\* A run has one verdict for each upload it is done with.
RunInOrder(w) ==
  LET b == BatchOf(run[w].job)
      done == Len(run[w].outcomes)
  IN run[w].pc # "idle" =>
       /\ run[w].job \in JobId /\ batches[b] # None
       /\ run[w].pc \in {"begin", "read"} => done = 0
       /\ run[w].pc \in InTransaction => done < Len(PayloadOf(b))
       /\ run[w].pc \in {"grade", "finish"} => done = Len(PayloadOf(b))
       /\ run[w].pc = "grade" => run[w].toGrade # <<>>

\* A run has accepted only what is kept; its verdicts are not visible yet.
RunKept(w) ==
  run[w].pc # "idle" =>
    \A i \in 1..Len(run[w].outcomes) :
      run[w].outcomes[i] \in Accepted => Kept(PayloadOf(BatchOf(run[w].job))[i])

\* What the row lock protects: the row that a run is about to overwrite is still the
\* one it compared its upload with, and no other run is about to overwrite it.
LockedRowIsOlder(w) ==
  LET u == CurrentUpload(w)
  IN run[w].pc = "update" =>
       /\ attempts[u.attempt] # None
       /\ attempts[u.attempt].seat = u.seat
       /\ attempts[u.attempt].sequence <= u.sequence
LockIsExclusive ==
  \A v, w \in Worker :
    /\ run[v].pc = "update" /\ run[w].pc = "update"
    /\ CurrentUpload(v).attempt = CurrentUpload(w).attempt
    => v = w

\* Everything above, which every step of the pipeline preserves: it holds in all
\* reachable states because each verdict is given under the row lock.
IndInv ==
  /\ TypeOK
  /\ \A h \in Http : RequestInOrder(h)
  /\ JobsHaveBatch
  /\ \A b \in Batch : batches[b] # None => OutcomesFit(b)
  /\ \A w \in Worker : RunInOrder(w) /\ RunKept(w) /\ LockedRowIsOlder(w)
  /\ LockIsExclusive
  /\ AcceptedIsKept
=============================================================================
