----------------------------- MODULE GradingProofs -----------------------------
(***************************************************************************)
(* Proofs about Grading: marks survive; once everything settled, grades    *)
(* fit the responses and the keys, and totals fit the grades.              *)
(***************************************************************************)
EXTENDS Grading, TLAPS

(* The invariants.                                                         *)

\* A slot that is not idle owns its job.  From the lock of the attempt to the commit the
\* attempt is there, and what is to be graded was not marked by hand.
RunOK(w) ==
  LET r == run[w]
      a == RunAttempt(w)
  IN /\ r.pc = "idle" => r.job = None
     /\ r.pc # "idle" => r.job \in JobId /\ Queue!Owns(w, r.job)
     /\ r.pc \in {"read", "grade"} => r.key \in Edition /\ attempts[a] # None
     /\ r.pc = "read" => r.todo = {} /\ r.done = {}
     /\ r.pc = "grade" =>
          /\ \A q \in r.todo \cup r.done : r.rows[q] # None
          /\ \A q \in r.todo \cup r.done : answers[a][q] # None => answers[a][q].status # "manual"
          /\ \A q \in r.done : r.rows[q] = Grade(q, r.key, r.rows[q].response)

Uploading(c) == call[c].pc \in {"store", "enqueue"}
Regrading(c) == call[c].pc \in {"refresh", "select", "reset", "bulk"}

\* The jobs of a request are new when it adds them.
CallOK(c) ==
  /\ call[c].pc \in {"store", "enqueue", "lock", "mark"} => call[c].attempt \in Attempt
  /\ call[c].pc = "store" => call[c].upload \in Upload
  /\ call[c].pc \in {"lock", "mark"} =>
       call[c].question \in Question /\ answers[call[c].attempt][call[c].question] # None
  /\ call[c].pc = "refresh" => call[c].key \in Edition
  /\ Uploading(c) => /\ call[c].number \in 1..uploads
                     /\ \A a \in Attempt : jobs[<<"upload", call[c].number, a>>].state = "none"
  /\ Regrading(c) => /\ call[c].number \in 1..regrades
                     /\ \A a \in Attempt : jobs[<<"force", call[c].number, a>>].state = "none"

NumbersFresh ==
  /\ \A j \in JobId : jobs[j].state # "none" => j[2] <= IF Forced(j) THEN regrades ELSE uploads
  /\ \A c, d \in Caller : call[c].number = call[d].number =>
       /\ Uploading(c) /\ Uploading(d) => c = d
       /\ Regrading(c) /\ Regrading(d) => c = d

LocksAreExclusive == \A a \in Attempt : \A x, y \in AttemptHolders(a) : x = y

\* Answers belong to attempts, and a grade is what the engine computes from the response
\* and the keys it names.
RowsOK ==
  \A a \in Attempt, q \in Question : answers[a][q] # None =>
    /\ attempts[a] # None
    /\ answers[a][q].status \notin {"pending", "manual"} =>
         /\ answers[a][q].score.key \in Edition
         /\ answers[a][q] = Grade(q, answers[a][q].score.key, answers[a][q].response)

\* What ReadAnswers selects.
ToGrade(w) ==
  LET rows == RowsToGrade(RunAttempt(w))
  IN {q \in Question : rows[q] # None /\ rows[q].status # "manual"
                         /\ (Forced(run[w].job) \/ rows[q].status = "pending")}

IndInv ==
  /\ TypeOK
  /\ \A w \in Worker : RunOK(w)
  /\ \A c \in Caller : CallOK(c)
  /\ NumbersFresh
  /\ LocksAreExclusive
  /\ RowsOK
-----------------------------------------------------------------------------
(* Values.                                                                 *)

LEMMA JobParts ==
  ASSUME NEW j \in JobId
  PROVE  /\ AttemptOf(j) \in Attempt /\ j[2] \in Nat
         /\ j = <<j[1], j[2], AttemptOf(j)>>
         /\ Forced(j) => j[1] = "force" /\ j[2] \in 1..MaxRegrades
         /\ ~Forced(j) => j[1] = "upload" /\ j[2] \in 1..MaxUploads
BY ConstantsAssumption DEF JobId, AttemptOf, Forced

LEMMA UploadJob ==
  ASSUME NEW n \in 1..MaxUploads, NEW a \in Attempt
  PROVE  LET j == <<"upload", n, a>> IN j \in JobId /\ AttemptOf(j) = a /\ ~Forced(j) /\ j[2] = n
BY DEF JobId, AttemptOf, Forced

LEMMA ForceJob ==
  ASSUME NEW n \in 1..MaxRegrades, NEW a \in Attempt
  PROVE  LET j == <<"force", n, a>> IN j \in JobId /\ AttemptOf(j) = a /\ Forced(j) /\ j[2] = n
BY DEF JobId, AttemptOf, Forced

LEMMA GradeTyped ==
  ASSUME NEW q \in Question, NEW key \in Edition, NEW response \in Response \cup {None}
  PROVE  LET row == Grade(q, key, response)
         IN /\ row \in AnswerRow /\ row # None
            /\ row.response = response /\ row.status \notin {"pending", "manual"}
            /\ row.score \in AutoScore /\ row.score.key = key
<1>1. [key |-> key, response |-> response] \in AutoScore
  BY DEF AutoScore
<1>2. Grade(q, key, response) \in AnswerRow
  BY <1>1 DEF Grade, AnswerRow
<1>3. QED
  BY <1>1, <1>2, NoneAssumption DEF Grade

\* What UPDATEs of single columns make of a row.
LEMMA RowReset ==
  ASSUME NEW row \in AnswerRow
  PROVE  LET new == [row EXCEPT !.status = "pending"]
         IN new \in AnswerRow /\ new # None /\ new.response = row.response /\ new.status = "pending"
BY NoneAssumption DEF AnswerRow

LEMMA RowReplaced ==
  ASSUME NEW row \in AnswerRow, NEW response \in Response \cup {None}
  PROVE  LET new == [row EXCEPT !.response = response, !.status = "pending"]
         IN new \in AnswerRow /\ new # None /\ new.response = response /\ new.status = "pending"
BY NoneAssumption DEF AnswerRow

LEMMA RowMarked ==
  ASSUME NEW row \in AnswerRow, NEW m \in Mark
  PROVE  LET new == [row EXCEPT !.status = "manual", !.score = m]
         IN /\ new \in AnswerRow /\ new # None /\ new.response = row.response
            /\ new.status = "manual" /\ new.score = m
BY NoneAssumption DEF AnswerRow

LEMMA NewRow ==
  ASSUME NEW response \in Response \cup {None}
  PROVE  LET new == [response |-> response, status |-> "pending", score |-> None]
         IN new \in AnswerRow /\ new # None /\ new.status = "pending"
BY NoneAssumption DEF AnswerRow
-----------------------------------------------------------------------------
(* What one step may do to each table and process.                         *)

LEMMA Waiting ==
  /\ \A w \in Worker : Deadlocked(w) => run[w].pc = "grade"
  /\ \A c \in Caller : Deadlocked(c) => call[c].pc \in {"lock", "store"}
  /\ \A c \in Caller : call[c].pc = "lock" => WaitsFor(c) = AttemptHolders(call[c].attempt)
<1>1. \A w \in Worker : w \notin Caller
  BY ConstantsAssumption
<1>2. ASSUME NEW w \in Worker, Deadlocked(w) PROVE run[w].pc = "grade"
  <2>1. WaitsFor(w) # {}
    BY <1>2 DEF Deadlocked
  <2>2. QED
    BY <1>1, <2>1 DEF WaitsFor
<1>3. ASSUME NEW c \in Caller, Deadlocked(c) PROVE call[c].pc \in {"lock", "store"}
  <2>1. WaitsFor(c) # {}
    BY <1>3 DEF Deadlocked
  <2>2. QED
    BY <1>1, <2>1 DEF WaitsFor
<1>4. ASSUME NEW c \in Caller, call[c].pc = "lock"
      PROVE  WaitsFor(c) = AttemptHolders(call[c].attempt)
  BY <1>1, <1>4 DEF WaitsFor
<1>5. QED
  BY <1>2, <1>3, <1>4

LEMMA RunStepOf ==
  ASSUME TypeOK, [Next]_vars, NEW w \in Worker
  PROVE  \/ run'[w] = run[w]
         \/ run'[w] = IdleRun
         \/ \E j \in JobId : /\ BeginGrade(w, j) /\ run[w] = IdleRun
                             /\ run'[w] = [IdleRun EXCEPT !.pc = "read", !.job = j, !.key = keys]
         \/ /\ ReadAnswers(w)
            /\ run'[w] = [run[w] EXCEPT !.pc = "grade", !.rows = RowsToGrade(RunAttempt(w)),
                                        !.todo = ToGrade(w)]
         \/ \E q \in Question :
              /\ GradeAnswer(w, q)
              /\ run'[w] = [run[w] EXCEPT
                   !.rows[q] = Grade(q, run[w].key, run[w].rows[q].response),
                   !.todo = run[w].todo \ {q}, !.done = run[w].done \cup {q}]
         \/ CommitGrades(w) /\ run'[w] = [IdleRun EXCEPT !.pc = "done", !.job = run[w].job]
<1>0. run \in [Worker -> RunType]
  BY DEF TypeOK
<1>1. CASE \E v \in Worker : CompleteJob(v) \/ AbortRun(v) \/ WorkerCrash(v)
  <2> PICK v \in Worker : CompleteJob(v) \/ AbortRun(v) \/ WorkerCrash(v)
    BY <1>1
  <2>1. run' = [run EXCEPT ![v] = IdleRun]
    BY DEF CompleteJob, AbortRun, WorkerCrash
  <2>2. QED
    BY <1>0, <2>1
<1>2. CASE \E v \in Worker, j \in JobId : BeginGrade(v, j)
  <2> PICK v \in Worker, j \in JobId : BeginGrade(v, j)
    BY <1>2
  <2>1. /\ run[v] = IdleRun
        /\ run' = [run EXCEPT ![v].pc = "read", ![v].job = j, ![v].key = keys]
    BY DEF BeginGrade
  <2>2. CASE v = w
    <3>1. run'[w] = [run[w] EXCEPT !.pc = "read", !.job = j, !.key = keys]
      BY <1>0, <2>1, <2>2
    <3>2. QED
      BY <2>1, <2>2, <3>1
  <2>3. CASE v # w
    BY <1>0, <2>1, <2>3
  <2>4. QED
    BY <2>2, <2>3
<1>3. CASE \E v \in Worker : ReadAnswers(v)
  <2> PICK v \in Worker : ReadAnswers(v)
    BY <1>3
  <2>1. run' = [run EXCEPT ![v].pc = "grade", ![v].rows = RowsToGrade(RunAttempt(v)),
                           ![v].todo = ToGrade(v)]
    BY DEF ReadAnswers, ToGrade
  <2>2. QED
    BY <1>0, <2>1
<1>4. CASE \E v \in Worker, q \in Question : GradeAnswer(v, q)
  <2> PICK v \in Worker, q \in Question : GradeAnswer(v, q)
    BY <1>4
  <2>1. run' = [run EXCEPT ![v].rows[q] = Grade(q, run[v].key, run[v].rows[q].response),
                           ![v].todo = run[v].todo \ {q}, ![v].done = run[v].done \cup {q}]
    BY DEF GradeAnswer
  <2>2. QED
    BY <1>0, <2>1
<1>5. CASE \E v \in Worker : CommitGrades(v)
  BY <1>0, <1>5 DEF CommitGrades
<1>6. CASE run' = run
  BY <1>6
<1>7. QED
  BY <1>1, <1>2, <1>3, <1>4, <1>5, <1>6
  DEF Next, vars, tables, counters, RegradeDies, LockForUpload, StoreUpload, EnqueueGrading, DeleteAttempt,
      RegradeOne, SkipDeleted, RecoverStalled, LockAnswer, LockItsAttempt, SetMark, AbortCall,
      EditBank, StartRegrade, WriteKeys, SelectFinished, ResetAutoGrades, EnqueueBulk

LEMMA CallStepOf ==
  ASSUME TypeOK, [Next]_vars, NEW c \in Caller
  PROVE  \/ call'[c] = call[c]
         \/ call'[c] = IdleCall /\ call[c].pc = "mark"
         \/ call'[c] = IdleCall /\ AbortCall(c)
         \/ call'[c] = IdleCall /\ (EnqueueGrading(c) \/ EnqueueBulk(c) \/ RegradeDies(c))
         \/ \E a \in Attempt, u \in Upload :
              /\ LockForUpload(c, a, u)
              /\ call'[c] = [IdleCall EXCEPT !.pc = "store", !.attempt = a, !.upload = u,
                                             !.number = uploads + 1]
         \/ /\ StoreUpload(c)
            /\ call'[c] = IF call[c].upload.final
                          THEN [IdleCall EXCEPT !.pc = "enqueue", !.attempt = call[c].attempt,
                                                !.number = call[c].number]
                          ELSE IdleCall
         \/ \E a \in Attempt, q \in Question :
              /\ LockAnswer(c, a, q)
              /\ call'[c] = [IdleCall EXCEPT !.pc = "lock", !.attempt = a, !.question = q]
         \/ LockItsAttempt(c) /\ call'[c] = [call[c] EXCEPT !.pc = "mark"]
         \/ \E pc \in {"refresh", "select"} :
              /\ StartRegrade(c)
              /\ call'[c] = [IdleCall EXCEPT !.pc = pc, !.number = regrades + 1,
                                             !.key = IF pc = "refresh" THEN bank ELSE None]
         \/ WriteKeys(c) /\ call'[c] = [call[c] EXCEPT !.pc = "select"]
         \/ /\ SelectFinished(c)
            /\ call'[c] = [call[c] EXCEPT !.pc = "reset", !.ids = {a \in Attempt : Finished(a)}]
         \/ ResetAutoGrades(c) /\ call'[c] = [call[c] EXCEPT !.pc = "bulk"]
<1>0. call \in [Caller -> CallType]
  BY DEF TypeOK
<1>1. CASE \E d \in Caller : EnqueueGrading(d) \/ EnqueueBulk(d) \/ RegradeDies(d)
  <2> PICK d \in Caller : EnqueueGrading(d) \/ EnqueueBulk(d) \/ RegradeDies(d)
    BY <1>1
  <2>1. call' = [call EXCEPT ![d] = IdleCall]
    BY DEF EnqueueGrading, EnqueueBulk, RegradeDies
  <2>2. QED
    BY <1>0, <2>1
<1>2. CASE \E d \in Caller : AbortCall(d) \/ SetMark(d)
  <2> PICK d \in Caller : AbortCall(d) \/ SetMark(d)
    BY <1>2
  <2>1. call' = [call EXCEPT ![d] = IdleCall] /\ (AbortCall(d) \/ call[d].pc = "mark")
    BY DEF AbortCall, SetMark
  <2>2. QED
    BY <1>0, <2>1
<1>3. CASE \E d \in Caller, a \in Attempt, u \in Upload : LockForUpload(d, a, u)
  <2> PICK d \in Caller, a \in Attempt, u \in Upload : LockForUpload(d, a, u)
    BY <1>3
  <2>1. call' = [call EXCEPT ![d] = [IdleCall EXCEPT !.pc = "store", !.attempt = a, !.upload = u,
                                                     !.number = uploads + 1]]
    BY DEF LockForUpload
  <2>2. QED
    BY <1>0, <2>1
<1>4. CASE \E d \in Caller : StoreUpload(d)
  <2> PICK d \in Caller : StoreUpload(d)
    BY <1>4
  <2>1. call' = [call EXCEPT ![d] =
                   IF call[d].upload.final
                   THEN [IdleCall EXCEPT !.pc = "enqueue", !.attempt = call[d].attempt,
                                         !.number = call[d].number]
                   ELSE IdleCall]
    BY DEF StoreUpload
  <2>2. QED
    BY <1>0, <2>1
<1>5. CASE \E d \in Caller, a \in Attempt, q \in Question : LockAnswer(d, a, q)
  <2> PICK d \in Caller, a \in Attempt, q \in Question : LockAnswer(d, a, q)
    BY <1>5
  <2>1. call' = [call EXCEPT ![d] = [IdleCall EXCEPT !.pc = "lock", !.attempt = a, !.question = q]]
    BY DEF LockAnswer
  <2>2. QED
    BY <1>0, <2>1
<1>6. CASE \E d \in Caller : LockItsAttempt(d) \/ WriteKeys(d)
  <2> PICK d \in Caller : LockItsAttempt(d) \/ WriteKeys(d)
    BY <1>6
  <2>1. \/ LockItsAttempt(d) /\ call' = [call EXCEPT ![d].pc = "mark"]
        \/ WriteKeys(d) /\ call' = [call EXCEPT ![d].pc = "select"]
    BY DEF LockItsAttempt, WriteKeys
  <2>2. QED
    BY <1>0, <2>1
<1>7. CASE \E d \in Caller : StartRegrade(d)
  <2> PICK d \in Caller : StartRegrade(d)
    BY <1>7
  <2>1. PICK pc \in {"refresh", "select"} :
          call' = [call EXCEPT ![d] = [IdleCall EXCEPT
                     !.pc = pc, !.number = regrades + 1,
                     !.key = IF pc = "refresh" THEN bank ELSE None]]
    BY DEF StartRegrade
  <2>2. QED
    BY <1>0, <2>1
<1>8. CASE \E d \in Caller : SelectFinished(d)
  <2> PICK d \in Caller : SelectFinished(d)
    BY <1>8
  <2>1. call' = [call EXCEPT ![d].pc = "reset", ![d].ids = {a \in Attempt : Finished(a)}]
    BY DEF SelectFinished
  <2>2. QED
    BY <1>0, <2>1
<1>9. CASE \E d \in Caller : ResetAutoGrades(d)
  <2> PICK d \in Caller : ResetAutoGrades(d)
    BY <1>9
  <2>1. call' = [call EXCEPT ![d].pc = "bulk"]
    BY DEF ResetAutoGrades
  <2>2. QED
    BY <1>0, <2>1
<1>10. CASE call' = call
  BY <1>10
<1>11. QED
  BY <1>1, <1>2, <1>3, <1>4, <1>5, <1>6, <1>7, <1>8, <1>9, <1>10
  DEF Next, vars, tables, counters, RegradeDies, DeleteAttempt, RegradeOne, SkipDeleted, BeginGrade,
      GradeAnswer, ReadAnswers, CommitGrades, CompleteJob, AbortRun, WorkerCrash, RecoverStalled,
      EditBank

\* Each operation of the queue replaces one job by a job, addBulk several.
LEMMA JobsTyped ==
  ASSUME TypeOK, [Next]_vars, \A w \in Worker : RunOK(w), \A c \in Caller : CallOK(c)
  PROVE  jobs' \in [JobId -> Queue!Job]
<1>0. jobs \in [JobId -> Queue!Job] /\ run \in [Worker -> RunType] /\ call \in [Caller -> CallType]
  BY DEF TypeOK
<1>1. ASSUME NEW j, NEW job \in Queue!Job, jobs' = [jobs EXCEPT ![j] = job]
      PROVE  jobs' \in [JobId -> Queue!Job]
  BY <1>0, <1>1
<1>2. ASSUME NEW j \in JobId, Queue!Add(j) PROVE jobs' \in [JobId -> Queue!Job]
  <2>1. [jobs[j] EXCEPT !.state = IF jobs[j].state = "none" THEN "waiting" ELSE jobs[j].state]
          \in Queue!Job
    BY <1>0 DEF Queue!Job
  <2>2. QED
    BY <1>0, <1>2, <2>1 DEF Queue!Add
<1>3. CASE \E c \in Caller : EnqueueGrading(c)
  <2> PICK c \in Caller : EnqueueGrading(c)
    BY <1>3
  <2>1. call[c].attempt \in Attempt /\ call[c].number \in 1..uploads /\ uploads \in 0..MaxUploads
    BY <1>0 DEF EnqueueGrading, CallOK, Uploading, TypeOK
  <2>2. call[c].number \in 1..MaxUploads
    BY <2>1, ConstantsAssumption
  <2>3. <<"upload", call[c].number, call[c].attempt>> \in JobId
    BY <2>1, <2>2, UploadJob
  <2>4. QED
    BY <1>2, <2>3 DEF EnqueueGrading
<1>4. CASE \E a \in Attempt : RegradeOne(a)
  <2> PICK a \in Attempt : RegradeOne(a)
    BY <1>4
  <2>1. regrades + 1 \in 1..MaxRegrades
    BY ConstantsAssumption DEF RegradeOne, TypeOK
  <2>2. <<"force", regrades + 1, a>> \in JobId
    BY <2>1, ForceJob
  <2>3. QED
    BY <1>2, <2>2 DEF RegradeOne
<1>5. CASE \E w \in Worker, j \in JobId : SkipDeleted(w, j) \/ BeginGrade(w, j)
  <2> PICK w \in Worker, j \in JobId : SkipDeleted(w, j) \/ BeginGrade(w, j)
    BY <1>5
  <2>1. /\ [jobs[j] EXCEPT !.state = "completed"] \in Queue!Job
        /\ [jobs[j] EXCEPT !.state = "active", !.owner = w] \in Queue!Job
    BY <1>0 DEF Queue!Job
  <2>2. QED
    BY <1>0, <2>1 DEF SkipDeleted, BeginGrade, Queue!Take
<1>6. CASE \E w \in Worker : CompleteJob(w) \/ AbortRun(w)
  <2> PICK w \in Worker : CompleteJob(w) \/ AbortRun(w)
    BY <1>6
  <2>1. run[w].pc # "idle" /\ (Queue!Complete(w, run[w].job) \/ Queue!Throw(w, run[w].job))
    BY Waiting DEF CompleteJob, AbortRun
  <2>2. PICK j \in JobId : j = run[w].job
    BY <2>1 DEF RunOK
  <2>3. jobs[j] \in Queue!Job /\ jobs[j].tries \in 0..MaxTries
    BY <1>0 DEF Queue!Job
  <2>4. [jobs[j] EXCEPT !.state = "completed", !.owner = None] \in Queue!Job
    BY <2>3 DEF Queue!Job
  <2>5. (IF jobs[j].tries < MaxTries THEN jobs[j].tries + 1 ELSE jobs[j].tries) \in 0..MaxTries
    BY <2>3, ConstantsAssumption
  <2>6. [jobs[j] EXCEPT !.state = IF jobs[j].tries + 1 < MaxTries THEN "waiting" ELSE "failed",
                        !.tries = IF @ < MaxTries THEN @ + 1 ELSE @,
                        !.owner = None] \in Queue!Job
    BY <2>3, <2>5 DEF Queue!Job
  <2>7. QED
    BY <1>0, <2>1, <2>2, <2>4, <2>6 DEF Queue!Complete, Queue!Throw
<1>7. CASE \E j \in JobId : RecoverStalled(j)
  <2> PICK j \in JobId : RecoverStalled(j)
    BY <1>7
  <2>1. jobs[j] \in Queue!Job /\ jobs[j].stalls \in 0..MaxStalls
    BY <1>0 DEF Queue!Job
  <2>2. (IF jobs[j].stalls < MaxStalls THEN jobs[j].stalls + 1 ELSE jobs[j].stalls) \in 0..MaxStalls
    BY <2>1, ConstantsAssumption
  <2>3. [jobs[j] EXCEPT !.state = IF jobs[j].stalls < MaxStalls THEN "waiting" ELSE "failed",
                        !.stalls = IF @ < MaxStalls THEN @ + 1 ELSE @,
                        !.owner = None] \in Queue!Job
    BY <2>1, <2>2 DEF Queue!Job
  <2>4. QED
    BY <1>0, <2>3 DEF RecoverStalled, Queue!Stall
<1>8. CASE \E c \in Caller : EnqueueBulk(c)
  <2> PICK c \in Caller : EnqueueBulk(c)
    BY <1>8
  <2>1. \A j \in JobId : [jobs[j] EXCEPT !.state = "waiting"] \in Queue!Job
    BY <1>0 DEF Queue!Job
  <2>2. QED
    BY <1>0, <2>1 DEF EnqueueBulk
<1>9. CASE jobs' = jobs
  BY <1>0, <1>9
<1>10. QED
  BY <1>3, <1>4, <1>5, <1>6, <1>7, <1>8, <1>9
  DEF Next, vars, tables, counters, RegradeDies, LockForUpload, StoreUpload, DeleteAttempt, GradeAnswer,
      ReadAnswers, CommitGrades, WorkerCrash, LockAnswer, LockItsAttempt, SetMark, AbortCall,
      EditBank, StartRegrade, WriteKeys, SelectFinished, ResetAutoGrades

LEMMA JobsStep ==
  ASSUME IndInv, [Next]_vars, NEW j \in JobId
  PROVE  \/ jobs'[j] = jobs[j]
         \/ /\ jobs[j].state = "none" /\ jobs'[j].state = "waiting"
            /\ \/ \E c \in Caller :
                    EnqueueGrading(c) /\ j = <<"upload", call[c].number, call[c].attempt>>
               \/ \E a \in Attempt : RegradeOne(a) /\ j = <<"force", regrades + 1, a>>
               \/ \E c \in Caller : /\ EnqueueBulk(c) /\ AttemptOf(j) \in call[c].ids
                                    /\ j = <<"force", call[c].number, AttemptOf(j)>>
         \/ /\ jobs[j].state = "waiting" /\ jobs'[j].state = "completed"
            /\ \E w \in Worker : SkipDeleted(w, j)
         \/ /\ jobs[j].state = "waiting" /\ jobs'[j].state = "active"
            /\ \E w \in Worker : BeginGrade(w, j) /\ jobs'[j].owner = w
         \/ /\ jobs[j].state = "active" /\ jobs'[j].state = "completed"
            /\ \E w \in Worker : CompleteJob(w) /\ run[w].job = j
         \/ /\ jobs[j].state = "active" /\ jobs'[j].state \in {"waiting", "failed"}
            /\ \E w \in Worker : AbortRun(w) /\ run[w].job = j
         \/ /\ jobs[j].state = "active" /\ jobs'[j].state \in {"waiting", "failed"}
            /\ RecoverStalled(j)
<1>0. /\ jobs \in [JobId -> Queue!Job] /\ jobs[j] \in Queue!Job
      /\ \A w \in Worker : RunOK(w)
      /\ \A c \in Caller : CallOK(c)
  BY DEF IndInv, TypeOK
<1>1. ASSUME NEW k, Queue!Add(k)
      PROVE  jobs'[j] = jobs[j] \/ (k = j /\ jobs[j].state = "none" /\ jobs'[j].state = "waiting")
  <2>1. CASE k # j
    BY <1>0, <1>1, <2>1 DEF Queue!Add
  <2>2. CASE k = j /\ jobs[j].state = "none"
    BY <1>0, <1>1, <2>2 DEF Queue!Add, Queue!Job
  <2>3. CASE k = j /\ jobs[j].state # "none"
    <3>1. jobs'[j] = [jobs[j] EXCEPT !.state = jobs[j].state]
      BY <1>0, <1>1, <2>3 DEF Queue!Add
    <3>2. QED
      BY <1>0, <3>1 DEF Queue!Job
  <2>4. QED
    BY <2>1, <2>2, <2>3
<1>2. CASE \E c \in Caller : EnqueueGrading(c)
  <2> PICK c \in Caller : EnqueueGrading(c)
    BY <1>2
  <2>1. Queue!Add(<<"upload", call[c].number, call[c].attempt>>)
    BY DEF EnqueueGrading
  <2>2. \/ jobs'[j] = jobs[j]
        \/ /\ j = <<"upload", call[c].number, call[c].attempt>>
           /\ jobs[j].state = "none" /\ jobs'[j].state = "waiting"
    BY <1>1, <2>1
  <2>3. QED
    BY <2>2
<1>3. CASE \E a \in Attempt : RegradeOne(a)
  <2> PICK a \in Attempt : RegradeOne(a)
    BY <1>3
  <2>1. Queue!Add(<<"force", regrades + 1, a>>)
    BY DEF RegradeOne
  <2>2. \/ jobs'[j] = jobs[j]
        \/ /\ j = <<"force", regrades + 1, a>>
           /\ jobs[j].state = "none" /\ jobs'[j].state = "waiting"
    BY <1>1, <2>1
  <2>3. QED
    BY <2>2
<1>4. CASE \E w \in Worker, k \in JobId : SkipDeleted(w, k)
  <2> PICK w \in Worker, k \in JobId : SkipDeleted(w, k)
    BY <1>4
  <2>1. jobs[k].state = "waiting" /\ jobs' = [jobs EXCEPT ![k].state = "completed"]
    BY DEF SkipDeleted
  <2>2. CASE k = j
    <3>1. jobs'[j].state = "completed"
      BY <1>0, <2>1, <2>2 DEF Queue!Job
    <3>2. QED
      BY <2>1, <2>2, <3>1
  <2>3. CASE k # j
    BY <1>0, <2>1, <2>3
  <2>4. QED
    BY <2>2, <2>3
<1>5. CASE \E w \in Worker, k \in JobId : BeginGrade(w, k)
  <2> PICK w \in Worker, k \in JobId : BeginGrade(w, k)
    BY <1>5
  <2>1. jobs[k].state = "waiting" /\ jobs' = [jobs EXCEPT ![k].state = "active", ![k].owner = w]
    BY DEF BeginGrade, Queue!Take
  <2>2. CASE k = j
    <3>1. jobs'[j] = [jobs[j] EXCEPT !.state = "active", !.owner = w]
      BY <1>0, <2>1, <2>2
    <3>2. jobs'[j].state = "active" /\ jobs'[j].owner = w
      BY <1>0, <3>1 DEF Queue!Job
    <3>3. QED
      BY <2>1, <2>2, <3>2
  <2>3. CASE k # j
    BY <1>0, <2>1, <2>3
  <2>4. QED
    BY <2>2, <2>3
<1>6. CASE \E w \in Worker : CompleteJob(w) \/ AbortRun(w)
  <2> PICK w \in Worker : CompleteJob(w) \/ AbortRun(w)
    BY <1>6
  <2>1. run[w].pc # "idle"
    BY Waiting DEF CompleteJob, AbortRun
  <2>2. run[w].job \in JobId /\ Queue!Owns(w, run[w].job)
    BY <1>0, <2>1 DEF RunOK
  <2>3. CASE run[w].job = j /\ CompleteJob(w)
    <3>1. jobs' = [jobs EXCEPT ![j].state = "completed", ![j].owner = None]
      BY <2>2, <2>3 DEF CompleteJob, Queue!Complete
    <3>2. jobs'[j] = [jobs[j] EXCEPT !.state = "completed", !.owner = None]
      BY <1>0, <3>1
    <3>3. jobs'[j].state = "completed"
      BY <1>0, <3>2 DEF Queue!Job
    <3>4. QED
      BY <2>2, <2>3, <3>3 DEF Queue!Owns
  <2>4. CASE run[w].job = j /\ AbortRun(w)
    <3>1. jobs' = [jobs EXCEPT
                     ![j].state = IF jobs[j].tries + 1 < MaxTries THEN "waiting" ELSE "failed",
                     ![j].tries = IF @ < MaxTries THEN @ + 1 ELSE @,
                     ![j].owner = None]
      BY <2>2, <2>4 DEF AbortRun, Queue!Throw
    <3>2. jobs'[j] = [jobs[j] EXCEPT
                        !.state = IF jobs[j].tries + 1 < MaxTries THEN "waiting" ELSE "failed",
                        !.tries = IF @ < MaxTries THEN @ + 1 ELSE @,
                        !.owner = None]
      BY <1>0, <3>1
    <3>3. jobs'[j].state = IF jobs[j].tries + 1 < MaxTries THEN "waiting" ELSE "failed"
      BY <1>0, <3>2 DEF Queue!Job
    <3>4. QED
      BY <2>2, <2>4, <3>3 DEF Queue!Owns
  <2>5. CASE run[w].job # j
    BY <1>0, <2>2, <2>5 DEF CompleteJob, AbortRun, Queue!Complete, Queue!Throw
  <2>6. QED
    BY <2>3, <2>4, <2>5
<1>7. CASE \E k \in JobId : RecoverStalled(k)
  <2> PICK k \in JobId : RecoverStalled(k)
    BY <1>7
  <2>1. /\ jobs[k].state = "active"
        /\ jobs' = [jobs EXCEPT
                      ![k].state  = IF jobs[k].stalls < MaxStalls THEN "waiting" ELSE "failed",
                      ![k].stalls = IF @ < MaxStalls THEN @ + 1 ELSE @,
                      ![k].owner  = None]
    BY DEF RecoverStalled, Queue!Stall
  <2>2. CASE k = j
    <3>1. jobs'[j] = [jobs[j] EXCEPT
                        !.state  = IF jobs[j].stalls < MaxStalls THEN "waiting" ELSE "failed",
                        !.stalls = IF @ < MaxStalls THEN @ + 1 ELSE @,
                        !.owner  = None]
      BY <1>0, <2>1, <2>2
    <3>2. jobs'[j].state = IF jobs[j].stalls < MaxStalls THEN "waiting" ELSE "failed"
      BY <1>0, <3>1 DEF Queue!Job
    <3>3. QED
      BY <2>1, <2>2, <3>2
  <2>3. CASE k # j
    BY <1>0, <2>1, <2>3
  <2>4. QED
    BY <2>2, <2>3
<1>8. CASE \E c \in Caller : EnqueueBulk(c)
  <2> PICK c \in Caller : EnqueueBulk(c)
    BY <1>8
  <2>1. jobs'[j] = IF j[1] = "force" /\ j[2] = call[c].number /\ j[3] \in call[c].ids
                   THEN [jobs[j] EXCEPT !.state = "waiting"] ELSE jobs[j]
    BY DEF EnqueueBulk
  <2>2. CASE j[1] = "force" /\ j[2] = call[c].number /\ j[3] \in call[c].ids
    <3>1. AttemptOf(j) = j[3] /\ AttemptOf(j) \in Attempt /\ j = <<"force", call[c].number, AttemptOf(j)>>
      BY <2>2, JobParts DEF AttemptOf
    <3>2. Regrading(c)
      BY DEF EnqueueBulk, Regrading
    <3>3. jobs[<<"force", call[c].number, AttemptOf(j)>>].state = "none"
      BY <1>0, <3>1, <3>2 DEF CallOK
    <3>4. jobs'[j].state = "waiting"
      BY <1>0, <2>1, <2>2 DEF Queue!Job
    <3>5. jobs[j].state = "none"
      BY <3>1, <3>3
    <3>6. AttemptOf(j) \in call[c].ids
      BY <2>2, <3>1
    <3>7. QED
      BY <3>1, <3>4, <3>5, <3>6
  <2>3. QED
    BY <2>1, <2>2
<1>9. CASE jobs' = jobs
  BY <1>9
<1>10. QED
  BY <1>2, <1>3, <1>4, <1>5, <1>6, <1>7, <1>8, <1>9
  DEF Next, vars, tables, counters, RegradeDies, LockForUpload, StoreUpload, DeleteAttempt, GradeAnswer,
      ReadAnswers, CommitGrades, WorkerCrash, LockAnswer, LockItsAttempt, SetMark, AbortCall,
      EditBank, StartRegrade, WriteKeys, SelectFinished, ResetAutoGrades

LEMMA AttemptsStep ==
  ASSUME IndInv, [Next]_vars, NEW a \in Attempt
  PROVE  \/ attempts'[a] = attempts[a]
         \/ \E c \in Caller :
              /\ StoreUpload(c) /\ call[c].attempt = a
              /\ attempts'[a] = [final |-> call[c].upload.final, presented |-> call[c].upload.presented]
         \/ DeleteAttempt(a) /\ attempts'[a] = None /\ \A q \in Question : answers'[a][q] = None
<1>0. /\ attempts \in [Attempt -> AttemptRow \cup {None}]
      /\ answers \in [Attempt -> [Question -> AnswerRow \cup {None}]]
  BY DEF IndInv, TypeOK
<1>1. CASE \E c \in Caller : StoreUpload(c)
  <2> PICK c \in Caller : StoreUpload(c)
    BY <1>1
  <2>1. attempts' = [attempts EXCEPT ![call[c].attempt] =
                       [final |-> call[c].upload.final, presented |-> call[c].upload.presented]]
    BY DEF StoreUpload
  <2>2. QED
    BY <1>0, <2>1
<1>2. CASE \E b \in Attempt : DeleteAttempt(b)
  <2> PICK b \in Attempt : DeleteAttempt(b)
    BY <1>2
  <2>1. attempts' = [attempts EXCEPT ![b] = None] /\ answers' = [answers EXCEPT ![b] = NoAnswers]
    BY DEF DeleteAttempt
  <2>2. CASE b = a
    <3>1. attempts'[a] = None /\ answers'[a] = NoAnswers
      BY <1>0, <2>1, <2>2
    <3>2. \A q \in Question : answers'[a][q] = None
      BY <3>1 DEF NoAnswers
    <3>3. QED
      BY <2>2, <3>1, <3>2
  <2>3. CASE b # a
    BY <1>0, <2>1, <2>3
  <2>4. QED
    BY <2>2, <2>3
<1>3. CASE attempts' = attempts
  BY <1>3
<1>4. QED
  BY <1>1, <1>2, <1>3
  DEF Next, vars, tables, counters, RegradeDies, LockForUpload, EnqueueGrading, RegradeOne, SkipDeleted,
      BeginGrade, GradeAnswer, ReadAnswers, CommitGrades, CompleteJob, AbortRun, WorkerCrash,
      RecoverStalled, LockAnswer, LockItsAttempt, SetMark, AbortCall, EditBank, StartRegrade,
      WriteKeys, SelectFinished, ResetAutoGrades, EnqueueBulk

LEMMA AnswersStep ==
  ASSUME IndInv, [Next]_vars, NEW a \in Attempt, NEW q \in Question
  PROVE  \/ answers'[a][q] = answers[a][q]
         \/ \E c \in Caller :
              /\ StoreUpload(c) /\ call[c].attempt = a /\ q \in Answered(c)
              /\ answers'[a][q] = Replace(answers[a][q], call[c].upload.answers[q])
         \/ DeleteAttempt(a) /\ answers'[a][q] = None
         \/ \E w \in Worker : /\ CommitGrades(w) /\ RunAttempt(w) = a /\ q \in run[w].done
                              /\ answers'[a][q] = run[w].rows[q]
         \/ \E c \in Caller, m \in Mark :
              /\ SetMark(c) /\ call[c].attempt = a /\ call[c].question = q
              /\ answers'[a][q] = [answers[a][q] EXCEPT !.status = "manual", !.score = m]
         \/ \E c \in Caller :
              /\ ResetAutoGrades(c) /\ a \in call[c].ids
              /\ answers[a][q] # None /\ answers[a][q].status # "manual"
              /\ answers'[a][q] = [answers[a][q] EXCEPT !.status = "pending"]
<1>0. /\ answers \in [Attempt -> [Question -> AnswerRow \cup {None}]]
      /\ answers[a] \in [Question -> AnswerRow \cup {None}]
  BY DEF IndInv, TypeOK
<1>1. CASE \E c \in Caller : StoreUpload(c)
  <2> PICK c \in Caller : StoreUpload(c)
    BY <1>1
  <2>1. answers' = [answers EXCEPT ![call[c].attempt] = [p \in Question |->
          IF p \in Answered(c) THEN Replace(answers[call[c].attempt][p], call[c].upload.answers[p])
          ELSE answers[call[c].attempt][p]]]
    BY DEF StoreUpload
  <2>2. CASE call[c].attempt = a
    <3>1. answers'[a] = [p \in Question |->
            IF p \in Answered(c) THEN Replace(answers[a][p], call[c].upload.answers[p])
            ELSE answers[a][p]]
      BY <1>0, <2>1, <2>2
    <3>2. answers'[a][q] = IF q \in Answered(c)
                           THEN Replace(answers[a][q], call[c].upload.answers[q])
                           ELSE answers[a][q]
      BY <3>1
    <3>3. QED
      BY <2>2, <3>2
  <2>3. CASE call[c].attempt # a
    BY <1>0, <2>1, <2>3
  <2>4. QED
    BY <2>2, <2>3
<1>2. CASE \E b \in Attempt : DeleteAttempt(b)
  <2> PICK b \in Attempt : DeleteAttempt(b)
    BY <1>2
  <2>1. answers' = [answers EXCEPT ![b] = NoAnswers]
    BY DEF DeleteAttempt
  <2>2. CASE b = a
    <3>1. answers'[a] = NoAnswers
      BY <1>0, <2>1, <2>2
    <3>2. answers'[a][q] = None
      BY <3>1 DEF NoAnswers
    <3>3. QED
      BY <2>2, <3>2
  <2>3. CASE b # a
    BY <1>0, <2>1, <2>3
  <2>4. QED
    BY <2>2, <2>3
<1>3. CASE \E w \in Worker : CommitGrades(w)
  <2> PICK w \in Worker : CommitGrades(w)
    BY <1>3
  <2>1. answers' = [answers EXCEPT ![RunAttempt(w)] = [p \in Question |->
          IF p \in run[w].done THEN run[w].rows[p] ELSE answers[RunAttempt(w)][p]]]
    BY DEF CommitGrades
  <2>2. CASE RunAttempt(w) = a
    <3>1. answers'[a] = [p \in Question |->
            IF p \in run[w].done THEN run[w].rows[p] ELSE answers[a][p]]
      BY <1>0, <2>1, <2>2
    <3>2. answers'[a][q] = IF q \in run[w].done THEN run[w].rows[q] ELSE answers[a][q]
      BY <3>1
    <3>3. QED
      BY <2>2, <3>2
  <2>3. CASE RunAttempt(w) # a
    BY <1>0, <2>1, <2>3
  <2>4. QED
    BY <2>2, <2>3
<1>4. CASE \E c \in Caller : SetMark(c)
  <2> PICK c \in Caller : SetMark(c)
    BY <1>4
  <2>1. PICK m \in Mark : answers' = [answers EXCEPT
          ![call[c].attempt][call[c].question].status = "manual",
          ![call[c].attempt][call[c].question].score = m]
    BY DEF SetMark
  <2>2. CASE call[c].attempt = a
    <3>1. answers'[a] = [answers[a] EXCEPT ![call[c].question].status = "manual",
                                           ![call[c].question].score = m]
      BY <1>0, <2>1, <2>2
    <3>2. CASE call[c].question = q
      <4>1. answers'[a][q] = [answers[a][q] EXCEPT !.status = "manual", !.score = m]
        BY <1>0, <3>1, <3>2
      <4>2. QED
        BY <2>2, <3>2, <4>1
    <3>3. CASE call[c].question # q
      BY <1>0, <3>1, <3>3
    <3>4. QED
      BY <3>2, <3>3
  <2>3. CASE call[c].attempt # a
    BY <1>0, <2>1, <2>3
  <2>4. QED
    BY <2>2, <2>3
<1>5. CASE \E c \in Caller : ResetAutoGrades(c)
  <2> PICK c \in Caller : ResetAutoGrades(c)
    BY <1>5
  <2> DEFINE rows == {r \in call[c].ids \X Question :
                        answers[r[1]][r[2]] # None /\ answers[r[1]][r[2]].status # "manual"}
  <2>1. answers' = [b \in Attempt |-> [p \in Question |->
          IF <<b, p>> \in rows THEN [answers[b][p] EXCEPT !.status = "pending"]
          ELSE answers[b][p]]]
    BY DEF ResetAutoGrades
  <2>2. <<a, q>> \in rows => /\ a \in call[c].ids
                             /\ answers[a][q] # None /\ answers[a][q].status # "manual"
    OBVIOUS
  <2>3. answers'[a][q] = IF <<a, q>> \in rows THEN [answers[a][q] EXCEPT !.status = "pending"]
                         ELSE answers[a][q]
    BY <2>1
  <2>4. QED
    BY <2>2, <2>3
<1>6. CASE answers' = answers
  BY <1>6
<1>7. QED
  BY <1>1, <1>2, <1>3, <1>4, <1>5, <1>6
  DEF Next, vars, tables, counters, RegradeDies, LockForUpload, EnqueueGrading, RegradeOne, SkipDeleted,
      BeginGrade, GradeAnswer, ReadAnswers, CompleteJob, AbortRun, WorkerCrash,
      RecoverStalled, LockAnswer, LockItsAttempt, AbortCall, EditBank, StartRegrade,
      WriteKeys, SelectFinished, EnqueueBulk

\* The tables and the processes stay functions.
LEMMA StepFunctions ==
  ASSUME IndInv, [Next]_vars
  PROVE  /\ run' = [w \in Worker |-> run'[w]]
         /\ call' = [c \in Caller |-> call'[c]]
         /\ attempts' = [a \in Attempt |-> attempts'[a]]
         /\ answers' = [a \in Attempt |-> [q \in Question |-> answers'[a][q]]]
<1>0. /\ attempts \in [Attempt -> AttemptRow \cup {None}]
      /\ answers \in [Attempt -> [Question -> AnswerRow \cup {None}]]
      /\ run \in [Worker -> RunType] /\ call \in [Caller -> CallType]
  BY DEF IndInv, TypeOK
<1>1. run' = [w \in Worker |-> run'[w]]
  <2>1. CASE run' = run
    BY <1>0, <2>1
  <2>2. ASSUME NEW w, NEW r, run' = [run EXCEPT ![w] = r] PROVE run' = [v \in Worker |-> run'[v]]
    BY <1>0, <2>2
  <2>3. CASE \E w \in Worker, j \in JobId : BeginGrade(w, j)
    <3> PICK w \in Worker, j \in JobId : BeginGrade(w, j)
      BY <2>3
    <3>1. run' = [run EXCEPT ![w] = [run[w] EXCEPT !.pc = "read", !.job = j, !.key = keys]]
      BY <1>0 DEF BeginGrade
    <3>2. QED
      BY <2>2, <3>1
  <2>4. CASE \E w \in Worker, q \in Question : GradeAnswer(w, q)
    <3> PICK w \in Worker, q \in Question : GradeAnswer(w, q)
      BY <2>4
    <3>1. run' = [run EXCEPT ![w] = [run[w] EXCEPT
                    !.rows[q] = Grade(q, run[w].key, run[w].rows[q].response),
                    !.todo = run[w].todo \ {q}, !.done = run[w].done \cup {q}]]
      BY <1>0 DEF GradeAnswer
    <3>2. QED
      BY <2>2, <3>1
  <2>5. CASE \E w \in Worker : ReadAnswers(w)
    <3> PICK w \in Worker : ReadAnswers(w)
      BY <2>5
    <3>1. run' = [run EXCEPT ![w] = [run[w] EXCEPT
                    !.pc = "grade", !.rows = RowsToGrade(RunAttempt(w)), !.todo = ToGrade(w)]]
      BY <1>0 DEF ReadAnswers, ToGrade
    <3>2. QED
      BY <2>2, <3>1
  <2>6. CASE \E w \in Worker : CommitGrades(w) \/ CompleteJob(w) \/ AbortRun(w) \/ WorkerCrash(w)
    BY <2>2, <2>6 DEF CommitGrades, CompleteJob, AbortRun, WorkerCrash
  <2>7. QED
    BY <2>1, <2>3, <2>4, <2>5, <2>6
    DEF Next, vars, tables, counters, RegradeDies, LockForUpload, StoreUpload, EnqueueGrading, DeleteAttempt,
        RegradeOne, SkipDeleted, RecoverStalled, LockAnswer, LockItsAttempt, SetMark, AbortCall,
        EditBank, StartRegrade, WriteKeys, SelectFinished, ResetAutoGrades, EnqueueBulk
<1>2. call' = [c \in Caller |-> call'[c]]
  <2>1. CASE call' = call
    BY <1>0, <2>1
  <2>2. ASSUME NEW c, NEW r, call' = [call EXCEPT ![c] = r] PROVE call' = [v \in Caller |-> call'[v]]
    BY <1>0, <2>2
  <2>3. CASE \E c \in Caller, a \in Attempt, u \in Upload : LockForUpload(c, a, u)
    BY <2>2, <2>3 DEF LockForUpload
  <2>4. CASE \E c \in Caller, a \in Attempt, q \in Question : LockAnswer(c, a, q)
    BY <2>2, <2>4 DEF LockAnswer
  <2>5. CASE \E c \in Caller : StoreUpload(c) \/ EnqueueGrading(c) \/ LockItsAttempt(c) \/ SetMark(c)
    BY <2>2, <2>5 DEF StoreUpload, EnqueueGrading, LockItsAttempt, SetMark
  <2>6. CASE \E c \in Caller : AbortCall(c) \/ StartRegrade(c) \/ WriteKeys(c)
    BY <2>2, <2>6 DEF AbortCall, StartRegrade, WriteKeys
  <2>7. CASE \E c \in Caller : \/ SelectFinished(c) \/ ResetAutoGrades(c)
                               \/ EnqueueBulk(c) \/ RegradeDies(c)
    BY <2>2, <2>7 DEF SelectFinished, ResetAutoGrades, EnqueueBulk, RegradeDies
  <2>8. QED
    BY <2>1, <2>3, <2>4, <2>5, <2>6, <2>7
    DEF Next, vars, tables, counters, DeleteAttempt, RegradeOne, SkipDeleted, BeginGrade,
        GradeAnswer, ReadAnswers, CommitGrades, CompleteJob, AbortRun, WorkerCrash,
        RecoverStalled, EditBank
<1>3. attempts' = [a \in Attempt |-> attempts'[a]]
  <2>1. CASE attempts' = attempts
    BY <1>0, <2>1
  <2>2. CASE \E c \in Caller : StoreUpload(c)
    BY <1>0, <2>2 DEF StoreUpload
  <2>3. CASE \E a \in Attempt : DeleteAttempt(a)
    BY <1>0, <2>3 DEF DeleteAttempt
  <2>4. QED
    BY <2>1, <2>2, <2>3
    DEF Next, vars, tables, counters, RegradeDies, LockForUpload, EnqueueGrading, RegradeOne, SkipDeleted,
        BeginGrade, GradeAnswer, ReadAnswers, CommitGrades, CompleteJob, AbortRun, WorkerCrash,
        RecoverStalled, LockAnswer, LockItsAttempt, SetMark, AbortCall, EditBank, StartRegrade,
        WriteKeys, SelectFinished, ResetAutoGrades, EnqueueBulk
<1>4. answers' = [a \in Attempt |-> [q \in Question |-> answers'[a][q]]]
  <2>1. CASE answers' = answers
    BY <1>0, <2>1
  <2>2. ASSUME NEW a, NEW rows, answers' = [answers EXCEPT ![a] = rows],
               rows = [q \in Question |-> rows[q]]
        PROVE  answers' = [b \in Attempt |-> [q \in Question |-> answers'[b][q]]]
    <3>1. DOMAIN answers' = Attempt /\ answers' = [b \in Attempt |-> answers'[b]]
      BY <1>0, <2>2
    <3>2. ASSUME NEW b \in Attempt PROVE answers'[b] = [q \in Question |-> answers'[b][q]]
      <4>1. CASE b = a
        BY <1>0, <2>2, <4>1
      <4>2. CASE b # a
        BY <1>0, <2>2, <4>2
      <4>3. QED
        BY <4>1, <4>2
    <3>3. QED
      BY <3>1, <3>2
  <2>3. CASE \E c \in Caller : StoreUpload(c)
    <3> PICK c \in Caller : StoreUpload(c)
      BY <2>3
    <3> DEFINE rows == [p \in Question |->
          IF p \in Answered(c) THEN Replace(answers[call[c].attempt][p], call[c].upload.answers[p])
          ELSE answers[call[c].attempt][p]]
    <3>1. answers' = [answers EXCEPT ![call[c].attempt] = rows]
      BY DEF StoreUpload
    <3>2. rows = [q \in Question |-> rows[q]]
      OBVIOUS
    <3> HIDE DEF rows
    <3>3. QED
      BY <2>2, <3>1, <3>2
  <2>4. CASE \E a \in Attempt : DeleteAttempt(a)
    BY <2>2, <2>4 DEF DeleteAttempt, NoAnswers
  <2>5. CASE \E w \in Worker : CommitGrades(w)
    BY <2>2, <2>5 DEF CommitGrades
  <2>6. CASE \E c \in Caller : SetMark(c)
    <3> PICK c \in Caller : SetMark(c)
      BY <2>6
    <3> DEFINE a == call[c].attempt
               q == call[c].question
    <3>1. PICK m \in Mark : answers' = [answers EXCEPT ![a][q].status = "manual", ![a][q].score = m]
      BY DEF SetMark
    <3>2. a \in Attempt /\ q \in Question
      BY DEF SetMark, IndInv, CallOK
    <3> DEFINE rows == [answers[a] EXCEPT ![q].status = "manual", ![q].score = m]
    <3>3. answers' = [answers EXCEPT ![a] = rows]
      BY <1>0, <3>1, <3>2
    <3>4. rows = [p \in Question |-> rows[p]]
      BY <1>0, <3>2
    <3> HIDE DEF rows
    <3>5. QED
      BY <2>2, <3>3, <3>4
  <2>7. CASE \E c \in Caller : ResetAutoGrades(c)
    BY <2>7 DEF ResetAutoGrades
  <2>8. QED
    BY <2>1, <2>3, <2>4, <2>5, <2>6, <2>7
    DEF Next, vars, tables, counters, RegradeDies, LockForUpload, EnqueueGrading, RegradeOne, SkipDeleted,
        BeginGrade, GradeAnswer, ReadAnswers, CompleteJob, AbortRun, WorkerCrash,
        RecoverStalled, LockAnswer, LockItsAttempt, AbortCall, EditBank, StartRegrade,
        WriteKeys, SelectFinished, EnqueueBulk
<1>5. QED
  BY <1>1, <1>2, <1>3, <1>4
-----------------------------------------------------------------------------
(* The invariant is inductive.                                             *)

LEMMA RowStep ==
  ASSUME IndInv, [Next]_vars, NEW a \in Attempt, NEW q \in Question
  PROVE  LET row == answers'[a][q]
         IN /\ row \in AnswerRow \cup {None}
            /\ row # None =>
                 /\ attempts'[a] # None
                 /\ row.status = "manual" => row.score \in Mark
                 /\ row.status \in {"graded", "unanswered", "pending_manual"} => row.score \in AutoScore
                 /\ row.status \notin {"pending", "manual"} =>
                      row.score.key \in Edition /\ row = Grade(q, row.score.key, row.response)
<1> DEFINE old == answers[a][q]
           row == answers'[a][q]
<1>0. /\ old \in AnswerRow \cup {None} /\ attempts[a] \in AttemptRow \cup {None}
      /\ old # None =>
           /\ attempts[a] # None
           /\ old.status = "manual" => old.score \in Mark
           /\ old.status \in {"graded", "unanswered", "pending_manual"} => old.score \in AutoScore
           /\ old.status \notin {"pending", "manual"} =>
                old.score.key \in Edition /\ old = Grade(q, old.score.key, old.response)
  BY DEF IndInv, TypeOK, RowsOK
<1>1. row # None /\ attempts[a] # None => attempts'[a] # None
  <2>1. ASSUME NEW c \in Caller, StoreUpload(c)
        PROVE  [final |-> call[c].upload.final, presented |-> call[c].upload.presented] # None
    <3>1. call[c].upload \in Upload
      BY <2>1 DEF StoreUpload, IndInv, CallOK
    <3>2. [final |-> call[c].upload.final, presented |-> call[c].upload.presented] \in AttemptRow
      BY <3>1, ConstantsAssumption DEF AttemptRow
    <3>3. QED
      BY <3>2, NoneAssumption
  <2>2. QED
    BY <2>1, AttemptsStep
<1>2. CASE row = old
  BY <1>0, <1>1, <1>2
<1>3. CASE \E c \in Caller : /\ StoreUpload(c) /\ call[c].attempt = a /\ q \in Answered(c)
                             /\ row = Replace(old, call[c].upload.answers[q])
  <2> PICK c \in Caller : /\ StoreUpload(c) /\ call[c].attempt = a /\ q \in Answered(c)
                          /\ row = Replace(old, call[c].upload.answers[q])
    BY <1>3
  <2>1. call[c].upload \in Upload
    BY DEF StoreUpload, IndInv, CallOK
  <2>2. call[c].upload.answers[q] \in Response \cup {None}
    BY <2>1, ConstantsAssumption
  <2> DEFINE response == call[c].upload.answers[q]
  <2>3. attempts'[a] # None
    <3>1. [final |-> call[c].upload.final, presented |-> call[c].upload.presented] \in AttemptRow
      BY <2>1, ConstantsAssumption DEF AttemptRow
    <3>2. attempts' = [attempts EXCEPT ![a] =
                         [final |-> call[c].upload.final, presented |-> call[c].upload.presented]]
      BY DEF StoreUpload
    <3>3. attempts'[a] = [final |-> call[c].upload.final, presented |-> call[c].upload.presented]
      BY <3>2 DEF IndInv, TypeOK
    <3>4. QED
      BY <3>1, <3>3, NoneAssumption
  <2>4. CASE old = None
    <3>1. row = [response |-> response, status |-> "pending", score |-> None]
      BY <2>4 DEF Replace
    <3>2. row \in AnswerRow /\ row.status = "pending"
      BY <2>2, <3>1, NewRow
    <3>3. QED
      BY <2>3, <3>2
  <2>5. CASE old # None /\ old.response # response
    <3>1. row = [old EXCEPT !.response = response, !.status = "pending"]
      BY <2>5 DEF Replace
    <3>2. old \in AnswerRow
      BY <1>0, <2>5
    <3>3. /\ [old EXCEPT !.response = response, !.status = "pending"] \in AnswerRow
          /\ [old EXCEPT !.response = response, !.status = "pending"].status = "pending"
      BY <2>2, <3>2, RowReplaced
    <3>4. QED
      BY <2>3, <3>1, <3>3
  <2>6. CASE old # None /\ old.response = response
    <3>1. row = old
      BY <2>6 DEF Replace
    <3>2. QED
      BY <1>0, <2>3, <3>1
  <2>7. QED
    BY <2>4, <2>5, <2>6
<1>4. CASE DeleteAttempt(a) /\ row = None
  BY <1>4
<1>5. CASE \E w \in Worker : /\ CommitGrades(w) /\ RunAttempt(w) = a /\ q \in run[w].done
                             /\ row = run[w].rows[q]
  <2> PICK w \in Worker : /\ CommitGrades(w) /\ RunAttempt(w) = a /\ q \in run[w].done
                          /\ row = run[w].rows[q]
    BY <1>5
  <2>1. run[w].rows[q] \in AnswerRow \cup {None} /\ run[w].pc = "grade"
    BY DEF CommitGrades, IndInv, TypeOK, RunType
  <2>2. /\ row # None /\ run[w].key \in Edition /\ attempts[a] # None
        /\ row = Grade(q, run[w].key, row.response)
    BY <2>1 DEF IndInv, RunOK
  <2>3. row.response \in Response \cup {None}
    BY <2>1, <2>2 DEF AnswerRow
  <2>4. /\ row \in AnswerRow /\ row.status \notin {"pending", "manual"}
        /\ row.score \in AutoScore /\ row.score.key = run[w].key
    BY <2>2, <2>3, GradeTyped
  <2>5. QED
    BY <1>1, <2>2, <2>4
<1>6. CASE \E c \in Caller, m \in Mark :
             /\ SetMark(c) /\ call[c].attempt = a /\ call[c].question = q
             /\ row = [old EXCEPT !.status = "manual", !.score = m]
  <2> PICK c \in Caller, m \in Mark :
             /\ SetMark(c) /\ call[c].attempt = a /\ call[c].question = q
             /\ row = [old EXCEPT !.status = "manual", !.score = m]
    BY <1>6
  <2>1. old # None
    BY DEF SetMark, IndInv, CallOK
  <2>2. old \in AnswerRow
    BY <1>0, <2>1
  <2>3. LET new == [old EXCEPT !.status = "manual", !.score = m]
        IN new \in AnswerRow /\ new.status = "manual" /\ new.score = m
    BY <2>2, RowMarked
  <2>4. QED
    BY <1>0, <1>1, <2>1, <2>3
<1>7. CASE \E c \in Caller :
             /\ ResetAutoGrades(c) /\ a \in call[c].ids /\ old # None /\ old.status # "manual"
             /\ row = [old EXCEPT !.status = "pending"]
  <2>1. row \in AnswerRow /\ row.status = "pending"
    BY <1>0, <1>7, RowReset
  <2>2. QED
    BY <1>0, <1>1, <1>7, <2>1
<1>8. QED
  BY <1>2, <1>3, <1>4, <1>5, <1>6, <1>7, AnswersStep

\* A slot keeps its job until it completes or aborts.
LEMMA OwnedStep ==
  ASSUME IndInv, [Next]_vars, NEW w \in Worker, run[w].pc # "idle"
  PROVE  /\ run[w].job \in JobId
         /\ \/ jobs'[run[w].job] = jobs[run[w].job]
            \/ run'[w] = IdleRun /\ (CompleteJob(w) \/ AbortRun(w))
<1> DEFINE j == run[w].job
<1>1. j \in JobId /\ Queue!Owns(w, j) /\ run \in [Worker -> RunType]
  BY DEF IndInv, RunOK, TypeOK
<1>2. ASSUME NEW v \in Worker, CompleteJob(v) \/ AbortRun(v), run[v].job = j
      PROVE  v = w /\ run'[w] = IdleRun
  <2>1. run[v].pc # "idle"
    BY <1>2, Waiting DEF CompleteJob, AbortRun
  <2>2. Queue!Owns(v, j)
    BY <1>2, <2>1 DEF IndInv, RunOK
  <2>3. v = w
    BY <1>1, <2>2 DEF Queue!Owns
  <2>4. run' = [run EXCEPT ![w] = IdleRun]
    BY <1>2, <2>3 DEF CompleteJob, AbortRun
  <2>5. QED
    BY <1>1, <2>3, <2>4
<1>3. ~RecoverStalled(j)
  BY <1>1 DEF RecoverStalled
<1>4. jobs[j].state = "active"
  BY <1>1 DEF Queue!Owns
<1>5. \/ jobs'[j] = jobs[j]
      \/ \E v \in Worker : (CompleteJob(v) \/ AbortRun(v)) /\ run[v].job = j
  BY <1>1, <1>3, <1>4, JobsStep
<1>6. QED
  BY <1>1, <1>2, <1>5

\* Whoever gets the lock of an attempt finds it free.
LEMMA HoldersStep ==
  ASSUME IndInv, [Next]_vars, NEW a \in Attempt, NEW x \in AttemptHolders(a)', x \notin AttemptHolders(a)
  PROVE  AttemptHolders(a) = {} /\ \A y \in AttemptHolders(a)' : y = x
<1>0. run \in [Worker -> RunType] /\ call \in [Caller -> CallType] /\ TypeOK
  BY DEF IndInv, TypeOK
<1>1. CASE x \in Worker /\ run'[x].pc \in {"read", "grade"} /\ RunAttempt(x)' = a
  <2>0. x \in Worker /\ run'[x].pc \in {"read", "grade"} /\ AttemptOf(run'[x].job) = a
    BY <1>1 DEF RunAttempt, AttemptOf
  <2>1. ~(run[x].pc \in {"read", "grade"} /\ run'[x].job = run[x].job)
    BY <2>0 DEF AttemptHolders, RunAttempt
  <2>2. ~(run'[x] = run[x] \/ run'[x] = IdleRun)
    BY <2>0, <2>1 DEF IdleRun
  <2>3. ~(/\ ReadAnswers(x)
          /\ run'[x] = [run[x] EXCEPT !.pc = "grade", !.rows = RowsToGrade(RunAttempt(x)),
                                      !.todo = ToGrade(x)])
    BY <1>0, <2>0, <2>1 DEF ReadAnswers, RunType
  <2>4. ~\E q \in Question :
           /\ GradeAnswer(x, q)
           /\ run'[x] = [run[x] EXCEPT !.rows[q] = Grade(q, run[x].key, run[x].rows[q].response),
                                       !.todo = run[x].todo \ {q}, !.done = run[x].done \cup {q}]
    BY <1>0, <2>0, <2>1 DEF GradeAnswer, RunType
  <2>5. ~(CommitGrades(x) /\ run'[x] = [IdleRun EXCEPT !.pc = "done", !.job = run[x].job])
    BY <2>0 DEF IdleRun
  <2>6. PICK j \in JobId : /\ BeginGrade(x, j)
                           /\ run'[x] = [IdleRun EXCEPT !.pc = "read", !.job = j, !.key = keys]
    <3>1. x \in Worker
      BY <2>0
    <3>2. QED
      BY <1>0, <2>2, <2>3, <2>4, <2>5, <3>1, RunStepOf
  <2>7. run'[x].job = j
    BY <2>6 DEF IdleRun
  <2>8. AttemptHolders(a) = {} /\ call' = call
    BY <2>0, <2>6, <2>7 DEF BeginGrade
  <2>9. \A w \in Worker : w # x => run'[w] = run[w]
    BY <1>0, <2>6 DEF BeginGrade
  <2>10. ASSUME NEW y \in AttemptHolders(a)', y # x PROVE y \in AttemptHolders(a)
    BY <2>8, <2>9, <2>10 DEF AttemptHolders, RunAttempt, AttemptOf
  <2>11. QED
    BY <2>8, <2>10
<1>2. CASE x \in Caller /\ call'[x].pc \in {"store", "mark"} /\ call'[x].attempt = a
  <2>1. ~(call[x].pc \in {"store", "mark"} /\ call'[x].attempt = call[x].attempt)
    BY <1>2 DEF AttemptHolders
  <2>2. ~(call'[x] = call[x] \/ call'[x] = IdleCall)
    BY <1>2, <2>1 DEF IdleCall
  <2>3. ~(/\ StoreUpload(x)
          /\ call'[x] = IF call[x].upload.final
                        THEN [IdleCall EXCEPT !.pc = "enqueue", !.attempt = call[x].attempt,
                                              !.number = call[x].number]
                        ELSE IdleCall)
    <3>1. /\ IdleCall.pc = "idle"
          /\ [IdleCall EXCEPT !.pc = "enqueue", !.attempt = call[x].attempt,
                              !.number = call[x].number].pc = "enqueue"
      BY DEF IdleCall
    <3>2. QED
      BY <1>2, <3>1
  <2>4. /\ ~\E b \in Attempt, q \in Question :
              /\ LockAnswer(x, b, q)
              /\ call'[x] = [IdleCall EXCEPT !.pc = "lock", !.attempt = b, !.question = q]
        /\ ~\E pc \in {"refresh", "select"} :
              /\ StartRegrade(x)
              /\ call'[x] = [IdleCall EXCEPT !.pc = pc, !.number = regrades + 1,
                                             !.key = IF pc = "refresh" THEN bank ELSE None]
    BY <1>2 DEF IdleCall
  <2>5. /\ ~(WriteKeys(x) /\ call'[x] = [call[x] EXCEPT !.pc = "select"])
        /\ ~(/\ SelectFinished(x)
             /\ call'[x] = [call[x] EXCEPT !.pc = "reset", !.ids = {b \in Attempt : Finished(b)}])
        /\ ~(ResetAutoGrades(x) /\ call'[x] = [call[x] EXCEPT !.pc = "bulk"])
    BY <1>0, <1>2 DEF CallType
  <2>6. \/ /\ LockItsAttempt(x) /\ call[x].attempt = a
        \/ \E u \in Upload : LockForUpload(x, a, u)
    <3>1. CASE LockItsAttempt(x) /\ call'[x] = [call[x] EXCEPT !.pc = "mark"]
      BY <1>0, <1>2, <3>1 DEF CallType
    <3>2. CASE \E b \in Attempt, u \in Upload :
                 /\ LockForUpload(x, b, u)
                 /\ call'[x] = [IdleCall EXCEPT !.pc = "store", !.attempt = b, !.upload = u,
                                                !.number = uploads + 1]
      BY <1>2, <3>2 DEF IdleCall
    <3>3. x \in Caller
      BY <1>2
    <3>4. QED
      BY <1>0, <2>2, <2>3, <2>4, <2>5, <3>1, <3>2, <3>3, CallStepOf
  <2>7. AttemptHolders(a) = {} /\ run' = run
    <3>1. CASE LockItsAttempt(x) /\ call[x].attempt = a
      BY <1>2, <3>1, Waiting DEF LockItsAttempt
    <3>2. CASE \E u \in Upload : LockForUpload(x, a, u)
      BY <3>2 DEF LockForUpload
    <3>3. QED
      BY <2>6, <3>1, <3>2
  <2>8. \A c \in Caller : c # x => call'[c] = call[c]
    BY <1>0, <2>6 DEF LockItsAttempt, LockForUpload
  <2>9. ASSUME NEW y \in AttemptHolders(a)', y # x PROVE y \in AttemptHolders(a)
    BY <2>7, <2>8, <2>9 DEF AttemptHolders, RunAttempt, AttemptOf
  <2>10. QED
    BY <2>7, <2>9
<1>3. QED
  BY <1>1, <1>2 DEF AttemptHolders

LEMMA RunOKStep ==
  ASSUME IndInv, [Next]_vars, NEW w \in Worker
  PROVE  RunOK(w)' /\ run'[w] \in RunType
<1> DEFINE r == run[w]
           a == RunAttempt(w)
<1>0. /\ r \in RunType /\ run \in [Worker -> RunType] /\ jobs \in [JobId -> Queue!Job]
      /\ keys \in Edition /\ TypeOK /\ RunOK(w)
      /\ attempts \in [Attempt -> AttemptRow \cup {None}]
      /\ answers \in [Attempt -> [Question -> AnswerRow \cup {None}]]
  BY DEF IndInv, TypeOK
<1>00. r.pc # "idle" => r.job \in JobId /\ a \in Attempt /\ Queue!Owns(w, r.job)
  BY <1>0, JobParts DEF RunOK, RunAttempt
<1>1. CASE run'[w] = IdleRun
  <2>1. IdleRun \in RunType /\ IdleRun.pc = "idle" /\ IdleRun.job = None
    BY DEF IdleRun, RunType, NoAnswers
  <2>2. QED
    BY <1>1, <2>1 DEF RunOK
<1>2. CASE run'[w] = run[w] /\ run[w] # IdleRun
  <2>0. RunAttempt(w)' = a
    BY <1>2 DEF RunAttempt, AttemptOf
  <2>1. CASE r.pc = "idle"
    BY <1>0, <1>2, <2>1 DEF RunOK
  <2>2. CASE r.pc # "idle"
    <3>1. jobs'[r.job] = jobs[r.job] /\ r.job \in JobId
      BY <1>2, <2>2, OwnedStep
    <3>2. Queue!Owns(w, r.job)'
      BY <1>00, <1>2, <2>2, <3>1 DEF Queue!Owns
    <3>3. ASSUME r.pc \in {"read", "grade"} PROVE attempts'[a] # None
      <4>1. w \in AttemptHolders(a) /\ a \in Attempt
        BY <1>00, <2>2, <3>3 DEF AttemptHolders
      <4>2. ~DeleteAttempt(a)
        BY <4>1 DEF DeleteAttempt
      <4>3. attempts[a] # None
        BY <1>0, <3>3 DEF RunOK
      <4>4. ASSUME NEW c \in Caller, StoreUpload(c), call[c].attempt = a PROVE FALSE
        <5>1. c \in AttemptHolders(a)
          BY <4>4 DEF StoreUpload, AttemptHolders
        <5>2. QED
          BY <4>1, <5>1, ConstantsAssumption DEF IndInv, LocksAreExclusive
      <4>5. QED
        BY <4>1, <4>2, <4>3, <4>4, AttemptsStep
    <3>4. ASSUME r.pc = "grade", NEW q \in r.todo \cup r.done, answers'[a][q] # None
          PROVE  answers'[a][q].status # "manual"
      <4>1. w \in AttemptHolders(a) /\ a \in Attempt /\ q \in Question
        BY <1>0, <1>00, <2>2, <3>4 DEF AttemptHolders, RunType
      <4>2. \A x \in AttemptHolders(a) : x = w
        BY <4>1 DEF IndInv, LocksAreExclusive
      <4>3. ASSUME NEW c \in Caller, StoreUpload(c) \/ SetMark(c) PROVE call[c].attempt # a
        BY <4>2, <4>3, ConstantsAssumption DEF StoreUpload, SetMark, AttemptHolders
      <4>4. ASSUME NEW v \in Worker, CommitGrades(v) PROVE RunAttempt(v) # a
        <5>1. SUFFICES ASSUME RunAttempt(v) = a PROVE FALSE
          OBVIOUS
        <5>2. v = w
          BY <4>2, <4>4, <5>1 DEF CommitGrades, AttemptHolders
        <5>3. run'[w].pc = "done"
          BY <1>0, <4>4, <5>2 DEF CommitGrades, IdleRun
        <5>4. QED
          BY <1>2, <3>4, <5>3
      <4>5. CASE answers'[a][q] = answers[a][q]
        BY <1>0, <3>4, <4>5 DEF RunOK
      <4>6. CASE \E c \in Caller :
                   /\ answers[a][q] # None
                   /\ answers'[a][q] = [answers[a][q] EXCEPT !.status = "pending"]
        <5>1. answers[a][q] \in AnswerRow
          BY <1>0, <4>1, <4>6
        <5>2. QED
          BY <4>6, <5>1, RowReset
      <4>7. QED
        BY <3>4, <4>1, <4>3, <4>4, <4>5, <4>6, AnswersStep
    <3>5. QED
      BY <1>0, <1>00, <1>2, <2>0, <2>2, <3>2, <3>3, <3>4 DEF RunOK
  <2>3. QED
    BY <2>1, <2>2
<1>3. CASE \E j \in JobId : /\ BeginGrade(w, j)
                            /\ run'[w] = [IdleRun EXCEPT !.pc = "read", !.job = j, !.key = keys]
  <2> PICK j \in JobId : /\ BeginGrade(w, j)
                         /\ run'[w] = [IdleRun EXCEPT !.pc = "read", !.job = j, !.key = keys]
    BY <1>3
  <2>1. /\ run'[w].pc = "read" /\ run'[w].job = j /\ run'[w].key = keys
        /\ run'[w].todo = {} /\ run'[w].done = {}
    BY DEF IdleRun
  <2>2. run'[w] \in RunType
    <3>1. run'[w] = [pc |-> "read", job |-> j, key |-> keys, rows |-> NoAnswers, todo |-> {}, done |-> {}]
      BY DEF IdleRun
    <3>2. NoAnswers \in [Question -> AnswerRow \cup {None}]
      BY DEF NoAnswers
    <3>3. keys \in Edition
      BY <1>0
    <3>4. ASSUME NEW key \in Edition, NEW rows \in [Question -> AnswerRow \cup {None}]
          PROVE  [pc |-> "read", job |-> j, key |-> key, rows |-> rows, todo |-> {}, done |-> {}]
                   \in RunType
      BY <3>4 DEF RunType
    <3>5. QED
      BY <3>1, <3>2, <3>3, <3>4
  <2>3. jobs'[j] = [jobs[j] EXCEPT !.state = "active", !.owner = w]
    BY <1>0 DEF BeginGrade, Queue!Take
  <2>4. Queue!Owns(w, j)'
    <3>1. jobs[j] \in Queue!Job
      BY <1>0
    <3>2. QED
      BY <2>3, <3>1 DEF Queue!Owns, Queue!Job
  <2>5. attempts'[AttemptOf(j)] # None
    BY DEF BeginGrade, tables
  <2>6. RunAttempt(w)' = AttemptOf(j)
    BY <2>1 DEF RunAttempt, AttemptOf
  <2>7. QED
    BY <1>0, <2>1, <2>2, <2>4, <2>5, <2>6 DEF RunOK
<1>4. CASE /\ ReadAnswers(w)
           /\ run'[w] = [run[w] EXCEPT !.pc = "grade", !.rows = RowsToGrade(a), !.todo = ToGrade(w)]
  <2>0. r.pc = "read" /\ answers' = answers /\ attempts' = attempts /\ jobs' = jobs
    BY <1>4 DEF ReadAnswers, tables
  <2>1. /\ run'[w].pc = "grade" /\ run'[w].job = r.job /\ run'[w].key = r.key
        /\ run'[w].rows = RowsToGrade(a) /\ run'[w].todo = ToGrade(w) /\ run'[w].done = r.done
    BY <1>0, <1>4 DEF RunType
  <2>2. a \in Attempt /\ attempts[a] # None /\ r.done = {} /\ r.key \in Edition
    BY <1>0, <1>00, <2>0 DEF RunOK
  <2>3. RowsToGrade(a) \in [Question -> AnswerRow \cup {None}]
    BY <1>0, <2>2, NewRow DEF RowsToGrade
  <2>4. ToGrade(w) \subseteq Question
    BY DEF ToGrade
  <2>5. run'[w] \in RunType
    BY <1>0, <1>4, <2>3, <2>4 DEF RunType
  <2>6. ASSUME NEW q \in ToGrade(w)
        PROVE  /\ RowsToGrade(a)[q] # None
               /\ answers[a][q] # None => answers[a][q].status # "manual"
    BY <2>6 DEF ToGrade, RowsToGrade
  <2>7. RunAttempt(w)' = a
    BY <2>1 DEF RunAttempt, AttemptOf
  <2>8. Queue!Owns(w, r.job)'
    BY <1>00, <2>0, <2>1 DEF Queue!Owns
  <2>9. QED
    BY <1>00, <2>0, <2>1, <2>2, <2>5, <2>6, <2>7, <2>8 DEF RunOK
<1>5. CASE \E q \in Question :
             /\ GradeAnswer(w, q)
             /\ run'[w] = [run[w] EXCEPT !.rows[q] = Grade(q, run[w].key, run[w].rows[q].response),
                                         !.todo = run[w].todo \ {q}, !.done = run[w].done \cup {q}]
  <2> PICK q \in Question :
             /\ GradeAnswer(w, q)
             /\ run'[w] = [run[w] EXCEPT !.rows[q] = Grade(q, run[w].key, run[w].rows[q].response),
                                         !.todo = run[w].todo \ {q}, !.done = run[w].done \cup {q}]
    BY <1>5
  <2>0. /\ r.pc = "grade" /\ q \in r.todo /\ answers' = answers /\ attempts' = attempts /\ jobs' = jobs
    BY DEF GradeAnswer, tables
  <2> DEFINE row == Grade(q, r.key, r.rows[q].response)
  <2>1. /\ run'[w].pc = "grade" /\ run'[w].job = r.job /\ run'[w].key = r.key
        /\ run'[w].rows = [r.rows EXCEPT ![q] = row]
        /\ run'[w].todo = r.todo \ {q} /\ run'[w].done = r.done \cup {q}
    BY <1>0, <2>0 DEF RunType
  <2>2. a \in Attempt /\ attempts[a] # None /\ r.key \in Edition /\ r.rows[q] # None
    BY <1>0, <1>00, <2>0 DEF RunOK
  <2>3. r.rows[q] \in AnswerRow /\ r.rows \in [Question -> AnswerRow \cup {None}]
    BY <1>0, <2>2 DEF RunType
  <2>4. r.rows[q].response \in Response \cup {None}
    BY <2>3 DEF AnswerRow
  <2>5. row \in AnswerRow /\ row # None /\ row.response = r.rows[q].response
    BY <2>2, <2>4, GradeTyped
  <2> HIDE DEF row
  <2>6. run'[w].rows \in [Question -> AnswerRow \cup {None}]
    BY <2>1, <2>3, <2>5
  <2>7. run'[w] \in RunType
    <3>1. run'[w] = [pc |-> r.pc, job |-> r.job, key |-> r.key, rows |-> run'[w].rows,
                     todo |-> run'[w].todo, done |-> run'[w].done]
      BY <1>0, <2>0 DEF RunType
    <3>2. run'[w].todo \in SUBSET Question /\ run'[w].done \in SUBSET Question
      BY <1>0, <2>1 DEF RunType
    <3>3. QED
      BY <1>0, <2>6, <3>1, <3>2 DEF RunType
  <2>8. RunAttempt(w)' = a
    BY <2>1 DEF RunAttempt, AttemptOf
  <2>9. Queue!Owns(w, r.job)'
    BY <1>00, <2>0 DEF Queue!Owns
  <2>10. ASSUME NEW p \in run'[w].todo \cup run'[w].done
         PROVE  /\ run'[w].rows[p] # None
                /\ answers[a][p] # None => answers[a][p].status # "manual"
    <3>1. p \in r.todo \cup r.done /\ p \in Question
      BY <1>0, <2>0, <2>1 DEF RunType
    <3>2. QED
      BY <1>0, <2>0, <2>1, <2>3, <2>5, <3>1 DEF RunOK
  <2>11. ASSUME NEW p \in run'[w].done
         PROVE  run'[w].rows[p] = Grade(p, r.key, run'[w].rows[p].response)
    <3>1. p \in Question /\ p \in r.done \cup {q}
      BY <1>0, <2>0, <2>1 DEF RunType
    <3>2. CASE p = q
      <4>1. run'[w].rows[q] = row
        BY <2>1, <2>3
      <4>2. QED
        BY <2>5, <3>2, <4>1 DEF row
    <3>3. CASE p # q
      <4>1. run'[w].rows[p] = r.rows[p] /\ p \in r.done
        BY <2>1, <2>3, <3>1, <3>3
      <4>2. QED
        BY <1>0, <2>0, <4>1 DEF RunOK
    <3>4. QED
      BY <3>2, <3>3
  <2>12. QED
    BY <1>00, <2>0, <2>1, <2>2, <2>7, <2>8, <2>9, <2>10, <2>11 DEF RunOK
<1>6. CASE CommitGrades(w) /\ run'[w] = [IdleRun EXCEPT !.pc = "done", !.job = run[w].job]
  <2>1. r.pc = "grade" /\ jobs' = jobs
    BY <1>6 DEF CommitGrades
  <2>2. run'[w].pc = "done" /\ run'[w].job = r.job
    BY <1>6 DEF IdleRun
  <2>3. run'[w] \in RunType
    <3>1. run'[w] = [pc |-> "done", job |-> r.job, key |-> None, rows |-> NoAnswers, todo |-> {}, done |-> {}]
      BY <1>6 DEF IdleRun
    <3>2. NoAnswers \in [Question -> AnswerRow \cup {None}]
      BY DEF NoAnswers
    <3>3. QED
      BY <1>00, <2>1, <3>1, <3>2 DEF RunType
  <2>4. Queue!Owns(w, r.job)'
    BY <1>00, <2>1, <2>2 DEF Queue!Owns
  <2>5. QED
    BY <1>00, <2>1, <2>2, <2>3, <2>4 DEF RunOK
<1>7. QED
  BY <1>0, <1>1, <1>2, <1>3, <1>4, <1>5, <1>6, RunStepOf

\* Answers go only with their attempt.
LEMMA AnswerStays ==
  ASSUME IndInv, [Next]_vars, NEW a \in Attempt, NEW q \in Question, answers[a][q] # None,
         answers'[a][q] = None
  PROVE  DeleteAttempt(a)
<1>1. answers[a][q] \in AnswerRow
  BY DEF IndInv, TypeOK
<1>2. ASSUME NEW c \in Caller, StoreUpload(c)
      PROVE  Replace(answers[a][q], call[c].upload.answers[q]) # None
  <2>1. call[c].upload.answers[q] \in Response \cup {None}
    BY <1>2, ConstantsAssumption DEF StoreUpload, IndInv, CallOK
  <2>2. [answers[a][q] EXCEPT !.response = call[c].upload.answers[q], !.status = "pending"] # None
    BY <1>1, <2>1, RowReplaced
  <2>3. QED
    BY <2>2 DEF Replace
<1>3. ASSUME NEW w \in Worker, CommitGrades(w), q \in run[w].done PROVE run[w].rows[q] # None
  BY <1>3 DEF CommitGrades, IndInv, RunOK
<1>4. \A m \in Mark : [answers[a][q] EXCEPT !.status = "manual", !.score = m] # None
  BY <1>1, RowMarked
<1>5. [answers[a][q] EXCEPT !.status = "pending"] # None
  BY <1>1, RowReset
<1>6. QED
  BY <1>2, <1>3, <1>4, <1>5, AnswersStep

LEMMA CountersStep ==
  ASSUME IndInv, [Next]_vars
  PROVE  /\ uploads \in 0..MaxUploads /\ uploads' \in 0..MaxUploads /\ uploads <= uploads'
         /\ regrades \in 0..MaxRegrades /\ regrades' \in 0..MaxRegrades /\ regrades <= regrades'
         /\ faults' \in 0..MaxFaults /\ bank' \in Edition
         /\ \A c \in Caller, a \in Attempt, u \in Upload :
              LockForUpload(c, a, u) => uploads' = uploads + 1
         /\ \A c \in Caller : StartRegrade(c) => regrades' = regrades + 1
         /\ \A a \in Attempt : RegradeOne(a) => regrades' = regrades + 1
<1>0. /\ uploads \in 0..MaxUploads /\ regrades \in 0..MaxRegrades /\ faults \in 0..MaxFaults
      /\ bank \in 0..MaxEdits
      /\ MaxUploads \in Nat /\ MaxRegrades \in Nat /\ MaxFaults \in Nat /\ MaxEdits \in Nat
  BY ConstantsAssumption DEF IndInv, TypeOK, Edition
<1>1. uploads' = uploads \/ (uploads' = uploads + 1 /\ uploads < MaxUploads)
  BY DEF Next, vars, tables, counters, RegradeDies, LockForUpload, StoreUpload, EnqueueGrading, DeleteAttempt,
      RegradeOne, SkipDeleted, BeginGrade, GradeAnswer, ReadAnswers, CommitGrades, CompleteJob,
      AbortRun, WorkerCrash, RecoverStalled, LockAnswer, LockItsAttempt, SetMark, AbortCall,
      EditBank, StartRegrade, WriteKeys, SelectFinished, ResetAutoGrades, EnqueueBulk
<1>2. regrades' = regrades \/ (regrades' = regrades + 1 /\ regrades < MaxRegrades)
  BY DEF Next, vars, tables, counters, RegradeDies, LockForUpload, StoreUpload, EnqueueGrading, DeleteAttempt,
      RegradeOne, SkipDeleted, BeginGrade, GradeAnswer, ReadAnswers, CommitGrades, CompleteJob,
      AbortRun, WorkerCrash, RecoverStalled, LockAnswer, LockItsAttempt, SetMark, AbortCall,
      EditBank, StartRegrade, WriteKeys, SelectFinished, ResetAutoGrades, EnqueueBulk
<1>3. faults' = faults \/ (faults' = faults + 1 /\ faults < MaxFaults)
  BY DEF Next, vars, tables, counters, RegradeDies, LockForUpload, StoreUpload, EnqueueGrading, DeleteAttempt,
      RegradeOne, SkipDeleted, BeginGrade, GradeAnswer, ReadAnswers, CommitGrades, CompleteJob,
      AbortRun, WorkerCrash, RecoverStalled, LockAnswer, LockItsAttempt, SetMark, AbortCall,
      EditBank, StartRegrade, WriteKeys, SelectFinished, ResetAutoGrades, EnqueueBulk, Fault
<1>4. bank' = bank \/ (bank' = bank + 1 /\ bank < MaxEdits)
  BY DEF Next, vars, tables, counters, RegradeDies, LockForUpload, StoreUpload, EnqueueGrading, DeleteAttempt,
      RegradeOne, SkipDeleted, BeginGrade, GradeAnswer, ReadAnswers, CommitGrades, CompleteJob,
      AbortRun, WorkerCrash, RecoverStalled, LockAnswer, LockItsAttempt, SetMark, AbortCall,
      EditBank, StartRegrade, WriteKeys, SelectFinished, ResetAutoGrades, EnqueueBulk
<1>5. /\ \A c \in Caller, a \in Attempt, u \in Upload : LockForUpload(c, a, u) => uploads' = uploads + 1
      /\ \A c \in Caller : StartRegrade(c) => regrades' = regrades + 1
      /\ \A a \in Attempt : RegradeOne(a) => regrades' = regrades + 1
  BY DEF LockForUpload, StartRegrade, RegradeOne
<1>6. QED
  BY <1>0, <1>1, <1>2, <1>3, <1>4, <1>5 DEF Edition

\* The jobs of an upload or a request appear when it adds them.
LEMMA NewJobsStep ==
  ASSUME IndInv, [Next]_vars, NEW c \in Caller, NEW a \in Attempt
  PROVE  /\ Uploading(c) /\ ~EnqueueGrading(c) => jobs'[<<"upload", call[c].number, a>>].state = "none"
         /\ Regrading(c) /\ ~EnqueueBulk(c) => jobs'[<<"force", call[c].number, a>>].state = "none"
<1>0. CallOK(c) /\ NumbersFresh
  BY DEF IndInv
<1>1. ASSUME Uploading(c), ~EnqueueGrading(c)
      PROVE  jobs'[<<"upload", call[c].number, a>>].state = "none"
  <2> DEFINE n == call[c].number
             j == <<"upload", n, a>>
  <2>1. n \in 1..uploads /\ \A b \in Attempt : jobs[<<"upload", n, b>>].state = "none"
    BY <1>0, <1>1 DEF CallOK
  <2>2. n \in 1..MaxUploads
    <3>1. uploads \in 0..MaxUploads
      BY CountersStep
    <3>2. QED
      BY <2>1, <3>1, ConstantsAssumption
  <2>3. j \in JobId
    BY <2>2, UploadJob
  <2>4. ASSUME NEW d \in Caller, EnqueueGrading(d), j = <<"upload", call[d].number, call[d].attempt>>
        PROVE  FALSE
    <3>1. n = call[d].number /\ Uploading(d)
      BY <2>4 DEF EnqueueGrading, Uploading
    <3>2. d = c
      BY <1>0, <1>1, <3>1 DEF NumbersFresh
    <3>3. QED
      BY <1>1, <2>4, <3>2
  <2>5. \A m, b : j # <<"force", m, b>>
    OBVIOUS
  <2>6. QED
    BY <2>1, <2>3, <2>4, <2>5, JobsStep
<1>2. ASSUME Regrading(c), ~EnqueueBulk(c)
      PROVE  jobs'[<<"force", call[c].number, a>>].state = "none"
  <2> DEFINE n == call[c].number
             j == <<"force", n, a>>
  <2>1. n \in 1..regrades /\ \A b \in Attempt : jobs[<<"force", n, b>>].state = "none"
    BY <1>0, <1>2 DEF CallOK
  <2>2. n \in 1..MaxRegrades /\ n # regrades + 1
    <3>1. regrades \in 0..MaxRegrades
      BY CountersStep
    <3>2. QED
      BY <2>1, <3>1, ConstantsAssumption
  <2>3. j \in JobId
    BY <2>2, ForceJob
  <2>4. ASSUME NEW d \in Caller, EnqueueBulk(d), j = <<"force", call[d].number, AttemptOf(j)>>
        PROVE  FALSE
    <3>1. n = call[d].number /\ Regrading(d)
      BY <2>4 DEF EnqueueBulk, Regrading
    <3>2. d = c
      BY <1>0, <1>2, <3>1 DEF NumbersFresh
    <3>3. QED
      BY <1>2, <2>4, <3>2
  <2>5. /\ \A m, b : j # <<"upload", m, b>>
        /\ \A b : j # <<"force", regrades + 1, b>>
    BY <2>2
  <2>6. QED
    BY <2>1, <2>3, <2>4, <2>5, JobsStep
<1>3. QED
  BY <1>1, <1>2

LEMMA IdleCallTyped == IdleCall \in CallType /\ IdleCall.pc = "idle"
BY DEF IdleCall, CallType

LEMMA NextCall ==
  ASSUME NEW y \in CallType, NEW x
  PROVE  /\ x = [y EXCEPT !.pc = "mark"] =>
              x \in CallType /\ x.pc = "mark" /\ x.attempt = y.attempt /\ x.question = y.question
         /\ x = [y EXCEPT !.pc = "select"] =>
              x \in CallType /\ x.pc = "select" /\ x.number = y.number
         /\ \A ids \in SUBSET Attempt : x = [y EXCEPT !.pc = "reset", !.ids = ids] =>
              x \in CallType /\ x.pc = "reset" /\ x.number = y.number /\ x.ids = ids
         /\ x = [y EXCEPT !.pc = "bulk"] =>
              x \in CallType /\ x.pc = "bulk" /\ x.number = y.number /\ x.ids = y.ids
<1>1. x = [y EXCEPT !.pc = "mark"] =>
        x \in CallType /\ x.pc = "mark" /\ x.attempt = y.attempt /\ x.question = y.question
  BY DEF CallType
<1>2. x = [y EXCEPT !.pc = "select"] =>
        x \in CallType /\ x.pc = "select" /\ x.number = y.number
  BY DEF CallType
<1>3. ASSUME NEW ids \in SUBSET Attempt, x = [y EXCEPT !.pc = "reset", !.ids = ids]
      PROVE  x \in CallType /\ x.pc = "reset" /\ x.number = y.number /\ x.ids = ids
  BY <1>3 DEF CallType
<1>4. x = [y EXCEPT !.pc = "bulk"] =>
        x \in CallType /\ x.pc = "bulk" /\ x.number = y.number /\ x.ids = y.ids
  BY DEF CallType
<1>5. QED
  BY <1>1, <1>2, <1>3, <1>4

LEMMA CallOKStep ==
  ASSUME IndInv, [Next]_vars, NEW c \in Caller
  PROVE  CallOK(c)' /\ call'[c] \in CallType
<1>0. /\ call[c] \in CallType /\ CallOK(c) /\ TypeOK /\ bank \in Edition
      /\ call[c].number \in Nat
  BY DEF IndInv, TypeOK, CallType
<1>1. /\ uploads \in Nat /\ uploads' \in Nat /\ uploads <= uploads'
      /\ regrades \in Nat /\ regrades' \in Nat /\ regrades <= regrades'
  BY CountersStep
<1> DEFINE Numbered ==
             /\ Uploading(c)' =>
                  /\ call'[c].number \in 1..uploads'
                  /\ \A a \in Attempt : jobs'[<<"upload", call'[c].number, a>>].state = "none"
             /\ Regrading(c)' =>
                  /\ call'[c].number \in 1..regrades'
                  /\ \A a \in Attempt : jobs'[<<"force", call'[c].number, a>>].state = "none"
\* A process that goes on keeps its number.
<1>2. ASSUME call'[c].number = call[c].number, ~EnqueueGrading(c), ~EnqueueBulk(c),
             Uploading(c)' => Uploading(c), Regrading(c)' => Regrading(c)
      PROVE  Numbered
  <2>1. ASSUME Uploading(c)'
        PROVE  /\ call'[c].number \in 1..uploads'
               /\ \A a \in Attempt : jobs'[<<"upload", call'[c].number, a>>].state = "none"
    <3>1. Uploading(c) /\ call[c].number \in 1..uploads
      BY <1>0, <1>2, <2>1 DEF CallOK
    <3>2. \A a \in Attempt : jobs'[<<"upload", call[c].number, a>>].state = "none"
      BY <1>2, <3>1, NewJobsStep
    <3>3. call[c].number \in 1..uploads'
      BY <1>0, <1>1, <3>1
    <3>4. QED
      BY <1>2, <3>2, <3>3
  <2>2. ASSUME Regrading(c)'
        PROVE  /\ call'[c].number \in 1..regrades'
               /\ \A a \in Attempt : jobs'[<<"force", call'[c].number, a>>].state = "none"
    <3>1. Regrading(c) /\ call[c].number \in 1..regrades
      BY <1>0, <1>2, <2>2 DEF CallOK
    <3>2. \A a \in Attempt : jobs'[<<"force", call[c].number, a>>].state = "none"
      BY <1>2, <3>1, NewJobsStep
    <3>3. call[c].number \in 1..regrades'
      BY <1>0, <1>1, <3>1
    <3>4. QED
      BY <1>2, <3>2, <3>3
  <2>3. QED
    BY <2>1, <2>2
<1>3. CASE call'[c] = IdleCall
  <2>1. call'[c].pc = "idle" /\ call'[c] \in CallType
    BY <1>3, IdleCallTyped
  <2>2. QED
    BY <2>1 DEF CallOK, Uploading, Regrading
<1>4. CASE call'[c] = call[c] /\ call[c] # IdleCall
  <2>1. ~EnqueueGrading(c) /\ ~EnqueueBulk(c) /\ ~StoreUpload(c)
    <3>1. ASSUME call' = [call EXCEPT ![c] = IdleCall] PROVE FALSE
      BY <1>0, <1>4, <3>1 DEF TypeOK
    <3>2. ASSUME StoreUpload(c) PROVE FALSE
      <4>1. call[c].attempt \in Attempt /\ call[c].pc = "store"
        BY <1>0, <3>2 DEF StoreUpload, CallOK
      <4>2. call'[c] = IF call[c].upload.final
                       THEN [IdleCall EXCEPT !.pc = "enqueue", !.attempt = call[c].attempt,
                                             !.number = call[c].number]
                       ELSE IdleCall
        BY <1>0, <3>2 DEF StoreUpload, TypeOK
      <4>3. call'[c].pc # "store"
        BY <4>2 DEF IdleCall
      <4>4. QED
        BY <1>4, <4>1, <4>3
    <3>3. QED
      BY <3>1, <3>2 DEF EnqueueGrading, EnqueueBulk
  <2>2. Numbered
    BY <1>2, <1>4, <2>1 DEF Uploading, Regrading
  <2>3. ASSUME call[c].pc \in {"lock", "mark"}
        PROVE  answers'[call[c].attempt][call[c].question] # None
    <3> DEFINE a == call[c].attempt
               q == call[c].question
    <3>1. a \in Attempt /\ q \in Question /\ answers[a][q] # None
      BY <1>0, <2>3 DEF CallOK
    <3>2. c \in AnswerHolders(a, q)
      BY <2>3 DEF AnswerHolders
    <3>3. ~DeleteAttempt(a)
      BY <3>1, <3>2 DEF DeleteAttempt
    <3>4. QED
      BY <3>1, <3>3, AnswerStays
  <2>4. QED
    BY <1>0, <1>4, <2>2, <2>3 DEF CallOK
<1>5. CASE \E a \in Attempt, u \in Upload :
             /\ LockForUpload(c, a, u)
             /\ call'[c] = [IdleCall EXCEPT !.pc = "store", !.attempt = a, !.upload = u,
                                            !.number = uploads + 1]
  <2> PICK a \in Attempt, u \in Upload :
             /\ LockForUpload(c, a, u)
             /\ call'[c] = [IdleCall EXCEPT !.pc = "store", !.attempt = a, !.upload = u,
                                            !.number = uploads + 1]
    BY <1>5
  <2>1. /\ call'[c] \in CallType /\ call'[c].pc = "store" /\ call'[c].attempt = a
        /\ call'[c].upload = u /\ call'[c].number = uploads + 1
    <3>1. uploads + 1 \in Nat
      BY <1>1
    <3>2. [IdleCall EXCEPT !.pc = "store", !.attempt = a, !.upload = u, !.number = uploads + 1]
            \in CallType
      BY <3>1, IdleCallTyped DEF CallType
    <3>3. /\ call'[c].pc = "store" /\ call'[c].attempt = a
          /\ call'[c].upload = u /\ call'[c].number = uploads + 1
      BY DEF IdleCall
    <3>4. QED
      BY <3>2, <3>3
  <2>2. uploads' = uploads + 1 /\ uploads + 1 \in 1..MaxUploads
    <3>1. uploads' = uploads + 1 /\ uploads' \in 0..MaxUploads
      BY CountersStep
    <3>2. QED
      BY <1>1, <3>1, ConstantsAssumption
  <2>3. ASSUME NEW b \in Attempt PROVE jobs'[<<"upload", uploads + 1, b>>].state = "none"
    <3> DEFINE j == <<"upload", uploads + 1, b>>
    <3>1. j \in JobId /\ ~Forced(j) /\ j[2] = uploads + 1
      BY <2>2, UploadJob
    <3>2. jobs[j].state = "none"
      BY <1>1, <3>1 DEF IndInv, NumbersFresh
    <3>3. QED
      BY <3>2 DEF LockForUpload
  <2>4. QED
    BY <1>1, <2>1, <2>2, <2>3 DEF CallOK, Uploading, Regrading
<1>6. CASE StoreUpload(c) /\ call'[c] = [IdleCall EXCEPT !.pc = "enqueue", !.attempt = call[c].attempt,
                                                         !.number = call[c].number]
  <2>1. call[c].pc = "store" /\ call[c].attempt \in Attempt
    BY <1>0, <1>6 DEF StoreUpload, CallOK
  <2>2. /\ call'[c] \in CallType /\ call'[c].pc = "enqueue" /\ call'[c].attempt = call[c].attempt
        /\ call'[c].number = call[c].number
    <3>1. [IdleCall EXCEPT !.pc = "enqueue", !.attempt = call[c].attempt, !.number = call[c].number]
            \in CallType
      BY <1>0, <2>1, IdleCallTyped DEF CallType
    <3>2. /\ call'[c].pc = "enqueue" /\ call'[c].attempt = call[c].attempt
          /\ call'[c].number = call[c].number
      BY <1>6 DEF IdleCall
    <3>3. QED
      BY <1>6, <3>1, <3>2
  <2>3. Numbered
    BY <1>2, <2>1, <2>2 DEF Uploading, Regrading, EnqueueGrading, EnqueueBulk
  <2>4. QED
    BY <2>1, <2>2, <2>3 DEF CallOK
<1>7. CASE \E a \in Attempt, q \in Question :
             /\ LockAnswer(c, a, q)
             /\ call'[c] = [IdleCall EXCEPT !.pc = "lock", !.attempt = a, !.question = q]
  <2> PICK a \in Attempt, q \in Question :
             /\ LockAnswer(c, a, q)
             /\ call'[c] = [IdleCall EXCEPT !.pc = "lock", !.attempt = a, !.question = q]
    BY <1>7
  <2>1. /\ call'[c] \in CallType /\ call'[c].pc = "lock" /\ call'[c].attempt = a
        /\ call'[c].question = q
    <3>1. [IdleCall EXCEPT !.pc = "lock", !.attempt = a, !.question = q] \in CallType
      BY IdleCallTyped DEF CallType
    <3>2. call'[c].pc = "lock" /\ call'[c].attempt = a /\ call'[c].question = q
      BY DEF IdleCall
    <3>3. QED
      BY <3>1, <3>2
  <2>2. answers'[a][q] # None
    BY DEF LockAnswer, tables
  <2>3. QED
    BY <2>1, <2>2 DEF CallOK, Uploading, Regrading
<1>8. CASE LockItsAttempt(c) /\ call'[c] = [call[c] EXCEPT !.pc = "mark"]
  <2>1. call[c].pc = "lock" /\ answers' = answers
    BY <1>8 DEF LockItsAttempt, tables
  <2>2. /\ call'[c] \in CallType /\ call'[c].pc = "mark" /\ call'[c].attempt = call[c].attempt
        /\ call'[c].question = call[c].question
    BY <1>0, <1>8, NextCall
  <2>3. QED
    BY <1>0, <2>1, <2>2 DEF CallOK, Uploading, Regrading
<1>9. CASE \E pc \in {"refresh", "select"} :
             /\ StartRegrade(c)
             /\ call'[c] = [IdleCall EXCEPT !.pc = pc, !.number = regrades + 1,
                                            !.key = IF pc = "refresh" THEN bank ELSE None]
  <2> PICK pc \in {"refresh", "select"} :
             /\ StartRegrade(c)
             /\ call'[c] = [IdleCall EXCEPT !.pc = pc, !.number = regrades + 1,
                                            !.key = IF pc = "refresh" THEN bank ELSE None]
    BY <1>9
  <2>1. /\ call'[c] \in CallType /\ call'[c].pc = pc /\ call'[c].number = regrades + 1
        /\ call'[c].key = IF pc = "refresh" THEN bank ELSE None
    <3> DEFINE key == IF pc = "refresh" THEN bank ELSE None
    <3>1. regrades + 1 \in Nat /\ key \in Edition \cup {None}
      BY <1>0, <1>1
    <3> HIDE DEF key
    <3>2. [IdleCall EXCEPT !.pc = pc, !.number = regrades + 1, !.key = key] \in CallType
      BY <3>1, IdleCallTyped DEF CallType
    <3>3. call'[c] = [IdleCall EXCEPT !.pc = pc, !.number = regrades + 1, !.key = key]
      BY DEF key
    <3>4. call'[c].pc = pc /\ call'[c].number = regrades + 1 /\ call'[c].key = key
      BY <3>3 DEF IdleCall
    <3>5. QED
      BY <3>2, <3>3, <3>4 DEF key
  <2>2. regrades' = regrades + 1 /\ regrades + 1 \in 1..MaxRegrades
    <3>1. regrades' = regrades + 1 /\ regrades' \in 0..MaxRegrades
      BY CountersStep
    <3>2. QED
      BY <1>1, <3>1, ConstantsAssumption
  <2>3. ASSUME NEW b \in Attempt PROVE jobs'[<<"force", regrades + 1, b>>].state = "none"
    <3> DEFINE j == <<"force", regrades + 1, b>>
    <3>1. j \in JobId /\ Forced(j) /\ j[2] = regrades + 1
      BY <2>2, ForceJob
    <3>2. jobs[j].state = "none"
      BY <1>1, <3>1 DEF IndInv, NumbersFresh
    <3>3. QED
      BY <3>2 DEF StartRegrade
  <2>4. QED
    BY <1>0, <1>1, <2>1, <2>2, <2>3 DEF CallOK, Uploading, Regrading
<1>10. CASE WriteKeys(c) /\ call'[c] = [call[c] EXCEPT !.pc = "select"]
  <2>1. call[c].pc = "refresh"
    BY <1>10 DEF WriteKeys
  <2>2. call'[c] \in CallType /\ call'[c].pc = "select" /\ call'[c].number = call[c].number
    BY <1>0, <1>10, NextCall
  <2>3. Numbered
    BY <1>2, <2>1, <2>2 DEF Uploading, Regrading, EnqueueGrading, EnqueueBulk
  <2>4. QED
    BY <2>2, <2>3 DEF CallOK
<1>11. CASE SelectFinished(c)
              /\ call'[c] = [call[c] EXCEPT !.pc = "reset", !.ids = {a \in Attempt : Finished(a)}]
  <2>1. call[c].pc = "select"
    BY <1>11 DEF SelectFinished
  <2>2. call'[c] \in CallType /\ call'[c].pc = "reset" /\ call'[c].number = call[c].number
    <3>1. {a \in Attempt : Finished(a)} \in SUBSET Attempt
      OBVIOUS
    <3>2. QED
      BY <1>0, <1>11, <3>1, NextCall
  <2>3. Numbered
    BY <1>2, <2>1, <2>2 DEF Uploading, Regrading, EnqueueGrading, EnqueueBulk
  <2>4. QED
    BY <2>2, <2>3 DEF CallOK
<1>12. CASE ResetAutoGrades(c) /\ call'[c] = [call[c] EXCEPT !.pc = "bulk"]
  <2>1. call[c].pc = "reset"
    BY <1>12 DEF ResetAutoGrades
  <2>2. call'[c] \in CallType /\ call'[c].pc = "bulk" /\ call'[c].number = call[c].number
    BY <1>0, <1>12, NextCall
  <2>3. Numbered
    BY <1>2, <2>1, <2>2 DEF Uploading, Regrading, EnqueueGrading, EnqueueBulk
  <2>4. QED
    BY <2>2, <2>3 DEF CallOK
<1>13. QED
  BY <1>0, <1>3, <1>4, <1>5, <1>6, <1>7, <1>8, <1>9, <1>10, <1>11, <1>12, CallStepOf

LEMMA NumbersFreshStep ==
  ASSUME IndInv, [Next]_vars
  PROVE  NumbersFresh'
<1>0. NumbersFresh /\ \A c \in Caller : CallOK(c) /\ call[c] \in CallType
  BY DEF IndInv, TypeOK
<1>1. /\ uploads \in Nat /\ uploads' \in Nat /\ uploads <= uploads'
      /\ regrades \in Nat /\ regrades' \in Nat /\ regrades <= regrades'
  BY CountersStep
<1>2. ASSUME NEW j \in JobId, jobs'[j].state # "none"
      PROVE  j[2] <= IF Forced(j) THEN regrades' ELSE uploads'
  <2>0. j[2] \in Nat
    BY JobParts
  <2>1. CASE jobs[j].state # "none"
    BY <1>0, <1>1, <2>0, <2>1 DEF NumbersFresh
  <2>2. CASE jobs[j].state = "none"
    <3>1. CASE \E c \in Caller :
                 EnqueueGrading(c) /\ j = <<"upload", call[c].number, call[c].attempt>>
      <4> PICK c \in Caller : EnqueueGrading(c) /\ j = <<"upload", call[c].number, call[c].attempt>>
        BY <3>1
      <4>1. call[c].number \in 1..uploads
        BY <1>0 DEF EnqueueGrading, CallOK, Uploading
      <4>2. j[2] = call[c].number /\ ~Forced(j)
        BY DEF Forced
      <4>3. QED
        BY <1>1, <4>1, <4>2
    <3>2. CASE \E a \in Attempt : RegradeOne(a) /\ j = <<"force", regrades + 1, a>>
      <4>1. j[2] = regrades + 1 /\ Forced(j) /\ regrades' = regrades + 1
        BY <3>2 DEF Forced, RegradeOne
      <4>2. QED
        BY <1>1, <4>1
    <3>3. CASE \E c \in Caller : EnqueueBulk(c) /\ j = <<"force", call[c].number, AttemptOf(j)>>
      <4> PICK c \in Caller : EnqueueBulk(c) /\ j = <<"force", call[c].number, AttemptOf(j)>>
        BY <3>3
      <4>1. call[c].number \in 1..regrades
        BY <1>0 DEF EnqueueBulk, CallOK, Regrading
      <4>2. j[2] = call[c].number /\ Forced(j)
        BY DEF Forced
      <4>3. QED
        BY <1>1, <4>1, <4>2
    <3>4. QED
      BY <1>2, <2>2, <3>1, <3>2, <3>3, JobsStep
  <2>3. QED
    BY <2>1, <2>2
\* A process has a number already, or takes the next one.
<1>3. ASSUME NEW c \in Caller, Uploading(c)'
      PROVE  \/ call'[c].number = call[c].number /\ Uploading(c)
             \/ /\ call'[c].number = uploads + 1
                /\ \A d \in Caller : d # c => call'[d] = call[d]
  <2>1. call'[c].pc \in {"store", "enqueue"} /\ call[c] \in CallType
    BY <1>0, <1>3 DEF Uploading
  <2>2. CASE call'[c] = call[c]
    BY <1>3, <2>2 DEF Uploading
  <2>3. CASE call'[c] = IdleCall
    BY <2>1, <2>3, IdleCallTyped
  <2>4. CASE \E a \in Attempt, u \in Upload :
               /\ LockForUpload(c, a, u)
               /\ call'[c] = [IdleCall EXCEPT !.pc = "store", !.attempt = a, !.upload = u,
                                              !.number = uploads + 1]
    <3>1. call'[c].number = uploads + 1
      BY <2>4 DEF IdleCall
    <3>2. \A d \in Caller : d # c => call'[d] = call[d]
      BY <2>4 DEF LockForUpload, IndInv, TypeOK
    <3>3. QED
      BY <3>1, <3>2
  <2>5. CASE StoreUpload(c) /\ call'[c] = [IdleCall EXCEPT !.pc = "enqueue", !.attempt = call[c].attempt,
                                                           !.number = call[c].number]
    <3>1. call[c].pc = "store"
      BY <2>5 DEF StoreUpload
    <3>2. call'[c].number = call[c].number
      BY <2>5 DEF IdleCall
    <3>3. QED
      BY <3>1, <3>2 DEF Uploading
  <2>6. CASE \E a \in Attempt, q \in Question :
               call'[c] = [IdleCall EXCEPT !.pc = "lock", !.attempt = a, !.question = q]
    BY <2>1, <2>6 DEF IdleCall
  <2>7. CASE \E pc \in {"refresh", "select"} :
               call'[c] = [IdleCall EXCEPT !.pc = pc, !.number = regrades + 1,
                                           !.key = IF pc = "refresh" THEN bank ELSE None]
    BY <2>1, <2>7 DEF IdleCall
  <2>8. CASE \/ call'[c] = [call[c] EXCEPT !.pc = "mark"]
             \/ call'[c] = [call[c] EXCEPT !.pc = "select"]
             \/ call'[c] = [call[c] EXCEPT !.pc = "reset", !.ids = {a \in Attempt : Finished(a)}]
             \/ call'[c] = [call[c] EXCEPT !.pc = "bulk"]
    <3>1. {a \in Attempt : Finished(a)} \in SUBSET Attempt
      OBVIOUS
    <3>2. QED
      BY <2>1, <2>8, <3>1, NextCall
  <2>9. QED
    BY <1>0, <2>2, <2>3, <2>4, <2>5, <2>6, <2>7, <2>8, CallStepOf DEF IndInv
<1>4. ASSUME NEW c \in Caller, Regrading(c)'
      PROVE  \/ call'[c].number = call[c].number /\ Regrading(c)
             \/ /\ call'[c].number = regrades + 1
                /\ \A d \in Caller : d # c => call'[d] = call[d]
  <2>1. call'[c].pc \in {"refresh", "select", "reset", "bulk"} /\ call[c] \in CallType
    BY <1>0, <1>4 DEF Regrading
  <2>2. CASE call'[c] = call[c]
    BY <1>4, <2>2 DEF Regrading
  <2>3. CASE call'[c] = IdleCall
    BY <2>1, <2>3, IdleCallTyped
  <2>4. CASE \E pc \in {"refresh", "select"} :
               /\ StartRegrade(c)
               /\ call'[c] = [IdleCall EXCEPT !.pc = pc, !.number = regrades + 1,
                                              !.key = IF pc = "refresh" THEN bank ELSE None]
    <3>1. call'[c].number = regrades + 1
      BY <2>4 DEF IdleCall
    <3>2. \A d \in Caller : d # c => call'[d] = call[d]
      BY <2>4 DEF StartRegrade, IndInv, TypeOK
    <3>3. QED
      BY <3>1, <3>2
  <2>5. CASE \/ WriteKeys(c) /\ call'[c] = [call[c] EXCEPT !.pc = "select"]
             \/ /\ SelectFinished(c)
                /\ call'[c] = [call[c] EXCEPT !.pc = "reset", !.ids = {a \in Attempt : Finished(a)}]
             \/ ResetAutoGrades(c) /\ call'[c] = [call[c] EXCEPT !.pc = "bulk"]
    <3>1. {a \in Attempt : Finished(a)} \in SUBSET Attempt
      OBVIOUS
    <3>2. call[c].pc \in {"refresh", "select", "reset"}
      BY <2>5 DEF WriteKeys, SelectFinished, ResetAutoGrades
    <3>3. call'[c].number = call[c].number
      BY <2>1, <2>5, <3>1, NextCall
    <3>4. QED
      BY <3>2, <3>3 DEF Regrading
  <2>6. CASE \E a \in Attempt, u \in Upload :
               call'[c] = [IdleCall EXCEPT !.pc = "store", !.attempt = a, !.upload = u,
                                           !.number = uploads + 1]
    BY <2>1, <2>6 DEF IdleCall
  <2>7. CASE \E a \in Attempt, q \in Question :
               call'[c] = [IdleCall EXCEPT !.pc = "lock", !.attempt = a, !.question = q]
    BY <2>1, <2>7 DEF IdleCall
  <2>8. CASE call'[c] = [call[c] EXCEPT !.pc = "mark"]
    BY <2>1, <2>8, NextCall
  <2>9. CASE call'[c] = [IdleCall EXCEPT !.pc = "enqueue", !.attempt = call[c].attempt,
                                         !.number = call[c].number]
    BY <2>1, <2>9 DEF IdleCall
  <2>10. QED
    BY <1>0, <2>2, <2>3, <2>4, <2>5, <2>6, <2>7, <2>8, <2>9, CallStepOf DEF IndInv
<1>5. ASSUME NEW c \in Caller, NEW d \in Caller, call'[c].number = call'[d].number, Uploading(c)', Uploading(d)'
      PROVE  c = d
  <2>1. \A x \in Caller : Uploading(x) => call[x].number \in 1..uploads
    BY <1>0 DEF CallOK
  <2>2. \A x \in Caller : call'[x] = call[x] => (Uploading(x)' <=> Uploading(x))
    BY DEF Uploading
  <2>3. uploads + 1 \notin 1..uploads
    BY <1>1
  <2>4. CASE Uploading(c) /\ Uploading(d) /\ call[c].number = call[d].number
    BY <1>0, <2>4 DEF NumbersFresh
  <2>5. QED
    BY <1>3, <1>5, <2>1, <2>2, <2>3, <2>4
<1>6. ASSUME NEW c \in Caller, NEW d \in Caller, call'[c].number = call'[d].number, Regrading(c)', Regrading(d)'
      PROVE  c = d
  <2>1. \A x \in Caller : Regrading(x) => call[x].number \in 1..regrades
    BY <1>0 DEF CallOK
  <2>2. \A x \in Caller : call'[x] = call[x] => (Regrading(x)' <=> Regrading(x))
    BY DEF Regrading
  <2>3. regrades + 1 \notin 1..regrades
    BY <1>1
  <2>4. CASE Regrading(c) /\ Regrading(d) /\ call[c].number = call[d].number
    BY <1>0, <2>4 DEF NumbersFresh
  <2>5. QED
    BY <1>4, <1>6, <2>1, <2>2, <2>3, <2>4
<1>7. QED
  BY <1>2, <1>5, <1>6 DEF NumbersFresh, Forced

LEMMA LocksStep ==
  ASSUME IndInv, [Next]_vars
  PROVE  LocksAreExclusive'
<1>1. SUFFICES ASSUME NEW a \in Attempt, NEW x \in AttemptHolders(a)', NEW y \in AttemptHolders(a)'
               PROVE  x = y
  BY DEF LocksAreExclusive
<1>2. CASE x \in AttemptHolders(a) /\ y \in AttemptHolders(a)
  BY <1>2 DEF IndInv, LocksAreExclusive
<1>3. CASE x \notin AttemptHolders(a)
  BY <1>3, HoldersStep
<1>4. CASE y \notin AttemptHolders(a)
  BY <1>4, HoldersStep
<1>5. QED
  BY <1>2, <1>3, <1>4

LEMMA KeysStep ==
  ASSUME IndInv, [Next]_vars
  PROVE  /\ keys' \in Edition
         /\ keys' = keys \/ \E c \in Caller : WriteKeys(c)
         /\ missed' \subseteq Attempt /\ stranded' \subseteq Attempt
<1>1. keys' = keys \/ \E c \in Caller : WriteKeys(c)
  BY DEF Next, vars, tables, counters, RegradeDies, LockForUpload, StoreUpload, EnqueueGrading, DeleteAttempt,
      RegradeOne, SkipDeleted, BeginGrade, GradeAnswer, ReadAnswers, CommitGrades, CompleteJob,
      AbortRun, WorkerCrash, RecoverStalled, LockAnswer, LockItsAttempt, SetMark, AbortCall,
      EditBank, StartRegrade, SelectFinished, ResetAutoGrades, EnqueueBulk
<1>2. ASSUME NEW c \in Caller, WriteKeys(c) PROVE keys' \in Edition
  BY <1>2 DEF WriteKeys, IndInv, CallOK
<1>3. missed' \subseteq Attempt
  <2>1. missed' = missed \/ (\E a \in Attempt : DeleteAttempt(a)) \/ (\E c \in Caller : SelectFinished(c))
    BY DEF Next, vars, tables, counters, RegradeDies, LockForUpload, StoreUpload, EnqueueGrading,
        RegradeOne, SkipDeleted, BeginGrade, GradeAnswer, ReadAnswers, CommitGrades, CompleteJob,
        AbortRun, WorkerCrash, RecoverStalled, LockAnswer, LockItsAttempt, SetMark, AbortCall,
        EditBank, StartRegrade, WriteKeys, ResetAutoGrades, EnqueueBulk
  <2>2. missed \subseteq Attempt
    BY DEF IndInv, TypeOK
  <2>3. QED
    BY <2>1, <2>2 DEF DeleteAttempt, SelectFinished
<1>4. stranded' \subseteq Attempt
  <2>1. stranded' \subseteq stranded \cup UNION {WasToGrade(c) : c \in Caller}
    BY DEF Next, vars, tables, counters, RegradeDies, LockForUpload, StoreUpload, EnqueueGrading,
        DeleteAttempt, RegradeOne, SkipDeleted, BeginGrade, GradeAnswer, ReadAnswers, CommitGrades,
        CompleteJob, AbortRun, WorkerCrash, RecoverStalled, LockAnswer, LockItsAttempt, SetMark,
        AbortCall, EditBank, StartRegrade, WriteKeys, SelectFinished, ResetAutoGrades, EnqueueBulk
  <2>2. \A c \in Caller : WasToGrade(c) \subseteq Attempt
    BY DEF WasToGrade
  <2>3. QED
    BY <2>1, <2>2 DEF IndInv, TypeOK
<1>5. QED
  BY <1>1, <1>2, <1>3, <1>4 DEF IndInv, TypeOK

LEMMA IndInvStep ==
  ASSUME IndInv, [Next]_vars
  PROVE  IndInv'
<1>1. run' \in [Worker -> RunType] /\ call' \in [Caller -> CallType]
  BY StepFunctions, RunOKStep, CallOKStep
<1>2. attempts' \in [Attempt -> AttemptRow \cup {None}]
  <2>1. ASSUME NEW a \in Attempt PROVE attempts'[a] \in AttemptRow \cup {None}
    <3>1. attempts[a] \in AttemptRow \cup {None}
      BY DEF IndInv, TypeOK
    <3>2. ASSUME NEW c \in Caller, StoreUpload(c)
          PROVE  [final |-> call[c].upload.final, presented |-> call[c].upload.presented] \in AttemptRow
      <4>1. call[c].upload \in Upload
        BY <3>2 DEF StoreUpload, IndInv, CallOK
      <4>2. QED
        BY <4>1, ConstantsAssumption DEF AttemptRow
    <3>3. QED
      BY <3>1, <3>2, AttemptsStep
  <2>2. QED
    BY <2>1, StepFunctions
<1>3. answers' \in [Attempt -> [Question -> AnswerRow \cup {None}]]
  <2>1. \A a \in Attempt, q \in Question : answers'[a][q] \in AnswerRow \cup {None}
    BY RowStep
  <2>2. QED
    BY <2>1, StepFunctions
<1>4. jobs' \in [JobId -> Queue!Job]
  BY JobsTyped DEF IndInv
<1>5. TypeOK'
  <2>1. \A a \in Attempt, q \in Question : answers'[a][q] # None =>
          /\ answers'[a][q].status = "manual" => answers'[a][q].score \in Mark
          /\ answers'[a][q].status \in {"graded", "unanswered", "pending_manual"} =>
               answers'[a][q].score \in AutoScore
    BY RowStep
  <2>2. QED
    BY <1>1, <1>2, <1>3, <1>4, <2>1, CountersStep, KeysStep DEF TypeOK
<1>6. RowsOK'
  BY RowStep DEF RowsOK
<1>7. QED
  BY <1>5, <1>6, RunOKStep, CallOKStep, NumbersFreshStep, LocksStep DEF IndInv

LEMMA IndInvInit == Init => IndInv
<1> SUFFICES ASSUME Init PROVE IndInv
  OBVIOUS
<1>0. /\ MaxEdits \in Nat /\ MaxUploads \in Nat /\ MaxRegrades \in Nat /\ MaxFaults \in Nat
      /\ MaxTries \in Nat /\ MaxStalls \in Nat
  BY ConstantsAssumption
<1>1. /\ IdleRun \in RunType /\ IdleRun.pc = "idle" /\ IdleRun.job = None
      /\ NoAnswers \in [Question -> AnswerRow \cup {None}]
      /\ \A q \in Question : NoAnswers[q] = None
  BY DEF IdleRun, RunType, NoAnswers
<1>2. Queue!NotAdded \in Queue!Job /\ Queue!NotAdded.state = "none"
  BY <1>0 DEF Queue!NotAdded, Queue!Job
<1>3. /\ \A w \in Worker : run[w] = IdleRun
      /\ \A c \in Caller : call[c] = IdleCall
      /\ \A a \in Attempt, q \in Question : answers[a][q] = None
      /\ \A j \in JobId : jobs[j].state = "none"
  BY <1>1, <1>2 DEF Init, Queue!Init
<1>4. TypeOK
  <2>1. jobs \in [JobId -> Queue!Job]
    BY <1>2 DEF Init, Queue!Init
  <2>2. run \in [Worker -> RunType] /\ call \in [Caller -> CallType]
    BY <1>1, IdleCallTyped DEF Init
  <2>3. answers \in [Attempt -> [Question -> AnswerRow \cup {None}]]
    BY <1>1 DEF Init
  <2>4. attempts \in [Attempt -> AttemptRow \cup {None}]
    BY DEF Init
  <2>5. /\ bank \in Edition /\ keys \in Edition /\ uploads \in 0..MaxUploads
        /\ regrades \in 0..MaxRegrades /\ faults \in 0..MaxFaults /\ missed \subseteq Attempt
        /\ stranded \subseteq Attempt
    BY <1>0 DEF Init, Edition
  <2>6. QED
    BY <1>3, <2>1, <2>2, <2>3, <2>4, <2>5 DEF TypeOK
<1>5. \A w \in Worker : RunOK(w)
  BY <1>1, <1>3 DEF RunOK
<1>6. \A c \in Caller : CallOK(c) /\ ~Uploading(c) /\ ~Regrading(c)
  BY <1>3, IdleCallTyped DEF CallOK, Uploading, Regrading
<1>7. NumbersFresh
  BY <1>3, <1>6 DEF NumbersFresh
<1>8. LocksAreExclusive
  BY <1>1, <1>3, IdleCallTyped DEF LocksAreExclusive, AttemptHolders
<1>9. RowsOK
  BY <1>3 DEF RowsOK
<1>10. QED
  BY <1>4, <1>5, <1>6, <1>7, <1>8, <1>9 DEF IndInv

LEMMA Invariance == Spec => []IndInv
<1>1. IndInv /\ [Next]_vars => IndInv'
  BY IndInvStep
<1>2. QED
  BY <1>1, IndInvInit, PTL DEF Spec

\* The tables and the processes keep their types; a manual status goes with a mark, a
\* grade with a score of the engine.
THEOREM RowsAreTyped == Spec => []TypeOK
BY Invariance, PTL DEF IndInv

\* Marks of graders survive grading, also with force: what a run of gradeAttempt is going
\* to write was not manual when it read it, and neither a grader nor an upload gets at the
\* answers before the run commits.
THEOREM MarksSurvive == Spec => ManualSurvives
<1>1. IndInv /\ [Next]_vars =>
        [\A a \in Attempt, q \in Question :
           /\ answers[a][q] # None /\ answers[a][q].status = "manual"
           /\ answers'[a][q] # None /\ answers'[a][q].response = answers[a][q].response
           => answers'[a][q].status = "manual"]_vars
  <2> SUFFICES ASSUME IndInv, [Next]_vars, NEW a \in Attempt, NEW q \in Question,
                      answers[a][q] # None, answers[a][q].status = "manual",
                      answers'[a][q] # None, answers'[a][q].response = answers[a][q].response
               PROVE  answers'[a][q].status = "manual"
    OBVIOUS
  <2> DEFINE old == answers[a][q]
  <2>0. old \in AnswerRow
    BY DEF IndInv, TypeOK
  <2>1. CASE answers'[a][q] = old
    BY <2>1
  <2>2. CASE \E c \in Caller : /\ StoreUpload(c)
                               /\ answers'[a][q] = Replace(old, call[c].upload.answers[q])
    <3> PICK c \in Caller : /\ StoreUpload(c)
                            /\ answers'[a][q] = Replace(old, call[c].upload.answers[q])
      BY <2>2
    <3> DEFINE response == call[c].upload.answers[q]
    <3>1. response \in Response \cup {None}
      BY ConstantsAssumption DEF StoreUpload, IndInv, CallOK
    <3>2. [old EXCEPT !.response = response, !.status = "pending"].response = response
      BY <2>0, <3>1, RowReplaced
    <3>3. CASE old.response # response
      BY <3>2, <3>3 DEF Replace
    <3>4. CASE old.response = response
      BY <3>4 DEF Replace
    <3>5. QED
      BY <3>3, <3>4
  <2>3. CASE \E w \in Worker : CommitGrades(w) /\ RunAttempt(w) = a /\ q \in run[w].done
    BY <2>3 DEF CommitGrades, IndInv, RunOK
  <2>4. CASE \E m \in Mark : answers'[a][q] = [old EXCEPT !.status = "manual", !.score = m]
    <3>1. \A m \in Mark : [old EXCEPT !.status = "manual", !.score = m].status = "manual"
      BY <2>0, RowMarked
    <3>2. QED
      BY <2>4, <3>1
  <2>5. QED
    BY <2>1, <2>2, <2>3, <2>4, AnswersStep
<1>2. QED
  BY <1>1, Invariance, PTL DEF Spec, ManualSurvives
-----------------------------------------------------------------------------
(* What is not graded, or not as the keys say, will be.                    *)

\* Also a job that used up its tries: where there is one, nothing is Settled.
Open(j) == jobs[j].state \in {"waiting", "active", "failed"}

\* The run of job j, if there is one, has not passed over q, and has not committed.
WillGrade(j, q) ==
  \A w \in Worker : run[w].job = j =>
    run[w].pc = "read" \/ (run[w].pc = "grade" /\ q \in run[w].todo \cup run[w].done)

\* A request is about to add a job of attempt a.
Queueing(a) ==
  \E c \in Caller : \/ call[c].pc = "enqueue" /\ call[c].attempt = a
                    \/ call[c].pc = "bulk" /\ a \in call[c].ids

Due(a, q) ==
  \/ Queueing(a)
  \/ \E j \in JobId : AttemptOf(j) = a /\ Open(j) /\ WillGrade(j, q)

\* With the present keys, whatever its status is (except manual).
DueAgain(a, q) ==
  \/ \E c \in Caller : \/ call[c].pc = "select" /\ call[c].key # None
                       \/ call[c].pc \in {"reset", "bulk"} /\ a \in call[c].ids
  \/ \E j \in JobId : /\ Forced(j) /\ AttemptOf(j) = a /\ Open(j) /\ WillGrade(j, q)
                      /\ \A w \in Worker : run[w].job = j => run[w].key = keys

Recomputed(a) ==
  \/ Queueing(a)
  \/ \E j \in JobId : /\ AttemptOf(j) = a /\ Open(j)
                      /\ \A w \in Worker : run[w].job = j => run[w].pc # "done"

Ungraded(a, q) ==
  IF answers[a][q] = None THEN q \in attempts[a].presented ELSE answers[a][q].status = "pending"

\* Graded with keys that were corrected since, or about to be.
Outdated(a, q) ==
  /\ answers[a][q] # None /\ answers[a][q].status \notin {"pending", "manual"}
  /\ answers[a][q].score.key # keys
RunOutdated(a) ==
  \E w \in Worker : run[w].pc \in {"read", "grade"} /\ RunAttempt(w) = a /\ run[w].key # keys

UngradedIsDue == \A a \in Attempt \ stranded, q \in Question : Finished(a) /\ Ungraded(a, q) => Due(a, q)
OutdatedIsDue ==
  \A a \in Attempt \ (missed \cup stranded), q \in Question : Outdated(a, q) \/ RunOutdated(a) => DueAgain(a, q)
TotalsAreDue ==
  /\ DOMAIN totals = Attempt
  /\ \A a \in Attempt \ stranded : Finished(a) /\ totals[a] # Totals(answers[a]) => Recomputed(a)

\* A job nobody has added has no run.
LEMMA NewJobHasNoRun ==
  ASSUME IndInv, NEW j \in JobId, jobs[j].state = "none", NEW w \in Worker
  PROVE  run[w].job # j
BY NoneAssumption DEF IndInv, RunOK, Queue!Owns

\* The job a request adds is open, and has no run.
LEMMA QueueingStep ==
  ASSUME IndInv, [Next]_vars, NEW a \in Attempt, NEW c \in Caller, ~RegradeDies(c)
  PROVE  /\ call[c].pc = "enqueue" /\ call[c].attempt = a =>
              \/ call'[c] = call[c]
              \/ \E j \in JobId : /\ AttemptOf(j) = a /\ Open(j)'
                                  /\ \A w \in Worker : run'[w].job # j
         /\ call[c].pc = "bulk" /\ a \in call[c].ids =>
              \/ call'[c] = call[c]
              \/ \E j \in JobId : /\ AttemptOf(j) = a /\ Forced(j) /\ Open(j)'
                                  /\ \A w \in Worker : run'[w].job # j
<1>0. jobs \in [JobId -> Queue!Job] /\ CallOK(c)
  BY DEF IndInv, TypeOK
<1>1. ASSUME call[c].pc \in {"enqueue", "bulk"}, call'[c] # call[c]
      PROVE  EnqueueGrading(c) \/ EnqueueBulk(c)
  <2>1. \/ call'[c] = call[c]
        \/ AbortCall(c) \/ EnqueueGrading(c) \/ EnqueueBulk(c)
        \/ \E b \in Attempt, u \in Upload : LockForUpload(c, b, u)
        \/ StoreUpload(c)
        \/ \E b \in Attempt, q \in Question : LockAnswer(c, b, q)
        \/ LockItsAttempt(c) \/ StartRegrade(c) \/ WriteKeys(c) \/ SelectFinished(c)
        \/ ResetAutoGrades(c)
    BY <1>1, CallStepOf DEF IndInv
  <2>2. call[c] # IdleCall
    BY <1>1, IdleCallTyped
  <2>3. QED
    BY <1>1, <2>1, <2>2, Waiting
    DEF AbortCall, LockForUpload, StoreUpload, LockAnswer, LockItsAttempt, StartRegrade, WriteKeys,
        SelectFinished, ResetAutoGrades
<1>2. ASSUME NEW j \in JobId, jobs[j].state = "none", jobs'[j].state = "waiting", run' = run
      PROVE  Open(j)' /\ \A w \in Worker : run'[w].job # j
  BY <1>2, NewJobHasNoRun DEF Open
<1>3. ASSUME call[c].pc = "enqueue", call[c].attempt = a, EnqueueGrading(c)
      PROVE  \E j \in JobId : AttemptOf(j) = a /\ Open(j)' /\ \A w \in Worker : run'[w].job # j
  <2> DEFINE n == call[c].number
             j == <<"upload", n, a>>
  <2>1. n \in 1..uploads /\ jobs[<<"upload", call[c].number, a>>].state = "none"
    BY <1>0, <1>3 DEF CallOK, Uploading
  <2>2. n \in 1..MaxUploads
    <3>1. uploads \in 0..MaxUploads
      BY CountersStep
    <3>2. QED
      BY <2>1, <3>1, ConstantsAssumption
  <2>3. j \in JobId /\ AttemptOf(j) = a
    BY <2>2, UploadJob
  <2>4. Queue!Add(j) /\ run' = run
    BY <1>3 DEF EnqueueGrading
  <2> HIDE DEF j
  <2>5. jobs[j].state = "none"
    BY <2>1 DEF j
  <2>6. jobs'[j].state = "waiting"
    BY <1>0, <2>3, <2>4, <2>5 DEF Queue!Add, Queue!Job
  <2>7. QED
    BY <1>2, <2>3, <2>4, <2>5, <2>6
<1>4. ASSUME call[c].pc = "bulk", a \in call[c].ids, EnqueueBulk(c)
      PROVE  \E j \in JobId : /\ AttemptOf(j) = a /\ Forced(j) /\ Open(j)'
                              /\ \A w \in Worker : run'[w].job # j
  <2> DEFINE n == call[c].number
             j == <<"force", n, a>>
  <2>1. n \in 1..regrades /\ jobs[<<"force", call[c].number, a>>].state = "none"
    BY <1>0, <1>4 DEF CallOK, Regrading
  <2>2. n \in 1..MaxRegrades
    <3>1. regrades \in 0..MaxRegrades
      BY CountersStep
    <3>2. QED
      BY <2>1, <3>1, ConstantsAssumption
  <2>3. j \in JobId /\ AttemptOf(j) = a /\ Forced(j)
    BY <2>2, ForceJob
  <2>4. j[1] = "force" /\ j[2] = call[c].number /\ j[3] \in call[c].ids
    BY <1>4
  <2>5. run' = run
    BY <1>4 DEF EnqueueBulk
  <2> HIDE DEF j
  <2>6. jobs[j].state = "none"
    BY <2>1 DEF j
  <2>7. jobs'[j] = [jobs[j] EXCEPT !.state = "waiting"]
    BY <1>4, <2>3, <2>4 DEF EnqueueBulk
  <2>8. jobs'[j].state = "waiting"
    BY <1>0, <2>3, <2>7 DEF Queue!Job
  <2>9. QED
    BY <1>2, <2>3, <2>5, <2>6, <2>8
<1>5. ASSUME call[c].pc = "enqueue", call[c].attempt = a, call'[c] # call[c]
      PROVE  \E j \in JobId : AttemptOf(j) = a /\ Open(j)' /\ \A w \in Worker : run'[w].job # j
  <2>1. EnqueueGrading(c)
    BY <1>1, <1>5 DEF EnqueueBulk
  <2>2. QED
    BY <1>3, <1>5, <2>1
<1>6. ASSUME call[c].pc = "bulk", a \in call[c].ids, call'[c] # call[c]
      PROVE  \E j \in JobId : /\ AttemptOf(j) = a /\ Forced(j) /\ Open(j)'
                              /\ \A w \in Worker : run'[w].job # j
  <2>1. EnqueueBulk(c)
    BY <1>1, <1>6 DEF EnqueueGrading
  <2>2. QED
    BY <1>4, <1>6, <2>1
<1>7. QED
  BY <1>5, <1>6

\* A request that dies strands what it has selected.
LEMMA DeathStrands ==
  ASSUME NEW a \in Attempt, a \notin stranded', NEW c \in Caller, RegradeDies(c),
         a \in call[c].ids \/ call[c].pc = "enqueue"
  PROVE  attempts[a] = None /\ UNCHANGED <<attempts, answers, run>>
BY DEF RegradeDies, WasToGrade, tables

\* What it stranded goes, or is queued with force: one by one, or by the next request.
LEMMA Unstranded ==
  ASSUME IndInv, [Next]_vars, NEW a \in Attempt, a \in stranded, a \notin stranded'
  PROVE  \/ DeleteAttempt(a)
         \/ \E j \in JobId : /\ AttemptOf(j) = a /\ Forced(j) /\ Open(j)'
                            /\ \A w \in Worker : run'[w].job # j
<1>1. \/ DeleteAttempt(a) \/ RegradeOne(a)
      \/ \E c \in Caller : EnqueueBulk(c) /\ a \in call[c].ids
  BY DEF Next, vars, tables, counters, RegradeDies, LockForUpload, StoreUpload, EnqueueGrading,
      DeleteAttempt, RegradeOne, SkipDeleted, BeginGrade, GradeAnswer, ReadAnswers, CommitGrades,
      CompleteJob, AbortRun, WorkerCrash, RecoverStalled, LockAnswer, LockItsAttempt, SetMark,
      AbortCall, EditBank, StartRegrade, WriteKeys, SelectFinished, ResetAutoGrades, EnqueueBulk
<1>2. CASE RegradeOne(a)
  <2> DEFINE n == regrades + 1
             j == <<"force", n, a>>
  <2>1. n \in 1..MaxRegrades /\ regrades \in Nat
    BY <1>2, ConstantsAssumption DEF RegradeOne, IndInv, TypeOK
  <2>2. j \in JobId /\ AttemptOf(j) = a /\ Forced(j) /\ j[2] = n
    BY <2>1, ForceJob
  <2>3. Queue!Add(j) /\ run' = run
    BY <1>2 DEF RegradeOne
  <2> HIDE DEF j
  <2>4. jobs[j].state = "none"
    <3>1. ~(j[2] <= regrades)
      BY <2>1, <2>2
    <3>2. QED
      BY <2>2, <3>1 DEF IndInv, NumbersFresh
  <2>5. jobs'[j].state = "waiting"
    BY <2>2, <2>3, <2>4 DEF Queue!Add, Queue!Job, IndInv, TypeOK
  <2>6. \A w \in Worker : run'[w].job # j
    BY <2>2, <2>3, <2>4, NewJobHasNoRun
  <2>7. QED
    BY <2>2, <2>5, <2>6 DEF Open
<1>3. CASE \E c \in Caller : EnqueueBulk(c) /\ a \in call[c].ids
  <2> PICK c \in Caller : EnqueueBulk(c) /\ a \in call[c].ids
    BY <1>3
  <2>2. call[c].pc = "bulk"
    BY DEF EnqueueBulk
  <2>3. call'[c].pc = "idle"
    BY DEF EnqueueBulk, IndInv, TypeOK, IdleCall
  <2>4. ~RegradeDies(c)
    BY DEF EnqueueBulk, RegradeDies, Fault, IndInv, TypeOK, counters
  <2>5. QED
    BY <2>2, <2>3, <2>4, QueueingStep
<1>4. QED
  BY <1>1, <1>2, <1>3

\* A job that has no run grades everything, with the present keys.
LEMMA QueuedAnew ==
  ASSUME NEW a \in Attempt, NEW q \in Question, NEW j \in JobId, AttemptOf(j) = a, Forced(j), Open(j)',
         \A w \in Worker : run'[w].job # j
  PROVE  Due(a, q)' /\ DueAgain(a, q)' /\ Recomputed(a)'
<1>1. AttemptOf(j)' = a /\ Forced(j)' /\ WillGrade(j, q)'
  BY DEF AttemptOf, Forced, WillGrade
<1>2. QED
  BY <1>1 DEF Due, DueAgain, Recomputed

\* An open job is closed by its completed run, or for want of the attempt.
LEMMA OpenStep ==
  ASSUME IndInv, [Next]_vars, NEW j \in JobId, Open(j)
  PROVE  \/ Open(j)'
         \/ \E w \in Worker : SkipDeleted(w, j)
         \/ \E w \in Worker : CompleteJob(w) /\ run[w].job = j
BY JobsStep DEF Open

\* A run of job j goes on, commits, or is new.
LEMMA RunOfJobStep ==
  ASSUME IndInv, [Next]_vars, NEW j \in JobId, NEW w \in Worker, run'[w].job = j
  PROVE  \/ run'[w] = run[w]
         \/ run'[w].pc = "read" /\ run'[w].key = keys
         \/ /\ ReadAnswers(w) /\ run[w].job = j /\ run'[w].pc = "grade" /\ run'[w].key = run[w].key
            /\ run'[w].todo = ToGrade(w)
         \/ /\ run[w].pc = "grade" /\ run'[w].pc = "grade" /\ run[w].job = j
            /\ run'[w].key = run[w].key
            /\ run'[w].todo \cup run'[w].done = run[w].todo \cup run[w].done
         \/ CommitGrades(w) /\ run[w].job = j
<1>0. run[w] \in RunType /\ TypeOK
  BY DEF IndInv, TypeOK
<1>1. CASE run'[w] = run[w]
  BY <1>1
<1>2. CASE run'[w] = IdleRun
  BY <1>2, NoneAssumption DEF IdleRun
<1>3. CASE \E k \in JobId : run'[w] = [IdleRun EXCEPT !.pc = "read", !.job = k, !.key = keys]
  BY <1>3 DEF IdleRun
<1>4. CASE /\ ReadAnswers(w)
           /\ run'[w] = [run[w] EXCEPT !.pc = "grade", !.rows = RowsToGrade(RunAttempt(w)),
                                       !.todo = ToGrade(w)]
  BY <1>0, <1>4 DEF RunType
<1>5. CASE \E q \in Question :
              /\ GradeAnswer(w, q)
              /\ run'[w] = [run[w] EXCEPT
                   !.rows[q] = Grade(q, run[w].key, run[w].rows[q].response),
                   !.todo = run[w].todo \ {q}, !.done = run[w].done \cup {q}]
  <2> PICK q \in Question :
              /\ GradeAnswer(w, q)
              /\ run'[w] = [run[w] EXCEPT
                   !.rows[q] = Grade(q, run[w].key, run[w].rows[q].response),
                   !.todo = run[w].todo \ {q}, !.done = run[w].done \cup {q}]
    BY <1>5
  <2>1. run[w].pc = "grade" /\ q \in run[w].todo
    BY DEF GradeAnswer
  <2>2. /\ run'[w].pc = run[w].pc /\ run'[w].job = run[w].job /\ run'[w].key = run[w].key
        /\ run'[w].todo = run[w].todo \ {q} /\ run'[w].done = run[w].done \cup {q}
    BY <1>0 DEF RunType
  <2>3. QED
    BY <2>1, <2>2
<1>6. CASE CommitGrades(w) /\ run'[w] = [IdleRun EXCEPT !.pc = "done", !.job = run[w].job]
  BY <1>6 DEF IdleRun
<1>7. QED
  BY <1>0, <1>1, <1>2, <1>3, <1>4, <1>5, <1>6, RunStepOf

\* The job that will grade q is still there after a step, unless the step deletes the need:
\* its run passes over q because of what it reads, or commits the grade; or the attempt is
\* gone.
LEMMA WillGradeStep ==
  ASSUME IndInv, [Next]_vars, NEW j \in JobId, NEW q \in Question, Open(j), WillGrade(j, q)
  PROVE  \/ Open(j)' /\ WillGrade(j, q)'
         \/ attempts[AttemptOf(j)] = None /\ UNCHANGED <<attempts, answers, run>>
         \/ \E w \in Worker : run[w].job = j /\ ReadAnswers(w) /\ q \notin ToGrade(w)
         \/ \E w \in Worker : run[w].job = j /\ CommitGrades(w) /\ q \in run[w].done
<1>1. ASSUME NEW w \in Worker, CompleteJob(w), run[w].job = j PROVE FALSE
  BY <1>1 DEF CompleteJob, WillGrade
<1>2. ASSUME NEW w \in Worker, SkipDeleted(w, j)
      PROVE  attempts[AttemptOf(j)] = None /\ UNCHANGED <<attempts, answers, run>>
  BY <1>2 DEF SkipDeleted, tables
<1>3. ASSUME NEW w \in Worker, run'[w].job = j,
             ~(run'[w].pc = "read" \/ (run'[w].pc = "grade" /\ q \in run'[w].todo \cup run'[w].done))
      PROVE  \/ run[w].job = j /\ ReadAnswers(w) /\ q \notin ToGrade(w)
             \/ run[w].job = j /\ CommitGrades(w) /\ q \in run[w].done
  <2>1. CASE run'[w] = run[w]
    BY <1>3, <2>1 DEF WillGrade
  <2>2. CASE CommitGrades(w) /\ run[w].job = j
    BY <2>2 DEF CommitGrades, WillGrade
  <2>3. CASE /\ ReadAnswers(w) /\ run[w].job = j /\ run'[w].pc = "grade"
             /\ run'[w].todo = ToGrade(w)
    BY <1>3, <2>3
  <2>4. CASE /\ run[w].pc = "grade" /\ run'[w].pc = "grade" /\ run[w].job = j
             /\ run'[w].todo \cup run'[w].done = run[w].todo \cup run[w].done
    BY <1>3, <2>4 DEF WillGrade
  <2>5. QED
    BY <1>3, <2>1, <2>2, <2>3, <2>4, RunOfJobStep
<1>4. QED
  BY <1>1, <1>2, <1>3, OpenStep DEF WillGrade

LEMMA DueStep ==
  ASSUME IndInv, [Next]_vars, NEW a \in Attempt, NEW q \in Question, a \notin stranded', Due(a, q)
  PROVE  \/ Due(a, q)'
         \/ attempts[a] = None /\ UNCHANGED <<attempts, answers, run>>
         \/ \E w \in Worker : run[w].pc # "idle" /\ RunAttempt(w) = a /\ ReadAnswers(w) /\ q \notin ToGrade(w)
         \/ \E w \in Worker : run[w].pc # "idle" /\ RunAttempt(w) = a /\ CommitGrades(w) /\ q \in run[w].done
<1>1. CASE Queueing(a)
  <2>1. PICK c \in Caller : \/ call[c].pc = "enqueue" /\ call[c].attempt = a
                            \/ call[c].pc = "bulk" /\ a \in call[c].ids
    BY <1>1 DEF Queueing
  <2>2. CASE call'[c] = call[c]
    BY <2>1, <2>2 DEF Due, Queueing
  <2>3. CASE call'[c] # call[c] /\ ~RegradeDies(c)
    <3>1. PICK j \in JobId : AttemptOf(j) = a /\ Open(j)' /\ \A w \in Worker : run'[w].job # j
      BY <2>1, <2>3, QueueingStep
    <3>2. AttemptOf(j)' = a /\ WillGrade(j, q)'
      BY <3>1 DEF AttemptOf, WillGrade
    <3>3. QED
      BY <3>1, <3>2 DEF Due
  <2>4. CASE RegradeDies(c)
    BY <2>1, <2>4, DeathStrands
  <2>5. QED
    BY <2>2, <2>3, <2>4
<1>2. CASE \E j \in JobId : AttemptOf(j) = a /\ Open(j) /\ WillGrade(j, q)
  <2> PICK j \in JobId : AttemptOf(j) = a /\ Open(j) /\ WillGrade(j, q)
    BY <1>2
  <2>1. CASE Open(j)' /\ WillGrade(j, q)'
    BY <2>1 DEF Due, AttemptOf
  <2>2. CASE \E w \in Worker : /\ run[w].job = j
                               /\ \/ ReadAnswers(w) /\ q \notin ToGrade(w)
                                  \/ CommitGrades(w) /\ q \in run[w].done
    BY <2>2 DEF RunAttempt, ReadAnswers, CommitGrades
  <2>3. QED
    BY <2>1, <2>2, WillGradeStep
<1>3. QED
  BY <1>1, <1>2 DEF Due

\* What uploads and resets leave to grade, they queue.
LEMMA UploadQueues ==
  ASSUME IndInv, [Next]_vars, NEW a \in Attempt, NEW c \in Caller, StoreUpload(c), call[c].attempt = a,
         Finished(a)'
  PROVE  Queueing(a)'
<1>1. attempts' = [attempts EXCEPT ![a] =
                     [final |-> call[c].upload.final, presented |-> call[c].upload.presented]]
  BY DEF StoreUpload
<1>2. attempts'[a] = [final |-> call[c].upload.final, presented |-> call[c].upload.presented]
  BY <1>1 DEF IndInv, TypeOK
<1>3. call[c].upload.final
  BY <1>2 DEF Finished
<1>4. call' = [call EXCEPT ![c] = [IdleCall EXCEPT !.pc = "enqueue", !.attempt = a,
                                                   !.number = call[c].number]]
  BY <1>3 DEF StoreUpload
<1>5. call'[c] = [IdleCall EXCEPT !.pc = "enqueue", !.attempt = a, !.number = call[c].number]
  BY <1>4 DEF IndInv, TypeOK
<1>6. call'[c].pc = "enqueue" /\ call'[c].attempt = a
  BY <1>5 DEF IdleCall
<1>7. QED
  BY <1>6 DEF Queueing

LEMMA ResetQueues ==
  ASSUME IndInv, [Next]_vars, NEW a \in Attempt, NEW c \in Caller, ResetAutoGrades(c), a \in call[c].ids
  PROVE  Queueing(a)'
<1>1. call[c] \in CallType /\ call \in [Caller -> CallType]
  BY DEF IndInv, TypeOK
<1>2. call'[c] = [call[c] EXCEPT !.pc = "bulk"]
  BY <1>1 DEF ResetAutoGrades
<1>3. call'[c].pc = "bulk" /\ call'[c].ids = call[c].ids
  BY <1>1, <1>2, NextCall
<1>4. QED
  BY <1>3 DEF Queueing

\* What a run commits is graded, with the keys it read.
LEMMA CommittedRow ==
  ASSUME IndInv, NEW w \in Worker, CommitGrades(w), NEW q \in run[w].done
  PROVE  LET row == run[w].rows[q]
         IN row # None /\ row.status \notin {"pending", "manual"} /\ row.score.key = run[w].key
<1> DEFINE row == run[w].rows[q]
<1>1. q \in Question /\ row \in AnswerRow \cup {None} /\ run[w].pc = "grade"
  BY DEF CommitGrades, IndInv, TypeOK, RunType
<1>2. row # None /\ run[w].key \in Edition /\ row = Grade(q, run[w].key, row.response)
  BY <1>1 DEF IndInv, RunOK
<1>3. row.response \in Response \cup {None}
  BY <1>1, <1>2 DEF AnswerRow
<1>4. LET graded == Grade(q, run[w].key, row.response)
      IN graded.status \notin {"pending", "manual"} /\ graded.score.key = run[w].key
  BY <1>1, <1>2, <1>3, GradeTyped
<1>5. QED
  BY <1>2, <1>4

LEMMA CommittedAnswer ==
  ASSUME IndInv, [Next]_vars, NEW w \in Worker, CommitGrades(w), NEW q \in run[w].done
  PROVE  answers'[RunAttempt(w)][q] = run[w].rows[q]
<1>1. q \in Question /\ RunAttempt(w) \in Attempt
  BY JobParts DEF CommitGrades, IndInv, TypeOK, RunType, RunOK, RunAttempt
<1>2. answers' = [answers EXCEPT ![RunAttempt(w)] = [p \in Question |->
         IF p \in run[w].done THEN run[w].rows[p] ELSE answers[RunAttempt(w)][p]]]
  BY DEF CommitGrades
<1>3. answers'[RunAttempt(w)] = [p \in Question |->
         IF p \in run[w].done THEN run[w].rows[p] ELSE answers[RunAttempt(w)][p]]
  BY <1>1, <1>2 DEF IndInv, TypeOK
<1>4. QED
  BY <1>1, <1>3

\* How an answer changes, by its status.
LEMMA AnswerChanges ==
  ASSUME IndInv, [Next]_vars, NEW a \in Attempt, NEW q \in Question, answers'[a][q] # answers[a][q]
  PROVE  \/ /\ answers'[a][q] # None /\ answers'[a][q].status = "pending"
            /\ \E c \in Caller : StoreUpload(c) /\ call[c].attempt = a
         \/ DeleteAttempt(a) /\ answers'[a][q] = None
         \/ \E w \in Worker : /\ CommitGrades(w) /\ RunAttempt(w) = a /\ q \in run[w].done
                              /\ answers'[a][q] = run[w].rows[q]
         \/ /\ answers'[a][q] # None /\ answers'[a][q].status = "manual"
            /\ \E c \in Caller : SetMark(c) /\ call[c].attempt = a
         \/ /\ answers'[a][q] # None /\ answers'[a][q].status = "pending"
            /\ \E c \in Caller : ResetAutoGrades(c) /\ a \in call[c].ids
<1> DEFINE old == answers[a][q]
<1>0. old \in AnswerRow \cup {None}
  BY DEF IndInv, TypeOK
<1>1. CASE \E c \in Caller : /\ StoreUpload(c) /\ call[c].attempt = a /\ q \in Answered(c)
                             /\ answers'[a][q] = Replace(old, call[c].upload.answers[q])
  <2> PICK c \in Caller : /\ StoreUpload(c) /\ call[c].attempt = a /\ q \in Answered(c)
                          /\ answers'[a][q] = Replace(old, call[c].upload.answers[q])
    BY <1>1
  <2> DEFINE response == call[c].upload.answers[q]
  <2>1. response \in Response \cup {None}
    BY ConstantsAssumption DEF StoreUpload, IndInv, CallOK
  <2>2. CASE old = None
    <3>1. answers'[a][q] = [response |-> response, status |-> "pending", score |-> None]
      BY <2>2 DEF Replace
    <3>2. LET new == [response |-> response, status |-> "pending", score |-> None]
          IN new # None /\ new.status = "pending"
      BY <2>1, NewRow
    <3>3. QED
      BY <3>1, <3>2
  <2>3. CASE old # None /\ old.response # response
    <3>1. answers'[a][q] = [old EXCEPT !.response = response, !.status = "pending"]
      BY <2>3 DEF Replace
    <3>2. LET new == [old EXCEPT !.response = response, !.status = "pending"]
          IN new # None /\ new.status = "pending"
      <4>1. old \in AnswerRow
        BY <1>0, <2>3
      <4>2. QED
        BY <2>1, <4>1, RowReplaced
    <3>3. QED
      BY <3>1, <3>2
  <2>4. CASE old # None /\ old.response = response
    BY <2>4 DEF Replace
  <2>5. QED
    BY <2>2, <2>3, <2>4
<1>2. CASE \E c \in Caller, m \in Mark :
             /\ SetMark(c) /\ call[c].attempt = a /\ call[c].question = q
             /\ answers'[a][q] = [old EXCEPT !.status = "manual", !.score = m]
  <2> PICK c \in Caller, m \in Mark :
             /\ SetMark(c) /\ call[c].attempt = a /\ call[c].question = q
             /\ answers'[a][q] = [old EXCEPT !.status = "manual", !.score = m]
    BY <1>2
  <2>1. old \in AnswerRow
    BY <1>0 DEF SetMark, IndInv, CallOK
  <2>2. LET new == [old EXCEPT !.status = "manual", !.score = m]
        IN new # None /\ new.status = "manual"
    BY <2>1, RowMarked
  <2>3. QED
    BY <2>2
<1>3. CASE \E c \in Caller :
             /\ ResetAutoGrades(c) /\ a \in call[c].ids /\ old # None /\ old.status # "manual"
             /\ answers'[a][q] = [old EXCEPT !.status = "pending"]
  <2>1. old \in AnswerRow
    BY <1>0, <1>3
  <2>2. LET new == [old EXCEPT !.status = "pending"]
        IN new # None /\ new.status = "pending"
    BY <2>1, RowReset
  <2>3. QED
    BY <1>3, <2>2
<1>4. CASE DeleteAttempt(a) /\ answers'[a][q] = None
  BY <1>4
<1>5. CASE \E w \in Worker : /\ CommitGrades(w) /\ RunAttempt(w) = a /\ q \in run[w].done
                             /\ answers'[a][q] = run[w].rows[q]
  BY <1>5
<1>6. QED
  BY <1>1, <1>2, <1>3, <1>4, <1>5, AnswersStep

LEMMA UngradedStep ==
  ASSUME IndInv, UngradedIsDue, [Next]_vars
  PROVE  UngradedIsDue'
<1> SUFFICES ASSUME NEW a \in Attempt, a \notin stranded', NEW q \in Question,
                    Finished(a)', Ungraded(a, q)'
             PROVE  Due(a, q)'
  BY DEF UngradedIsDue
<1>0. CASE a \in stranded
  <2>1. ~DeleteAttempt(a)
    BY DEF DeleteAttempt, IndInv, TypeOK, Finished
  <2>2. QED
    BY <1>0, <2>1, Unstranded, QueuedAnew
<1>1. Queueing(a)' => Due(a, q)'
  BY DEF Due
<1>2. CASE \E c \in Caller : StoreUpload(c) /\ call[c].attempt = a
  BY <1>1, <1>2, UploadQueues
<1>3. CASE \E c \in Caller : ResetAutoGrades(c) /\ a \in call[c].ids
  BY <1>1, <1>3, ResetQueues
<1>4. CASE a \notin stranded /\ attempts'[a] = attempts[a] /\ answers'[a][q] = answers[a][q]
  <2>1. Finished(a) /\ Ungraded(a, q)
    BY <1>4 DEF Finished, Ungraded
  <2>2. Due(a, q)
    BY <1>4, <2>1 DEF UngradedIsDue
  <2>3. ASSUME NEW w \in Worker, RunAttempt(w) = a, ReadAnswers(w) PROVE q \in ToGrade(w)
    <3>1. RowsToGrade(a)[q] = IF answers[a][q] = None /\ q \in attempts[a].presented
                              THEN [response |-> None, status |-> "pending", score |-> None]
                              ELSE answers[a][q]
      BY DEF RowsToGrade
    <3>2. RowsToGrade(a)[q] # None /\ RowsToGrade(a)[q].status = "pending"
      <4>1. LET row == [response |-> None, status |-> "pending", score |-> None]
            IN row # None /\ row.status = "pending"
        BY NewRow
      <4>2. QED
        BY <2>1, <3>1, <4>1 DEF Ungraded
    <3>3. QED
      BY <2>3, <3>2 DEF ToGrade
  <2>4. ASSUME NEW w \in Worker, RunAttempt(w) = a, CommitGrades(w), q \in run[w].done PROVE FALSE
    <3>1. answers'[a][q] = run[w].rows[q]
      BY <2>4, CommittedAnswer
    <3>2. run[w].rows[q] # None /\ run[w].rows[q].status # "pending"
      BY <2>4, CommittedRow
    <3>3. QED
      BY <3>1, <3>2 DEF Ungraded
  <2>5. QED
    BY <2>1, <2>2, <2>3, <2>4, DueStep DEF Finished
<1>5. CASE attempts'[a] # attempts[a]
  <2>1. ~DeleteAttempt(a) \/ attempts'[a] # None
    BY DEF Finished
  <2>2. QED
    BY <1>2, <1>5, AttemptsStep DEF Finished
<1>6. CASE answers'[a][q] # answers[a][q]
  <2>1. ASSUME NEW w \in Worker, CommitGrades(w), RunAttempt(w) = a, q \in run[w].done,
               answers'[a][q] = run[w].rows[q]
        PROVE  FALSE
    <3>1. run[w].rows[q] # None /\ run[w].rows[q].status # "pending"
      BY <2>1, CommittedRow
    <3>2. QED
      BY <2>1, <3>1 DEF Ungraded
  <2>2. ~(answers'[a][q] # None /\ answers'[a][q].status = "manual")
    BY DEF Ungraded
  <2>3. ASSUME DeleteAttempt(a) PROVE FALSE
    <3>1. attempts'[a] = None
      BY <2>3 DEF DeleteAttempt, IndInv, TypeOK
    <3>2. QED
      BY <3>1 DEF Finished
  <2>4. QED
    BY <1>2, <1>3, <1>6, <2>1, <2>2, <2>3, AnswerChanges
<1>7. QED
  BY <1>0, <1>4, <1>5, <1>6

LEMMA CommitEnds ==
  ASSUME IndInv, NEW w \in Worker, CommitGrades(w)
  PROVE  /\ run[w].pc = "grade" /\ run'[w].pc = "done"
         /\ \A v \in Worker : v # w => run'[v] = run[v]
<1>1. run' = [run EXCEPT ![w] = [IdleRun EXCEPT !.pc = "done", !.job = run[w].job]]
  BY DEF CommitGrades
<1>2. run'[w] = [IdleRun EXCEPT !.pc = "done", !.job = run[w].job]
  BY <1>1 DEF IndInv, TypeOK
<1>3. QED
  BY <1>1, <1>2 DEF CommitGrades, IndInv, TypeOK, IdleRun

\* Only a run with older keys makes an answer outdated, as long as the keys stay.
LEMMA OutdatedBefore ==
  ASSUME IndInv, [Next]_vars, keys' = keys, NEW a \in Attempt, NEW q \in Question,
         Outdated(a, q)' \/ RunOutdated(a)'
  PROVE  Outdated(a, q) \/ RunOutdated(a)
<1>1. ASSUME Outdated(a, q)' PROVE Outdated(a, q) \/ RunOutdated(a)
  <2>1. CASE answers'[a][q] = answers[a][q]
    BY <1>1, <2>1 DEF Outdated
  <2>2. CASE \E w \in Worker : /\ CommitGrades(w) /\ RunAttempt(w) = a /\ q \in run[w].done
                               /\ answers'[a][q] = run[w].rows[q]
    <3> PICK w \in Worker : /\ CommitGrades(w) /\ RunAttempt(w) = a /\ q \in run[w].done
                            /\ answers'[a][q] = run[w].rows[q]
      BY <2>2
    <3>1. run[w].rows[q].score.key = run[w].key /\ run[w].pc = "grade"
      BY CommittedRow DEF CommitGrades
    <3>2. run[w].key # keys
      BY <1>1, <3>1 DEF Outdated
    <3>3. QED
      BY <3>1, <3>2 DEF RunOutdated
  <2>3. /\ answers'[a][q] # None
        /\ answers'[a][q].status # "pending" /\ answers'[a][q].status # "manual"
    BY <1>1 DEF Outdated
  <2>4. QED
    BY <2>1, <2>2, <2>3, AnswerChanges
<1>2. ASSUME RunOutdated(a)' PROVE RunOutdated(a)
  <2>1. PICK w \in Worker : run'[w].pc \in {"read", "grade"} /\ AttemptOf(run'[w].job) = a
                              /\ run'[w].key # keys
    BY <1>2 DEF RunOutdated, RunAttempt, AttemptOf
  <2>2. PICK j \in JobId : j = run'[w].job
    BY <2>1, RunOKStep DEF RunOK
  <2>3. CASE run'[w] = run[w]
    BY <2>1, <2>3 DEF RunOutdated, RunAttempt
  <2>4. CASE ReadAnswers(w) /\ run[w].job = j /\ run'[w].key = run[w].key
    BY <2>1, <2>2, <2>4 DEF RunOutdated, RunAttempt, ReadAnswers
  <2>5. CASE run[w].pc = "grade" /\ run[w].job = j /\ run'[w].key = run[w].key
    BY <2>1, <2>2, <2>5 DEF RunOutdated, RunAttempt
  <2>6. CASE CommitGrades(w)
    BY <2>1, <2>6, CommitEnds
  <2>7. QED
    BY <2>1, <2>2, <2>3, <2>4, <2>5, <2>6, RunOfJobStep
<1>3. QED
  BY <1>1, <1>2

LEMMA DueAgainStep ==
  ASSUME IndInv, [Next]_vars, keys' = keys, NEW a \in Attempt, NEW q \in Question,
         a \notin missed', a \notin stranded', DueAgain(a, q), Outdated(a, q)' \/ RunOutdated(a)'
  PROVE  DueAgain(a, q)'
<1>0. \A c \in Caller : call[c] \in CallType
  BY DEF IndInv, TypeOK
<1>1. CASE \E c \in Caller : call[c].pc = "select" /\ call[c].key # None
  <2> PICK c \in Caller : call[c].pc = "select" /\ call[c].key # None
    BY <1>1
  <2>1. CASE call'[c] = call[c]
    BY <2>1 DEF DueAgain
  <2>2. CASE RegradeDies(c)
    <3>1. attempts[a] = None \/ ~GradedOrGrading(a)
      BY <2>2 DEF RegradeDies, WasToGrade
    <3>2. UNCHANGED <<answers, run, keys>>
      BY <2>2 DEF RegradeDies, tables
    <3>3. ~GradedOrGrading(a)
      BY <3>1 DEF GradedOrGrading, RunAttempt, IndInv, RowsOK, RunOK
    <3>4. QED
      BY <3>2, <3>3 DEF GradedOrGrading, Outdated, RunOutdated, RunAttempt, AttemptOf
  <2>3. CASE call'[c] # call[c] /\ ~RegradeDies(c)
    <3>1. /\ SelectFinished(c)
          /\ call'[c] = [call[c] EXCEPT !.pc = "reset", !.ids = {b \in Attempt : Finished(b)}]
      <4>1. call[c] # IdleCall
        BY IdleCallTyped
      <4>2. QED
        BY <2>3, <4>1, Waiting, CallStepOf
        DEF IndInv, AbortCall, EnqueueGrading, EnqueueBulk, LockForUpload, StoreUpload, LockAnswer,
            LockItsAttempt, StartRegrade, WriteKeys, ResetAutoGrades
    <3>2. call'[c].pc = "reset" /\ call'[c].ids = {b \in Attempt : Finished(b)}
      <4>1. {b \in Attempt : Finished(b)} \in SUBSET Attempt
        OBVIOUS
      <4>2. QED
        BY <1>0, <3>1, <4>1 DEF CallType
    <3>3. CASE Finished(a)
      BY <3>2, <3>3 DEF DueAgain
    <3>4. CASE ~Finished(a)
      <4>1. ~GradedOrGrading(a) /\ UNCHANGED <<answers, run>>
        BY <3>1, <3>4 DEF SelectFinished, tables
      <4>2. QED
        BY <4>1 DEF GradedOrGrading, Outdated, RunOutdated, RunAttempt, AttemptOf
    <3>5. QED
      BY <3>3, <3>4
  <2>4. QED
    BY <2>1, <2>2, <2>3
<1>2. CASE \E c \in Caller : call[c].pc = "reset" /\ a \in call[c].ids /\ ~RegradeDies(c)
  <2> PICK c \in Caller : call[c].pc = "reset" /\ a \in call[c].ids /\ ~RegradeDies(c)
    BY <1>2
  <2>1. CASE call'[c] = call[c]
    BY <2>1 DEF DueAgain
  <2>2. CASE call'[c] # call[c]
    <3>1. call'[c] = [call[c] EXCEPT !.pc = "bulk"]
      <4>1. call[c] # IdleCall
        BY IdleCallTyped
      <4>2. QED
        BY <2>2, <4>1, Waiting, CallStepOf
        DEF IndInv, AbortCall, EnqueueGrading, EnqueueBulk, LockForUpload, StoreUpload, LockAnswer,
            LockItsAttempt, StartRegrade, WriteKeys, SelectFinished
    <3>2. call'[c].pc = "bulk" /\ call'[c].ids = call[c].ids
      BY <1>0, <3>1, NextCall
    <3>3. QED
      BY <3>2 DEF DueAgain
  <2>3. QED
    BY <2>1, <2>2
<1>3. CASE \E c \in Caller : call[c].pc = "bulk" /\ a \in call[c].ids /\ ~RegradeDies(c)
  <2> PICK c \in Caller : call[c].pc = "bulk" /\ a \in call[c].ids /\ ~RegradeDies(c)
    BY <1>3
  <2>1. CASE call'[c] = call[c]
    BY <2>1 DEF DueAgain
  <2>2. CASE call'[c] # call[c]
    <3>1. PICK j \in JobId : AttemptOf(j) = a /\ Forced(j) /\ Open(j)' /\ \A w \in Worker : run'[w].job # j
      BY <2>2, QueueingStep
    <3>2. AttemptOf(j)' = a /\ Forced(j)' /\ WillGrade(j, q)'
      BY <3>1 DEF AttemptOf, Forced, WillGrade
    <3>3. QED
      BY <3>1, <3>2 DEF DueAgain
  <2>3. QED
    BY <2>1, <2>2
<1>4. CASE \E j \in JobId : /\ Forced(j) /\ AttemptOf(j) = a /\ Open(j) /\ WillGrade(j, q)
                           /\ \A w \in Worker : run[w].job = j => run[w].key = keys
  <2> PICK j \in JobId : /\ Forced(j) /\ AttemptOf(j) = a /\ Open(j) /\ WillGrade(j, q)
                         /\ \A w \in Worker : run[w].job = j => run[w].key = keys
    BY <1>4
  <2>1. CASE Open(j)' /\ WillGrade(j, q)'
    <3>1. ASSUME NEW w \in Worker, run'[w].job = j PROVE run'[w].key = keys
      <4>1. ~CommitGrades(w)
        BY <2>1, <3>1, CommitEnds DEF WillGrade
      <4>2. QED
        BY <3>1, <4>1, RunOfJobStep
    <3>2. QED
      BY <2>1, <3>1 DEF DueAgain, AttemptOf, Forced
  <2>2. CASE attempts[a] = None /\ UNCHANGED <<attempts, answers, run>>
    <3>1. ~Outdated(a, q)'
      BY <2>2 DEF Outdated, IndInv, RowsOK
    <3>2. ~RunOutdated(a)'
      BY <2>2 DEF RunOutdated, RunAttempt, AttemptOf, IndInv, RunOK
    <3>3. QED
      BY <3>1, <3>2
  \* The run of j is the only one of the attempt, and it has the present keys.
  <2>3. ASSUME NEW w \in Worker, run[w].job = j, run[w].pc \in {"read", "grade"},
               \A v \in Worker : v # w => run'[v] = run[v],
               run'[w].key = keys \/ run'[w].pc = "done"
        PROVE  ~RunOutdated(a)'
    <3>1. SUFFICES ASSUME NEW v \in Worker, run'[v].pc \in {"read", "grade"}, AttemptOf(run'[v].job) = a,
                          run'[v].key # keys
                   PROVE  FALSE
      BY DEF RunOutdated, RunAttempt, AttemptOf
    <3>2. v # w
      BY <2>3, <3>1
    <3>3. v \in AttemptHolders(a) /\ w \in AttemptHolders(a)
      BY <2>3, <3>1, <3>2 DEF AttemptHolders, RunAttempt
    <3>4. QED
      BY <3>2, <3>3 DEF IndInv, LocksAreExclusive
  <2>4. CASE \E w \in Worker : run[w].job = j /\ ReadAnswers(w) /\ q \notin ToGrade(w)
    <3> PICK w \in Worker : run[w].job = j /\ ReadAnswers(w) /\ q \notin ToGrade(w)
      BY <2>4
    <3>1. run[w].pc = "read" /\ run[w].key = keys /\ answers' = answers
      BY DEF ReadAnswers, tables
    <3>2. run' = [run EXCEPT ![w].pc = "grade", ![w].rows = RowsToGrade(RunAttempt(w)),
                             ![w].todo = ToGrade(w)]
      BY DEF ReadAnswers, ToGrade
    <3>3. run'[w].key = run[w].key /\ \A v \in Worker : v # w => run'[v] = run[v]
      BY <3>2 DEF IndInv, TypeOK, RunType
    <3>4. ~RunOutdated(a)'
      BY <2>3, <3>1, <3>3
    <3>5. Outdated(a, q)
      BY <3>1, <3>4 DEF Outdated
    <3>6. RunAttempt(w) = a /\ RowsToGrade(a)[q] = answers[a][q]
      BY <3>5 DEF RunAttempt, RowsToGrade, Outdated
    <3>7. QED
      BY <3>5, <3>6 DEF ToGrade, Outdated
  <2>5. CASE \E w \in Worker : run[w].job = j /\ CommitGrades(w) /\ q \in run[w].done
    <3> PICK w \in Worker : run[w].job = j /\ CommitGrades(w) /\ q \in run[w].done
      BY <2>5
    <3>1. ~RunOutdated(a)'
      BY <2>3, CommitEnds
    <3>2. RunAttempt(w) = a /\ answers'[a][q] = run[w].rows[q]
      BY CommittedAnswer DEF RunAttempt
    <3>3. answers'[a][q].score.key = keys
      BY <3>2, CommittedRow
    <3>4. QED
      BY <3>1, <3>3 DEF Outdated
  <2>6. QED
    BY <2>1, <2>2, <2>4, <2>5, WillGradeStep
<1>5. CASE \E c \in Caller : a \in call[c].ids /\ RegradeDies(c)
  <2>1. attempts[a] = None /\ UNCHANGED <<attempts, answers, run>>
    BY <1>5, DeathStrands
  <2>2. ~Outdated(a, q)' /\ ~RunOutdated(a)'
    BY <2>1 DEF Outdated, RunOutdated, RunAttempt, AttemptOf, IndInv, RowsOK, RunOK
  <2>3. QED
    BY <2>2
<1>6. QED
  BY <1>1, <1>2, <1>3, <1>4, <1>5 DEF DueAgain

LEMMA DeletedIsCurrent ==
  ASSUME IndInv, [Next]_vars, NEW a \in Attempt, NEW q \in Question, DeleteAttempt(a)
  PROVE  ~Outdated(a, q)' /\ ~RunOutdated(a)'
<1>1. AttemptHolders(a) = {} /\ run' = run /\ answers' = [answers EXCEPT ![a] = NoAnswers]
  BY DEF DeleteAttempt
<1>2. answers'[a] = NoAnswers
  BY <1>1 DEF IndInv, TypeOK
<1>3. answers'[a][q] = None
  BY <1>2 DEF NoAnswers
<1>4. QED
  BY <1>1, <1>3 DEF Outdated, RunOutdated, AttemptHolders, RunAttempt, AttemptOf

\* An attempt that a request has passed over is taken up again by the next one.
LEMMA MissedStep ==
  ASSUME IndInv, [Next]_vars, NEW a \in Attempt, NEW q \in Question, a \in missed, a \notin missed',
         Outdated(a, q)' \/ RunOutdated(a)'
  PROVE  DueAgain(a, q)'
<1>1. \/ DeleteAttempt(a)
      \/ \E c \in Caller : SelectFinished(c) /\ Finished(a)
  <2>1. missed' = missed \/ (\E b \in Attempt : DeleteAttempt(b)) \/ (\E c \in Caller : SelectFinished(c))
    BY DEF Next, vars, tables, counters, RegradeDies, LockForUpload, StoreUpload, EnqueueGrading,
        RegradeOne, SkipDeleted, BeginGrade, GradeAnswer, ReadAnswers, CommitGrades, CompleteJob,
        AbortRun, WorkerCrash, RecoverStalled, LockAnswer, LockItsAttempt, SetMark, AbortCall,
        EditBank, StartRegrade, WriteKeys, ResetAutoGrades, EnqueueBulk
  <2>2. \A b \in Attempt : DeleteAttempt(b) => b = a
    BY DEF DeleteAttempt
  <2>3. \A c \in Caller : SelectFinished(c) => Finished(a)
    BY DEF SelectFinished
  <2>4. QED
    BY <2>1, <2>2, <2>3
<1>2. CASE DeleteAttempt(a)
  BY <1>2, DeletedIsCurrent
<1>3. CASE \E c \in Caller : SelectFinished(c) /\ Finished(a)
  <2> PICK c \in Caller : SelectFinished(c) /\ Finished(a)
    BY <1>3
  <2>1. call' = [call EXCEPT ![c].pc = "reset", ![c].ids = {b \in Attempt : Finished(b)}]
    BY DEF SelectFinished
  <2>2. call'[c] = [call[c] EXCEPT !.pc = "reset", !.ids = {b \in Attempt : Finished(b)}]
    BY <2>1 DEF IndInv, TypeOK
  <2>3. {b \in Attempt : Finished(b)} \in SUBSET Attempt /\ call[c] \in CallType
    BY DEF IndInv, TypeOK
  <2>4. call'[c].pc = "reset" /\ call'[c].ids = {b \in Attempt : Finished(b)}
    BY <2>2, <2>3 DEF CallType
  <2>5. QED
    BY <2>4 DEF DueAgain
<1>4. QED
  BY <1>1, <1>2, <1>3

LEMMA OutdatedStep ==
  ASSUME IndInv, OutdatedIsDue, [Next]_vars
  PROVE  OutdatedIsDue'
<1> SUFFICES ASSUME NEW a \in Attempt, a \notin missed', a \notin stranded', NEW q \in Question,
                    Outdated(a, q)' \/ RunOutdated(a)'
             PROVE  DueAgain(a, q)'
  BY DEF OutdatedIsDue
<1>0. CASE a \in stranded
  <2>1. ~DeleteAttempt(a)
    BY DeletedIsCurrent
  <2>2. QED
    BY <1>0, <2>1, Unstranded, QueuedAnew
<1>1. CASE a \in missed
  BY <1>1, MissedStep
<1>2. CASE a \notin missed /\ a \notin stranded /\ keys' = keys
  <2>1. Outdated(a, q) \/ RunOutdated(a)
    BY <1>2, OutdatedBefore
  <2>2. DueAgain(a, q)
    BY <1>2, <2>1 DEF OutdatedIsDue
  <2>3. QED
    BY <1>2, <2>2, DueAgainStep
<1>3. CASE \E c \in Caller : WriteKeys(c)
  <2> PICK c \in Caller : WriteKeys(c)
    BY <1>3
  <2>1. call'[c] = [call[c] EXCEPT !.pc = "select"] /\ call[c] \in CallType
    BY DEF WriteKeys, IndInv, TypeOK
  <2>2. call[c].key # None
    BY NoneAssumption DEF WriteKeys, IndInv, CallOK
  <2>3. call'[c].pc = "select" /\ call'[c].key = call[c].key
    BY <2>1 DEF CallType
  <2>4. QED
    BY <2>2, <2>3 DEF DueAgain
<1>4. QED
  BY <1>0, <1>1, <1>2, <1>3, KeysStep

LEMMA TotalsAreKept ==
  ASSUME IndInv, [Next]_vars, DOMAIN totals = Attempt, NEW a \in Attempt
  PROVE  /\ DOMAIN totals' = Attempt
         /\ \/ attempts'[a] = attempts[a] /\ answers'[a] = answers[a] /\ totals'[a] = totals[a]
            \/ \E c \in Caller : StoreUpload(c) /\ call[c].attempt = a
            \/ \E c \in Caller : ResetAutoGrades(c) /\ a \in call[c].ids
            \/ attempts'[a] = None
            \/ totals'[a] = Totals(answers'[a])
<1>0. /\ attempts \in [Attempt -> AttemptRow \cup {None}]
      /\ answers \in [Attempt -> [Question -> AnswerRow \cup {None}]]
  BY DEF IndInv, TypeOK
<1>1. CASE \E c \in Caller : StoreUpload(c)
  <2> PICK c \in Caller : StoreUpload(c)
    BY <1>1
  <2>1. /\ totals' = totals
        /\ attempts' = [attempts EXCEPT ![call[c].attempt] =
                          [final |-> call[c].upload.final, presented |-> call[c].upload.presented]]
        /\ answers' = [answers EXCEPT ![call[c].attempt] = [q \in Question |->
             IF q \in Answered(c) THEN Replace(@[q], call[c].upload.answers[q]) ELSE @[q]]]
    BY DEF StoreUpload
  <2>2. call[c].attempt # a => attempts'[a] = attempts[a] /\ answers'[a] = answers[a]
    BY <1>0, <2>1
  <2>3. QED
    BY <2>1, <2>2
<1>2. CASE \E b \in Attempt : DeleteAttempt(b)
  <2> PICK b \in Attempt : DeleteAttempt(b)
    BY <1>2
  <2>1. /\ attempts' = [attempts EXCEPT ![b] = None]
        /\ answers' = [answers EXCEPT ![b] = NoAnswers]
        /\ totals' = [totals EXCEPT ![b] = NoAnswers]
    BY DEF DeleteAttempt
  <2>2. QED
    BY <1>0, <2>1
<1>3. CASE \E w \in Worker : CommitGrades(w)
  <2> PICK w \in Worker : CommitGrades(w)
    BY <1>3
  <2> DEFINE rows == [q \in Question |-> IF q \in run[w].done THEN run[w].rows[q]
                                         ELSE answers[RunAttempt(w)][q]]
  <2>1. /\ attempts' = attempts
        /\ answers' = [answers EXCEPT ![RunAttempt(w)] = rows]
        /\ totals' = [totals EXCEPT ![RunAttempt(w)] = Totals(rows)]
    BY DEF CommitGrades
  <2> HIDE DEF rows
  <2>2. CASE RunAttempt(w) = a
    <3>1. answers'[a] = rows /\ totals'[a] = Totals(rows) /\ DOMAIN totals' = Attempt
      BY <1>0, <2>1, <2>2
    <3>2. QED
      BY <3>1
  <2>3. CASE RunAttempt(w) # a
    BY <1>0, <2>1, <2>3
  <2>4. QED
    BY <2>2, <2>3
<1>4. CASE \E c \in Caller : SetMark(c)
  <2> PICK c \in Caller : SetMark(c)
    BY <1>4
  <2>1. PICK m \in Mark : answers' = [answers EXCEPT
          ![call[c].attempt][call[c].question].status = "manual",
          ![call[c].attempt][call[c].question].score = m]
    BY DEF SetMark
  <2>2. /\ attempts' = attempts
        /\ totals' = [totals EXCEPT ![call[c].attempt] = Totals(answers'[call[c].attempt])]
    BY DEF SetMark
  <2>3. CASE call[c].attempt = a
    BY <2>2, <2>3
  <2>4. CASE call[c].attempt # a
    BY <1>0, <2>1, <2>2, <2>4
  <2>5. QED
    BY <2>3, <2>4
<1>5. CASE \E c \in Caller : ResetAutoGrades(c)
  <2> PICK c \in Caller : ResetAutoGrades(c)
    BY <1>5
  <2>1. attempts' = attempts /\ totals' = totals
    BY DEF ResetAutoGrades
  <2>2. CASE a \notin call[c].ids
    <3> DEFINE rows == {r \in call[c].ids \X Question :
                          answers[r[1]][r[2]] # None /\ answers[r[1]][r[2]].status # "manual"}
    <3>1. answers' = [b \in Attempt |-> [p \in Question |->
            IF <<b, p>> \in rows THEN [answers[b][p] EXCEPT !.status = "pending"] ELSE answers[b][p]]]
      BY DEF ResetAutoGrades
    <3>2. \A p \in Question : <<a, p>> \notin rows
      BY <2>2
    <3> HIDE DEF rows
    <3>3. answers'[a] = [p \in Question |-> answers[a][p]]
      BY <3>1, <3>2
    <3>4. answers'[a] = answers[a]
      BY <1>0, <3>3
    <3>5. QED
      BY <2>1, <3>4
  <2>3. QED
    BY <2>1, <2>2
<1>6. CASE attempts' = attempts /\ answers' = answers /\ totals' = totals
  BY <1>6
<1>7. QED
  BY <1>1, <1>2, <1>3, <1>4, <1>5, <1>6
  DEF Next, vars, tables, counters, RegradeDies, LockForUpload, EnqueueGrading, RegradeOne, SkipDeleted,
      BeginGrade, GradeAnswer, ReadAnswers, CompleteJob, AbortRun, WorkerCrash,
      RecoverStalled, LockAnswer, LockItsAttempt, AbortCall, EditBank, StartRegrade,
      WriteKeys, SelectFinished, EnqueueBulk

LEMMA RecomputedStep ==
  ASSUME IndInv, [Next]_vars, NEW a \in Attempt, a \notin stranded', Recomputed(a)
  PROVE  \/ Recomputed(a)'
         \/ attempts[a] = None /\ attempts' = attempts
         \/ \E w \in Worker : CommitGrades(w) /\ RunAttempt(w) = a
<1>1. CASE Queueing(a)
  <2>1. PICK c \in Caller : \/ call[c].pc = "enqueue" /\ call[c].attempt = a
                            \/ call[c].pc = "bulk" /\ a \in call[c].ids
    BY <1>1 DEF Queueing
  <2>2. CASE call'[c] = call[c]
    BY <2>1, <2>2 DEF Recomputed, Queueing
  <2>3. CASE call'[c] # call[c] /\ ~RegradeDies(c)
    <3>1. PICK j \in JobId : AttemptOf(j) = a /\ Open(j)' /\ \A w \in Worker : run'[w].job # j
      BY <2>1, <2>3, QueueingStep
    <3>2. QED
      BY <3>1 DEF Recomputed, AttemptOf
  <2>4. CASE RegradeDies(c)
    BY <2>1, <2>4, DeathStrands
  <2>5. QED
    BY <2>2, <2>3, <2>4
<1>2. CASE \E j \in JobId : /\ AttemptOf(j) = a /\ Open(j)
                            /\ \A w \in Worker : run[w].job = j => run[w].pc # "done"
  <2> PICK j \in JobId : /\ AttemptOf(j) = a /\ Open(j)
                         /\ \A w \in Worker : run[w].job = j => run[w].pc # "done"
    BY <1>2
  <2>1. \A w \in Worker : SkipDeleted(w, j) => attempts[a] = None /\ attempts' = attempts
    BY DEF SkipDeleted, tables
  <2>2. \A w \in Worker : ~(CompleteJob(w) /\ run[w].job = j)
    BY DEF CompleteJob
  <2>3. ASSUME NEW w \in Worker, run'[w].job = j, run'[w].pc = "done"
        PROVE  CommitGrades(w) /\ RunAttempt(w) = a
    <3>1. CommitGrades(w) /\ run[w].job = j
      BY <2>3, RunOfJobStep
    <3>2. QED
      BY <3>1 DEF RunAttempt
  <2>4. QED
    BY <2>1, <2>2, <2>3, OpenStep DEF Recomputed, AttemptOf
<1>3. QED
  BY <1>1, <1>2 DEF Recomputed

LEMMA TotalsStep ==
  ASSUME IndInv, TotalsAreDue, [Next]_vars
  PROVE  TotalsAreDue'
<1>0. DOMAIN totals = Attempt
  BY DEF TotalsAreDue
<1>1. DOMAIN totals' = Attempt
  <2>1. CASE totals' = totals
    BY <1>0, <2>1
  <2>2. CASE \E a \in Attempt : DeleteAttempt(a)
    BY <1>0, <2>2 DEF DeleteAttempt
  <2>3. CASE \E w \in Worker : CommitGrades(w)
    BY <1>0, <2>3 DEF CommitGrades
  <2>4. CASE \E c \in Caller : SetMark(c)
    BY <1>0, <2>4 DEF SetMark
  <2>5. QED
    BY <2>1, <2>2, <2>3, <2>4
    DEF Next, vars, tables, counters, RegradeDies, LockForUpload, StoreUpload, EnqueueGrading, RegradeOne,
        SkipDeleted, BeginGrade, GradeAnswer, ReadAnswers, CompleteJob, AbortRun, WorkerCrash,
        RecoverStalled, LockAnswer, LockItsAttempt, AbortCall, EditBank, StartRegrade,
        WriteKeys, SelectFinished, ResetAutoGrades, EnqueueBulk
<1>2. ASSUME NEW a \in Attempt, a \notin stranded', Finished(a)', totals'[a] # Totals(answers'[a])
      PROVE  Recomputed(a)'
  <2>1. Queueing(a)' => Recomputed(a)'
    BY DEF Recomputed
  <2>2. attempts'[a] # None
    BY <1>2 DEF Finished
  <2>0. CASE a \in stranded
    <3>1. ~DeleteAttempt(a)
      BY <2>2 DEF DeleteAttempt, IndInv, TypeOK
    <3>2. PICK j \in JobId : AttemptOf(j) = a /\ Open(j)' /\ \A w \in Worker : run'[w].job # j
      BY <1>2, <2>0, <3>1, Unstranded
    <3>3. QED
      BY <3>2 DEF Recomputed, AttemptOf
  <2>3. CASE a \notin stranded /\ attempts'[a] = attempts[a] /\ answers'[a] = answers[a] /\ totals'[a] = totals[a]
    <3>1. Finished(a) /\ totals[a] # Totals(answers[a])
      BY <1>2, <2>3 DEF Finished
    <3>2. Recomputed(a)
      BY <2>3, <3>1 DEF TotalsAreDue
    <3>3. ASSUME NEW w \in Worker, CommitGrades(w), RunAttempt(w) = a PROVE FALSE
      <4> DEFINE rows == [q \in Question |-> IF q \in run[w].done THEN run[w].rows[q]
                                             ELSE answers[a][q]]
      <4>1. answers' = [answers EXCEPT ![a] = rows] /\ totals' = [totals EXCEPT ![a] = Totals(rows)]
        BY <3>3 DEF CommitGrades
      <4> HIDE DEF rows
      <4>2. answers'[a] = rows /\ totals'[a] = Totals(rows)
        BY <1>0, <4>1 DEF IndInv, TypeOK
      <4>3. QED
        BY <1>2, <4>2
    <3>4. QED
      BY <1>2, <2>2, <2>3, <3>2, <3>3, RecomputedStep
  <2>4. CASE \E c \in Caller : StoreUpload(c) /\ call[c].attempt = a
    BY <1>2, <2>1, <2>4, UploadQueues
  <2>5. CASE \E c \in Caller : ResetAutoGrades(c) /\ a \in call[c].ids
    BY <2>1, <2>5, ResetQueues
  <2>6. QED
    BY <1>0, <1>2, <2>0, <2>2, <2>3, <2>4, <2>5, TotalsAreKept
<1>3. QED
  BY <1>1, <1>2 DEF TotalsAreDue, Totals
-----------------------------------------------------------------------------
LEMMA DueInvariance == Spec => [](UngradedIsDue /\ OutdatedIsDue /\ TotalsAreDue)
<1> DEFINE DueInv == UngradedIsDue /\ OutdatedIsDue /\ TotalsAreDue
<1>1. Init => DueInv
  <2> SUFFICES ASSUME Init PROVE DueInv
    OBVIOUS
  <2>1. /\ \A a \in Attempt : ~Finished(a)
        /\ \A a \in Attempt, q \in Question : answers[a][q] = None
        /\ \A w \in Worker : run[w].pc = "idle"
        /\ DOMAIN totals = Attempt
    BY DEF Init, Finished, NoAnswers, IdleRun
  <2>2. \A a \in Attempt, q \in Question : ~Outdated(a, q) /\ ~RunOutdated(a)
    BY <2>1 DEF Outdated, RunOutdated
  <2>3. QED
    BY <2>1, <2>2 DEF UngradedIsDue, OutdatedIsDue, TotalsAreDue
<1>2. IndInv /\ DueInv /\ [Next]_vars => DueInv'
  BY UngradedStep, OutdatedStep, TotalsStep
<1>3. QED
  BY <1>1, <1>2, Invariance, PTL DEF Spec

\* Where everything settled, nobody owes an attempt anything.
LEMMA SettledOwesNothing ==
  ASSUME Settled, NEW a \in Attempt, NEW q \in Question
  PROVE  ~Due(a, q) /\ ~DueAgain(a, q) /\ ~Recomputed(a)
<1>1. \A c \in Caller : call[c].pc = "idle"
  BY DEF Settled, IdleCall
<1>2. \A j \in JobId : ~Open(j)
  BY DEF Settled, Open
<1>3. QED
  BY <1>1, <1>2 DEF Due, DueAgain, Recomputed, Queueing

\* Once everything settled, the answers of a finished attempt are graded as the present
\* responses and the present keys say, whatever uploads, corrections of the keys, requests
\* to grade again, crashes and retries came in between: an answer that is not has a request
\* or an open job that is going to grade it, unless the request for it died.
THEOREM GradesAreCurrent == Spec => []GradesFitKeys
<1>1. IndInv /\ UngradedIsDue /\ OutdatedIsDue => GradesFitKeys
  <2> SUFFICES ASSUME IndInv, UngradedIsDue, OutdatedIsDue, Settled,
                      NEW a \in Attempt, a \notin missed, a \notin stranded, Finished(a), NEW q \in Question
               PROVE  /\ q \in attempts[a].presented => answers[a][q] # None
                      /\ answers[a][q] # None =>
                           \/ answers[a][q].status = "manual"
                           \/ answers[a][q] = Grade(q, keys, answers[a][q].response)
    BY DEF GradesFitKeys
  <2>1. ~Ungraded(a, q)
    BY SettledOwesNothing DEF UngradedIsDue
  <2>2. ~Outdated(a, q)
    BY SettledOwesNothing DEF OutdatedIsDue
  <2>3. ASSUME answers[a][q] # None, answers[a][q].status # "manual"
        PROVE  answers[a][q] = Grade(q, keys, answers[a][q].response)
    <3>1. answers[a][q].status # "pending"
      BY <2>1, <2>3 DEF Ungraded
    <3>2. answers[a][q].score.key = keys
      BY <2>2, <2>3, <3>1 DEF Outdated
    <3>3. answers[a][q] = Grade(q, answers[a][q].score.key, answers[a][q].response)
      BY <2>3, <3>1 DEF IndInv, RowsOK
    <3>4. QED
      BY <3>2, <3>3
  <2>4. QED
    BY <2>1, <2>3 DEF Ungraded
<1>2. QED
  BY <1>1, Invariance, DueInvariance, PTL

\* Once everything settled, the totals of a finished attempt sum up its answers: whoever
\* changes an answer computes them in the same transaction, or is followed by a job that does,
\* unless it dies before it has queued that job.
THEOREM TotalsAreCurrent == Spec => []TotalsAgree
<1>1. TotalsAreDue => TotalsAgree
  <2> SUFFICES ASSUME TotalsAreDue, Settled, NEW a \in Attempt, a \notin stranded, Finished(a),
                      totals[a] # Totals(answers[a])
               PROVE  FALSE
    BY DEF TotalsAgree
  <2>1. Recomputed(a)
    BY DEF TotalsAreDue
  <2>2. /\ \A c \in Caller : call[c].pc = "idle"
        /\ \A j \in JobId : ~Open(j)
    BY DEF Settled, IdleCall, Open
  <2>3. QED
    BY <2>1, <2>2 DEF Recomputed, Queueing
<1>2. QED
  BY <1>1, DueInvariance, PTL
===============================================================================
