------------------------------- MODULE Grading -------------------------------
(***************************************************************************)
(* How the attempts of one exam package are graded, and graded again.      *)
(*                                                                         *)
(*  - the grading worker (services/grading.ts) grades the answers of an    *)
(*    attempt with the answer keys of its package and computes the totals; *)
(*  - graders mark answers by hand, administrators correct the keys and    *)
(*    have attempts graded again (modules/results.ts);                     *)
(*  - uploads replace responses (services/results-ingest.ts, of which only *)
(*    what happens to answers is here; ResultsIngest has the rest).        *)
(*                                                                         *)
(* A transaction keeps its row locks and shows its writes when it commits. *)
(* An UPDATE of several rows is one step, which waits for the locks of all *)
(* of them.  Where transactions wait for each other, PostgreSQL aborts     *)
(* one.  The keys are the edition of the bank they were taken from, and a  *)
(* score is what it was computed from.                                     *)
(***************************************************************************)
EXTENDS Naturals, FiniteSets

CONSTANTS Attempt, Question,
          ManualQuestion, \* essays and file uploads
          Response, Mark,
          Upload,         \* what sites send: [final, presented, answers]
          Worker,         \* grading slots
          Caller,         \* concurrent requests and ingest slots
          None,           \* the absent value
          MaxTries, MaxStalls,
          MaxUploads, MaxRegrades, MaxEdits,  \* bounds
          MaxFaults,      \* bound: crashes and deletions in a behaviour
          Environment     \* the faults and administrator actions that occur

Edition == 0..MaxEdits

\* A grading job: the n-th upload grades what is pending, the n-th request to grade
\* again everything (force).
JobId == ({"upload"} \X (1..MaxUploads) \X Attempt)
           \cup ({"force"} \X (1..MaxRegrades) \X Attempt)
AttemptOf(j) == j[3]
Forced(j) == j[1] = "force"

AutoScore == [key : Edition, response : Response \cup {None}]
AnswerRow == [response : Response \cup {None},
              status : {"pending", "graded", "unanswered", "pending_manual", "manual"},
              score : AutoScore \cup Mark \cup {None}]
AttemptRow == [final : BOOLEAN, presented : SUBSET Question]

EnvironmentKinds == {"crash-grading", "crash-committed", "crash-regrade", "delete"}

ASSUME ConstantsAssumption ==
  /\ MaxTries \in Nat \ {0}
  /\ MaxStalls \in Nat /\ MaxUploads \in Nat /\ MaxRegrades \in Nat /\ MaxEdits \in Nat
  /\ MaxFaults \in Nat
  /\ Environment \subseteq EnvironmentKinds
  /\ Upload \subseteq [final : BOOLEAN, presented : SUBSET Question,
                      answers : [Question -> Response \cup {None}]]
  /\ Worker \cap Caller = {}

ASSUME NoneAssumption ==
  /\ None \notin Worker /\ None \notin Attempt /\ None \notin Question
  /\ None \notin Response /\ None \notin Upload /\ None \notin Edition /\ None \notin JobId
  /\ None \notin AttemptRow /\ None \notin AnswerRow

VARIABLES
  bank,      \* the edition of the question bank
  keys,      \* exam_packages.answer_keys
  attempts,  \* attempts, without the totals
  answers,   \* attempt_answers
  totals,    \* score and gradingStatus of an attempt: the answers they sum up
  jobs,      \* the grading queue
  run,       \* [Worker -> local state of gradeAttempt]
  call,      \* [Caller -> local state of a request or an ingest transaction]
  uploads, regrades, faults, \* counters of the bounds
  missed,    \* history: attempts that the last POST /regrade passed over because they were not
             \* finished, although POST /attempts/:id/regrade had had them graded
  stranded   \* history: attempts that a POST /regrade that died was to grade, and none did since

vars == <<bank, keys, attempts, answers, totals, jobs, run, call, uploads, regrades, faults, missed, stranded>>

Queue == INSTANCE JobQueue

NoAnswers == [q \in Question |-> None]
IdleRun == [pc |-> "idle", job |-> None, key |-> None, rows |-> NoAnswers,
            todo |-> {}, done |-> {}]
IdleCall == [pc |-> "idle", attempt |-> None, question |-> None, upload |-> None,
             key |-> None, number |-> 0, ids |-> {}]

RunAttempt(w) == AttemptOf(run[w].job)
Grade(q, key, response) ==
  [response |-> response,
   status |-> IF response = None THEN "unanswered"
              ELSE IF q \in ManualQuestion THEN "pending_manual" ELSE "graded",
   score |-> [key |-> key, response |-> response]]
Totals(rows) == [q \in Question |->
  IF rows[q] = None THEN None ELSE [status |-> rows[q].status, score |-> rows[q].score]]

Init ==
  /\ bank = 0 /\ keys = 0
  /\ attempts = [a \in Attempt |-> None]
  /\ answers = [a \in Attempt |-> NoAnswers]
  /\ totals = [a \in Attempt |-> NoAnswers]
  /\ Queue!Init
  /\ run = [w \in Worker |-> IdleRun]
  /\ call = [c \in Caller |-> IdleCall]
  /\ uploads = 0 /\ regrades = 0 /\ faults = 0 /\ missed = {} /\ stranded = {}

Fault(kind) ==
  /\ kind \in Environment
  /\ faults < MaxFaults
  /\ faults' = faults + 1

tables == <<keys, attempts, answers, totals>>
counters == <<uploads, regrades, faults>>
-----------------------------------------------------------------------------
(* Row locks.                                                              *)

\* Who holds the row of attempt a, and the row of its answer to q.
AttemptHolders(a) ==
  {w \in Worker : run[w].pc \in {"read", "grade"} /\ RunAttempt(w) = a}
    \cup {c \in Caller : call[c].pc \in {"store", "mark"} /\ call[c].attempt = a}
AnswerHolders(a, q) ==
  {w \in Worker : run[w].pc = "grade" /\ RunAttempt(w) = a /\ q \in run[w].done}
    \cup {c \in Caller : /\ call[c].pc \in {"lock", "mark"}
                         /\ call[c].attempt = a /\ call[c].question = q}

\* The answers that the upload stored by c contains.
Answered(c) == {q \in Question : call[c].upload.answers[q] # None}

\* Who x waits for at its next statement.
WaitsFor(x) ==
  CASE x \in Worker /\ run[x].pc = "grade" ->
         UNION {AnswerHolders(RunAttempt(x), q) : q \in run[x].todo}
    [] x \in Caller /\ call[x].pc = "lock" -> AttemptHolders(call[x].attempt)
    [] x \in Caller /\ call[x].pc = "store" ->
         UNION {AnswerHolders(call[x].attempt, q) : q \in Answered(x)}
    [] OTHER -> {}
Deadlocked(x) == \E y \in WaitsFor(x) : x \in WaitsFor(y)
-----------------------------------------------------------------------------
(* Uploads.                                                                *)

LockForUpload(c, a, u) ==
  /\ call[c] = IdleCall
  /\ uploads < MaxUploads
  /\ AttemptHolders(a) = {}
  /\ uploads' = uploads + 1
  /\ call' = [call EXCEPT ![c] = [IdleCall EXCEPT
       !.pc = "store", !.attempt = a, !.upload = u, !.number = uploads + 1]]
  /\ UNCHANGED <<bank, missed, stranded, tables, jobs, run, regrades, faults>>

\* A changed response sends its answer back to the grader, with its old score.
Replace(old, response) ==
  CASE old = None -> [response |-> response, status |-> "pending", score |-> None]
    [] old # None /\ old.response # response ->
         [old EXCEPT !.response = response, !.status = "pending"]
    [] OTHER -> old

StoreUpload(c) ==
  LET a == call[c].attempt
      u == call[c].upload
  IN /\ call[c].pc = "store"
     /\ WaitsFor(c) = {}
     /\ attempts' = [attempts EXCEPT ![a] = [final |-> u.final, presented |-> u.presented]]
     /\ answers' = [answers EXCEPT ![a] = [q \in Question |->
          IF q \in Answered(c) THEN Replace(@[q], u.answers[q]) ELSE @[q]]]
     /\ call' = [call EXCEPT ![c] =
          IF u.final THEN [IdleCall EXCEPT !.pc = "enqueue", !.attempt = a,
                                           !.number = call[c].number]
          ELSE IdleCall]
     /\ UNCHANGED <<bank, missed, stranded, keys, totals, jobs, run, counters>>

EnqueueGrading(c) ==
  /\ call[c].pc = "enqueue"
  /\ Queue!Add(<<"upload", call[c].number, call[c].attempt>>)
  /\ call' = [call EXCEPT ![c] = IdleCall]
  /\ UNCHANGED <<bank, missed, stranded, tables, run, counters>>

DeleteAttempt(a) ==
  /\ Fault("delete")
  /\ attempts[a] # None
  /\ AttemptHolders(a) = {} /\ \A q \in Question : AnswerHolders(a, q) = {}
  /\ attempts' = [attempts EXCEPT ![a] = None]
  /\ answers' = [answers EXCEPT ![a] = NoAnswers]
  /\ totals' = [totals EXCEPT ![a] = NoAnswers]
  /\ missed' = missed \ {a} /\ stranded' = stranded \ {a}
  /\ UNCHANGED <<bank, keys, jobs, run, call, uploads, regrades>>
-----------------------------------------------------------------------------
(* gradeAttempt.                                                           *)

\* The attempt was deleted.
SkipDeleted(w, j) ==
  /\ run[w] = IdleRun
  /\ jobs[j].state = "waiting"
  /\ attempts[AttemptOf(j)] = None
  /\ jobs' = [jobs EXCEPT ![j].state = "completed"]
  /\ UNCHANGED <<bank, missed, stranded, tables, run, call, counters>>

\* Mutant: the attempt is read without FOR UPDATE.
BeginGrade_NoLock(w, j) ==
  /\ run[w] = IdleRun
  /\ attempts[AttemptOf(j)] # None
  /\ Queue!Take(w, j)
  /\ run' = [run EXCEPT ![w].pc = "read", ![w].job = j, ![w].key = keys]
  /\ UNCHANGED <<bank, missed, stranded, tables, call, counters>>

\* The lock of the attempt, then the keys of its package.
BeginGrade(w, j) ==
  /\ run[w] = IdleRun
  /\ attempts[AttemptOf(j)] # None /\ AttemptHolders(AttemptOf(j)) = {}
  /\ Queue!Take(w, j)
  /\ run' = [run EXCEPT ![w].pc = "read", ![w].job = j, ![w].key = keys]
  /\ UNCHANGED <<bank, missed, stranded, tables, call, counters>>

\* The answers, with a row for each presented question that has none.
RowsToGrade(a) == [q \in Question |->
  IF answers[a][q] = None /\ q \in attempts[a].presented
  THEN [response |-> None, status |-> "pending", score |-> None]
  ELSE answers[a][q]]

\* Mutant: force grades what was marked by hand, too.
ReadAnswers_ForceManual(w) ==
  LET rows == RowsToGrade(RunAttempt(w))
  IN /\ run[w].pc = "read"
     /\ run' = [run EXCEPT ![w].pc = "grade", ![w].rows = rows,
          ![w].todo = {q \in Question : /\ rows[q] # None
                                        /\ Forced(run[w].job) \/ rows[q].status = "pending"}]
     /\ UNCHANGED <<bank, missed, stranded, tables, jobs, call, counters>>

ReadAnswers(w) ==
  LET rows == RowsToGrade(RunAttempt(w))
  IN /\ run[w].pc = "read"
     /\ run' = [run EXCEPT ![w].pc = "grade", ![w].rows = rows,
          ![w].todo = {q \in Question : /\ rows[q] # None /\ rows[q].status # "manual"
                                        /\ Forced(run[w].job) \/ rows[q].status = "pending"}]
     /\ UNCHANGED <<bank, missed, stranded, tables, jobs, call, counters>>

GradeAnswer(w, q) ==
  /\ run[w].pc = "grade"
  /\ q \in run[w].todo
  /\ AnswerHolders(RunAttempt(w), q) = {}
  /\ run' = [run EXCEPT ![w].rows[q] = Grade(q, run[w].key, @.response),
                        ![w].todo = @ \ {q}, ![w].done = @ \cup {q}]
  /\ UNCHANGED <<bank, missed, stranded, tables, jobs, call, counters>>

\* recomputeAttemptTotals, and the commit.  The rows this run did not grade may have
\* been reset meanwhile.
CommitGrades(w) ==
  LET a == RunAttempt(w)
      rows == [q \in Question |->
                 IF q \in run[w].done THEN run[w].rows[q] ELSE answers[a][q]]
  IN /\ run[w].pc = "grade" /\ run[w].todo = {}
     /\ answers' = [answers EXCEPT ![a] = rows]
     /\ totals' = [totals EXCEPT ![a] = Totals(rows)]
     /\ run' = [run EXCEPT ![w] = [IdleRun EXCEPT !.pc = "done", !.job = run[w].job]]
     /\ UNCHANGED <<bank, missed, stranded, keys, attempts, jobs, call, counters>>

CompleteJob(w) ==
  /\ run[w].pc = "done"
  /\ Queue!Complete(w, run[w].job)
  /\ run' = [run EXCEPT ![w] = IdleRun]
  /\ UNCHANGED <<bank, missed, stranded, tables, call, counters>>

\* The transaction was chosen to end a deadlock; BullMQ retries the job.
AbortRun(w) ==
  /\ Deadlocked(w)
  /\ Queue!Throw(w, run[w].job)
  /\ run' = [run EXCEPT ![w] = IdleRun]
  /\ UNCHANGED <<bank, missed, stranded, tables, call, counters>>

\* The worker process dies, before the commit (the transaction rolls back) or after it;
\* the job stays active.
WorkerCrash(w) ==
  /\ run[w].pc # "idle"
  /\ Fault(IF run[w].pc = "done" THEN "crash-committed" ELSE "crash-grading")
  /\ run' = [run EXCEPT ![w] = IdleRun]
  /\ UNCHANGED <<bank, missed, stranded, tables, jobs, call, uploads, regrades>>

RecoverStalled(j) ==
  /\ ~\E w \in Worker : Queue!Owns(w, j) /\ run[w].job = j
  /\ Queue!Stall(j)
  /\ UNCHANGED <<bank, missed, stranded, tables, run, call, counters>>
-----------------------------------------------------------------------------
(* POST /results/manual-grade.                                             *)

\* SELECT ... FOR UPDATE of the answer joined with its attempt locks the answer
\* first,
LockAnswer(c, a, q) ==
  /\ call[c] = IdleCall
  /\ answers[a][q] # None
  /\ AnswerHolders(a, q) = {}
  /\ call' = [call EXCEPT ![c] = [IdleCall EXCEPT
       !.pc = "lock", !.attempt = a, !.question = q]]
  /\ UNCHANGED <<bank, missed, stranded, tables, jobs, run, counters>>

\* then the attempt.
LockItsAttempt(c) ==
  /\ call[c].pc = "lock"
  /\ WaitsFor(c) = {}
  /\ call' = [call EXCEPT ![c].pc = "mark"]
  /\ UNCHANGED <<bank, missed, stranded, tables, jobs, run, counters>>

\* Mutants: the status is not set, the totals are not computed.
SetMark_NoStatus(c) ==
  LET a == call[c].attempt
      q == call[c].question
  IN /\ call[c].pc = "mark"
     /\ \E m \in Mark : answers' = [answers EXCEPT ![a][q].score = m]
     /\ totals' = [totals EXCEPT ![a] = Totals(answers'[a])]
     /\ call' = [call EXCEPT ![c] = IdleCall]
     /\ UNCHANGED <<bank, missed, stranded, keys, attempts, jobs, run, counters>>

SetMark_NoTotals(c) ==
  LET a == call[c].attempt
      q == call[c].question
  IN /\ call[c].pc = "mark"
     /\ \E m \in Mark :
          answers' = [answers EXCEPT ![a][q].status = "manual", ![a][q].score = m]
     /\ call' = [call EXCEPT ![c] = IdleCall]
     /\ UNCHANGED <<bank, missed, stranded, keys, attempts, totals, jobs, run, counters>>

SetMark(c) ==
  LET a == call[c].attempt
      q == call[c].question
  IN /\ call[c].pc = "mark"
     /\ \E m \in Mark :
          answers' = [answers EXCEPT ![a][q].status = "manual", ![a][q].score = m]
     /\ totals' = [totals EXCEPT ![a] = Totals(answers'[a])]
     /\ call' = [call EXCEPT ![c] = IdleCall]
     /\ UNCHANGED <<bank, missed, stranded, keys, attempts, jobs, run, counters>>

\* A request or an ingest transaction that was chosen to end a deadlock.
AbortCall(c) ==
  /\ Deadlocked(c)
  /\ call' = [call EXCEPT ![c] = IdleCall]
  /\ UNCHANGED <<bank, missed, stranded, tables, jobs, run, counters>>
-----------------------------------------------------------------------------
(* POST /attempts/:id/regrade and POST /regrade.                           *)

EditBank ==
  /\ bank < MaxEdits
  /\ bank' = bank + 1
  /\ UNCHANGED <<missed, stranded, tables, jobs, run, call, counters>>

RegradeOne(a) ==
  /\ regrades < MaxRegrades
  /\ regrades' = regrades + 1
  /\ Queue!Add(<<"force", regrades + 1, a>>)
  /\ stranded' = stranded \ {a}
  /\ UNCHANGED <<bank, missed, tables, run, call, uploads, faults>>

\* With refreshKeys the questions are read first.
StartRegrade(c) ==
  /\ call[c] = IdleCall
  /\ regrades < MaxRegrades
  /\ regrades' = regrades + 1
  /\ \E pc \in {"refresh", "select"} :
       call' = [call EXCEPT ![c] = [IdleCall EXCEPT
         !.pc = pc, !.number = regrades + 1,
         !.key = IF pc = "refresh" THEN bank ELSE None]]
  /\ UNCHANGED <<bank, missed, stranded, tables, jobs, run, uploads, faults>>

WriteKeys(c) ==
  /\ call[c].pc = "refresh"
  /\ keys' = call[c].key
  /\ call' = [call EXCEPT ![c].pc = "select"]
  /\ UNCHANGED <<bank, missed, stranded, attempts, answers, totals, jobs, run, counters>>

Finished(a) == attempts[a] # None /\ attempts[a].final

\* By the keys as they were before the request.
GradedOrGrading(a) ==
  \/ \E q \in Question : answers[a][q] # None /\ answers[a][q].status \notin {"pending", "manual"}
  \/ \E w \in Worker : run[w].pc \in {"read", "grade"} /\ RunAttempt(w) = a

\* Attempts that are still going on are passed over, also those that have been graded.
SelectFinished(c) ==
  LET finished == {a \in Attempt : Finished(a)}
  IN /\ call[c].pc = "select"
     /\ call' = [call EXCEPT ![c].pc = "reset", ![c].ids = finished]
     /\ missed' = (missed \ finished) \cup {a \in Attempt \ finished : GradedOrGrading(a)}
     /\ UNCHANGED <<bank, stranded, tables, jobs, run, counters>>

\* resetAutoGrades: one UPDATE, outside of any other transaction.
ResetAutoGrades(c) ==
  LET rows == {r \in call[c].ids \X Question :
                 answers[r[1]][r[2]] # None /\ answers[r[1]][r[2]].status # "manual"}
  IN /\ call[c].pc = "reset"
     /\ \A r \in rows : AnswerHolders(r[1], r[2]) = {}
     /\ answers' = [a \in Attempt |-> [q \in Question |->
          IF <<a, q>> \in rows THEN [answers[a][q] EXCEPT !.status = "pending"]
          ELSE answers[a][q]]]
     /\ call' = [call EXCEPT ![c].pc = "bulk"]
     /\ UNCHANGED <<bank, missed, stranded, keys, attempts, totals, jobs, run, counters>>

\* addBulk.
EnqueueBulk(c) ==
  /\ call[c].pc = "bulk"
  /\ stranded' = stranded \ call[c].ids
  /\ jobs' = [j \in JobId |->
       IF j[1] = "force" /\ j[2] = call[c].number /\ j[3] \in call[c].ids
       THEN [jobs[j] EXCEPT !.state = "waiting"] ELSE jobs[j]]
  /\ call' = [call EXCEPT ![c] = IdleCall]
  /\ UNCHANGED <<bank, missed, tables, run, counters>>

\* Those a request has selected, or would select now that it has written other keys.
WasToGrade(c) ==
  {a \in Attempt : attempts[a] # None /\
     \/ a \in call[c].ids
     \/ call[c].pc = "select" /\ call[c].key # None /\ GradedOrGrading(a)}

\* The API dies, or cannot reach the database or the queue: each statement was on its own, and
\* what is done stays done.
RegradeDies(c) ==
  /\ call[c].pc \in {"refresh", "select", "reset", "bulk"}
  /\ Fault("crash-regrade")
  /\ stranded' = stranded \cup WasToGrade(c)
  /\ call' = [call EXCEPT ![c] = IdleCall]
  /\ UNCHANGED <<bank, missed, tables, jobs, run, uploads, regrades>>
-----------------------------------------------------------------------------
Next ==
  \/ \E c \in Caller, a \in Attempt, u \in Upload : LockForUpload(c, a, u)
  \/ \E c \in Caller : StoreUpload(c) \/ EnqueueGrading(c)
  \/ \E a \in Attempt : DeleteAttempt(a) \/ RegradeOne(a)
  \/ \E w \in Worker, j \in JobId : SkipDeleted(w, j) \/ BeginGrade(w, j)
  \/ \E w \in Worker, q \in Question : GradeAnswer(w, q)
  \/ \E w \in Worker : \/ ReadAnswers(w) \/ CommitGrades(w) \/ CompleteJob(w)
                       \/ AbortRun(w) \/ WorkerCrash(w)
  \/ \E j \in JobId : RecoverStalled(j)
  \/ \E c \in Caller, a \in Attempt, q \in Question : LockAnswer(c, a, q)
  \/ \E c \in Caller : LockItsAttempt(c) \/ SetMark(c) \/ AbortCall(c)
  \/ EditBank
  \/ \E c \in Caller : \/ StartRegrade(c) \/ WriteKeys(c) \/ SelectFinished(c)
                       \/ ResetAutoGrades(c) \/ EnqueueBulk(c) \/ RegradeDies(c)

Spec == Init /\ [][Next]_vars
-----------------------------------------------------------------------------
(* Properties.                                                             *)

RunType ==
  [pc : {"idle", "read", "grade", "done"}, job : JobId \cup {None},
   key : Edition \cup {None}, rows : [Question -> AnswerRow \cup {None}],
   todo : SUBSET Question, done : SUBSET Question]

CallType ==
  [pc : {"idle", "store", "enqueue", "lock", "mark",
         "refresh", "select", "reset", "bulk"},
   attempt : Attempt \cup {None}, question : Question \cup {None},
   upload : Upload \cup {None}, key : Edition \cup {None},
   number : Nat, ids : SUBSET Attempt]

\* The types of the variables; a manual status goes with a mark, a grade with a score
\* of the engine.
TypeOK ==
  /\ bank \in Edition /\ keys \in Edition
  /\ attempts \in [Attempt -> AttemptRow \cup {None}]
  /\ answers \in [Attempt -> [Question -> AnswerRow \cup {None}]]
  /\ \A a \in Attempt, q \in Question : answers[a][q] # None =>
       /\ answers[a][q].status = "manual" => answers[a][q].score \in Mark
       /\ answers[a][q].status \in {"graded", "unanswered", "pending_manual"} =>
            answers[a][q].score \in AutoScore
  /\ jobs \in [JobId -> Queue!Job]
  /\ run \in [Worker -> RunType] /\ call \in [Caller -> CallType]
  /\ uploads \in 0..MaxUploads /\ regrades \in 0..MaxRegrades /\ faults \in 0..MaxFaults
  /\ missed \subseteq Attempt /\ stranded \subseteq Attempt

\* Nothing is under way, and no grading job used up its tries.
Settled ==
  /\ \A w \in Worker : run[w] = IdleRun
  /\ \A c \in Caller : call[c] = IdleCall
  /\ \A j \in JobId : jobs[j].state \in {"none", "completed"}

\* Marks of graders survive: grading again, also with force and corrected keys, does
\* not touch them; only another mark, a changed response or a deletion does
\* (documentation of gradeAttempt; docs/arsitektur.md, queue table).
ManualSurvives ==
  [][\A a \in Attempt, q \in Question :
       /\ answers[a][q] # None /\ answers[a][q].status = "manual"
       /\ answers'[a][q] # None /\ answers'[a][q].response = answers[a][q].response
       => answers'[a][q].status = "manual"]_vars

\* Once everything settled, the answers of a finished attempt are graded, as the
\* present responses and the present keys say, however uploads, corrections of the keys
\* and grading jobs were interleaved; unless the keys were corrected while the attempt was
\* not finished, but graded already, or the request that was to grade it again died and
\* was not repeated.
GradesFitKeys ==
  Settled => \A a \in Attempt \ (missed \cup stranded) : Finished(a) => \A q \in Question :
    /\ q \in attempts[a].presented => answers[a][q] # None
    /\ answers[a][q] # None =>
         \/ answers[a][q].status = "manual"
         \/ answers[a][q] = Grade(q, keys, answers[a][q].response)

\* Once everything settled, the totals of a finished attempt sum up its answers, unless a
\* request died that had chosen it, and was not repeated.
TotalsAgree ==
  Settled => \A a \in Attempt \ stranded : Finished(a) => totals[a] = Totals(answers[a])

\* Parallel grading of one attempt does not collide (comment on the lock in
\* gradeAttempt): grading never waits for a transaction that waits for it.
NoDeadlock == \A w \in Worker : ~Deadlocked(w)
=============================================================================
