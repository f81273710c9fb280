# Verification of the CBT server

TLA+ models, TLC runs and TLAPS proofs for the computer-based-test platform in
this repository: a central server (`apps/server`: Fastify API, PostgreSQL, MinIO,
BullMQ on Redis) to which exam sites download packages and upload results, an
admin panel (`apps/admin`) and two shared packages (`packages/shared`,
`packages/question-ui`).

The site's local server is not in the repository: only the protocol it speaks
(`docs/sinkronisasi.md`) is, and the models let it send anything the protocol
allows, in any order and any number of times.

## 1. Inventory

### 1.1 Parts, state, operations

| Part | State it keeps | Operations that change it | Module |
|---|---|---|---|
| Result upload, `modules/sync.ts` POST `/results` | `sync_batches`, payload objects | archive, record, enqueue | `ResultsIngest` |
| Ingest worker, `services/results-ingest.ts` | `attempts`, `attempt_answers`, batch status and outcomes | one transaction per attempt, finish, enqueue grading | `ResultsIngest` |
| Batch administration, `modules/results.ts` | the same | reprocess a batch, delete an attempt | `ResultsIngest` |
| Job queues, `lib/queue.ts`, `worker.ts` | BullMQ jobs in Redis | add, take, complete, fail and retry, stall | `JobQueue` |
| Schedule publishing, `modules/schedules.ts` | `schedules.status`, `exam_packages` | publish, close | `PackagePublish` |
| Package builder, `services/package-builder.ts` | `exam_packages`, package objects | archive, supersede, make ready, fail | `PackagePublish` |
| Composition, `composePackage` | none: reads of the back office | read sections, questions, stimuli, participants, assets | `PackageContents` |
| Package download, `modules/sync.ts` GET `/schedules/:id/package` | `package_downloads` | select the newest ready version, stream its object | `PackagePublish` |
| Grading worker, `services/grading.ts` | answer grades, attempt totals | grade an attempt, recompute totals | `Grading`; only "graded" in `ResultsIngest` |
| Manual grading, key correction, regrading, `modules/results.ts` | answer grades, `exam_packages.answer_keys` | manual-grade, regrade, refresh keys | `Grading` |
| Grading engine, `packages/shared/src/questions/grading.ts` | none (pure) | score a response of each question type | `GradeEngine` |
| Question types, `packages/shared/src/questions/types.ts` | none (pure) | accept or refuse questions and responses | `QuestionTypes` |
| Question renderer, `packages/question-ui` | the response of a participant, uploads under way | select, type, arrange, upload, remove | `Answering` |
| Question banks, `modules/{banks,questions}.ts` | banks, stimuli, questions with a version | CRUD, duplicate, import | `Authoring` |
| Exams, `modules/exams.ts` | exams, sections, question picks | create, replace the structure, delete | `Authoring` |
| Participants, `modules/participants.ts` | accounts of participants with passwords | CRUD, import, reset of passwords | `Roster` |
| Schedules and enrolment, `modules/schedules.ts` | schedules, `schedule_participants` | CRUD, publish, close, enrol | `Roster`; as ingest sees it in `ResultsIngest` |
| Media, `modules/assets.ts`, `lib/storage.ts` | `assets`, objects | upload, delete | `Storage` |
| Answer attachments, `modules/sync.ts` POST `/attachments` | `attachments`, objects | send, send again | `Storage` |
| Users and login, `modules/{users,auth}.ts` | `users`, tokens | log in, create, PATCH, delete | `Access` |
| Sites and proctors, `modules/sites.ts` | `sites`, `site_proctors` | CRUD, rotate the secret, replace the list | `Access` |
| Site sessions, `modules/sync.ts` `/auth`, `/proctors`, `/proctor-log` | tokens, `proctor_actions` | log in, fetch proctors, send the log | `Access` |
| Dashboard, audit log | own tables | reads, inserts | not modelled |
| Admin panel, bootstrap | browser state, configuration | HTTP calls, rendering | not modelled |

### 1.2 Interactions

    site --POST /results--> API --payload--> MinIO
                             |--row--> sync_batches <--reprocess-- administrator
                             '--job--> results-ingest --> ingest worker
                                                            |  attempts, answers
                                                            '--job--> grading --> grading worker
    administrator --publish--> exam_packages (building)
                    '--job--> package-build --> build worker --> MinIO, exam_packages (ready)
    site --GET package--> newest ready version
    grader --manual-grade--> attempt_answers, attempts
    administrator --regrade--> exam_packages.answer_keys, attempt_answers
                    '--jobs--> grading
    author --POST, PATCH, import--> questions --PUT structure--> exams --\
    administrator --import, enrol--> participants, schedules -------------> composePackage
    author --upload--> objects, assets ----------------------------------/
    participant --click, type--> response --(package, upload)--> gradeResponse
    site --attachments--> objects, rows    site --proctor-log--> proctor_actions

The parts share state only through PostgreSQL (READ COMMITTED), MinIO and Redis.
No transaction covers two of these stores, and most requests touch at least two:
that is where the hard behaviour is.

### 1.3 What is hard here

- A process dies, or a call fails, between the writes to two stores (batch row and
  job; version row and job; commit and completion of the job).
- BullMQ delivers at least once: jobs are retried, and a job whose lock expired
  runs a second time beside the first.
- Several slots of a queue work on the same attempt or the same schedule.
- Sites resend and reorder; only `sequence` says which upload is newer.
- Values read before a transaction (status, roster, bank) are old inside it.
- `SELECT ... FOR UPDATE` locks nothing when there is no row yet, and locks taken in
  different orders block each other.
- Administrators delete, reprocess, close and edit at any time, and a handler reads in
  one statement what it writes by in another: versions, structures, rosters, passwords.
- Tokens say what was true when they were signed.
- A participant clicks in any order while uploads are awaited; whatever comes of it must
  be an answer that the engine takes.

`PROJECT.json` lists each of these hazards at its line with the property that
would catch it.

### 1.4 What makes each part correct

- **Ingest.** What a batch reports as accepted is in the database at that sequence
  or a later one; stored results never move backwards and are one upload, whole,
  of the site that owns the schedule; one attempt per participant and schedule; no
  recorded batch is forgotten; finished attempts get graded.
- **Publishing.** Version numbers are unique; the answer keys the server keeps are
  those of the package that was downloaded; once a version is ready some version
  stays ready; a queued build settles; sites get the latest version.
- **Grading.** Once nothing is under way, grades fit the present keys and responses
  and totals fit the grades; marks of graders survive grading again.
- **Grading engine and renderer.** Every sequence of clicks leaves a valid answer; full
  marks mean the key and nothing else; scores stay in range; an answer taken back is none;
  doing better never costs marks; a question that was accepted can be answered.
- **Back office.** A question version stands for one content; a stimulus is of the bank of
  its question; a structure is what one request wrote, without doubles and gaps; the card
  of a participant opens the account; closed stays closed.
- **Composition.** A package is closed under its references, and its structure is one that
  was there.
- **Storage.** Rows have their objects, whole; a site that was told its file arrived can
  rely on it; a file that is sent again arrives.
- **Access.** Somebody can always administrate; the log of proctors arrives.

## 2. Modules

| Module | What it is |
|---|---|
| `JobQueue` | One BullMQ queue, used by both pipelines through `INSTANCE` |
| `ResultsIngest` | Requests, ingest worker statement by statement, grading, administrators, faults |
| `AttemptRegister` | What the pipeline promises: a register of attempts, uploads stored whole one after the other, batches that report what is kept |
| `IngestRefinement` | The mapping from `ResultsIngest` to `AttemptRegister` |
| `MCResultsIngest` | Payloads and model values for TLC |
| `ResultsIngestProofs` | TLAPS proofs about `ResultsIngest`: types, what is accepted is kept, results only advance, seats are unique |
| `IngestRefinementProofs` | On top of it: payloads are archived, attempts are uploads, the pipeline implements `AttemptRegister` |
| `IngestDeliveryProofs` | On top of both: no batch is forgotten, finished attempts reach the grader |
| `PackagePublish` | Publishing, building and downloading the versions of one schedule |
| `PackagePublishProofs` | TLAPS proofs: unique versions, keys match downloads, some version stays ready, ready versions stay as they are |
| `Grading` | Grading jobs, marks by hand, regrading with corrected keys, uploads that change responses |
| `MCGrading` | Uploads and symmetry for TLC |
| `GradingProofs` | TLAPS proofs: marks survive, grades fit the keys, totals fit the grades |
| `GradeEngine` | `gradeResponse` and what it calls, as operators |
| `QuestionTypes` | What a valid question and a valid response are; extends `GradeEngine` |
| `Answering` | The components of `QuestionView` and the properties of answers and grades |
| `MCAnswering` | Questions of every type, scorings and inputs for TLC |
| `Rows` | Optional columns and requests in several steps, shared by the modules below |
| `Authoring` | Banks, stimuli, questions, structures of exams |
| `Roster` | Participants, passwords, schedules, enrolment |
| `Storage` | Media and attachments: objects and rows |
| `PackageContents` | `composePackage` over the three modules above, which it extends |
| `Access` | Accounts, sites, proctors, site sessions, the proctor log |
| `BackOffice` | All tables of the back office: `PackageContents` and `Access` |
| `MCBackOffice` | The back office on small instances |
| `AccountsAndFilesProofs` | TLAPS proofs about `Access` and `Storage` |
| `BackOfficeProofs` | TLAPS proofs about `Roster`, `Authoring`, `PackageContents` and the tables together |
| `AnsweringProofs` | TLAPS proofs about `Answering`, `QuestionTypes` and `GradeEngine`: answers are valid, files are kept, scores stay in range, full marks are for the key, progress pays |

### 2.1 `ResultsIngest`

State. `batches`, `attempts`, `assigned` are the tables `sync_batches`,
`attempts` with `attempt_answers`, and `schedule_participants`; `objects` is
object storage; `jobs` the results-ingest queue; `gradeQueue` the grading queue;
`http` and `run` are the local variables of requests and jobs, with `pc` naming
the statement that comes next. `acks` (who was answered 2xx) and `deleted` (what
the audit log shows of deletions) record history for the properties. A *seat* is a
(schedule, participant) pair; a response is a member of a small set; a row is
`pending` while some answer of it has grade status `pending`.

Each statement that reads or writes shared state is an action, because PostgreSQL
at READ COMMITTED lets others commit between two statements. `CheckUpload`,
`LockAttempt`, `CheckOther`, `InsertAttempt`/`UpdateAttempt` are the statements of
`upsertAttempt` in their order. The writes of a transaction and its commit are one
action, since no one can see the former before the latter: the row lock taken by
`LockAttempt` is held until then (`Locked`), and the unique index is decided
by `InsertAttempt`/`InsertConflict`. The loop over the batch, the list of attempts
to grade and the final update of the batch follow (`EndTx`, `EnqueueGrading`,
`FinishBatch`).

Faults are switched on by the kinds in `Environment` and counted by `MaxFaults`:
`crash-http` (an API process dies), `crash-worker`, `throw` (a database or Redis
call fails), `storage` (reading the payload fails), `stall` (a job loses its lock
while its slot still runs). `delete`, `roster` and `reprocess` enable the
administrator.

### 2.2 `PackagePublish`

One schedule. `packages` is `exam_packages`, `objects` the archived packages,
`bank` the *edition* of everything composition reads (questions, keys,
participants, assets): a number that `EditBank` advances. `content` of a row
stands for its checksum and its answer keys, which are written together.
`fetching` and `downloads` are the two halves of a download, which reads the row
first and the object afterwards. The transaction of the build is three steps
because its first `UPDATE` chooses rows in the snapshot of its start, waits for
their locks and then keeps only those that still match (`SelectOlder`,
`SupersedeOlder`), and only then makes its own version ready (`MarkReady`).

### 2.3 `Grading`

The attempts of one package. `attempts` and `answers` are the tables; `totals` is
what `recomputeAttemptTotals` last summed up, kept as the statuses and scores it
read, so that "totals are right" means "these are the scores". A score is what it
was computed from: a (key edition, response) pair or a grader's mark. `bank` and `keys`
are editions, as in `PackagePublish`. A grading job is named after the upload or the
regrade request that queued it, and the latter are the jobs with `force`. A bulk regrade
chooses finished attempts only; `missed` remembers those it passed over although a
regrade of the single attempt, which asks for no status, had had them graded. The statements
of a bulk regrade are no transaction: it dies between any two of them (`RegradeDies`) and what
it wrote stays. `stranded` remembers the attempts it had chosen, or would have chosen
after it wrote other keys, until another request queues them.

Row locks decide this module, so each transaction keeps the rows it has locked
(`AttemptHolders`, `AnswerHolders`) and shows its writes at the commit
(`CommitGrades`, `StoreUpload`, `SetMark`). Three statements are merged with their
neighbour where nobody can tell: taking a job and the lock of its attempt and reading
the keys (`BeginGrade`; the lock alone changes nothing others see but waiting), and
summing up with the commit. An `UPDATE` of several rows waits for all of them at once;
the deadlocks two such statements can have among themselves are left out.
`SELECT ... FOR UPDATE` over a join locks the rows of the tables in the order of
the FROM clause, hence `LockAnswer` before `LockItsAttempt`. A deadlock ends when
PostgreSQL aborts one side (`AbortRun`, `AbortCall`).

### 2.4 `GradeEngine`, `QuestionTypes`, `Answering`

A question is a record with the fields of its content and key that grading reads; ids are
strings. Points are integers, `Grain` of them to a ten-thousandth, so that rounding and clamping are
those of the code; `Whole` stands for weight 1 of a rule, `Res` for 1 in numbers that answers are
compared with. A text is a word with *marks* (case, accent, space, punctuation, too long),
which is what the options of `normalizeText` tell apart; a regular expression is given by what
it finds. `parseNumericInput` reads a number character by character; `Reading` of `Answering` says
independently what the numbers typed there mean. Each grader returns the fraction and whether the answer is exact
(`Part`); `gradeResponse` puts the order of the checks, the mode, the penalty and the rounding
around it.

`Answering` starts with any question that `QuestionDefinition` accepts and any scoring,
and lets a participant use the component of `QuestionView` for its type: one
action per control, with the limits the component keeps (`Room`, `LastOf`), the order in
which it stores selections (`InOrder`) and the way an entry is cleared. `PickFiles`,
`UploadFile`, `UploadFails`, `EndPick` and `RemoveFile` are `FileUpload`, whose dialogue awaits
the uploads one by one and works on the list it saw at its start (`overlap` records when two
such changes meet). The properties grade every answer on the way. The reference they compare
with is `Facts`: the single things an answer claims (this option, this pair, this item
in this place), of which the key has a set.

### 2.5 The back office: `Authoring`, `Roster`, `Storage`, `PackageContents`, `Access`

Tables are functions from ids to rows or `None`, and sets of rows where nothing points to
them. A request that reads before it writes is two actions or three (`BeginPatch` and
`EndPatch`, `BeginPut`, `DeleteSections` and `CommitPut`, ...) with what it has read kept in
`author`, `admin`, `upload` or `clerk`; a request of one statement is one action.
Foreign keys are part of the writes they stop or that they extend (`Deletable`, `Erasable`,
`Unlinked`). A deletion followed by inserts in one READ COMMITTED transaction deletes what
its first statement saw (`Replaced`). A request that sets passwords commits them in one step and
tells them in another, behind the audit entry (`CommitImport` or `ResetOne`, then `Answer`): between them it may
die, and others may begin (`AdminDies`). A reset is no transaction; after a failed update its
answer is an error while the others go on (`ResetFails`). History variables say which rows were in a race, so
that a property can speak of the others and the exception is visible: `raced`, `mixed`,
`doubtful`, `shut`, `clashed`, `vanished`, `overlapped`, `overruled`, `blended`. Each names a
condition on requests, never on the outcome. The body of a PATCH is laid over the row
with `Over`: fields it does not name stay as they were read.

`Storage` has the two writes of an upload (`PutStream`, `InsertRow`), the removal of what the
size limit cuts off, answers that are lost and sites that send again. `PackageContents`
reads sections, their questions, the questions, stimuli, participants and assets in six
steps while `Authoring`, `Roster` and `Storage` go on. `Access` keeps the
tokens apart from the accounts; what a site holds (`key`, `token`, `local`, `unsent`) is
external and follows what `/auth`, `/proctors` and `/proctor-log` let it do.

`MCBackOffice` composes all five in one state and gives each behaviour a *focus*: the
requests of one part, or composition with what changes the data it reads. The parts meet in
`composePackage` only, so that their requests in one behaviour would multiply states and
show nothing new.

## 3. Runs

Bounds are chosen so that two actors can always meet. Two slots, two batches and
two uploads of one attempt are what a race over an attempt needs: locks and
sequences compare two runs at a time, and a third batch only repeats a pair. One
fault per behaviour at every possible step covers each window between two writes;
`MaxTries` is reduced from 5 to 2 or 3, so that with at most one fault a job is
retried at least once and, with 2, insert conflicts can also use up its tries.

In `BackOffice` two requests of each kind overlap, over two banks, two questions, one
stimulus, one exam, two participants and one schedule: what can be wrong is between two
requests and a row, or a row and the one it refers to. `MaxBegun` counts requests that
change questions (3, and 1 while a package is built), `MaxPuts` structures, `MaxVersion`
versions, `MaxPasswords`, `MaxSecrets` and `MaxLists` the values handed out, `MaxLost` and
`MaxTrouble` what is lost. Three accounts are needed for two administrators who overrule each
other and one who is created. Two sites and two file ids, one of them too large, cover every
pair of uploads.

In `Answering` each question has two or three options, items, rows or areas with a
distractor, and there are questions which `checkConsistency` has to refuse; points and a
penalty that are no multiples of the rounding step make rounding matter. All answers that clicks can reach are covered.

| Run | Question | Result |
|---|---|---|
| `ResultsIngest_register` | Two batches of one participant on two slots, with a crash, a throw, a lost lock and deletions: is the pipeline the abstract register? | holds (`IndInv`, `OneAttemptPerSeat`, `StoredOnlyAdvances`, `ImplementsRegister`) |
| `ResultsIngest_admin` | A snapshot and a final result while an administrator deletes, edits the roster and reprocesses: is anything accepted lost, any batch left alone? | holds (`AcceptedIsKept`, `NoBatchStranded`) |
| `ResultsIngest_faults` | Is a finished attempt always queued for grading or with a job that will run again, do acknowledged batches settle and finished attempts get graded although a worker crashes, a call fails or storage is away? | holds (`FinalWillBeGraded`, `BatchSettles`, `FinalGetsGraded`) |
| `ResultsIngest_sites` | Two sites using the same batch ids and claiming each other's attempts and seats, with a dying request | holds (`StoredIsOneUpload`, `RecordedHasPayload`) |
| `PackagePublish` | Two publish requests, two build slots, edits (one of which makes composition fail), a download, close, one fault, also behind the commit of a build | holds (`TypeOK` with unique versions, `KeysMatchUnlessRebuilt`, `AvailabilityKept`, `ReadyIsFrozen`, `BuildSettles`) |
| `Grading` | One attempt with an automatic and a manual question, two uploads out of three (one of an attempt that goes on), up to two regrades, either of which may correct keys or die half way, marks, a deletion or a crash: do marks survive, grades fit keys, totals fit grades? | holds (`TypeOK`, `GradesFitKeys`, `TotalsAgree`, `ManualSurvives`) |
| `Answering` | Questions of all 15 types, every way to answer them, every scoring: are answers valid and grades right? | holds (`AnswersAreValid`, `FullMarksIffRight`, `ScoreInRange`, `ClearedIsUnanswered`, `KeyIsAnswerable`, `NoUploadLost`, `ProgressPays`) |
| `BackOffice` | Authors, administrators and sites in overlapping and dying requests, and `composePackage` among them: do rows, structures, passwords, files, accounts and packages stay sound? | holds (`BackOfficeTypeOK`, `VersionsUnlessRaced`, `StimulusOfBank`, `OnePutUnlessMixed`, `StructureSound`, `CardOpens`, `ClosedStaysClosed`, `UploadsKept`, `PackageIsStructure`, `PackageIsClosed`, `AdminRemains`, `FileGetsThrough`, `LogGetsThrough`) |
| `Grading_deadlock` | Can grading and marking wait for each other? | violated, finding |
| `ResultsIngest_lost` | Does resending help when the API died between row and job? | violated, finding |
| `PackagePublish_rebuilt` | Do keys match downloads although a build job runs twice? | violated, finding |
| `BackOffice_structure` | Is the structure of an exam always that of one request? | violated, finding |

`Grading` takes two uploads with one request to grade again, or one with two (`Bounded`): a
correction meets the answers an upload changes, and two corrections meet one another. A fault, the
death of a request among them, is one per behaviour. `MaxTries` is 1 there: a job that PostgreSQL
aborts is not retried. What a retry after a rollback does is covered by `crash-grading`, which
rolls back as well and brings the job back through the stalled check. Slots and callers are
symmetric, and no liveness is checked in that run.

Deadlock is checked in the runs of the two pipelines: a site may resend at any time in
`ResultsIngest`, and the device of `PackagePublish` may download or edits and jobs remain,
wherever these runs end. It is not in `Grading`, `Answering` and `BackOffice`, where everything may be
done: uploads, regrades, edits and requests are bounded, and people may stop whenever they like.

**Fairness** (only for the liveness properties). `FairSpec` of the pipelines: weak fairness of
each request that has started, of each worker slot (it takes waiting jobs and runs
what it took), of the stalled-job check and, in `ResultsIngest`, of the grading
worker. Justification: event loops continue what they awaited, `startWorkers`
polls its queues for ever and BullMQ runs the stalled check periodically. Nothing
is owed by sites, administrators or faults; edits of the bank are bounded, so
weak fairness of a build cannot be defeated by them.
`StorageFairness`: the API goes on with the uploads it has (`UploadStep`), and a site that was
not told goes on sending a file it began to send, which is what the protocol asks of it; it
owes no first sending. `AccessFairness`: a site without a token logs in, and one with entries
it was not told of sends them. Losses are bounded; rotation of the secret, deactivation and
deletion are not answered by fairness, and `LogGetsThrough` excuses a site that may not log in.

### 3.1 Findings

- `sync.ts:306` The batch row is written before its job. When the request dies in
  between, a resend finds the row and queues nothing: the batch stays `received`
  although the protocol says resending is the remedy.
- `results.ts:349` Marking an answer locks the answer, then its attempt; grading locks
  the attempt, then its answers. Both on one answer deadlock: the grader's request or
  the job is aborted.
- `package-builder.ts:43` A build job that runs twice rebuilds a version that was
  superseded in between, or is being built, from the bank of that moment and
  replaces the object and the answer keys of a version that was downloaded.
- `exams.ts:181` Two requests that replace the structure of one exam: the deletion of the
  second does not see what the first inserts, and the sections of both are left, although
  the route says it replaces the structure atomically.

### 3.2 Known limits of the promises

These follow from the code and lie outside the bounds of the passing runs, or a history variable
excuses them. They are not reported as findings; where a document words a promise more widely than
the code keeps it, its line is named.

**Ingest and publishing**

- Two batches of one new attempt: the second finds the row that the first has just committed
  and is refused because of "another" attempt, its own (`results-ingest.ts:93`), though its
  sequence may be the larger, which `docs/sinkronisasi.md:224` says the server stores; the site
  sends later uploads in new batches.
- A build supersedes any other ready version, also a newer one, when two builds finish in the
  other order (`package-builder.ts:56`).
- A crash, an edit of the roster and the retry together can leave a final attempt ungraded: the
  retry comes to another verdict and does not queue it. So can a crash and a storage error on
  the retry, or errors that use up its tries (`GivenUp`). `docs/sinkronisasi.md:226` says of
  grading only that final statuses are graded.
- Who loses the insert race for a batch id is answered 200 with the row of the winner,
  also if that is another site, for which a later request gets 409 (`InsertBatch`);
  `docs/sinkronisasi.md:281` has 409 for any id another site uses.
- After the last try, or the second stall, the batch stays `processing` without an
  error (`NoBatchStranded` counts a failed job as dealt with).
- A storage error while the payload is read is caught like an unreadable payload:
  the batch is `failed` and the job is not retried (`BatchSettles` accepts it; an
  administrator can reprocess).
- A run that lost its lock can move a processed batch back to `processing`, and
  finishes it later.
- A batch that is reprocessed while it runs has two runs. The one that loses the insert of one
  attempt (`InsertConflict`) forgets the others it was to queue; when the other run has
  finished the batch, its retry skips it, and a final attempt stays ungraded. Two runs because
  of a lost lock and a failing call do the same. Hence `FinalWillBeGraded` is checked and proved without these.
- A build that runs twice can mark a version `failed` that its other run has made ready, so that
  no version is ready (`AvailabilityKept`, `ReadyIsFrozen` are proved without `stall`).
- Two builds that run together can leave two ready versions; sites get the newest.
- A publish that passed the check of the status reopens a schedule closed in
  between (`CheckNotClosed`, `CloseSchedule`, `InsertVersion`).
- A regrade request that dies after it wrote the keys or reset the grades leaves old grades, or
  answers pending and totals as they were, until someone asks again (`results.ts:246`): the
  attempts in `stranded`, which `GradesFitKeys` and `TotalsAgree` leave out. With two
  requests that refresh keys, the one that read the bank first may write last; the grades
  then fit those older keys.
- POST `/regrade` passes over attempts that are not finished (`results.ts:241`). One of them that
  POST `/attempts/:id/regrade` had had graded keeps grades of the old keys, also after it is
  finished, since an upload resets only the answers it changes (`missed`).
- A crash between the commit of a version and its job leaves it `building`;
  `BuildSettles` speaks of versions whose build was queued.

**Grading engine and questions**

- Matrix rows without a key count right when left blank; a hotspot with more regions than
  `maxSelections`, or a multiple choice with more keys than `max`, is accepted and cannot be
  answered in full (`KeyIsAnswerable` leaves both out). Nor can a blank whose only accepted text consists
  of spaces, which is right but counts as unanswered, and two blanks whose keys are the same word of a bank
  of which each may be used once.
- A categorization without a mapping and a matrix with an empty key are valid: the right answer is
  to leave them blank, which counts as unanswered, so that they give no points.
- A matrix key may list one column twice (`types.ts:562` looks for unknown columns only). The grader compares
  lengths, so that no answer is right in that row (`KeyIsSet`).
- In hotspots with overlapping regions the score may depend on the order of the clicks.
- Weights of options and texts give nothing in `all_or_nothing`, whereas `docs/jenis-soal.md:46`
  says, without naming a mode, that the score is weight times points; penalties are subtracted there
  for any answer that is not exact, which `docs/jenis-soal.md:20` words more narrowly.
- "1.234" is read as 1.234 while "1.234.567" is not a number. Texts over the limit of the
  response schema are graded as invalid. Points that are no multiple of 0.0001 are rounded,
  perhaps upwards.
- Two dialogues of one file question, or a removal while a dialogue uploads, overwrite each
  other's list; an upload that fails takes the earlier ones of its dialogue with it
  (`overlap` and the condition of `NoUploadLost`).

**Back office**

- PATCH of a question does not look whether it was changed since it was read: two of them give
  one version two definitions, and a PATCH of the status writes back what it read (`raced`). A
  definition that differs in the order of its JSON keys counts as changed.
- An import does not look at the bank of a stimulus (`unchecked`); deleting an asset does not ask
  who uses it.
- PATCH of a schedule checks its times against the row it read: two of them can leave a start behind
  the end. A publish that began before a close undoes it (`shut`).
- An import that finds an account and is not to update it hands out a password that is not set.
  A request that ends between its commit and its answer, a reset of which one update fails
  while the others go on, and two requests at a time leave cards that do not open, until a request
  alone sets the password (`doubtful`).
- Two sites that send one attachment id at a time: the second is answered 201 although the row is the
  other's (`clashed`), where `docs/sinkronisasi.md:281` has 409. A crash leaves objects without rows.
- A token goes on working after its account was demoted, deactivated or deleted: with it
  the last administrator can be removed (`overruled`).
- Two lists of proctors stored at a time leave a mixture (`blended`). `docs/sinkronisasi.md:106` says
  the list a site fetches holds users of role proctor or admin; the query filters by `active` only, so
  that a proctor who became an author stays on it.

## 4. Proofs

The theorems hold for every number of sites, batches, attempts, slots, requests and
questions, every payload, every bound and, unless a hypothesis says otherwise, every set of
faults and administrator actions. Every invariant that is used was first checked by
TLC on small instances of its run; `IndInv` of ingest still is (`ResultsIngest_register`).

| Module | Theorem | States |
|---|---|---|
| `ResultsIngestProofs` | `TypeCorrect` | `Spec => []TypeOK` |
| | `Invariance` | `Spec => []IndInv` |
| | `AcceptedStaysKept` | `Spec => []AcceptedIsKept` |
| | `ResultsOnlyAdvance` | `Spec => StoredOnlyAdvances` |
| | `SeatsAreUnique` | `Spec => []OneAttemptPerSeat` |
| `IngestRefinementProofs` | `PayloadsAreArchived` | `Spec => []RecordedHasPayload` |
| | `AttemptsAreUploads` | `Spec => []StoredIsOneUpload` |
| | `IngestImplementsRegister` | `Spec => ImplementsRegister` |
| `IngestDeliveryProofs` | `BatchesAreNotForgotten` | `Spec => []NoBatchStranded`, without `crash-http` and `stall` |
| | `FinalAttemptsMissOnlyIfGivenUp` | each ungraded final attempt is `OnItsWay` or `GivenUp`, without `stall`, `reprocess` and `roster` |
| | `FinalAttemptsReachGrader` | `[]FinalWillBeGraded` as long as no batch is `failed` and no job has used up its tries, without the same |
| `PackagePublishProofs` | `VersionsAreUnique` | `Spec => []TypeOK` |
| | `KeysMatchDownloads` | `Spec => []KeysMatchUnlessRebuilt` |
| | `SomeVersionStaysReady` | `Spec => AvailabilityKept`, without `stall` |
| | `ReadyVersionsAreFrozen` | `Spec => ReadyIsFrozen`, without `stall` |
| `GradingProofs` | `RowsAreTyped` | `Spec => []TypeOK` |
| | `MarksSurvive` | `Spec => ManualSurvives` |
| | `GradesAreCurrent` | `Spec => []GradesFitKeys` |
| | `TotalsAreCurrent` | `Spec => []TotalsAgree` |
| `AccountsAndFilesProofs` | `AdministratorRemains` | `AccessSpec => []AdminRemains` |
| | `ProctorsAreOneList` | `AccessSpec => []AccessTypeOK` |
| | `UploadsAreKept` | `StorageSpec => []UploadsKept` |
| `BackOfficeProofs` | `CardsOpen` | `RosterSpec => []CardOpens` |
| | `ClosedSessionsStayClosed` | `RosterSpec => []ClosedStaysClosed` |
| | `VersionsNameOneDefinition` | `AuthoringSpec => []VersionsUnlessRaced` |
| | `StimuliAreOfTheirBank` | `AuthoringSpec => []StimulusOfBank` |
| | `StructuresAreOnePut` | `AuthoringSpec => []OnePutUnlessMixed` |
| | `StructuresStaySound` | `AuthoringSpec => []StructureSound` |
| | `OfficeIsItsParts` | `BackOfficeSpec => AuthoringSpec /\ RosterSpec` |
| | `PackagesAreStructures` | `BackOfficeSpec => []PackageIsStructure` |
| | `PackagesAreClosed` | `BackOfficeSpec => []PackageIsClosed` |
| | `TablesStaySound` | `BackOfficeSpec /\ AccessSpec => []BackOfficeTypeOK` |
| `AnsweringProofs` | `AnswersAreWellFormed` | `Spec => []AnswersAreValid` |
| | `FilesAreKept` | `Spec => []NoUploadLost` |
| | `ClearedIsNone` | `Spec => []ClearedIsUnanswered` |
| | `ScoresStayInRange` | `Spec => []ScoreInRange` |
| | `ProgressIsPaid` | `Spec => ProgressPays` |
| | `FullMarksForTheKey` | `Spec => []FullMarksIffRight` |
| | `KeysAreAnswerable` | `Spec => []KeyIsAnswerable` |

Assumptions. Each module assumes what its `ConstantsAssumption` and `NoneAssumption` say:
bounds are natural numbers (tries at least one), faults are of the known kinds, inputs have
their shape, and `None` is not a value of another kind. `IngestRefinement` adds that `None` is no entry of
the register, `Access` that accounts and sites have different ids and that `None` is no row of theirs nor of the log, `Storage` the shape of media
and outposts, `Roster` and `Authoring` that `None` is no row and that bodies have the fields their
schemas let through (`RosterAssumption`, `AuthoringAssumption`). `Answering` assumes that the fields
its schemas declare as lists and numbers are lists and numbers (`DefinitionAssumption`,
`ScoringAssumption`), which says nothing of what is in them: sizes, unique ids and keys that fit the
content are what `QuestionDefinition` asks for, and the proofs take them from there; that `Null` is
no answer, no number and no truth value, nor an id in a list, and that ids are not blank (`NullAssumption`,
`FullAssumption`, `IsList`); and
that the table `Reading`, which says what typed numbers mean, agrees with `parseNumericInput` on the texts of
the instance (`ReadingAssumption`: TLC compares them, since what a fold over characters
computes cannot be proved here). No assumption restricts what the program does; where a promise is
kept only without some fault, the theorem has it as a hypothesis, and 4.2 and 4.3 say
what happens with it.

### 4.1 Ingest: `ResultsIngestProofs`, `IngestRefinementProofs`

`AcceptedIsKept` is not inductive: that what a batch shows is kept rests on what its
run has collected before the batch showed it, and that on the row compared with
being the row overwritten. `IndInv` says just this:

1. requests and jobs refer to recorded batches (`RequestInOrder`, `JobsHaveBatch`),
   so that a run's payload is defined and does not change;
2. a run has one verdict for each upload it is done with (`RunInOrder`), and a
   batch none or all of them (`OutcomesFit`);
3. what a run has accepted so far is kept (`RunKept`): the local, not yet visible
   half of `AcceptedIsKept`, which `FinishBatch` turns into the visible half;
4. a run about to overwrite an attempt holds its lock (`LockIsExclusive`), and the
   row is of the same seat and not newer than the upload (`LockedRowIsOlder`): the
   only step that could lower a sequence cannot.

`Kept` itself is preserved by every step because attempts change in three ways
only: an insert where there was nothing, an overwrite under 4, and a deletion,
which is recorded. `ResultsOnlyAdvance` follows from 4; `SeatsAreUnique` needs
only that an insert finds the seat free and that an overwrite keeps it. The proof
has one step per action; actions that leave attempts, batches and runs alone are
settled by a lemma each.

`PayloadsAreArchived` adds that a request about to record a batch has put its payload
(the object comes first, and no step removes objects). `AttemptsAreUploads` adds
what a run has checked of the upload it is at: package, site and, from there to the write,
its place in the payload (`CheckedUpload`); what is stored is then that upload.

`IngestImplementsRegister` maps every step to one of the register (`StepRefines`): a write of
an attempt is `Store` of an upload that was sent, a deletion `Delete`, the end of a batch
`Report` of uploads that are kept, and every other step a stutter, grading included, since the
register holds seats and sequences only.

### 4.2 Ingest: `IngestDeliveryProofs`

`BatchesAreNotForgotten`. The invariant says that the slot which executes a job owns it
(`RunOwnsJob`), that the ids of jobs are numbered by the requests that queue them and a
request about to queue one is alone with a new id (`RequestIsFresh`), and that a batch
`received` or `processing` has a request or a job, waiting, active or failed (`HasJob`). Crashes of
workers, failing calls, storage outages, deletions and reprocessing are all
included. `crash-http` is excluded since it is finding `sync.ts:306`; with `stall` a slow run
can move a processed batch back to `processing` and then die, its job completed.

`FinalAttemptsMissOnlyIfGivenUp`, `FinalAttemptsReachGrader`. The faults of the theorems are unbounded, and
some sequences of them leave a final attempt to nobody: after a crash behind its commit, a storage error
makes the retry mark the batch `failed`, or errors use up the tries of the job. The first theorem
says that nothing else does, attempt by attempt (`GivenUp` is about the batch the attempt was stored
from); the second that while none of that shows, `FinalWillBeGraded` holds as the run checks it, whose single
fault cannot bring it about. "The batch that holds it has a job left" is not inductive: the
run that has the batch may be past the upload already. The invariant says *where* the attempt
will be queued (`Carries`): some upload of an unprocessed batch is what the row holds, the job of
the batch is not completed unless the batch is marked failed (`JobLeft`), and each
run of the batch is either still ahead of it or has the attempt in its list. A run that dies is
replaced by one that starts from the first upload and finds the row at the same sequence, which it
stores again; an overwrite by a newer upload moves the duty to the batch of that one. The hypotheses are what
this needs: with `roster` the retry refuses the upload, with `reprocess` or `stall` another
run of the batch may mark it processed. Section 3.2 tells these behaviours; TLC finds each.

### 4.3 Publishing: `PackagePublishProofs`

`VersionsAreUnique`. That versions differ rests on `max(version) + 1` being read under the lock of the
schedule. The invariant says more than that, because an id for the row has to be left as well:
versions are 1 to the number of packages without a gap, at most one request has read the maximum and
not inserted yet, and it holds the next number (`VersionsInOrder`). `IndInv` adds that
rows with content have their object (`ContentHasObject`), the local order of a build
(`RunInOrder`) and that no row is locked by two builds.

`KeysMatchDownloads`. For a version that is not in `rebuilt`, `Sealed`: it has one build, no
build that could still write once it is published, object and keys of one edition, and the same edition in
every download, half done or done. The hard step is the start of a second build, which is
what puts a version into `rebuilt`.

`SomeVersionStaysReady`, `ReadyVersionsAreFrozen`. The slot that builds a version owns its job and
the version is not ready (`BuildIsOwned`). So a step that takes a version out of `ready`
is the commit that makes another one ready, and no step writes the object or the
content of a ready version. With `stall` neither holds (3.2).

### 4.4 Grading: `GradingProofs`

`IndInv` has the ownership of jobs, the exclusive lock of an attempt from the read of its
answers to the commit (`LocksAreExclusive`), that the jobs of a request are new when it adds
them (`CallOK`, `NumbersFresh`), and that every automatic grade is what the engine computes
from the response and the edition it names (`RowsOK`). From it:

- `MarksSurvive`: what a run is about to write was not marked when it read it, and until the commit no
  grader and no upload gets at the attempt.
- `GradesAreCurrent`, `TotalsAreCurrent`: that everything is right once nothing is under way says
  nothing of the steps before. The invariant is the promise in between, a *witness* for
  everything that is not right yet (`DueInvariance`): each answer of a finished attempt without a grade has a
  request about to queue the attempt, or an open job whose run, if there is one, has not
  passed over it (`UngradedIsDue`); each grade of old keys has a regrade request between the
  refresh and the queueing of its jobs, or an open job with `force` that has the present
  keys (`OutdatedIsDue`); stale totals have a request or an open job that is not done
  (`TotalsAreDue`). With nothing under way there are no witnesses (`SettledOwesNothing`).
  The hard steps are commits of runs that read before an upload, a mark or a correction of the
  keys came: an upload of a new response waits for the lock and queues after it, a
  correction resets after the keys are written, so a run that read the old ones is
  followed by one that did not. Nobody owes anything to attempts in `stranded`; the request that
  takes one out of it queues it in the same step (`Unstranded`), and the one that dies puts all
  it owed into it (`DeathStrands`).

The second invariant fails where a bulk regrade passes over an attempt that was graded but is not
finished: that is how `missed` came into the model (3.2). In the proof a `failed` job counts as
open, since the property does too.

### 4.5 Accounts and files: `AccountsAndFilesProofs`

`AdministratorRemains`. The invariant adds the types of accounts and that an id still unused has no account
(`UnusedAreFree`): a step either removes or changes somebody else than its actor, who is an
administrator after it as before it, or the actor was overruled, which is remembered.

`ProctorsAreOneList`. A PUT that has deleted has seen every duty of its site, unless another list was
stored since (`ClerkOK`); so either it leaves nothing beside its own rows, or the site is `blended`, and
then the unique key keeps names from being twice on it (`ListWritten`). Accounts and sites go with
the duties that refer to them, and the foreign keys fail a PUT that comes after (`DutiesLeft`,
`RowsRefer`). TLC checked the invariant (`PlacesInv`) on the instance of `BackOffice` before it was proved.

`UploadsAreKept`. That rows have their objects rests on three facts of requests: what is
about to be inserted has its object, and is not cut off (`UploadsInOrder`); an asset has one
request at a time and none while it has a row (`MediaOnce`); only media are deleted
(`DeletesMedia`). Hence nobody relies on an object that a request writes over or removes
(`NobodyRelies`). What a site was told is kept because an attachment never changes its site
once it has one, and two senders of one id are known to have clashed before either is told
(`SendersSeen`).

### 4.6 The back office: `BackOfficeProofs`

**Roster.** `CardsOpen` follows a password from the request that makes it to the card that is
told. The invariant says that at most one request at a time holds passwords of a participant who is not
`doubtful` (`OneHand`); that a request which has committed a password still has that one to tell
(`TellOK`); and that cards told earlier fit what is stored, unless a request has yet to tell
(`CardFits`). A second request that takes up a password, one that ends between writing and telling, and
an update that fails make the participant doubtful first; a request that takes up the password alone
ends the doubt, since nobody else is left who could write another one. What one step may do to one participant is
listed once (`PersonStep`), and each part of the invariant is proved from that list.
`ClosedSessionsStayClosed` needs that a schedule in `shut` is closed and no publish under
way has read it as open (`ShutStays`).

**Banks** (`BankInv`). A stimulus that was once found in the bank of a row is still in it, or gone for good,
for rows and for what requests hold (`Bound`): stimuli do not change banks and ids are never used
again. An unraced question has the newest of the versions that were ever stored (`QuestionOK`).
The hard step is the PATCH: if it finds the row as it read it, it raises the version or
leaves the definition alone (`RowRewritten`); if not, the question is `raced` from there on.

**Exams** (`ExamInv`). The rows that a PUT deletes are all that there are, unless another PUT committed since
it began (`ReplaceOK`), which makes the exam `mixed`; what one PUT wrote is there as a whole or
not at all (`AllOrNone`, `WholeOK`); questions in use cannot be deleted (`UsedStay`). From this both
`StructuresAreOnePut` and `StructuresStaySound`.

**Packages** (`BuildOK`). A build has read the sections of a structure that was written
(`SectionsRead`). By `AllOrNone` its second read, of their questions, returns the rest of the same
structure or nothing, however often the structure was replaced in between. The stimuli that questions refer to
are read after them and found or deleted since (`StimuliRead`), media last (`AssetsRead`).
`OfficeIsItsParts` carries the results about authors and roster over to `BackOfficeSpec`, where they are used.

`BankInv`, `ExamInv` and `BuildOK` were checked by TLC on the instance of `BackOffice` before
they were proved.

**All tables.** `TablesStaySound` adds up what these invariants and that of 4.5 say of rows and of what they
refer to; composition writes none of them (`OfficeIsItsParts`), and the accounts have no table in common
with the rest.

### 4.7 Answers and grades: `AnsweringProofs`

**Answers** (`AnswerInv`). An answer has the fields of its type, each selection is a list without
doubles of parts of the question and within its limits, and an ordering holds every item once. Each
component puts the whole answer together anew, so that this is one lemma per component. What
`InOrder` makes of a list needs induction over the list, which is had without operator
parameters: `Least` takes the well-foundedness of the numbers, a statement about sets, to the
least element of a set; `Upwards` is induction over a set from it, and `Recursion` the existence of a
function that is defined step by step. From `AnswerInv`, `AnswersAreWellFormed` and `ClearedIsNone`:
an answer of which no fact is left is empty for `isEmptyResponse`, whatever entries it still has.

**Files** (`FilesInv`). While no two changes overlap, every upload is in the answer, in the dialogue that is
open, or was taken out; a dialogue keeps the files that were there when it began (`PicksOK`).

**Scores.** Each grader finds a part `num / den` with `den` positive, and an exact answer has all of it
(`PartOK`, `GradersFind`, one case per type). Hotspots and blanks need the induction above,
categorization that an empty answer was sorted out before. `GradedFits` then says of any such part
that mode, penalty and floor keep it in range, since rounding is monotone
whatever the denominators (`RoundIsMonotone`). Marks by rubric add up to
no more than the rubric does (`TotalsCompare`). The proof found what the property now says
of rubrics: one without points, which is valid, gives 0 whatever the grader enters.

**Right and better.** The reference for grading are sets of facts, which no grader computes. `Decides` says
that the part of an answer is exact if and only if its facts are the facts of the key, `Grows` that an answer
with more of the key's facts and no other new ones has no smaller part. `FactsDecide` shows both, type by
type: selections are sets (`SelectionDecides`); true/false lists, orderings, pairs and
categories are maps, of which one lemma compares the graphs (`MapsDecide`), so that each of
them only has to be recognised as one (`MapGrade`); a grid is compared row by row
(`MatrixDecides`). Since marks never fall with a part (`GradedGrows`, by `RoundIsMonotone`), this gives
`ProgressIsPaid`, in both modes and whatever the clicks between, and, as an exact part is worth all
the points (`ExactIsAll`), `FullMarksForTheKey`. For hotspots the invariant of the
loop over the points says that the areas hit are those in which one of the points so far lies, and that
hits and misses add up to the number of points (`HotspotDecides`); it needs areas that do not overlap.
Numbers are accepted if what they mean is (`NumbersDecide`). The proof found the matrix key with a doubled
column (3.2), which no instance had; TLC has it since.

**Answerable.** `Full` puts together, from what is on display, what the key asks for. `FactsFull` shows, type
by type, that it is an answer the component could have made and that its facts are those of the key, which
is where `checkConsistency` is needed: keys among the options, selectable segments, pairs of offered items, an
order of all the items. With `FactsDecide` it is exact, also where it is empty (`FullIsExact`). Blanks are
added up instead (`TotalOfWhole`). This is `KeysAreAnswerable`; its proof found the text of spaces (3.2).

TLC checked `AnswerInv` and `FilesInv` on the instance of `Answering` before they were proved.

### 4.8 Only model-checked

- That `parseNumericInput` reads typed numbers as they are meant (`ReadingAssumption`), for the texts
  of the instance.
- Liveness (`BatchSettles`, `FinalGetsGraded`, `BuildSettles`, `FileGetsThrough`,
  `LogGetsThrough`), as TLAPS does not handle fairness. The proofs of 4.2 are its safe part: there
  is always somebody whose turn it is.
- The findings, of course.

## 5. Not modelled

- `PackagePublish` has one schedule; there composition is one read of an edition, and its single
  reads are in `PackageContents`. The access token, conditional download (`If-None-Match`) and the 404
  answers, which change nothing, are left out.
- In `ResultsIngest` grading is the removal of `pending`, and answers are one value per
  attempt; `Grading` has the answers, without sequences and batches, and `GradeEngine` the scores.
  Skipped questions of a key correction and questions without a key are left out of `Grading`.
- Passwords of users (`/login`, `/change-password`), rate limits, heartbeats and the time a site was
  last seen, which is only displayed. That a site with schedules or results cannot be deleted.
- The limit of size in `FileUpload`, which passes over a file that is too large
  (`QuestionView.tsx:639`) and goes on with the next: nothing changes.
- Titles, codes, tags, settings, texts; unique codes and numbers. Regular expressions are given
  by what they find.
- Validation of request bodies but for questions and responses, listings, exports, the dashboard and
  the audit log change no state that the models speak of.
- The admin panel keeps no state the server relies on; `app.ts`, `index.ts`, `config.ts` only wire;
  `db/migrate.ts` and `db/seed.ts` are one-off scripts (the administrator the seed creates is the
  initial state of `Access`).

## 6. Plan

Done: the pipelines of results, packages and grading; the grading engine with the renderer; the
back office with composition, storage and access; the proofs about ingest and its refinement,
publishing, grading, storage, accounts, the back office, and answers and their scores. Every
safety invariant and action property of the passing runs is a theorem. Left is detail of the
model: a correction of keys over several packages, one question of which it skips, and grading of
several attempts of one job queue with retries of jobs that PostgreSQL aborts in the same run.

## 7. How to run

    tlc -config ResultsIngest_register.cfg MCResultsIngest
    tlc -config PackagePublish.cfg PackagePublish
    tlc -config Grading.cfg MCGrading
    tlc -config Answering.cfg MCAnswering
    tlc -workers 2 -config BackOffice.cfg MCBackOffice
    tlapm ResultsIngestProofs.tla
    tlapm IngestRefinementProofs.tla
    tlapm IngestDeliveryProofs.tla
    tlapm PackagePublishProofs.tla
    tlapm GradingProofs.tla
    tlapm AccountsAndFilesProofs.tla
    tlapm BackOfficeProofs.tla
    tlapm AnsweringProofs.tla

`PROJECT.json` names the module, configuration and properties of every run, the
source lines behind every definition (`map`), and for every checked property a
mutated definition (the operators commented "Mutant") with which TLC must find it
violated.
