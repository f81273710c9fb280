---------------------------- MODULE PackagePublish ----------------------------
(***************************************************************************)
(* How an exam package is published and built, for one schedule.           *)
(*                                                                         *)
(*  - POST /schedules/:id/publish (modules/schedules.ts) numbers a new     *)
(*    version under the lock of the schedule row and queues its build;     *)
(*  - the build worker (services/package-builder.ts) composes the package  *)
(*    from the question bank, archives it, and makes it the ready version  *)
(*    in one transaction;                                                  *)
(*  - a site downloads the newest ready version (modules/sync.ts).         *)
(*                                                                         *)
(* The database is PostgreSQL at READ COMMITTED: an UPDATE picks its rows  *)
(* in the snapshot of its start, then waits for their locks and skips the  *)
(* rows that do not match any more.  What composePackage reads is one      *)
(* number, the edition of the bank, participants and assets.               *)
(***************************************************************************)
EXTENDS Naturals, FiniteSets, FiniteSetsExt

CONSTANTS Package,     \* ids of the versions that may be published
          Worker,      \* build slots (concurrency 2)
          Http,        \* concurrent requests to publish
          Device,      \* devices of the site that download
          None,        \* the absent value
          MaxTries, MaxStalls,
          MaxEdits,    \* bound: changes of the bank
          Incomplete,  \* editions that composePackage refuses
          MaxFaults,   \* bound: faults in a behaviour
          Environment  \* the faults that occur

Edition == 0..MaxEdits
ScheduleStatus == {"draft", "published", "closed"}
PackageStatus == {"building", "ready", "failed", "superseded"}

\* exam_packages.  content: the edition that the checksum and the answer keys are of.
PackageRow == [version : 1..Cardinality(Package), status : PackageStatus,
               content : Edition \cup {None}]

EnvironmentKinds == {"crash-http", "crash-building", "crash-committed", "throw", "stall", "close"}

ASSUME ConstantsAssumption ==
  /\ IsFiniteSet(Package) /\ IsFiniteSet(Http)
  /\ MaxTries \in Nat \ {0}
  /\ MaxStalls \in Nat
  /\ MaxEdits \in Nat
  /\ Incomplete \subseteq Edition
  /\ MaxFaults \in Nat
  /\ Environment \subseteq EnvironmentKinds

ASSUME NoneAssumption ==
  /\ None \notin Package
  /\ None \notin Worker
  /\ None \notin Edition
  /\ None \notin PackageRow
  /\ None \notin [package : Package, checksum : Edition]

VARIABLES
  schedule,   \* schedules.status
  packages,   \* exam_packages
  objects,    \* packages in object storage
  bank,       \* the edition that would be composed now
  jobs,       \* the package-build queue
  run,        \* [Worker -> local state of buildPackage]
  http,       \* [Http -> publish request in progress]
  fetching,   \* [Device -> the row whose object it is about to fetch]
  downloads,  \* what devices received
  rebuilt,    \* history: versions whose build began again after they were superseded, or
              \* while another run of it went on
  faults

vars == <<schedule, packages, objects, bank, jobs, run, http, fetching, downloads, rebuilt, faults>>

Queue == INSTANCE JobQueue WITH JobId <- Package

IdleRun == [pc |-> "idle", job |-> None, content |-> None, older |-> {}]
IdleRequest == [pc |-> "idle", version |-> 0, job |-> None]

Exists(p) == packages[p] # None
HasStatus(p, status) == Exists(p) /\ packages[p].status = status
Ready == {p \in Package : HasStatus(p, "ready")}
Versions == {packages[p].version : p \in {q \in Package : Exists(q)}}
\* Rows locked by the transaction of w: the versions it supersedes.
LockedBy(w) == IF run[w].pc = "ready" THEN run[w].older ELSE {}
LockedFor(w, rows) == \E v \in Worker \ {w} : LockedBy(v) \cap rows # {}
Alive(p) == \E w \in Worker : Queue!Owns(w, p) /\ run[w].job = p

Init ==
  /\ schedule = "draft"
  /\ packages = [p \in Package |-> None]
  /\ objects = [p \in Package |-> None]
  /\ bank = 0
  /\ Queue!Init
  /\ run = [w \in Worker |-> IdleRun]
  /\ http = [h \in Http |-> IdleRequest]
  /\ fetching = [d \in Device |-> None]
  /\ downloads = {}
  /\ rebuilt = {}
  /\ faults = 0

Fault(kind) ==
  /\ kind \in Environment
  /\ faults < MaxFaults
  /\ faults' = faults + 1

siteVars == <<fetching, downloads, rebuilt>>
-----------------------------------------------------------------------------
(* Publishing.                                                             *)

\* Bound: no more requests than ids that are left for a version.
IdLeft ==
  Cardinality({h \in Http : http[h].pc \in {"begin", "insert"}})
    < Cardinality({p \in Package : ~Exists(p)})

CheckNotClosed(h) ==
  /\ http[h] = IdleRequest
  /\ schedule # "closed"
  /\ IdLeft
  /\ http' = [http EXCEPT ![h].pc = "begin"]
  /\ UNCHANGED <<schedule, packages, objects, bank, jobs, run, siteVars, faults>>

ScheduleLocked == \E h \in Http : http[h].pc = "insert"

\* Mutant: the schedule row is not locked.
NextVersion_NoLock(h) ==
  /\ http[h].pc = "begin"
  /\ http' = [http EXCEPT ![h].pc = "insert", ![h].version = Max(Versions \cup {0}) + 1]
  /\ UNCHANGED <<schedule, packages, objects, bank, jobs, run, siteVars, faults>>

\* SELECT ... FOR UPDATE of the schedule, then the next version number.
NextVersion(h) ==
  /\ http[h].pc = "begin"
  /\ ~ScheduleLocked
  /\ http' = [http EXCEPT ![h].pc = "insert", ![h].version = Max(Versions \cup {0}) + 1]
  /\ UNCHANGED <<schedule, packages, objects, bank, jobs, run, siteVars, faults>>

\* The rest of the transaction; the status of the schedule is not looked at again.
InsertVersion(h) ==
  /\ http[h].pc = "insert"
  /\ \E p \in Package :
       /\ ~Exists(p)
       /\ packages' = [packages EXCEPT ![p] =
            [version |-> http[h].version, status |-> "building", content |-> None]]
       /\ http' = [http EXCEPT ![h].pc = "enqueue", ![h].job = p]
  /\ schedule' = "published"
  /\ UNCHANGED <<objects, bank, jobs, run, siteVars, faults>>

EnqueueBuild(h) ==
  /\ http[h].pc = "enqueue"
  /\ Queue!Add(http[h].job)
  /\ http' = [http EXCEPT ![h] = IdleRequest]
  /\ UNCHANGED <<schedule, packages, objects, bank, run, siteVars, faults>>

HttpFails(h) ==
  /\ http[h].pc # "idle"
  /\ Fault("crash-http")
  /\ http' = [http EXCEPT ![h] = IdleRequest]
  /\ UNCHANGED <<schedule, packages, objects, bank, jobs, run, siteVars>>

CloseSchedule ==
  /\ "close" \in Environment
  /\ ~ScheduleLocked
  /\ schedule' = "closed"
  /\ UNCHANGED <<packages, objects, bank, jobs, run, http, siteVars, faults>>

\* Authors change questions, administrators the roster.
EditBank ==
  /\ bank < MaxEdits
  /\ bank' = bank + 1
  /\ UNCHANGED <<schedule, packages, objects, jobs, run, http, siteVars, faults>>
-----------------------------------------------------------------------------
(* buildPackage.                                                           *)

\* A job whose package is ready already has nothing to do.
SkipReady(w, p) ==
  /\ run[w] = IdleRun
  /\ jobs[p].state = "waiting"
  /\ HasStatus(p, "ready")
  /\ jobs' = [jobs EXCEPT ![p].state = "completed"]
  /\ UNCHANGED <<schedule, packages, objects, bank, run, http, siteVars, faults>>

BuiltAgain(p) ==
  IF HasStatus(p, "superseded") \/ \E w \in Worker : run[w].job = p THEN {p} ELSE {}

\* Mutant: a ready version is built again.
StartBuild_Again(w, p) ==
  /\ run[w] = IdleRun
  /\ Exists(p)
  /\ Queue!Take(w, p)
  /\ run' = [run EXCEPT ![w].pc = "compose", ![w].job = p]
  /\ rebuilt' = rebuilt \cup BuiltAgain(p)
  /\ UNCHANGED <<schedule, packages, objects, bank, http, fetching, downloads, faults>>

StartBuild(w, p) ==
  /\ run[w] = IdleRun
  /\ Exists(p) /\ packages[p].status # "ready"
  /\ Queue!Take(w, p)
  /\ run' = [run EXCEPT ![w].pc = "compose", ![w].job = p]
  /\ rebuilt' = rebuilt \cup BuiltAgain(p)
  /\ UNCHANGED <<schedule, packages, objects, bank, http, fetching, downloads, faults>>

\* Where the run of w ends: the processor returned, or threw.
EndRun(w) == run' = [run EXCEPT ![w] = IdleRun]

Compose(w) ==
  /\ run[w].pc = "compose"
  /\ bank \notin Incomplete
  /\ run' = [run EXCEPT ![w].pc = "put", ![w].content = bank]
  /\ UNCHANGED <<schedule, packages, objects, bank, jobs, http, siteVars, faults>>

\* Mutant: the error is swallowed.
ComposeFails_NoStatus(w) ==
  /\ run[w].pc = "compose"
  /\ bank \in Incomplete
  /\ Queue!Complete(w, run[w].job)
  /\ EndRun(w)
  /\ UNCHANGED <<schedule, packages, objects, bank, http, siteVars, faults>>

\* PackageBuildError: recorded, and not retried.
ComposeFails(w) ==
  /\ run[w].pc = "compose"
  /\ bank \in Incomplete
  /\ ~LockedFor(w, {run[w].job})
  /\ packages' = [packages EXCEPT ![run[w].job].status = "failed"]
  /\ Queue!Complete(w, run[w].job)
  /\ EndRun(w)
  /\ UNCHANGED <<schedule, objects, bank, http, siteVars, faults>>

PutPackage(w) ==
  /\ run[w].pc = "put"
  /\ objects' = [objects EXCEPT ![run[w].job] = run[w].content]
  /\ run' = [run EXCEPT ![w].pc = "supersede"]
  /\ UNCHANGED <<schedule, packages, bank, jobs, http, siteVars, faults>>

\* UPDATE ... SET status = 'superseded': the rows its snapshot selects.
SelectOlder(w) ==
  /\ run[w].pc = "supersede"
  /\ run' = [run EXCEPT ![w].pc = "lock", ![w].older = Ready \ {run[w].job}]
  /\ UNCHANGED <<schedule, packages, objects, bank, jobs, http, siteVars, faults>>

\* Mutant: superseding is committed on its own.
SupersedeOlder_NoTx(w) ==
  /\ run[w].pc = "lock"
  /\ packages' = [p \in Package |->
       IF p \in run[w].older \cap Ready
       THEN [packages[p] EXCEPT !.status = "superseded"] ELSE packages[p]]
  /\ run' = [run EXCEPT ![w].pc = "ready", ![w].older = {}]
  /\ UNCHANGED <<schedule, objects, bank, jobs, http, siteVars, faults>>

\* It has their locks, and leaves out those that are not ready any more.
SupersedeOlder(w) ==
  /\ run[w].pc = "lock"
  /\ ~LockedFor(w, run[w].older)
  /\ run' = [run EXCEPT ![w].pc = "ready", ![w].older = @ \cap Ready]
  /\ UNCHANGED <<schedule, packages, objects, bank, jobs, http, siteVars, faults>>

\* Mutants: the answer keys are read again, or forgotten.
MarkReady_KeysNow(w) ==
  LET p == run[w].job
  IN /\ run[w].pc = "ready"
     /\ ~LockedFor(w, {p})
     /\ packages' = [q \in Package |->
          CASE q = p -> [packages[p] EXCEPT !.status = "ready", !.content = bank]
            [] q \in run[w].older -> [packages[q] EXCEPT !.status = "superseded"]
            [] OTHER -> packages[q]]
     /\ run' = [run EXCEPT ![w].pc = "done"]
     /\ UNCHANGED <<schedule, objects, bank, jobs, http, siteVars, faults>>

\* The second UPDATE of the transaction, and its commit.
MarkReady(w) ==
  LET p == run[w].job
  IN /\ run[w].pc = "ready"
     /\ ~LockedFor(w, {p})
     /\ packages' = [q \in Package |->
          CASE q = p -> [packages[p] EXCEPT !.status = "ready", !.content = run[w].content]
            [] q \in run[w].older -> [packages[q] EXCEPT !.status = "superseded"]
            [] OTHER -> packages[q]]
     /\ run' = [run EXCEPT ![w].pc = "done"]
     /\ UNCHANGED <<schedule, objects, bank, jobs, http, siteVars, faults>>

CompleteJob(w) ==
  /\ run[w].pc = "done"
  /\ Queue!Complete(w, run[w].job)
  /\ EndRun(w)
  /\ UNCHANGED <<schedule, packages, objects, bank, http, siteVars, faults>>

\* Any other error: the transaction rolls back, the row is marked failed if the
\* database answers, and BullMQ retries.
BuildThrows(w) ==
  /\ run[w].pc \notin {"idle", "done"}
  /\ Fault("throw")
  /\ \/ /\ ~LockedFor(w, {run[w].job})
        /\ packages' = [packages EXCEPT ![run[w].job].status = "failed"]
     \/ UNCHANGED packages
  /\ Queue!Throw(w, run[w].job)
  /\ EndRun(w)
  /\ UNCHANGED <<schedule, objects, bank, http, siteVars>>

\* The worker process dies, before or after the commit.
WorkerCrash(w) ==
  /\ run[w].pc # "idle"
  /\ Fault(IF run[w].pc = "done" THEN "crash-committed" ELSE "crash-building")
  /\ EndRun(w)
  /\ UNCHANGED <<schedule, packages, objects, bank, jobs, http, siteVars>>

\* The lock of the job expired: its slot is dead, or too busy to renew it.
RecoverStalled(p) ==
  /\ IF Alive(p) THEN Fault("stall") ELSE UNCHANGED faults
  /\ Queue!Stall(p)
  /\ UNCHANGED <<schedule, packages, objects, bank, run, http, siteVars>>
-----------------------------------------------------------------------------
(* GET /sync/schedules/:id/package.                                        *)

SelectPackage(d) ==
  /\ fetching[d] = None
  /\ \E p \in Ready :
       /\ \A q \in Ready : packages[q].version <= packages[p].version
       /\ fetching' = [fetching EXCEPT ![d] =
            [package |-> p, checksum |-> packages[p].content]]
  /\ UNCHANGED <<schedule, packages, objects, bank, jobs, run, http, downloads, rebuilt, faults>>

FetchObject(d) ==
  LET p == fetching[d].package
  IN /\ fetching[d] # None
     /\ downloads' = downloads \cup
          {[package |-> p, checksum |-> fetching[d].checksum, content |-> objects[p]]}
     /\ fetching' = [fetching EXCEPT ![d] = None]
     /\ UNCHANGED <<schedule, packages, objects, bank, jobs, run, http, rebuilt, faults>>
-----------------------------------------------------------------------------
RequestStep(h) == NextVersion(h) \/ InsertVersion(h) \/ EnqueueBuild(h)

TakeJob(w) == \E p \in Package : SkipReady(w, p) \/ StartBuild(w, p)

RunStep(w) ==
  \/ Compose(w) \/ ComposeFails(w) \/ PutPackage(w)
  \/ SelectOlder(w) \/ SupersedeOlder(w) \/ MarkReady(w) \/ CompleteJob(w)

Next ==
  \/ \E h \in Http : CheckNotClosed(h) \/ RequestStep(h) \/ HttpFails(h)
  \/ CloseSchedule \/ EditBank
  \/ \E w \in Worker : TakeJob(w) \/ RunStep(w) \/ BuildThrows(w) \/ WorkerCrash(w)
  \/ \E p \in Package : RecoverStalled(p)
  \/ \E d \in Device : SelectPackage(d) \/ FetchObject(d)

Spec == Init /\ [][Next]_vars

\* Requests run on, workers serve the queue, BullMQ checks for stalled jobs.
Fairness ==
  /\ \A h \in Http : WF_vars(RequestStep(h))
  /\ \A w \in Worker : WF_vars(TakeJob(w)) /\ WF_vars(RunStep(w))
  /\ \A p \in Package : WF_vars(RecoverStalled(p))

FairSpec == Spec /\ Fairness
-----------------------------------------------------------------------------
(* Properties.                                                             *)

\* The types of the variables; a package that is or was ready has its content.  Two versions
\* of a schedule never have the same number, however publish requests interleave (comment of
\* publishSchedule).
TypeOK ==
  /\ schedule \in ScheduleStatus
  /\ packages \in [Package -> PackageRow \cup {None}]
  /\ \A p \in Package : HasStatus(p, "ready") \/ HasStatus(p, "superseded") =>
       packages[p].content \in Edition
  /\ \A p, q \in Package :
       Exists(p) /\ Exists(q) /\ packages[p].version = packages[q].version => p = q
  /\ objects \in [Package -> Edition \cup {None}]
  /\ bank \in Edition
  /\ jobs \in [Package -> Queue!Job]
  /\ run \in [Worker -> [pc : {"idle", "compose", "put", "supersede", "lock", "ready", "done"},
                         job : Package \cup {None}, content : Edition \cup {None},
                         older : SUBSET Package]]
  /\ http \in [Http -> [pc : {"idle", "begin", "insert", "enqueue"},
                        version : 0..Cardinality(Package), job : Package \cup {None}]]
  /\ fetching \in [Device -> [package : Package, checksum : Edition] \cup {None}]
  /\ rebuilt \subseteq Package
  /\ downloads \subseteq [package : Package, checksum : Edition, content : Edition]
  /\ faults \in 0..MaxFaults

\* The package a site downloaded is what its checksum says, and the server still
\* keeps the answer keys of exactly that package, which its attempts will be graded
\* with (docs/arsitektur.md principle 3).
KeysMatchDownload ==
  \A d \in downloads :
    /\ d.content = d.checksum
    /\ packages[d.package].content = d.content

\* ... and so it is, whatever fails and is retried, unless the version was built again after
\* it was superseded or while it was being built.
KeysMatchUnlessRebuilt ==
  \A d \in downloads : d.package \notin rebuilt =>
    /\ d.content = d.checksum
    /\ packages[d.package].content = d.content

\* Once a version is ready, some version is ready at all times: sites can always
\* download, whatever builds are running or failing.
AvailabilityKept == [][Ready # {} => Ready' # {}]_vars

\* While a version is ready, its object, checksum and keys stay as they are: a job
\* that runs again after its commit is idempotent (comment in buildPackage).
ReadyIsFrozen ==
  [][\A p \in Package : p \in Ready \cap Ready' =>
       packages'[p].content = packages[p].content /\ objects'[p] = objects[p]]_vars

\* A version whose build was queued does not stay in status building: it becomes
\* ready, or failed with a message for the administrator.
BuildSettles ==
  \A p \in Package :
    HasStatus(p, "building") /\ jobs[p].state # "none" ~> ~HasStatus(p, "building")
=============================================================================
