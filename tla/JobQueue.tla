------------------------------ MODULE JobQueue ------------------------------
(***************************************************************************)
(* One BullMQ queue as apps/server/src/lib/queue.ts configures it and      *)
(* apps/server/src/worker.ts consumes it (the library itself is external). *)
(*                                                                         *)
(* A job is added once per id, taken by a free worker slot, and completed  *)
(* or failed by the slot that owns its lock.  A thrown error puts it back  *)
(* until MaxTries attempts were made (attempts: 5).  A job whose lock is   *)
(* not renewed is stalled: it is put back MaxStalls times, then failed.    *)
(* The slot that lost the lock keeps executing, but what it reports about  *)
(* the job is ignored.  Backoff only delays, so a delayed job is a waiting *)
(* one; the waiting jobs may start in any order, because retries and       *)
(* concurrent slots reorder them anyway.                                   *)
(***************************************************************************)
EXTENDS Naturals

CONSTANTS JobId,      \* the ids jobs may have
          Worker,     \* the slots that execute jobs (concurrency)
          MaxTries,   \* defaultJobOptions.attempts
          MaxStalls,  \* BullMQ's maxStalledCount
          None        \* no slot

VARIABLE jobs         \* [JobId -> Job]

Job == [state  : {"none", "waiting", "active", "completed", "failed"},
        tries  : 0..MaxTries,
        stalls : 0..MaxStalls,
        owner  : Worker \cup {None}]

NotAdded == [state |-> "none", tries |-> 0, stalls |-> 0, owner |-> None]

Init == jobs = [j \in JobId |-> NotAdded]

Unfinished(j) == jobs[j].state \in {"waiting", "active"}

Owns(w, j) == jobs[j].state = "active" /\ jobs[j].owner = w

\* queue.add with an explicit id: a second add of the same id is ignored.
Add(j) ==
  jobs' = [jobs EXCEPT ![j].state = IF @ = "none" THEN "waiting" ELSE @]

Take(w, j) ==
  /\ jobs[j].state = "waiting"
  /\ jobs' = [jobs EXCEPT ![j].state = "active", ![j].owner = w]

\* The processor returned.
Complete(w, j) ==
  jobs' = IF Owns(w, j)
          THEN [jobs EXCEPT ![j].state = "completed", ![j].owner = None]
          ELSE jobs

\* Mutant: one attempt too many.
Throw_OffByOne(w, j) ==
  jobs' = IF Owns(w, j)
          THEN [jobs EXCEPT ![j].state = IF @ = "active" /\ jobs[j].tries < MaxTries
                                         THEN "waiting" ELSE "failed",
                            ![j].tries = @ + 1, ![j].owner = None]
          ELSE jobs

\* The processor threw: retried while attempts are left.
Throw(w, j) ==
  jobs' = IF Owns(w, j)
          THEN [jobs EXCEPT
                  ![j].state = IF jobs[j].tries + 1 < MaxTries
                               THEN "waiting" ELSE "failed",
                  ![j].tries = IF @ < MaxTries THEN @ + 1 ELSE @,
                  ![j].owner = None]
          ELSE jobs

\* The lock of an active job expired.
Stall(j) ==
  /\ jobs[j].state = "active"
  /\ jobs' = [jobs EXCEPT
                ![j].state  = IF jobs[j].stalls < MaxStalls
                              THEN "waiting" ELSE "failed",
                ![j].stalls = IF @ < MaxStalls THEN @ + 1 ELSE @,
                ![j].owner  = None]
=============================================================================
