--------------------------- MODULE AttemptRegister ---------------------------
(***************************************************************************)
(* What the central server promises about exam results, without requests,  *)
(* queues, workers or transactions: a register of attempts that keeps the  *)
(* newest upload of each, one attempt per seat, and reports that show an   *)
(* upload as accepted only while it is kept (docs/sinkronisasi.md sections *)
(* 7 and 8, docs/arsitektur.md principle 4).                               *)
(***************************************************************************)
EXTENDS Naturals

CONSTANTS Attempt, Seat, Batch,
          Upload,  \* the uploads that may arrive: [attempt, seat, sequence]
          None

VARIABLES register,  \* the stored attempts
          deleted,   \* attempts an administrator deleted, ever
          reported   \* per batch, the uploads reported as accepted

vars == <<register, deleted, reported>>

Init ==
  /\ register = [a \in Attempt |-> None]
  /\ deleted = {}
  /\ reported = [b \in Batch |-> {}]

\* The upload is in the register, or something newer of the same attempt.
IsKept(u) ==
  \/ u.attempt \in deleted
  \/ /\ register[u.attempt] # None
     /\ register[u.attempt].seat = u.seat
     /\ register[u.attempt].sequence >= u.sequence

SeatFree(seat) ==
  \A a \in Attempt : register[a] # None => register[a].seat # seat

Store(u) ==
  /\ IF register[u.attempt] = None
     THEN SeatFree(u.seat)
     ELSE /\ register[u.attempt].seat = u.seat
          /\ register[u.attempt].sequence <= u.sequence
  /\ register' = [register EXCEPT
       ![u.attempt] = [seat |-> u.seat, sequence |-> u.sequence]]
  /\ UNCHANGED <<deleted, reported>>

Delete(a) ==
  /\ register[a] # None
  /\ register' = [register EXCEPT ![a] = None]
  /\ deleted' = deleted \cup {a}
  /\ UNCHANGED reported

\* A batch reports what became of its uploads, again after it was reprocessed.
Report(b, accepted) ==
  /\ \A u \in accepted : IsKept(u)
  /\ reported' = [reported EXCEPT ![b] = accepted]
  /\ UNCHANGED <<register, deleted>>

Next ==
  \/ \E u \in Upload : Store(u)
  \/ \E a \in Attempt : Delete(a)
  \/ \E b \in Batch, accepted \in SUBSET Upload : Report(b, accepted)

Spec == Init /\ [][Next]_vars
=============================================================================
