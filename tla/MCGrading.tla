------------------------------ MODULE MCGrading ------------------------------
(* Uploads and symmetry for checking Grading.                              *)
EXTENDS Grading, TLC

CONSTANTS q1, q2, r1, r2

\* A first answer to q1, an upload that changes it and answers q2, and one of an attempt
\* that goes on.
Uploads ==
  {[final |-> TRUE, presented |-> Question,
    answers |-> [q \in Question |-> IF q = q1 THEN r1 ELSE None]],
   [final |-> TRUE, presented |-> {q1},
    answers |-> [q \in Question |-> IF q = q1 THEN r2 ELSE r1]],
   [final |-> FALSE, presented |-> {q1},
    answers |-> [q \in Question |-> IF q = q1 THEN r1 ELSE None]]}

\* Slots and callers are interchangeable; no liveness is checked.
Symmetric == Permutations(Worker) \cup Permutations(Caller)

\* Bound: two uploads and a request to grade again, or one and two of them.
Bounded == uploads + regrades <= 3
=============================================================================
