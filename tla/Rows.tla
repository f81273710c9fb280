---------------------------------- MODULE Rows ----------------------------------
(***************************************************************************)
(* What the modules of the back office share: columns that may be null, and  *)
(* requests that run in several steps.                                       *)
(***************************************************************************)
EXTENDS Integers, Sequences, FiniteSets, SequencesExt

CONSTANT None

Idle == [op |-> "idle"]

Existing(table) == {x \in DOMAIN table : table[x] # None}

\* The fields of new, and those of old that new leaves alone.
Over(new, old) == [x \in DOMAIN new \cup DOMAIN old |-> IF x \in DOMAIN new THEN new[x] ELSE old[x]]

\* The request c is at the step op.
At(requests, c, op) == requests[c].op = op
================================================================================
