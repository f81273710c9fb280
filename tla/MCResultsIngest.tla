--------------------------- MODULE MCResultsIngest ---------------------------
(* Payloads and model values for checking ResultsIngest.                   *)
EXTENDS IngestRefinement

CONSTANTS s1, s2, b1, b2, a1, a2, p1, p2, r1, r2

Up(a, seat, n, final, r) ==
  [attempt |-> a, seat |-> seat, sequence |-> n, final |-> final,
   packageOk |-> TRUE, response |-> r]

OneSite == [seat \in Seat |-> s1]

\* The payload of each batch id, whoever sends it.
ByBatch(first, second) == [k \in Site \X Batch |-> IF k[2] = b1 THEN first ELSE second]

\* A progress snapshot and the final result of one attempt, in two batches.
SnapshotAndFinal ==
  ByBatch(<<Up(a1, p1, 1, FALSE, r1)>>, <<Up(a1, p1, 2, TRUE, r2)>>)

\* The second batch carries a newer version of the attempt of the first batch and a
\* second attempt of the same participant.
Restarted ==
  ByBatch(<<Up(a1, p1, 1, TRUE, r1)>>,
          <<Up(a1, p1, 2, TRUE, r2), Up(a2, p1, 0, TRUE, r1)>>)

\* Two sites that use the same batch ids: s2 claims the attempt of s1 for a seat of
\* its own in one batch, and a seat of s1 in the other.
SeatOwners == [seat \in Seat |-> IF seat = p1 THEN s1 ELSE s2]
TwoSites ==
  [k \in Site \X Batch |->
     CASE k = <<s1, b1>> -> <<Up(a1, p1, 1, TRUE, r1)>>
       [] k = <<s1, b2>> -> <<Up(a1, p1, 2, TRUE, r2)>>
       [] k = <<s2, b1>> -> <<Up(a1, p2, 1, TRUE, r1)>>
       [] OTHER          -> <<Up(a2, p1, 3, TRUE, r2)>>]

=============================================================================
