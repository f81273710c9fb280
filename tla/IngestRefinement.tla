-------------------------- MODULE IngestRefinement --------------------------
(***************************************************************************)
(* ResultsIngest implements AttemptRegister: however requests, jobs,       *)
(* crashes, retries and administrators interleave, the attempts table and  *)
(* the outcomes shown by the batches behave like the register.             *)
(***************************************************************************)
EXTENDS ResultsIngest

AbstractUpload(u) ==
  [attempt |-> u.attempt, seat |-> u.seat, sequence |-> u.sequence]

SentUploads ==
  UNION {{AbstractUpload(Payload[k][i]) : i \in 1..Len(Payload[k])}
          : k \in Site \X Batch}

StoredAttempts ==
  [a \in Attempt |->
     IF attempts[a] = None THEN None
     ELSE [seat |-> attempts[a].seat, sequence |-> attempts[a].sequence]]

AcceptedIndexes(b) ==
  {i \in 1..Len(batches[b].outcomes) : batches[b].outcomes[i] \in Accepted}

ReportedUploads ==
  [b \in Batch |->
     IF batches[b] = None THEN {}
     ELSE {AbstractUpload(PayloadOf(b)[i]) : i \in AcceptedIndexes(b)}]

\* The absent value is no entry of the register either.
ASSUME NoEntryAssumption == None \notin [seat : Seat, sequence : Nat]

Register == INSTANCE AttemptRegister
  WITH Upload <- SentUploads, register <- StoredAttempts,
       reported <- ReportedUploads

\* Every behaviour of the ingest pipeline is one of the register: what a site reads
\* from its batches can be explained by whole uploads stored one after the other.
ImplementsRegister == Register!Spec
=============================================================================
