----------------------------- MODULE PackageContents -----------------------------
(***************************************************************************)
(* composePackage (services/package-builder.ts): the back office as a whole,  *)
(* and the reads from which a package is put together, each a statement of its *)
(* own, while authors and administrators go on.  How a package is stored and   *)
(* replaces the one before is in PackagePublish.                              *)
(*                                                                         *)
(* Abstracted: which exam a schedule is for; sites; texts of exam and site.   *)
(***************************************************************************)
EXTENDS Authoring, Roster, Storage

CONSTANTS
  MediaOf     \* contents and stimuli -> the media they refer to

VARIABLES
  build,      \* the package that is built: where it is and what it has read; history: whether
              \* two PUTs had overlapped on its exam
  vanished    \* history: stimuli that were deleted while it was built

composeVars == <<build, vanished>>

ComposeInit == build = Idle /\ vanished = {}

Step(op, read) == build' = Over(read, Over([op |-> op], build))
Fail == build' = [op |-> "failed"]

ReadSections ==
  \E s \in Existing(schedule), e \in exam :
    /\ build.op = "idle"
    /\ build' = [op |-> "sections", schedule |-> s, exam |-> e, sections |-> SectionsOf(e),
                  overlapped |-> e \in mixed]
    /\ vanished' = {}

\* Mutant: the questions are looked up by the exam and the place of the section.
SectionQuestions_ByPlace(b) ==
  {[s EXCEPT !.questions = FlattenSeq(SetToSeq({t.questions : t \in {x \in SectionsOf(b.exam) : x.order = s.order}}))]
   : s \in b.sections}

\* Those of a section that was replaced meanwhile are gone.
SectionQuestions(b) ==
  {IF s \in sections THEN s ELSE [s EXCEPT !.questions = <<>>] : s \in b.sections}

Asked(b) == UNION {Range(s.questions) : s \in b.sections}

ReadSectionQuestions ==
  /\ build.op = "sections"
  /\ LET read == [sections |-> SectionQuestions(build)]
     IN IF Asked(read) = {} THEN Fail ELSE Step("questions", read)
  /\ UNCHANGED vanished

\* Content and key of a question come from one row; one that is gone or does not fit
\* its key is a problem.
ReadQuestions ==
  /\ build.op = "questions"
  /\ IF \E q \in Asked(build) : question[q] = None \/ question[q].content \in Faulty THEN Fail
     ELSE Step("stimuli", [rows |-> [q \in Asked(build) |-> question[q]]])
  /\ UNCHANGED vanished

\* Mutant: the stimuli the questions have by now.
StimulusIds_Now(b) == {question[q].stimulus : q \in Asked(b) \cap Existing(question)} \ {None}

StimulusIds(b) == {b.rows[q].stimulus : q \in Asked(b)} \ {None}

ReadStimuli ==
  /\ build.op = "stimuli"
  /\ Step("participants", [stimuli |-> StimulusIds(build) \cap Existing(stimulus)])
  /\ UNCHANGED vanished

ReadParticipants ==
  /\ build.op = "participants"
  /\ LET active == {p \in Existing(participant) : <<build.schedule, p>> \in enrolled /\ participant[p].active}
     IN IF active = {} THEN Fail ELSE Step("assets", [participants |-> [p \in active |-> participant[p]]])
  /\ UNCHANGED vanished

CollectAssetIds(b) ==
  (UNION {MediaOf[b.rows[q].content] : q \in Asked(b)}) \cup (UNION {MediaOf[s] : s \in b.stimuli})

ReadAssets ==
  /\ build.op = "assets"
  /\ LET ids == CollectAssetIds(build)
     IN IF ids \subseteq asset THEN Step("composed", [assets |-> ids]) ELSE Fail
  /\ UNCHANGED vanished

Compose ==
  \/ ReadSections \/ ReadSectionQuestions \/ ReadQuestions
  \/ ReadStimuli \/ ReadParticipants \/ ReadAssets

\* History: a stimulus that is deleted while a package is built is missing in it.
Vanishes == vanished' = vanished \cup (Existing(stimulus) \ Existing(stimulus)')

\* The back office as a whole: anything may happen between two steps of anything.
BackOfficeNext ==
  \/ Compose /\ UNCHANGED <<authoringVars, rosterVars, storageVars>>
  \/ AuthoringNext /\ Vanishes /\ UNCHANGED <<rosterVars, storageVars, build>>
  \/ RosterNext /\ UNCHANGED <<authoringVars, storageVars, composeVars>>
  \/ StorageNext /\ UNCHANGED <<authoringVars, rosterVars, composeVars>>

BackOfficeSpec ==
  /\ AuthoringInit /\ RosterInit /\ StorageInit /\ ComposeInit
  /\ [][BackOfficeNext]_<<authoringVars, rosterVars, storageVars, composeVars>>

--------------------------------------------------------------------------------
(***************************************************************************)
(* Properties.                                                              *)
(***************************************************************************)
Composed == build.op = "composed"

\* arsitektur.md: a package is a snapshot.  Its sections with their questions are a
\* structure one PUT wrote, also if the structure is replaced while they are read, unless
\* two PUTs had overlapped before.
PackageIsStructure == Composed /\ ~build.overlapped => build.sections \in whole

\* No question of a package refers to a stimulus that is not in it, nor a question or a
\* stimulus to media that are not listed, although each is read later than the other, but
\* for stimuli deleted in between.
PackageIsClosed ==
  Composed => \A q \in Asked(build) :
    /\ build.rows[q].stimulus \in build.stimuli \cup vanished \cup {None}
    /\ MediaOf[build.rows[q].content] \cup UNION {MediaOf[s] : s \in build.stimuli} \subseteq build.assets
================================================================================
