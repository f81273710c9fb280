------------------------------ MODULE MCBackOffice ------------------------------
(***************************************************************************)
(* The modules of the back office on small instances.  They meet in           *)
(* composePackage only: a behaviour keeps to the requests of one part, with    *)
(* the rest of the database as it is, so that their states add up.            *)
(***************************************************************************)
EXTENDS BackOffice

CONSTANTS b1, b2, s1, q1, q2, e1, c1, c2, p1, p2, d1, o1, o2, m1, f1, f2, u1, u2,
  a1, a2, a3, l1, l2,
  MaxBegun  \* requests that change questions in a behaviour, two more than while a package is built

VARIABLES focus, begun

vars == <<authoringVars, rosterVars, storageVars, composeVars, accessVars, focus, begun>>

MCMediaOf == [x \in {"k1", "k2", "bad", s1} |-> IF x \in {"k2", s1} THEN {m1} ELSE {}]

Row(b, s) == [bank |-> b, stimulus |-> s, content |-> "k1", scoring |-> 1, status |-> "ready", version |-> 1]

MCNewQuestion == {Row(b1, s1), [Row(b2, None) EXCEPT !.content = "bad"]}
MCPatch == {[content |-> "k2"], [content |-> "bad"], [scoring |-> 2], [status |-> "archived"],
            [bank |-> b2], [stimulus |-> s1], [bank |-> b1, stimulus |-> None]}

Part(pick, questions) == [pick |-> pick, questions |-> questions]
MCStructure == {<<Part(None, <<q1>>), Part(None, <<>>)>>, <<Part(1, <<q2>>), Part(None, <<>>)>>,
                <<Part(2, <<q1>>)>>, <<Part(None, <<q1>>), Part(None, <<q1>>)>>}

MCImportRow == {[number |-> p1, site |-> o1, given |-> TRUE], [number |-> p1, site |-> None, given |-> FALSE],
                [number |-> p2, given |-> FALSE]}

\* Two banks, a stimulus and a question in the first: what requests one after the other leave.
SomeBank ==
  /\ bank = {b1, b2} /\ unborn = {}
  /\ stimulus = [s \in Stimulus |-> b1]
  /\ question = [q \in Question |-> IF q = q1 THEN Row(b1, s1) ELSE Row(b2, None)]
  /\ stored = {Record(q, question[q]) : q \in Existing(question)}
  /\ raced = {} /\ unchecked = {} /\ mixed = {}
  /\ author = [c \in Author |-> Idle]

\* ... an exam of its questions ...
SomeExam ==
  /\ exam = {e1} /\ puts = 1
  /\ sections = {[exam |-> e1, put |-> 1, order |-> 1, pick |-> None, questions |-> <<q1>>]}
  /\ whole = {{}, sections}

\* ... and a schedule with a participant.
SomeSchedule ==
  /\ participant = [p \in Participant |-> IF p = p1 THEN [site |-> o1, active |-> TRUE, password |-> 1] ELSE None]
  /\ schedule = [s \in Schedule |-> [site |-> o1, status |-> "draft", start |-> 1, end |-> 2]]
  /\ enrolled = {<<d1, p1>>} /\ attempt = {} /\ shut = {}
  /\ admin = [c \in Admin |-> Idle] /\ passwords = 1 /\ doubtful = {}
  /\ card = [p \in Participant |-> IF p = p1 THEN 1 ELSE None]

SomeMedia ==
  /\ asset = {m1} /\ sent = {m1}
  /\ object = [k \in Keys |-> IF k = ObjectKey(m1) THEN m1 ELSE None]
  /\ attachment = [f \in File |-> None] /\ upload = [u \in Upload |-> Idle]
  /\ told = {} /\ clashed = {} /\ lost = 0

\* A site, an administrator at work and a proctor.
SomeStaff ==
  /\ user = [u \in User |-> CASE u = a1 -> Account("admin", TRUE) [] u = a2 -> Account("proctor", TRUE)
                              [] OTHER -> None]
  /\ desk = {a1} /\ overruled = FALSE
  /\ post = [s \in Post |-> [secret |-> 1, active |-> TRUE]] /\ secrets = 1
  /\ unused = {}
  /\ duty = {[post |-> s, user |-> a2, list |-> 1] : s \in Post} /\ lists = 1 /\ blended = {}
  /\ clerk = [c \in Clerk |-> Idle]
  /\ key = [s \in Post |-> 1] /\ token = {} /\ local = [s \in Post |-> {}]
  /\ deed = [d \in Deed |-> None] /\ unsent = {} /\ logged = {} /\ trouble = 0

Init ==
  /\ ComposeInit /\ begun = 0
  /\ \/ focus \in {"bank", "participants", "storage", "accounts", "duty", "log"}
        /\ AuthoringInit /\ RosterInit /\ StorageInit
     \/ focus = "exam" /\ SomeBank /\ SomeExam /\ RosterInit /\ StorageInit
     \/ focus = "schedules" /\ AuthoringInit /\ SomeSchedule /\ StorageInit
     \/ focus = "compose" /\ SomeBank /\ SomeExam /\ SomeSchedule /\ SomeMedia
  /\ IF focus \in {"duty", "log"} THEN SomeStaff ELSE AccessInit

Authoring == UNCHANGED <<rosterVars, storageVars, composeVars, accessVars, focus>>
Enrolling == UNCHANGED <<authoringVars, storageVars, composeVars, accessVars, focus, begun>>
Staffing == UNCHANGED <<authoringVars, rosterVars, storageVars, composeVars, focus, begun>>

Counted(most) ==
  /\ begun' = begun + Cardinality({c \in Author : author[c] = Idle /\ author'[c] # Idle})
  /\ begun' <= most

\* What goes on while a package is built: one request that writes in two steps, and those
\* that change or delete what it reads (but for new passwords, which are copied as they are).
Meanwhile ==
  \/ (BeginPatch \/ EndPatch \/ DeleteStimulus \/ DeleteQuestion \/ BeginPut \/ DeleteSections \/ CommitPut)
     /\ (\A c \in Author \ {c1} : author'[c] = Idle)
     /\ Counted(MaxBegun - 2)
     /\ UNCHANGED <<rosterVars, storageVars>>
  \/ ((PatchParticipant /\ UNCHANGED passwords) \/ Unenrol) /\ UNCHANGED <<authoringVars, storageVars, begun>>
  \/ (DeleteAsset \/ DeleteAssetObject) /\ UNCHANGED <<authoringVars, rosterVars, begun>>

Next ==
  \/ focus = "bank" /\ (BankNext \/ AuthorDies) /\ Authoring /\ Counted(MaxBegun)
  \/ focus = "exam" /\ (ExamNext({}) \/ AuthorDies \/ DeleteQuestion \/ DeleteBank) /\ Authoring /\ UNCHANGED begun
  \/ focus = "participants" /\ Enrolling
     /\ \/ CreateParticipant \/ DeleteParticipant \/ BeginImport \/ CommitImport
        \/ BeginReset \/ ResetOne \/ ResetFails \/ Answer \/ AdminDies
        \/ PatchParticipant /\ passwords' # passwords
  \/ focus = "schedules" /\ (ScheduleNext \/ AdminDies \/ DeleteParticipant) /\ Enrolling
  \/ focus = "storage" /\ StorageNext /\ UNCHANGED <<authoringVars, rosterVars, composeVars, accessVars, focus, begun>>
  \/ focus = "compose" /\ Compose /\ UNCHANGED <<authoringVars, rosterVars, storageVars, accessVars, focus, begun>>
  \/ focus = "compose" /\ Meanwhile /\ Vanishes /\ UNCHANGED <<build, accessVars, focus>>
  \/ focus = "accounts" /\ (UserNext \/ CreatePost) /\ Staffing
  \/ focus = "duty" /\ Staffing
     /\ (BeginAssign \/ DeleteDuties \/ CommitAssign \/ ClerkDies \/ DeletePost \/ DeleteUser)
  \/ focus = "log" /\ (SiteNext \/ PatchPost \/ RotateSecret \/ DeletePost \/ DeleteUser) /\ Staffing

Spec == Init /\ [][Next]_vars /\ StorageFairness /\ AccessFairness
================================================================================
