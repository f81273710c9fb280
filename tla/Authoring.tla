------------------------------- MODULE Authoring -------------------------------
(***************************************************************************)
(* Banks, stimuli, questions (modules/banks.ts, questions.ts) and the         *)
(* structure of exams (modules/exams.ts), with the foreign keys of            *)
(* db/schema.ts.  A request reads in one step and writes in a later one.      *)
(*                                                                         *)
(* Abstracted: titles, codes, tags and settings; that codes are unique.       *)
(* Sections carry the number of the PUT that wrote them in place of an id.    *)
(***************************************************************************)
EXTENDS Rows

CONSTANTS
  Bank, Stimulus, Question, Exam,
  Faulty,      \* contents (with their keys) that QuestionDefinition refuses
  NewQuestion, \* rows that may be posted, imported as a set, or patched into others
  Patch,       \* bodies of PATCH: records with the fields that are sent
  Structure,   \* bodies of PUT structure: sequences of [pick, questions]
  Author,      \* requests that may be under way at one time
  MaxVersion, MaxPuts

Sent(column) == {x[column] : x \in {y \in NewQuestion \cup Patch : column \in DOMAIN y}}
QuestionRow == [bank : Bank, stimulus : Stimulus \cup {None}, content : Sent("content"),
                scoring : Sent("scoring"), status : Sent("status") \cup {"draft"}, version : 1..MaxVersion]

ASSUME AuthoringAssumption ==
  /\ MaxVersion \in Nat \ {0} /\ MaxPuts \in Nat
  /\ Bank \cap Stimulus = {}
  /\ None \notin Bank \cup Stimulus \cup QuestionRow
  /\ NewQuestion \subseteq {row \in QuestionRow : row.version = 1}
  /\ \A b \in Patch : /\ DOMAIN b \subseteq {"bank", "stimulus", "content", "scoring", "status"}
                      /\ "bank" \in DOMAIN b => b.bank \in Bank
                      /\ "stimulus" \in DOMAIN b => b.stimulus \in Stimulus \cup {None}
  /\ Structure \subseteq Seq([pick : Nat \cup {None}, questions : Seq(Question)])

VARIABLES
  bank, stimulus,  \* banks there are; Stimulus -> its bank or None
  unborn,          \* banks and stimuli that have not been created yet
  question,        \* Question -> row or None
  exam, sections,  \* exams there are; rows of sections with their questions
  author,          \* Author -> the request and what it has read
  stored, raced, unchecked,  \* history: <<question, version, definition>> ever stored;
                             \* rows a PATCH wrote over without having read them; rows whose
                             \* stimulus import did not look at
  puts, mixed, whole         \* history: PUTs so far; exams two PUTs overlapped on; structures written

tables == <<bank, stimulus, unborn, question, exam, sections>>
authored == <<stored, raced, unchecked>>
structured == <<puts, mixed, whole>>
authoringVars == <<tables, author, authored, structured>>

Definition(row) == <<row.content, row.scoring>>
SectionsOf(e) == {s \in sections : s.exam = e}
Used == UNION {Range(s.questions) : s \in sections}
Spent == {entry[1] : entry \in stored}
Record(q, row) == <<q, row.version, Definition(row)>>

AuthoringInit ==
  /\ bank = {} /\ exam = {} /\ unborn = Bank \cup Stimulus
  /\ stimulus = [s \in Stimulus |-> None]
  /\ question = [q \in Question |-> None]
  /\ sections = {} /\ whole = {{}}
  /\ author = [c \in Author |-> Idle]
  /\ stored = {} /\ raced = {} /\ unchecked = {}
  /\ puts = 0 /\ mixed = {}

Done(c) == author' = [author EXCEPT ![c] = Idle]

(***************************************************************************)
(* Banks and stimuli.  Deleting a bank takes its questions along, which an    *)
(* exam that uses one of them forbids; deleting a stimulus sets references to *)
(* it to null.                                                              *)
(***************************************************************************)
\* Mutant: the reference stays.
Unlinked_Never(gone) == question

Unlinked(gone) ==
  [q \in Question |-> IF question[q] # None /\ question[q].stimulus \in gone
                      THEN [question[q] EXCEPT !.stimulus = None] ELSE question[q]]

CreateBank ==
  \E b \in Bank \cap unborn :
    /\ bank' = bank \cup {b} /\ unborn' = unborn \ {b}
    /\ UNCHANGED <<stimulus, question, exam, sections, author, authored, structured>>

CreateStimulus ==
  \E s \in Stimulus \cap unborn, b \in bank :
    /\ stimulus' = [stimulus EXCEPT ![s] = b] /\ unborn' = unborn \ {s}
    /\ UNCHANGED <<bank, question, exam, sections, author, authored, structured>>

DeleteBank ==
  \E b \in bank :
    LET held == {q \in Existing(question) : question[q].bank = b}
        gone == {s \in Stimulus : stimulus[s] = b}
    IN /\ held \cap Used = {}
       /\ bank' = bank \ {b}
       /\ stimulus' = [s \in Stimulus |-> IF s \in gone THEN None ELSE stimulus[s]]
       /\ question' = [q \in Question |-> IF q \in held THEN None ELSE Unlinked(gone)[q]]
       /\ UNCHANGED <<unborn, exam, sections, author, authored, structured>>

DeleteStimulus ==
  \E s \in Existing(stimulus) :
    /\ stimulus' = [stimulus EXCEPT ![s] = None]
    /\ question' = Unlinked({s})
    /\ UNCHANGED <<bank, unborn, exam, sections, author, authored, structured>>

(***************************************************************************)
(* Questions.                                                               *)
(***************************************************************************)
\* Mutant: a stimulus that is not sent is not looked at.
PatchOK_OnlySent(old, b) ==
  LET new == Over(b, old)
  IN new.content \notin Faulty /\ ("stimulus" \in DOMAIN b /\ b.stimulus # None => stimulus[b.stimulus] = new.bank)

StimulusInBank(s, b) == s # None => stimulus[s] = b

PatchOK(old, b) == LET new == Over(b, old) IN new.content \notin Faulty /\ StimulusInBank(new.stimulus, new.bank)

RowOK(row) == row.content \notin Faulty /\ StimulusInBank(row.stimulus, row.bank)

\* POST and duplicate insert one row, import inserts several, in one transaction.
BeginInsert ==
  \E c \in Author :
    /\ At(author, c, "idle")
    /\ \/ \E row \in NewQuestion :
            RowOK(row) /\ author' = [author EXCEPT ![c] = [op |-> "insert", rows |-> {row}, checked |-> TRUE]]
       \/ \E q \in Existing(question) :
            author' = [author EXCEPT ![c] = [op |-> "insert", checked |-> q \notin unchecked,
                                             rows |-> {[question[q] EXCEPT !.status = "draft", !.version = 1]}]]
       \/ \E rows \in SUBSET NewQuestion :
            /\ rows # {} /\ \A row \in rows : row.content \notin Faulty
            /\ author' = [author EXCEPT ![c] = [op |-> "insert", rows |-> rows, checked |-> FALSE]]
    /\ UNCHANGED <<tables, authored, structured>>

\* A reference to a row that is gone fails the whole insert.
EndInsert ==
  \E c \in Author :
    /\ At(author, c, "insert")
    /\ LET rows == author[c].rows
           refers == \A row \in rows : row.bank \in bank /\ (row.stimulus = None \/ stimulus[row.stimulus] # None)
       IN IF ~refers THEN UNCHANGED <<question, authored>>
          ELSE \E id \in [rows -> Question \ Spent] :
                 /\ IsInjective(id)
                 /\ question' = [q \in Question |-> IF q \in Range(id) THEN CHOOSE row \in rows : id[row] = q
                                                    ELSE question[q]]
                 /\ stored' = stored \cup {Record(id[row], row) : row \in rows}
                 /\ unchecked' = unchecked \cup (IF author[c].checked THEN {} ELSE Range(id))
                 /\ UNCHANGED raced
    /\ Done(c)
    /\ UNCHANGED <<bank, stimulus, unborn, exam, sections, structured>>

BeginPatch ==
  \E c \in Author, q \in Existing(question), b \in Patch :
    /\ At(author, c, "idle") /\ PatchOK(question[q], b)
    /\ author' = [author EXCEPT ![c] = [op |-> "patch", question |-> q, old |-> question[q], body |-> b]]
    /\ UNCHANGED <<tables, authored, structured>>

Touches(b) == {"content", "scoring"} \cap DOMAIN b # {}

\* Mutant: a new scoring is no new version.
Changed_ContentOnly(old, b) == IF "content" \in DOMAIN b /\ b.content # old.content THEN {TRUE} ELSE {FALSE}

\* The texts compared list the fields of the parsed definition and of the jsonb column, which
\* may come in another order: an equal definition may count as changed.
Changed(old, b) ==
  IF ~Touches(b) THEN {FALSE} ELSE IF Definition(Over(b, old)) # Definition(old) THEN {TRUE} ELSE BOOLEAN

\* What was not sent is written as it was read, but for the status.
EndPatch ==
  \E c \in Author :
    /\ At(author, c, "patch")
    /\ LET r == author[c]
           now == question[r.question]
           sent == Over(r.body, r.old)
       IN IF \/ now = None \/ sent.bank \notin bank
             \/ sent.stimulus # None /\ stimulus[sent.stimulus] = None
          THEN UNCHANGED <<question, authored>>
          ELSE \E changed \in Changed(r.old, r.body) :
                 LET row == [sent EXCEPT !.version = IF changed THEN @ + 1 ELSE @,
                                         !.status = IF "status" \in DOMAIN r.body THEN @ ELSE now.status]
                 IN /\ row.version <= MaxVersion
                    /\ question' = [question EXCEPT ![r.question] = row]
                    /\ stored' = stored \cup {Record(r.question, row)}
                    /\ raced' = IF [now EXCEPT !.status = r.old.status, !.stimulus = r.old.stimulus] = r.old
                                THEN raced ELSE raced \cup {r.question}
                    /\ unchecked' = unchecked \ {r.question}
    /\ Done(c)
    /\ UNCHANGED <<bank, stimulus, unborn, exam, sections, structured>>

\* onDelete restrict; answers of participants forbid it as well.
Deletable(q) == q \notin Used

DeleteQuestion ==
  \E q \in Existing(question) :
    /\ Deletable(q)
    /\ question' = [question EXCEPT ![q] = None]
    /\ UNCHANGED <<bank, stimulus, unborn, exam, sections, author, authored, structured>>

(***************************************************************************)
(* Exams.                                                                   *)
(***************************************************************************)
QuestionsOf(structure) == UNION {Range(structure[i].questions) : i \in DOMAIN structure}

\* Mutant: one question may be in two sections.
StructureOK_PerSection(structure) ==
  /\ \A i \in DOMAIN structure :
       LET s == structure[i]
       IN IsInjective(s.questions) /\ (s.pick # None => s.pick <= Len(s.questions))
  /\ \A q \in QuestionsOf(structure) : question[q] # None /\ question[q].status # "archived"

\* No two places in it have the same question.
NoDuplicates(structure) ==
  \A i, j \in DOMAIN structure :
    \A k \in DOMAIN structure[i].questions, l \in DOMAIN structure[j].questions :
      structure[i].questions[k] = structure[j].questions[l] => i = j /\ k = l

StructureOK(structure) ==
  /\ NoDuplicates(structure)
  /\ \A q \in QuestionsOf(structure) : question[q] # None /\ question[q].status # "archived"
  /\ \A i \in DOMAIN structure : structure[i].pick # None => structure[i].pick <= Len(structure[i].questions)

BeginPut ==
  \E c \in Author, e \in exam, structure \in Structure :
    /\ At(author, c, "idle") /\ puts < MaxPuts /\ StructureOK(structure)
    /\ author' = [author EXCEPT ![c] = [op |-> "put", exam |-> e, new |-> structure]]
    /\ UNCHANGED <<tables, authored, structured>>

\* Mutant: sections without questions are left.
Replaced_Filled(e) == {s \in SectionsOf(e) : s.questions # <<>>}

Replaced(e) == SectionsOf(e)

\* The transaction deletes the sections it sees.  A transaction that deletes the same
\* ones waits for it, and never sees those it inserts.
DeleteSections ==
  \E c \in Author :
    /\ At(author, c, "put")
    /\ author' = [author EXCEPT ![c] = [op |-> "replace", exam |-> @.exam, new |-> @.new,
                                        seen |-> Replaced(@.exam), began |-> puts]]
    /\ UNCHANGED <<tables, authored, structured>>

CommitPut ==
  \E c \in Author :
    /\ At(author, c, "replace")
    /\ LET r == author[c]
           rows == {[exam |-> r.exam, put |-> puts + 1, order |-> i, pick |-> r.new[i].pick,
                     questions |-> r.new[i].questions] : i \in DOMAIN r.new}
       IN IF r.exam \notin exam \/ \E q \in QuestionsOf(r.new) : question[q] = None
          THEN UNCHANGED <<sections, structured>>
          ELSE /\ sections' = (sections \ r.seen) \cup rows
               /\ puts' = puts + 1
               /\ mixed' = IF r.began = puts THEN mixed \ {r.exam} ELSE mixed \cup {r.exam}
               /\ whole' = whole \cup {rows}
    /\ Done(c)
    /\ UNCHANGED <<bank, stimulus, unborn, question, exam, authored>>

\* POST: a new exam has one empty section.
CreateExam ==
  \E e \in Exam \ exam :
    LET first == {[exam |-> e, put |-> puts + 1, order |-> 1, pick |-> None, questions |-> <<>>]}
    IN /\ puts < MaxPuts
       /\ exam' = exam \cup {e}
       /\ sections' = sections \cup first
       /\ puts' = puts + 1 /\ whole' = whole \cup {first} /\ mixed' = mixed \ {e}
       /\ UNCHANGED <<bank, stimulus, unborn, question, author, authored>>

\* Refused while a schedule refers to the exam.
DeleteExam(scheduled) ==
  \E e \in exam \ scheduled :
    /\ exam' = exam \ {e}
    /\ sections' = sections \ SectionsOf(e)
    /\ UNCHANGED <<bank, stimulus, unborn, question, author, authored, structured>>

\* The API dies: what a request has not committed never happened.
AuthorDies ==
  \E c \in Author :
    /\ ~At(author, c, "idle")
    /\ Done(c)
    /\ UNCHANGED <<tables, authored, structured>>

BankNext ==
  \/ CreateBank \/ DeleteBank \/ CreateStimulus \/ DeleteStimulus
  \/ BeginInsert \/ EndInsert \/ BeginPatch \/ EndPatch \/ DeleteQuestion

ExamNext(scheduled) == BeginPut \/ DeleteSections \/ CommitPut \/ CreateExam \/ DeleteExam(scheduled)

AuthoringNext == BankNext \/ ExamNext({}) \/ AuthorDies

AuthoringSpec == AuthoringInit /\ [][AuthoringNext]_authoringVars

--------------------------------------------------------------------------------
(***************************************************************************)
(* Properties.                                                              *)
(***************************************************************************)
\* Type invariant: rows refer to rows that exist.
AuthoringTypeOK ==
  /\ \A q \in Existing(question) :
       /\ question[q].bank \in bank /\ question[q].version \in 1..MaxVersion
       /\ question[q].content \notin Faulty
       /\ question[q].stimulus \in Existing(stimulus) \cup {None}
  /\ \A s \in sections : s.exam \in exam

\* schema.ts: the version rises whenever content, key or scoring change.  Results and
\* packages quote it: one version of a question never names two definitions, unless a PATCH
\* wrote over a row that another had changed since it was read.
VersionsUnlessRaced ==
  \A x, y \in stored : x[1] = y[1] /\ x[2] = y[2] /\ x[1] \notin raced => x[3] = y[3]

\* A question shows the stimulus of its own bank, however requests overlap, bank and
\* stimulus move and rows are deleted, if it did not come from an import.
StimulusOfBank ==
  \A q \in Existing(question) \ unchecked : StimulusInBank(question[q].stimulus, question[q].bank)

\* exams.ts: PUT structure replaces the whole structure atomically, so all sections of an
\* exam come from one request ...
StructureIsOnePut == \A e \in exam : SectionsOf(e) \in whole

\* ... and they do as long as no two requests overlap.
OnePutUnlessMixed == \A e \in exam \ mixed : SectionsOf(e) \in whole

\* Places in the exam, which order counts from zero in the code.
Numbered(some) ==
  /\ \A s, t \in some : s.order = t.order => s = t
  /\ \A s \in some : \A i \in 1..s.order : \E t \in some : t.order = i

\* What is in a structure exists, and there are as many questions as are to be picked, also
\* after questions and banks were deleted.  Unless two PUTs overlapped on the exam, nothing is
\* asked twice, and its sections have a place each, without gaps: packages show them in order.
StructureSound ==
  /\ \A s \in sections : /\ \A q \in Range(s.questions) : question[q] # None
                         /\ s.pick = None \/ s.pick <= Len(s.questions)
                         /\ IsInjective(s.questions)
  /\ \A e \in exam \ mixed :
       /\ Numbered(SectionsOf(e))
       /\ \A s, t \in SectionsOf(e) : s # t => Range(s.questions) \cap Range(t.questions) = {}
================================================================================
