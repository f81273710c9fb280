------------------------------- MODULE Answering -------------------------------
(***************************************************************************)
(* A participant answers one question in QuestionView                       *)
(* (packages/question-ui), and the answer of any moment is graded by         *)
(* gradeResponse.  The component is controlled: value is what its caller      *)
(* holds, every change replaces it whole.  order is the order in which the    *)
(* items of an ordering question are to be shown, perhaps not all of them.     *)
(*                                                                         *)
(* Uploading is the one thing that is not done in one event: onPick keeps the *)
(* files it saw when it began while the uploads are under way.              *)
(***************************************************************************)
EXTENDS QuestionTypes

CONSTANTS
  Definition,  \* questions that may be posed, also faulty ones
  ScoringSet,  \* scorings that may go with them
  Typed,       \* texts that may be typed into a field
  Reading,     \* what typed numbers mean, in Res-ths
  Spot,        \* points that may be clicked on an image
  File,        \* files that may be picked, each at most once
  Pick         \* file dialogues that may be open at the same time

\* The fields of a question that its schema makes lists are sequences, and nothing in them is
\* Null; nor is an answer, a number or a truth value.  Ids are not blank (LocalId).
IsList(s) == s \in Seq(Range(s)) /\ Null \notin Range(s)

ASSUME DefinitionAssumption ==
  \A d \in Definition :
    /\ d.type \in QUESTION_TYPES
    /\ d.type \in {"single_choice", "multiple_choice"} => IsList(d.options)
    /\ d.type \in {"multiple_choice", "hot_text"} => IsList(d.keys)
    /\ d.type = "multiple_true_false" => IsList(d.statements) /\ Range(d.answers) \subseteq BOOLEAN
    /\ d.type = "numeric" => \A r \in d.accepted :
         {r.value, r.min, r.max} \subseteq Int \cup {Null} /\ r.tolerance \in Int
         /\ r.toleranceMode \in {"absolute", "percent"}
    /\ d.type = "essay" => IsList(d.rubric) /\ \A c \in Range(d.rubric) : c.maxPoints \in Int
    /\ d.type = "matching" =>
         /\ IsList(d.left) /\ IsList(d.right) /\ IsList(d.pairs)
         /\ \A p \in Range(d.pairs) : p = [leftId |-> p.leftId, rightId |-> p.rightId]
    /\ d.type = "ordering" => IsList(d.items) /\ IsList(d.order)
    /\ d.type = "fill_blanks" =>
         /\ IsList(d.blanks) /\ \A o \in d.wordBank : ~IsBlank(o)
         /\ \A b \in Range(d.blanks) : b.kind \in BlankKinds /\ \A o \in b.options : ~IsBlank(o)
    /\ d.type = "categorization" => IsList(d.items) /\ IsList(d.categories)
    /\ d.type = "hotspot" => IsList(d.regions)
    /\ d.type = "hot_text" => IsList(d.segments)
    /\ d.type = "matrix" =>
         /\ IsList(d.rows) /\ IsList(d.columns)
         /\ d.correct # Null => \A row \in DOMAIN d.correct : IsList(d.correct[row])

ASSUME ScoringAssumption ==
  ScoringSet \subseteq [points : Int, penalty : Int, mode : STRING, allowNegative : BOOLEAN]

\* Of the texts that are typed, parseNumericInput reads those that have a meaning, and reads
\* them as what they mean.
ASSUME ReadingAssumption ==
  \A t \in Typed :
    LET v == parseNumericInput(t.word)
    IN IF t.word \in DOMAIN Reading
       THEN /\ v \in Nat \X (Nat \ {0})
            /\ Reading[t.word] \in Int /\ Res * v[1] = Reading[t.word] * v[2]
       ELSE v = Null

ASSUME NullAssumption ==
  Null \notin [files : Seq(File)] /\ Null \notin Int /\ Null \notin Int \X Int /\ Null \notin BOOLEAN

VARIABLES
  definition, scoring, order,
  value,      \* the response, Null before the first change
  picks,      \* Pick -> what onPick holds: files kept and files still to upload
  uploaded,   \* history: files whose upload has ended
  removed,    \* history: files taken out again, or of a dialogue that failed
  overlap     \* history: value changed while another dialogue was open

question == <<definition, scoring, order>>
history == <<uploaded, removed, overlap>>
vars == <<question, value, picks, history>>

Is(type) == definition.type = type

IdlePick == [kept |-> <<>>, todo |-> <<>>, open |-> FALSE]

\* Only what the server validated is ever shown.
Init ==
  /\ definition \in {d \in Definition : QuestionDefinition(d)}
  /\ scoring \in {s \in ScoringSet : ScoringOK(s)}
  /\ order \in IF definition.type = "ordering"
               THEN {<<>>, Reverse(definition.items), Tail(definition.items)} ELSE {<<>>}
  /\ value = Null
  /\ picks = [p \in Pick |-> IdlePick]
  /\ uploaded = {} /\ removed = {} /\ overlap = FALSE

Change(r) == value' = r /\ UNCHANGED <<question, picks, history>>

\* value?.field ?? none
Now(field, none) == IF value = Null THEN none ELSE value[field]

Put(f, x, y) == [z \in DOMAIN f \cup {x} |-> IF z = x THEN y ELSE f[z]]

Toggle(set, x) == IF x \in set THEN set \ {x} ELSE set \cup {x}

\* Mutant: one selection too many.
Room_OffByOne(selected) == IF definition.max = Null THEN TRUE ELSE Cardinality(selected) <= definition.max

Room(selected) == IF definition.max = Null THEN TRUE ELSE Cardinality(selected) < definition.max

NoMap == [x \in {} |-> Null]

(***************************************************************************)
(* One action per component.                                                *)
(***************************************************************************)
SingleChoice ==
  /\ Is("single_choice")
  /\ \E o \in Range(definition.options) :
       Change([optionId |-> IF Now("optionId", Null) = o THEN Null ELSE o])

MultipleChoice ==
  /\ Is("multiple_choice")
  /\ LET selected == Range(Now("optionIds", <<>>))
     IN \E o \in Range(definition.options) :
          /\ o \in selected \/ Room(selected)
          /\ Change([optionIds |-> InOrder(definition.options, Toggle(selected, o))])

TrueFalse ==
  /\ Is("true_false")
  /\ \E v \in BOOLEAN : Change([value |-> IF Now("value", Null) = v THEN Null ELSE v])

MultipleTrueFalse ==
  /\ Is("multiple_true_false")
  /\ \E s \in Range(definition.statements), v \in BOOLEAN :
       /\ At(Now("values", NoMap), s) # v
       /\ Change([values |-> Put(Now("values", NoMap), s, v)])

\* The field of a short answer takes maxLength characters at most.
ShortAnswer ==
  /\ Is("short_answer")
  /\ \E t \in Typed : Short(t) /\ Change([text |-> t])

Numeric ==
  /\ Is("numeric")
  /\ \E t \in Typed : Change([value |-> IF t.word = <<>> /\ t.marks = {} THEN Null ELSE t])

Essay == Is("essay") /\ \E t \in Typed : Change([text |-> t])

\* An item on the right is offered unless another pair uses it; "" takes the pair out.
Matching ==
  /\ Is("matching")
  /\ LET pairs == Now("pairs", <<>>)
         Current(l) == {p.rightId : p \in {q \in Range(pairs) : q.leftId = l}}
         Others(l) == InOrder(pairs, {p \in Range(pairs) : p.leftId # l})
     IN \E l \in Range(definition.left) :
          \/ Current(l) # {} /\ Change([pairs |-> Others(l)])
          \/ \E x \in Range(definition.right) :
               /\ definition.reuse \/ x \notin Range(Rights(Others(l)))
               /\ Current(l) # {x}
               /\ Change([pairs |-> Append(Others(l), [leftId |-> l, rightId |-> x])])

\* ordered(): the items in the order given, then those it leaves out.
Displayed(items, by) ==
  InOrder(by, Range(items)) \o InOrder(items, Range(items) \ Range(by))

Ordering ==
  /\ Is("ordering")
  /\ LET given == Now("order", <<>>)
         current == IF given = <<>> THEN Displayed(definition.items, order) ELSE given
     IN \E i \in 1..Len(current) - 1 :
          Change([order |-> [current EXCEPT ![i] = current[i + 1], ![i + 1] = current[i]]])

\* Typed texts for text and number blanks, options for the others; "" is Null.
FillBlanks ==
  /\ Is("fill_blanks")
  /\ LET values == Now("values", NoMap)
         used == {values[x] : x \in DOMAIN values} \ {Null}
         Offered(b) ==
           CASE b.kind = "dropdown" -> b.options
             [] b.kind = "word_bank" ->
                  IF definition.reuseWordBank THEN definition.wordBank
                  ELSE definition.wordBank \ (used \ {At(values, b.id)})
             [] OTHER -> {t \in Typed : t.word # <<>> \/ t.marks # {}}
     IN \E b \in Range(definition.blanks) :
          \E v \in Offered(b) \cup {Null} : Change([values |-> Put(values, b.id, v)])

Categorization ==
  /\ Is("categorization")
  /\ \E i \in Range(definition.items), c \in Range(definition.categories) \cup {Null} :
       Change([mapping |-> Put(Now("mapping", NoMap), i, c)])

LastOf(s, n) == SubSeq(s, IF Len(s) > n THEN Len(s) - n + 1 ELSE 1, Len(s))

\* A click beyond maxSelections drops the oldest point.
Hotspot ==
  /\ Is("hotspot")
  /\ LET points == Now("points", <<>>)
     IN \/ \E p \in Spot : Change([points |-> LastOf(Append(points, p), definition.max)])
        \/ \E i \in DOMAIN points : Change([points |-> RemoveAt(points, i)])

HotText ==
  /\ Is("hot_text")
  /\ LET selected == Range(Now("segmentIds", <<>>))
         ids == [i \in DOMAIN definition.segments |-> definition.segments[i].id]
     IN \E s \in Range(definition.segments) :
          /\ s.selectable
          /\ s.id \in selected \/ Room(selected)
          /\ Change([segmentIds |-> InOrder(ids, Toggle(selected, s.id))])

Matrix ==
  /\ Is("matrix")
  /\ LET selections == Now("selections", NoMap)
         Cur(row) == IF row \in DOMAIN selections THEN selections[row] ELSE <<>>
         Clicked(row, col) ==
           IF definition.many
           THEN IF Contains(Cur(row), col) THEN Without(Cur(row), col) ELSE Append(Cur(row), col)
           ELSE IF Cur(row) = <<col>> THEN <<>> ELSE <<col>>
     IN \E row \in Range(definition.rows), col \in Range(definition.columns) :
          Change([selections |-> Put(selections, row, Clicked(row, col))])

(***************************************************************************)
(* FileUpload.  The dialogue is offered while there is room; its files are    *)
(* uploaded one after the other and all put into value at the end.           *)
(***************************************************************************)
Files == Now("files", <<>>)

OpenBeside(p) == \E q \in Pick \ {p} : picks[q].open

\* Mutant: the dialogue forgets the files there are.
Opened_Empty(chosen) == [kept |-> <<>>, todo |-> chosen, open |-> TRUE]

Opened(chosen) == [kept |-> Files, todo |-> chosen, open |-> TRUE]

PickFiles ==
  /\ Is("file_upload")
  /\ Len(Files) < definition.maxFiles
  /\ \E p \in Pick, chosen \in {s \in UNION {[1..n -> File] : n \in 1..2} : Unique(s)} :
       /\ ~picks[p].open
       /\ definition.maxFiles = 1 => Len(chosen) = 1
       /\ Range(chosen) \cap (uploaded \cup UNION {Range(picks[q].todo) : q \in Pick}) = {}
       /\ picks' = [picks EXCEPT ![p] = Opened(chosen)]
  /\ UNCHANGED <<question, value, history>>

\* The loop stops at maxFiles; each turn waits for one upload.
UploadFile ==
  \E p \in Pick :
    /\ picks[p].open /\ picks[p].todo # <<>> /\ Len(picks[p].kept) < definition.maxFiles
    /\ picks' = [picks EXCEPT ![p].kept = Append(@, Head(picks[p].todo)), ![p].todo = Tail(@)]
    /\ uploaded' = uploaded \cup {Head(picks[p].todo)}
    /\ UNCHANGED <<question, value, removed, overlap>>

\* onChange with what the loop has put together.
EndPick ==
  \E p \in Pick :
    /\ picks[p].open
    /\ picks[p].todo = <<>> \/ Len(picks[p].kept) >= definition.maxFiles
    /\ value' = [files |-> picks[p].kept]
    /\ picks' = [picks EXCEPT ![p] = IdlePick]
    /\ overlap' = (overlap \/ OpenBeside(p))
    /\ UNCHANGED <<question, uploaded, removed>>

\* An upload is refused or the connection is lost: onPick ends there, with the files it has
\* uploaded before.
UploadFails ==
  \E p \in Pick :
    /\ picks[p].open /\ picks[p].todo # <<>> /\ Len(picks[p].kept) < definition.maxFiles
    /\ picks' = [picks EXCEPT ![p] = IdlePick]
    /\ removed' = removed \cup (Range(picks[p].kept) \ Range(Files))
    /\ UNCHANGED <<question, value, uploaded, overlap>>

RemoveFile ==
  /\ Is("file_upload")
  /\ \E i \in DOMAIN Files :
       /\ value' = [files |-> RemoveAt(Files, i)]
       /\ removed' = removed \cup {Files[i]}
  /\ overlap' = (overlap \/ \E p \in Pick : picks[p].open)
  /\ UNCHANGED <<question, picks, uploaded>>

Next ==
  \/ SingleChoice \/ MultipleChoice \/ TrueFalse \/ MultipleTrueFalse
  \/ ShortAnswer \/ Numeric \/ Essay
  \/ Matching \/ Ordering \/ FillBlanks \/ Categorization
  \/ Hotspot \/ HotText \/ Matrix
  \/ PickFiles \/ UploadFile \/ UploadFails \/ EndPick \/ RemoveFile

Spec == Init /\ [][Next]_vars

--------------------------------------------------------------------------------
(***************************************************************************)
(* Properties.  Grade is what the server makes of the present answer.        *)
(***************************************************************************)
GradeAs(s, r) == gradeResponse(definition, s, r, ResponseFits(definition, r))
Grade == GradeAs(scoring, value)

Distinct(s) == Cardinality(Range(s)) = Len(s)

\* Type invariant, a part of AnswersAreValid: answers have the fields of their type and name parts of the question.
TypeOK ==
  /\ definition.type \in QUESTION_TYPES
  /\ \A p \in Pick : Range(picks[p].kept) \cup Range(picks[p].todo) \subseteq File
  /\ value # Null =>
       CASE Is("single_choice") -> value.optionId \in Range(definition.options) \cup {Null}
         [] Is("multiple_choice") -> Range(value.optionIds) \subseteq Range(definition.options)
         [] Is("multiple_true_false") -> DOMAIN value.values \subseteq Range(definition.statements)
         [] Is("ordering") -> Range(value.order) = Range(definition.items)
         [] Is("hotspot") -> Range(value.points) \subseteq Spot
         [] Is("file_upload") -> Range(value.files) \subseteq File
         [] OTHER -> TRUE

\* The other parts of AnswersAreValid: answers that are refused as malformed (status invalid, score
\* 0) are texts longer than the schema of their type ...
RefusedIsLong ==
  Grade.status = "invalid" =>
    \/ Is("essay") /\ ~Short(value.text)
    \/ Is("numeric") /\ ~Short(value.value)
    \/ Is("fill_blanks") /\ \E x \in DOMAIN value.values : ~Short(value.values[x])

\* ... and the others keep the limits of their question: numbers of selections, points and
\* files, one use of each right item and of each word.
Within(r) ==
  CASE Is("multiple_choice") -> /\ Distinct(r.optionIds)
                                /\ definition.max = Null \/ Len(r.optionIds) <= definition.max
    [] Is("matching") -> /\ Distinct(Lefts(r.pairs))
                         /\ definition.reuse \/ Distinct(Rights(r.pairs))
    [] Is("ordering") -> Distinct(r.order)
    [] Is("fill_blanks") -> definition.reuseWordBank \/
         \A b, c \in {x \in Range(definition.blanks) : x.kind = "word_bank"} :
           b.id # c.id => At(r.values, b.id) = Null \/ At(r.values, b.id) # At(r.values, c.id)
    [] Is("hotspot") -> Len(r.points) <= definition.max
    [] Is("hot_text") -> definition.max = Null \/ Len(r.segmentIds) <= definition.max
    [] Is("matrix") -> \A row \in DOMAIN r.selections :
         Distinct(r.selections[row]) /\ (definition.many \/ Len(r.selections[row]) <= 1)
    [] Is("file_upload") -> Distinct(r.files) /\ Len(r.files) <= definition.maxFiles
    [] OTHER -> TRUE

WithinLimits == value # Null => Within(value)

\* However it was put together, click by click, an answer that the display lets through is
\* one that the schemas take and the question allows.
AnswersAreValid == TypeOK /\ RefusedIsLong /\ WithinLimits

(***************************************************************************)
(* The reference for grading: an answer is a set of facts (this option is     *)
(* chosen, that item is third, ...) and so is the key.                       *)
(***************************************************************************)
HasFacts ==
  /\ definition.type \in QUESTION_TYPES \ (TextTypes \cup {"fill_blanks", "hotspot", "file_upload"})
  /\ Is("single_choice") => definition.weights = Null
  /\ Is("matrix") => definition.correct # Null

Entries(f) == {<<x, f[x]>> : x \in {y \in DOMAIN f : f[y] # Null}}
Cells(f) == UNION {{<<row, col>> : col \in Range(f[row])} : row \in DOMAIN f}
PairsOf(s) == {<<p.leftId, p.rightId>> : p \in Range(s)}

Facts(r) ==
  CASE Is("single_choice") -> {r.optionId} \ {Null}
    [] Is("multiple_choice") -> Range(r.optionIds)
    [] Is("true_false") -> {r.value} \ {Null}
    [] Is("multiple_true_false") -> Entries(r.values)
    [] Is("matching") -> PairsOf(r.pairs)
    [] Is("ordering") -> Entries(r.order)
    [] Is("categorization") -> Entries(r.mapping)
    [] Is("hot_text") -> Range(r.segmentIds)
    [] Is("matrix") -> Cells(r.selections)

KeyFacts ==
  CASE Is("single_choice") -> {definition.correct}
    [] Is("multiple_choice") -> Range(definition.keys)
    [] Is("true_false") -> {definition.answer}
    [] Is("multiple_true_false") -> Entries(definition.answers)
    [] Is("matching") -> PairsOf(definition.pairs)
    [] Is("ordering") -> Entries(definition.order)
    [] Is("categorization") -> Entries(definition.mapping)
    [] Is("hot_text") -> Range(definition.keys)
    [] Is("matrix") -> Cells(definition.correct)

\* A key of a matrix may list a column twice, which no answer can.
KeyIsSet == Is("matrix") => \A row \in DOMAIN definition.correct : Unique(definition.correct[row])

AreasApart ==
  \A q \in Spot : \A i, j \in DOMAIN definition.regions :
    pointInRegion(q, definition.regions[i]) /\ pointInRegion(q, definition.regions[j]) => i = j

\* The parts of FullMarksIffRight: facts and areas, in both modes of scoring ...
KeyDecides ==
  Grade.status = "graded" =>
    /\ HasFacts /\ KeyIsSet => (Grade.correct <=> Facts(value) = KeyFacts)
    /\ Is("hotspot") /\ AreasApart => (Grade.correct <=>
         /\ Len(value.points) = Len(definition.regions)
         /\ \A g \in Range(definition.regions) : \E q \in Range(value.points) : pointInRegion(q, g))
    /\ Grade.correct => Grade.score = Round(scoring.points, 1)

\* Whether the number x is one that the rule r accepts.
Agrees(x, r) ==
  IF r.value = Null THEN x \in r.min..r.max
  ELSE IF r.toleranceMode = "absolute" THEN x \in r.value - r.tolerance..r.value + r.tolerance
  ELSE 100 * Abs(x - r.value) <= Abs(r.value) * r.tolerance

\* ... and typed numbers, which are right if what they mean is.
NumberDecides ==
  Grade.status = "graded" /\ Is("numeric") =>
    (Grade.correct <=> \E r \in definition.accepted :
       r.score = Whole /\ value.value.word \in DOMAIN Reading /\ Agrees(Reading[value.value.word], r))

\* Full marks are for the key and nothing else, whatever the order of the participant's clicks
\* (for areas that do not overlap).
FullMarksIffRight == KeyDecides /\ NumberDecides

\* The parts of ScoreInRange: marks by rubric, and automatic grades.
RubricInRange ==
  Is("essay") =>
    \A marks \in [{c.id : c \in Range(definition.rubric)} -> -1..5] :
      LET score == scoreFromRubric(definition.rubric, marks, scoring.points)
      IN /\ score \in 0..Round(scoring.points, 1)
         /\ /\ \A c \in Range(definition.rubric) : marks[c.id] >= c.maxPoints
            /\ \E c \in Range(definition.rubric) : c.maxPoints > 0
            => score = Round(scoring.points, 1)

GradeInRange ==
  Grade.status = "graded" =>
    /\ Grade.score <= Round(scoring.points, 1)
    /\ Grade.score >= IF scoring.allowNegative THEN Round(-scoring.penalty, 1) ELSE 0
    /\ GradeAs([scoring EXCEPT !.mode = "partial"], value).score
         >= GradeAs([scoring EXCEPT !.mode = "all_or_nothing"], value).score

\* Scores stay between the penalty (or zero) and the points, and partial scoring never
\* gives less than all or nothing; marks by rubric stay between zero and the points.
ScoreInRange == RubricInRange /\ GradeInRange

\* An answer that was taken back entirely counts as none: no penalty, no grader's work.
ClearedIsUnanswered ==
  /\ value # Null /\ scoring.points > 0 /\ HasFacts /\ Facts(value) = {}
       => Grade.status = "unanswered"
  /\ value # Null /\ scoring.points > 0 /\ Is("file_upload") /\ value.files = <<>>
       => Grade.status = "unanswered"

(***************************************************************************)
(* The answer that the key asks for, put together from what is on display.   *)
(***************************************************************************)
RowKey(d, row) == IF row \in DOMAIN d.correct THEN d.correct[row] ELSE <<>>

\* What counts in full in the blank b; a text of spaces would count as no answer.
Fills(d, b) ==
  LET key == d.keys[b.id]
  IN CASE b.kind = "dropdown" -> key.optionIds \cap b.options
       [] b.kind = "word_bank" -> key.optionIds \cap d.wordBank
       [] OTHER -> {t \in Typed : ~IsBlank(t) /\ BlankScore(b, key, t) = Whole}

Filled(d, x) ==
  LET fills == UNION {Fills(d, b) : b \in {c \in Range(d.blanks) : c.id = x}}
  IN IF fills = {} THEN Null ELSE CHOOSE v \in fills : TRUE

Full(d) ==
  CASE d.type = "single_choice" -> [optionId |-> d.correct]
    [] d.type = "multiple_choice" -> [optionIds |-> InOrder(d.options, Range(d.keys))]
    [] d.type = "true_false" -> [value |-> d.answer]
    [] d.type = "multiple_true_false" -> [values |-> [s \in Range(d.statements) |-> d.answers[s]]]
    [] d.type = "matching" -> [pairs |->
         InOrder(d.pairs, [leftId : Range(d.left), rightId : Range(d.right)])]
    [] d.type = "ordering" -> [order |-> InOrder(d.order, Range(d.items))]
    [] d.type = "fill_blanks" -> [values |-> [x \in {b.id : b \in Range(d.blanks)} |-> Filled(d, x)]]
    [] d.type = "categorization" -> [mapping |-> [i \in Range(d.items) |->
         IF At(d.mapping, i) \in Range(d.categories) THEN d.mapping[i] ELSE Null]]
    [] d.type = "hot_text" -> [segmentIds |->
         InOrder([i \in DOMAIN d.segments |-> d.segments[i].id],
                 Range(d.keys) \cap {s.id : s \in {t \in Range(d.segments) : t.selectable}})]
    [] d.type = "matrix" -> [selections |-> [row \in Range(d.rows) |-> RowKey(d, row)]]

HasKey(d) ==
  /\ d.type \in QUESTION_TYPES \ (TextTypes \cup {"hotspot", "file_upload"})
  /\ d.type = "matrix" => d.correct # Null

ASSUME FullAssumption ==
  \A d \in Definition : QuestionDefinition(d) /\ HasKey(d) => Full(d) # Null

\* Some text among those that are typed is right.
Fillable == \A b \in Range(definition.blanks) : b.kind \in {"text", "numeric"} => Fills(definition, b) # {}

KeyAllowed ==
  definition.type \in {"multiple_choice", "hot_text"} =>
    definition.max = Null \/ Cardinality(Range(definition.keys)) <= definition.max

\* A valid question can be answered in full, within the limits it sets (but for a word bank, whose
\* key may need a word twice), and that answer counts, unless its key asks for nothing (a mapping
\* or a grid without entries is valid).
KeyIsAnswerable ==
  (Is("fill_blanks") /\ Fillable) \/ (HasFacts /\ KeyIsSet /\ KeyAllowed) =>
    /\ AutoPart(definition, Full(definition)).exact
    /\ Is("fill_blanks") \/ Within(Full(definition))
    /\ isEmptyResponse(definition, Full(definition)) => HasFacts /\ KeyFacts = {}

\* A participant who puts more of an answer right and nothing more wrong never loses marks,
\* in whichever order the changes are made.
ProgressPays ==
  [][/\ HasFacts /\ value # Null /\ value' # Null
     /\ Grade.status = "graded" /\ Grade'.status = "graded"
     /\ Facts(value) \cap KeyFacts \subseteq Facts(value)'
     /\ Facts(value)' \ KeyFacts \subseteq Facts(value)
     => Grade'.score >= Grade.score]_vars

\* While no two changes of the files overlap, what was uploaded and not taken out again,
\* nor lost with a later upload of the same dialogue that failed, is part of the answer
\* once the dialogue has ended.
NoUploadLost ==
  Is("file_upload") /\ ~overlap /\ (\A p \in Pick : ~picks[p].open)
    => uploaded \ removed = Range(Files)
================================================================================
