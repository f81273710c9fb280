----------------------------- MODULE QuestionTypes -----------------------------
(***************************************************************************)
(* What a valid question is (packages/shared/src/questions/types.ts): the    *)
(* sizes its schema asks for and the agreement of content and key that       *)
(* checkConsistency asks for; and what a valid response of each type is.     *)
(* Sizes that only keep documents small (26 options, 500 segments, ...) are   *)
(* cut off by MaxItems, the length of a text by its mark "long".              *)
(***************************************************************************)
EXTENDS GradeEngine

CONSTANT MaxItems

ASSUME MaxItemsAssumption == MaxItems \in Nat \ {0}

Unique(list) == \A i, j \in DOMAIN list : list[i] = list[j] => i = j

Sized(list, least) == Len(list) \in least..MaxItems

Limit(n) == n = Null \/ n \in Nat \ {0}

RuleOK(rule) == rule.score \in 0..Whole /\ (rule.mode = "regex" \/ rule.value.word # <<>> \/ rule.value.marks # {})

NumericRuleOK(rule) ==
  /\ rule.score \in 0..Whole
  /\ rule.value = Null => rule.min # Null /\ rule.max # Null
  /\ rule.min = Null \/ rule.max = Null \/ rule.min <= rule.max
  /\ rule.tolerance >= 0

(***************************************************************************)
(* Choices and statements.                                                  *)
(***************************************************************************)
ChoiceShape(d) ==
  CASE d.type = "single_choice" ->
         Sized(d.options, 2) /\ (d.weights = Null \/ Range(d.weights) \subseteq 0..Whole)
    [] d.type = "multiple_choice" -> Sized(d.options, 2) /\ Len(d.keys) >= 1 /\ Limit(d.max)
    [] d.type = "true_false" -> d.answer \in BOOLEAN
    [] d.type = "multiple_true_false" -> Sized(d.statements, 1)

SingleChoiceConsistent(d) ==
  /\ Unique(d.options)
  /\ d.correct \in Range(d.options)
  /\ d.weights # Null => DOMAIN d.weights \subseteq Range(d.options)

\* Mutant: the keys need not be options.
MultipleChoiceConsistent_AnyKey(d) == Unique(d.options) /\ Unique(d.keys)

MultipleChoiceConsistent(d) ==
  /\ Unique(d.options) /\ Unique(d.keys)
  /\ Range(d.keys) \subseteq Range(d.options)
  /\ d.min = Null \/ d.max = Null \/ d.min <= d.max

MultipleTrueFalseConsistent(d) ==
  Unique(d.statements) /\ DOMAIN d.answers = Range(d.statements)

(***************************************************************************)
(* Texts and numbers.                                                       *)
(***************************************************************************)
TextShape(d) ==
  CASE d.type = "short_answer" -> d.accepted # {} /\ \A rule \in d.accepted : RuleOK(rule)
    [] d.type = "numeric" -> d.accepted # {} /\ \A rule \in d.accepted : NumericRuleOK(rule)
    [] d.type = "essay" -> \A i \in DOMAIN d.rubric : d.rubric[i].maxPoints >= 0

ManualConsistent(d) == \A i, j \in DOMAIN d.rubric : d.rubric[i].id = d.rubric[j].id => i = j

(***************************************************************************)
(* Arrangements.                                                            *)
(***************************************************************************)
ArrangeShape(d) ==
  CASE d.type = "matching" -> Sized(d.left, 1) /\ Sized(d.right, 1) /\ Len(d.pairs) >= 1
    [] d.type = "ordering" -> Sized(d.items, 2) /\ Len(d.order) >= 2
    [] d.type = "categorization" -> Sized(d.items, 1) /\ Sized(d.categories, 2)

Lefts(pairs) == [i \in DOMAIN pairs |-> pairs[i].leftId]
Rights(pairs) == [i \in DOMAIN pairs |-> pairs[i].rightId]

MatchingConsistent(d) ==
  /\ Unique(d.left) /\ Unique(d.right)
  /\ Range(Lefts(d.pairs)) \subseteq Range(d.left)
  /\ Range(Rights(d.pairs)) \subseteq Range(d.right)
  /\ Unique(Lefts(d.pairs))
  /\ d.reuse \/ Unique(Rights(d.pairs))

OrderingConsistent(d) ==
  /\ Unique(d.items) /\ Unique(d.order)
  /\ Len(d.order) = Len(d.items) /\ Range(d.items) \subseteq Range(d.order)

CategorizationConsistent(d) ==
  /\ Unique(d.items) /\ Unique(d.categories)
  /\ DOMAIN d.mapping \subseteq Range(d.items)
  /\ Range(d.mapping) \subseteq Range(d.categories)

(***************************************************************************)
(* Blanks in a text, whose markers are the sequence d.markers.               *)
(***************************************************************************)
BlankKinds == {"text", "numeric", "dropdown", "word_bank"}

FillBlanksShape(d) ==
  /\ Sized(d.blanks, 1)
  /\ \A key \in Range(d.keys) :
       (\A rule \in key.accepted : RuleOK(rule)) /\ \A number \in key.numeric : NumericRuleOK(number)

BlankConsistent(d, b) ==
  LET key == d.keys[b.id]
  IN CASE b.kind = "text" -> key.accepted # {}
       [] b.kind = "numeric" -> key.numeric # {}
       [] b.kind = "dropdown" -> b.options # {} /\ key.optionIds # {} /\ key.optionIds \subseteq b.options
       [] b.kind = "word_bank" -> d.wordBank # {} /\ key.optionIds # {} /\ key.optionIds \subseteq d.wordBank

FillBlanksConsistent(d) ==
  LET ids == [i \in DOMAIN d.blanks |-> d.blanks[i].id]
  IN /\ Unique(ids) /\ Unique(d.markers)
     /\ Range(ids) = Range(d.markers)
     /\ DOMAIN d.keys = Range(ids)
     /\ \A b \in Range(d.blanks) : BlankConsistent(d, b)

(***************************************************************************)
(* Areas, segments, grids and files.                                        *)
(***************************************************************************)
AreaShape(d) ==
  CASE d.type = "hotspot" -> d.max \in 1..MaxItems /\ Sized(d.regions, 1)
    [] d.type = "hot_text" -> Sized(d.segments, 1) /\ Limit(d.max) /\ Len(d.keys) >= 1
    [] d.type = "matrix" -> /\ Sized(d.rows, 1) /\ Sized(d.columns, 2)
                            /\ d.correct = Null \/ \A row \in DOMAIN d.correct : Len(d.correct[row]) >= 1
    [] d.type = "file_upload" -> d.maxFiles \in 1..MaxItems

HotspotConsistent(d) == Unique([i \in DOMAIN d.regions |-> d.regions[i].id])

HotTextConsistent(d) ==
  /\ Unique([i \in DOMAIN d.segments |-> d.segments[i].id])
  /\ Range(d.keys) \subseteq {s.id : s \in {t \in Range(d.segments) : t.selectable}}

MatrixConsistent(d) ==
  /\ Unique(d.rows) /\ Unique(d.columns)
  /\ d.correct # Null =>
       /\ DOMAIN d.correct \subseteq Range(d.rows)
       /\ \A row \in DOMAIN d.correct : Range(d.correct[row]) \subseteq Range(d.columns)
       /\ d.many \/ \A row \in DOMAIN d.correct : Len(d.correct[row]) <= 1

ChoiceTypes == {"single_choice", "multiple_choice", "true_false", "multiple_true_false"}
TextTypes == {"short_answer", "numeric", "essay"}
ArrangeTypes == {"matching", "ordering", "categorization"}
AreaTypes == {"hotspot", "hot_text", "matrix", "file_upload"}
QUESTION_TYPES == ChoiceTypes \cup TextTypes \cup ArrangeTypes \cup AreaTypes \cup {"fill_blanks"}

checkConsistency(d) ==
  CASE d.type = "single_choice" -> SingleChoiceConsistent(d)
    [] d.type = "multiple_choice" -> MultipleChoiceConsistent(d)
    [] d.type = "multiple_true_false" -> MultipleTrueFalseConsistent(d)
    [] d.type = "matching" -> MatchingConsistent(d)
    [] d.type = "ordering" -> OrderingConsistent(d)
    [] d.type = "fill_blanks" -> FillBlanksConsistent(d)
    [] d.type = "categorization" -> CategorizationConsistent(d)
    [] d.type = "hotspot" -> HotspotConsistent(d)
    [] d.type = "hot_text" -> HotTextConsistent(d)
    [] d.type = "matrix" -> MatrixConsistent(d)
    [] d.type \in ManualTypes -> ManualConsistent(d)
    [] d.type \in {"true_false", "short_answer", "numeric"} -> TRUE

\* A definition that the server stores and a package contains.
QuestionDefinition(d) ==
  /\ CASE d.type \in ChoiceTypes -> ChoiceShape(d)
       [] d.type \in TextTypes -> TextShape(d)
       [] d.type \in ArrangeTypes -> ArrangeShape(d)
       [] d.type \in AreaTypes -> AreaShape(d)
       [] d.type = "fill_blanks" -> FillBlanksShape(d)
  /\ checkConsistency(d)

ScoringOK(s) ==
  /\ s.points >= 0 /\ s.penalty >= 0
  /\ s.mode \in {"all_or_nothing", "partial"} /\ s.allowNegative \in BOOLEAN

(***************************************************************************)
(* The response schemas: the sizes of lists and of texts.  The display does   *)
(* not limit what is typed, but for short answers.                           *)
(***************************************************************************)
Short(t) == t = Null \/ "long" \notin t.marks

ResponseFits(d, r) ==
  CASE d.type = "multiple_choice" -> Len(r.optionIds) <= MaxItems
    [] d.type \in {"short_answer", "essay"} -> Short(r.text)
    [] d.type = "numeric" -> Short(r.value)
    [] d.type = "matching" -> Len(r.pairs) <= MaxItems
    [] d.type = "ordering" -> Len(r.order) <= MaxItems
    [] d.type = "fill_blanks" -> \A x \in DOMAIN r.values : Short(r.values[x])
    [] d.type = "hotspot" -> Len(r.points) <= MaxItems
    [] d.type = "hot_text" -> Len(r.segmentIds) <= MaxItems
    [] d.type = "matrix" -> \A row \in DOMAIN r.selections : Len(r.selections[row]) <= MaxItems
    [] d.type = "file_upload" -> Len(r.files) <= MaxItems
    [] d.type \in {"single_choice", "true_false", "multiple_true_false", "categorization"} -> TRUE
================================================================================
