------------------------------ MODULE GradeEngine ------------------------------
(***************************************************************************)
(* Automatic grading (packages/shared/src/questions/grading.ts): pure       *)
(* operators over a question d, its scoring and a response r.  A question    *)
(* is a record of its content and answer key together; ids are any values,   *)
(* lists are sequences, objects keyed by id are functions.                  *)
(*                                                                         *)
(* Numbers.  Points are integers, Grain of them to a ten-thousandth, the     *)
(* step to which scores are rounded.  Weights of rules and options are in    *)
(* Whole-ths; numbers that answers are compared with, in Res-ths.            *)
(*                                                                         *)
(* Texts.  A text is a word with the marks in which spellings differ; what   *)
(* a regular expression finds is the set of words of its rule.  A typed      *)
(* number is a text whose word is its characters; signs and exponents are     *)
(* left out.                                                                *)
(***************************************************************************)
EXTENDS Integers, Sequences, FiniteSets, SequencesExt

CONSTANTS Null, Grain, Whole, Res

ASSUME GrainAssumption == {Grain, Whole, Res} \subseteq Nat \ {0}

Ids(list) == {list[i].id : i \in DOMAIN list}

At(f, x) == IF x \in DOMAIN f THEN f[x] ELSE Null

\* What list has of set, in the order of list: SelectSeq as a recursive function.
InOrder(list, set) ==
  LET first[n \in 0..Len(list)] ==
        IF n = 0 THEN <<>>
        ELSE IF list[n] \in set THEN Append(first[n - 1], list[n]) ELSE first[n - 1]
  IN first[Len(list)]

Total(marks) ==
  LET sum[n \in 0..Len(marks)] == IF n = 0 THEN 0 ELSE sum[n - 1] + marks[n] IN sum[Len(marks)]

(***************************************************************************)
(* Parts.  A grader finds the right part num / den of an answer, and        *)
(* whether the answer is exactly right.                                     *)
(***************************************************************************)
Part(num, den, exact) == [num |-> num, den |-> den, exact |-> exact]

YesNo(ok) == Part(IF ok THEN 1 ELSE 0, 1, ok)

Clamp(p) == [p EXCEPT !.num = IF @ < 0 THEN 0 ELSE IF @ > p.den THEN p.den ELSE @]

\* round: to the next multiple of Grain, a half goes up.
Round(num, den) == Grain * ((2 * num + Grain * den) \div (2 * Grain * den))

Best(scores) == CHOOSE b \in scores \cup {0} : \A s \in scores \cup {0} : s <= b

(***************************************************************************)
(* Texts and numbers.                                                       *)
(***************************************************************************)
IsBlank(t) == t = Null \/ (t.word = <<>> /\ t.marks \subseteq {"space"})

\* The marks that normalizeText removes; taking out punctuation also tidies spaces.
Ignored(rule) ==
  (IF rule.normalizeWhitespace \/ rule.ignorePunctuation THEN {"space"} ELSE {})
  \cup (IF rule.ignoreAccents THEN {"accent"} ELSE {})
  \cup (IF rule.ignorePunctuation THEN {"punct"} ELSE {})
  \cup (IF rule.caseSensitive THEN {} ELSE {"upper"})

normalizeText(t, rule) == [t EXCEPT !.marks = @ \ Ignored(rule)]

Includes(a, v) ==
  \E i \in 0..Len(a.word) - Len(v.word) :
    SubSeq(a.word, i + 1, i + Len(v.word)) = v.word /\ v.marks = a.marks

RegexFinds(t, rule) ==
  /\ t.word \in rule.finds
  /\ t.marks \subseteq (IF rule.normalizeWhitespace THEN {"space"} ELSE {})
                        \cup (IF rule.caseSensitive THEN {} ELSE {"upper"})

TextMatches(t, rule) ==
  LET a == normalizeText(t, rule)
      v == normalizeText(rule.value, rule)
  IN CASE rule.mode = "regex" -> RegexFinds(t, rule)
       [] rule.mode = "exact" -> a = v
       [] rule.mode = "contains" -> v.word # <<>> /\ Includes(a, v)

matchText(t, rules) == Best({r.score : r \in {q \in rules : TextMatches(t, q)}})

Digits == <<"0", "1", "2", "3", "4", "5", "6", "7", "8", "9">>
DigitValue(c) == (CHOOSE i \in DOMAIN Digits : Digits[i] = c) - 1

Without(s, c) == InOrder(s, Range(s) \ {c})
FirstPos(s, c) == CHOOSE i \in DOMAIN s : s[i] = c /\ \A j \in 1..i - 1 : s[j] # c
LastPos(s, c) == CHOOSE i \in DOMAIN s : s[i] = c /\ \A j \in i + 1..Len(s) : s[j] # c
CommaToDot(s) == IF Contains(s, ",") THEN [s EXCEPT ![FirstPos(s, ",")] = "."] ELSE s

\* Of two separators the later one is the decimal one; a single comma is decimal.
DecimalPoint(s) ==
  IF Contains(s, ",") /\ Contains(s, ".") /\ LastPos(s, ",") < LastPos(s, ".")
  THEN Without(s, ",")
  ELSE CommaToDot(IF Contains(s, ",") THEN Without(s, ".") ELSE s)

IsDecimal(s) ==
  /\ \A i \in DOMAIN s : s[i] \in Range(Digits) \cup {"."}
  /\ \E i \in DOMAIN s : s[i] # "."
  /\ Len(s) - Len(Without(s, ".")) <= 1

\* The number <<n, d>> = n / d a typed answer is read as, Null if it is none.
parseNumericInput(chars) ==
  LET s == DecimalPoint(Without(chars, " "))
      digits == Without(s, ".")
      decimals == IF Contains(s, ".") THEN Len(s) - FirstPos(s, ".") ELSE 0
  IN IF ~IsDecimal(s) THEN Null
     ELSE <<FoldLeft(LAMBDA acc, c : 10 * acc + DigitValue(c), 0, digits), 10^decimals>>

Abs(n) == IF n < 0 THEN -n ELSE n

NumberMatches(n, d, r) ==
  IF r.value # Null
  THEN LET off == Abs(Res * n - r.value * d)
       IN IF r.toleranceMode = "percent"
          THEN 100 * off <= Abs(r.value) * r.tolerance * d
          ELSE off <= r.tolerance * d
  ELSE r.min * d <= Res * n /\ Res * n <= r.max * d

matchNumeric(v, rules) == Best({r.score : r \in {q \in rules : NumberMatches(v[1], v[2], q)}})

NumericScore(chars, rules) ==
  LET v == parseNumericInput(chars) IN IF v = Null THEN 0 ELSE matchNumeric(v, rules)

(***************************************************************************)
(* Points and regions of a hotspot, on a grid.                              *)
(***************************************************************************)
Crosses(p, a, b) ==
  /\ (a.y > p.y) # (b.y > p.y)
  /\ LET side == (b.x - a.x) * (p.y - a.y) - (p.x - a.x) * (b.y - a.y)
     IN IF b.y > a.y THEN side > 0 ELSE side < 0

pointInRegion(p, g) ==
  CASE g.shape = "rect" ->
         p.x \in g.x..g.x + g.width /\ p.y \in g.y..g.y + g.height
    [] g.shape = "circle" ->
         (p.x - g.cx) * (p.x - g.cx) + (p.y - g.cy) * (p.y - g.cy) <= g.r * g.r
    [] g.shape = "polygon" ->
         LET n == Len(g.points)
             Before(i) == IF i = 1 THEN n ELSE i - 1
         IN Cardinality({i \in 1..n : Crosses(p, g.points[i], g.points[Before(i)])}) % 2 = 1

(***************************************************************************)
(* Graders.                                                                 *)
(***************************************************************************)
selectionFraction(selected, keys) ==
  LET hits == Cardinality(selected \cap keys)
      wrong == Cardinality(selected \ keys)
  IN Part(hits - wrong, Cardinality(keys), hits = Cardinality(keys) /\ wrong = 0)

SingleChoicePart(d, r) ==
  IF d.weights = Null THEN YesNo(r.optionId = d.correct)
  ELSE LET w == At(d.weights, r.optionId)
       IN Part(IF w = Null THEN 0 ELSE w, Whole, w = Whole)

MultipleTrueFalsePart(d, r) ==
  LET right == {s \in Range(d.statements) : At(r.values, s) = d.answers[s]}
  IN Part(Cardinality(right), Len(d.statements), right = Range(d.statements))

WeightPart(w) == Part(w, Whole, w = Whole)

FirstPair(pairs, l) ==
  pairs[CHOOSE i \in DOMAIN pairs : pairs[i].leftId = l /\ \A j \in 1..i - 1 : pairs[j].leftId # l]

\* Mutant: paired distractors are not held against an answer.
MatchingPart_NoDistractors(d, r) ==
  LET right == {p \in Range(r.pairs) : p \in Range(d.pairs)}
  IN Part(Cardinality(right), Len(d.pairs), right = Range(d.pairs))

MatchingPart(d, r) ==
  LET key == [l \in {p.leftId : p \in Range(d.pairs)} |-> FirstPair(d.pairs, l).rightId]
      seen == {p.leftId : p \in Range(r.pairs)}
      right == {l \in seen \cap DOMAIN key : FirstPair(r.pairs, l).rightId = key[l]}
      wrong == seen \ DOMAIN key
  IN Part(Cardinality(right) - Cardinality(wrong), Cardinality(DOMAIN key),
          right = DOMAIN key /\ wrong = {})

\* Mutant: positions are compared off by one.
OrderingPart_OffByOne(d, r) ==
  LET inPlace == {i \in DOMAIN r.order : i + 1 \in DOMAIN d.order /\ r.order[i] = d.order[i + 1]}
  IN Part(Cardinality(inPlace), Len(d.order), r.order = d.order)

OrderingPart(d, r) ==
  LET inPlace == {i \in DOMAIN d.order \cap DOMAIN r.order : r.order[i] = d.order[i]}
  IN Part(Cardinality(inPlace), Len(d.order), r.order = d.order)

BlankScore(b, key, v) ==
  IF v = Null THEN 0
  ELSE CASE b.kind = "text" -> IF v.word = <<>> /\ v.marks = {} THEN 0 ELSE matchText(v, key.accepted)
         [] b.kind = "numeric" -> NumericScore(v.word, key.numeric)
         [] b.kind \in {"dropdown", "word_bank"} -> IF v \in key.optionIds THEN Whole ELSE 0

FillBlanksPart(d, r) ==
  LET total == Total([i \in DOMAIN d.blanks |->
                        BlankScore(d.blanks[i], d.keys[d.blanks[i].id], At(r.values, d.blanks[i].id))])
  IN Part(total, Whole * Len(d.blanks), total = Whole * Len(d.blanks))

CategorizationPart(d, r) ==
  LET right == {i \in Range(d.items) \cap DOMAIN d.mapping : At(r.mapping, i) = d.mapping[i]}
      wrong == {i \in Range(d.items) \ DOMAIN d.mapping : At(r.mapping, i) # Null}
      keyed == Cardinality(DOMAIN d.mapping)
  IN Part(Cardinality(right) - Cardinality(wrong), IF keyed = 0 THEN 1 ELSE keyed,
          right = DOMAIN d.mapping /\ wrong = {})

\* Each point hits the first region, in the order of the key, that it lies in and no
\* earlier point has hit.
HotspotPart(d, r) ==
  LET Hit(acc, p) ==
        LET open == {i \in DOMAIN d.regions \ acc.hit : pointInRegion(p, d.regions[i])}
        IN IF open = {} THEN [acc EXCEPT !.misses = @ + 1]
           ELSE [acc EXCEPT !.hit = @ \cup {CHOOSE i \in open : \A j \in open : i <= j}]
      shots == IF Len(r.points) < d.max THEN Len(r.points) ELSE d.max
      after[n \in 0..shots] == IF n = 0 THEN [hit |-> {}, misses |-> 0] ELSE Hit(after[n - 1], r.points[n])
      end == after[shots]
  IN Part(Cardinality(end.hit) - end.misses, Len(d.regions),
          end.hit = DOMAIN d.regions /\ end.misses = 0)

\* A key that lists a column twice is longer than any set of selected columns.
MatrixPart(d, r) ==
  LET Expected(row) == IF row \in DOMAIN d.correct THEN d.correct[row] ELSE <<>>
      Got(row) == IF row \in DOMAIN r.selections THEN Range(r.selections[row]) ELSE {}
      right == {row \in Range(d.rows) : /\ Range(Expected(row)) = Got(row)
                                        /\ Len(Expected(row)) = Cardinality(Got(row))}
  IN Part(Cardinality(right), Len(d.rows), right = Range(d.rows))

AutoPart(d, r) ==
  CASE d.type = "single_choice" -> SingleChoicePart(d, r)
    [] d.type = "multiple_choice" -> selectionFraction(Range(r.optionIds), Range(d.keys))
    [] d.type = "true_false" -> YesNo(r.value = d.answer)
    [] d.type = "multiple_true_false" -> MultipleTrueFalsePart(d, r)
    [] d.type = "short_answer" -> WeightPart(matchText(r.text, d.accepted))
    [] d.type = "numeric" -> WeightPart(NumericScore(r.value.word, d.accepted))
    [] d.type = "matching" -> MatchingPart(d, r)
    [] d.type = "ordering" -> OrderingPart(d, r)
    [] d.type = "fill_blanks" -> FillBlanksPart(d, r)
    [] d.type = "categorization" -> CategorizationPart(d, r)
    [] d.type = "hotspot" -> HotspotPart(d, r)
    [] d.type = "hot_text" -> selectionFraction(Range(r.segmentIds), Range(d.keys))
    [] d.type = "matrix" -> MatrixPart(d, r)

(***************************************************************************)
(* Grading one answer.                                                      *)
(***************************************************************************)
\* Mutant: only a map without entries is empty.
AllAre_NoEntries(none, f) == DOMAIN f = {}

AllAre(none, f) == \A x \in DOMAIN f : f[x] = none

isEmptyResponse(d, r) ==
  \/ r = Null
  \/ CASE d.type = "single_choice" -> r.optionId = Null
       [] d.type = "multiple_choice" -> r.optionIds = <<>>
       [] d.type = "true_false" -> r.value = Null
       [] d.type = "multiple_true_false" -> AllAre(Null, r.values)
       [] d.type \in {"short_answer", "essay"} -> IsBlank(r.text)
       [] d.type = "numeric" -> IsBlank(r.value)
       [] d.type = "matching" -> r.pairs = <<>>
       [] d.type = "ordering" -> r.order = <<>>
       [] d.type = "fill_blanks" -> \A x \in DOMAIN r.values : IsBlank(r.values[x])
       [] d.type = "categorization" -> AllAre(Null, r.mapping)
       [] d.type = "hotspot" -> r.points = <<>>
       [] d.type = "hot_text" -> r.segmentIds = <<>>
       [] d.type = "matrix" -> AllAre(<<>>, r.selections)
       [] d.type = "file_upload" -> r.files = <<>>

ManualTypes == {"essay", "file_upload"}

Result(status, score, max, part, correct) ==
  [status |-> status, score |-> score, maxScore |-> max, part |-> part, correct |-> correct]

\* Mutant: no floor at zero.
Graded_NoFloor(p, s) ==
  LET c == Clamp(p)
      num == IF s.mode = "partial" THEN c.num ELSE IF p.exact THEN c.den ELSE 0
  IN Result("graded", Round(num * s.points - (IF num = 0 THEN s.penalty * c.den ELSE 0), c.den),
            s.points, c, p.exact)

Graded(p, s) ==
  LET c == Clamp(p)
      num == IF s.mode = "partial" THEN c.num ELSE IF p.exact THEN c.den ELSE 0
      gained == num * s.points
      kept == IF num = 0 THEN gained - s.penalty * c.den ELSE gained
      floor == IF s.allowNegative \/ kept >= 0 THEN kept ELSE 0
  IN Result("graded", Round(floor, c.den), s.points, c, p.exact)

\* fits: the response has the shape and the sizes its type asks for.
gradeResponse(d, s, r, fits) ==
  LET survey == d.type = "matrix" /\ d.correct = Null
  IN IF s.points = 0 \/ survey
     THEN Result("ungraded", 0, IF survey THEN 0 ELSE s.points, Null, Null)
     ELSE IF isEmptyResponse(d, r) THEN Result("unanswered", 0, s.points, Part(0, 1, FALSE), FALSE)
     ELSE IF ~fits THEN Result("invalid", 0, s.points, Part(0, 1, FALSE), FALSE)
     ELSE IF d.type \in ManualTypes THEN Result("pending_manual", Null, s.points, Null, Null)
     ELSE Graded(AutoPart(d, r), s)

\* Marks per criterion, each cut to the range of its criterion, scaled to the points.
scoreFromRubric(rubric, marks, max) ==
  LET Mark(c) == LET m == IF c.id \in DOMAIN marks THEN marks[c.id] ELSE 0
                 IN IF m < 0 THEN 0 ELSE IF m > c.maxPoints THEN c.maxPoints ELSE m
      total == Total([i \in DOMAIN rubric |-> Mark(rubric[i])])
      totalMax == Total([i \in DOMAIN rubric |-> rubric[i].maxPoints])
  IN IF totalMax <= 0 THEN 0 ELSE Round(total * max, totalMax)
================================================================================
