------------------------------ MODULE MCAnswering ------------------------------
(***************************************************************************)
(* Questions of every type for TLC: valid ones, among them those with         *)
(* distractors, limits and several areas, and ones that checkConsistency has  *)
(* to refuse.                                                               *)
(***************************************************************************)
EXTENDS Answering

Text(word, marks) == [word |-> word, marks |-> marks]
Number(word) == Text(word, {})

Rule(mode, word, score) ==
  [mode |-> mode, value |-> Text(word, {}), finds |-> {<<"a", "b">>}, score |-> score,
   caseSensitive |-> FALSE, normalizeWhitespace |-> TRUE, ignorePunctuation |-> FALSE, ignoreAccents |-> FALSE]

NumRule(n, tolerance, score) ==
  [value |-> n, tolerance |-> tolerance, toleranceMode |-> "absolute",
   min |-> Null, max |-> Null, score |-> score]

Pair(l, r) == [leftId |-> l, rightId |-> r]
Rect(id, x) == [id |-> id, shape |-> "rect", x |-> x, y |-> 0, width |-> 1, height |-> 2]
Square(id) ==
  [id |-> id, shape |-> "polygon",
   points |-> <<[x |-> 4, y |-> 0], [x |-> 8, y |-> 0], [x |-> 8, y |-> 4], [x |-> 4, y |-> 4]>>]

ChoiceQuestions ==
  {[type |-> "single_choice", options |-> <<"A", "B", "C">>, correct |-> c, weights |-> w] :
     c \in {"A", "D"}, w \in {Null, [A |-> 2, B |-> 4]}}
  \cup {[type |-> "multiple_choice", options |-> <<"A", "B", "C">>, keys |-> k, min |-> Null, max |-> m] :
     k \in {<<"B", "A">>, <<"A", "D">>, <<"C">>}, m \in {Null, 2}}
  \cup {[type |-> "true_false", answer |-> b] : b \in BOOLEAN}
  \cup {[type |-> "multiple_true_false", statements |-> <<"s", "t">>, answers |-> f] :
     f \in {[s |-> TRUE, t |-> FALSE], [s |-> TRUE]}}

TextQuestions ==
  {[type |-> "short_answer", accepted |-> a] :
     a \in {{Rule("exact", <<"a", "b">>, 4), Rule("contains", <<"a">>, 2)}, {Rule("regex", <<"x">>, 4)}}}
  \cup {[type |-> "numeric", accepted |-> a] :
     a \in {{NumRule(125050, 0, 4), NumRule(150, 0, 4), NumRule(150, 50, 2)},
            {[NumRule(Null, 0, 4) EXCEPT !.min = 150, !.max = 200]},
            {[NumRule(160, 10, 4) EXCEPT !.toleranceMode = "percent"]}}}
  \cup {[type |-> "essay", rubric |-> r] :
     r \in {<<[id |-> "c", maxPoints |-> 4], [id |-> "n", maxPoints |-> 0]>>, <<[id |-> "n", maxPoints |-> 0]>>, <<>>}}

BlanksQuestion(keys, markers) ==
  [type |-> "fill_blanks", markers |-> markers, reuseWordBank |-> FALSE,
   blanks |-> <<[id |-> "x", kind |-> "text", options |-> {}], [id |-> "y", kind |-> "word_bank", options |-> {}],
                [id |-> "z", kind |-> "word_bank", options |-> {}], [id |-> "n", kind |-> "numeric", options |-> {}]>>,
   wordBank |-> {Text(<<"w">>, {}), Text(<<"v">>, {})}, keys |-> keys]

BlankKey(word) ==
  [accepted |-> {Rule("exact", <<"a", "b">>, 4)}, numeric |-> {NumRule(150, 0, 4)},
   optionIds |-> {Text(<<word>>, {})}]

ArrangeQuestions ==
  {[type |-> "matching", left |-> <<"l", "m", "d">>, right |-> <<"r", "q", "z">>, reuse |-> FALSE, pairs |-> p] :
     p \in {<<Pair("l", "r"), Pair("m", "q")>>, <<Pair("l", "r"), Pair("l", "q")>>}}
  \cup {[type |-> "ordering", items |-> <<"i", "j", "k">>, order |-> o] : o \in {<<"k", "i", "j">>, <<"k", "i">>}}
  \cup {[type |-> "categorization", items |-> <<"i", "j", "d">>, categories |-> <<"c", "e">>, mapping |-> m] :
     m \in {[i |-> "c", j |-> "e"], [i |-> "c", j |-> "u"], [i \in {} |-> "c"]}}
  \cup {BlanksQuestion([x |-> BlankKey("w"), y |-> BlankKey("w"), z |-> BlankKey("v"), n |-> BlankKey("w")],
                       <<"y", "x", "z", "n">>),
        BlanksQuestion([x |-> BlankKey("u"), y |-> BlankKey("u"), z |-> BlankKey("v"), n |-> BlankKey("u")],
                       <<"y", "x", "z", "n">>)}

AreaQuestions ==
  {[type |-> "hotspot", max |-> m, regions |-> <<Rect("R", 0), Square("Q"), [id |-> "O", shape |-> "circle", cx |-> 12, cy |-> 2, r |-> 2]>>] :
     m \in {2, 3}}
  \cup {[type |-> "hot_text", max |-> 2, keys |-> k,
         segments |-> <<[id |-> "g", selectable |-> TRUE], [id |-> "h", selectable |-> FALSE],
                        [id |-> "o", selectable |-> TRUE], [id |-> "p", selectable |-> TRUE]>>] :
     k \in {<<"p", "g">>, <<"h">>}}
  \cup {[type |-> "matrix", rows |-> <<"r", "s">>, columns |-> <<"c", "e">>, many |-> b, correct |-> c] :
     b \in BOOLEAN, c \in {Null, [r |-> <<"c">>, s |-> <<"e">>], [r |-> <<"e", "c">>], [r |-> <<"c">>, s |-> <<"u">>], [x \in {} |-> <<>>],
                         [r |-> <<"e", "e">>, s |-> <<"c">>]}}
  \cup {[type |-> "file_upload", maxFiles |-> 3, rubric |-> <<>>]}

Questions == ChoiceQuestions \cup TextQuestions \cup ArrangeQuestions \cup AreaQuestions

\* 3 points and an amount that is no multiple of the rounding step.
Scorings ==
  {[points |-> p, mode |-> m, penalty |-> f, allowNegative |-> n] :
     p \in {0, 30005}, m \in {"all_or_nothing", "partial"}, f \in {0, 10001}, n \in BOOLEAN}

Readings ==
  <<"1", ",", "5">> :> 150 @@ <<"1", ".", "5">> :> 150 @@
  <<"1", ".", "2", "5", "0", ",", "5">> :> 125050 @@ <<"1", ",", "2", "5", "0", ".", "5">> :> 125050 @@
  <<"2">> :> 200

TypedTexts ==
  {Text(<<>>, {}), Text(<<>>, {"space"}), Text(<<"a", "b">>, {"upper", "space"}), Text(<<"a", "b">>, {"accent"}),
   Text(<<"b", "a">>, {}), Text(<<"a", "b">>, {"long"})} \cup {Number(w) : w \in DOMAIN Readings \cup {<<"1", ",", ",">>}}

Spots == {[x |-> 1, y |-> 2], [x |-> 5, y |-> 1], [x |-> 12, y |-> 0], [x |-> 10, y |-> 3]}
================================================================================
