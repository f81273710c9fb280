----------------------------- MODULE AnsweringProofs -----------------------------
(***************************************************************************)
(* Proofs about Answering, for any questions, texts, points and files.        *)
(*                                                                         *)
(* What InOrder makes of a list needs induction over the list.  Least turns   *)
(* the well-foundedness of the numbers, which is about sets, into induction   *)
(* over a set (Upwards) and into functions that are defined step by step      *)
(* (Recursion).                                                             *)
(***************************************************************************)
EXTENDS Answering, SequenceTheorems, FiniteSetTheorems, WellFoundedInduction, TLAPS

LEMMA Least == ASSUME NEW T, T \subseteq Nat, T # {} PROVE \E x \in T : \A y \in T : x <= y
<1> DEFINE R == {ss \in Nat \X Nat : ss[1] < ss[2]}
<1>1. IsWellFoundedOn(R, Nat)
  BY NatLessThanWellFounded DEF OpToRel
<1>2. PICK x \in T : \A y \in T : <<y, x>> \notin R
  BY <1>1, WFMin
<1>3. ASSUME NEW y \in T PROVE x <= y
  <2>1. x \in Nat /\ y \in Nat /\ <<y, x>> \notin R
    BY <1>2
  <2>2. <<y, x>> \in R <=> y < x
    BY <2>1
  <2>3. QED
    BY <2>1, <2>2
<1>4. QED
  BY <1>3

LEMMA Upwards ==
  ASSUME NEW N \in Nat, NEW T, 0 \in T, \A n \in 1..N : n - 1 \in T => n \in T
  PROVE  0..N \subseteq T
<1>1. SUFFICES ASSUME (0..N) \ T # {} PROVE FALSE
  OBVIOUS
<1>2. (0..N) \ T \subseteq Nat
  OBVIOUS
<1>3. PICK k \in (0..N) \ T : \A y \in (0..N) \ T : k <= y
  BY <1>1, <1>2, Least
<1>4. k \in 1..N /\ k - 1 \in 0..N /\ ~(k <= k - 1)
  BY <1>3
<1>5. k - 1 \in T
  BY <1>3, <1>4
<1>6. QED
  BY <1>3, <1>4, <1>5

\* A value for each number up to N: base, and from there on what step makes of the one before.
Recursive(N, A, base, step) == N \in Nat /\ base \in A /\ step \in [1..N -> [A -> A]]
Follows(f, N, A, base, step) ==
  f \in [0..N -> A] /\ f[0] = base /\ \A n \in 1..N : f[n] = step[n][f[n - 1]]

LEMMA Recursion ==
  ASSUME NEW N, NEW A, NEW base, NEW step, Recursive(N, A, base, step)
  PROVE  \E f : Follows(f, N, A, base, step)
<1> USE DEF Recursive
<1> DEFINE Goes(f, k) == f[0] = base /\ \A n \in 1..k : f[n] = step[n][f[n - 1]]
           T == {k \in 0..N : \E f \in [0..k -> A] : Goes(f, k)}
<1>1. 0 \in T
  <2> DEFINE f == [n \in 0..0 |-> base]
  <2>1. f \in [0..0 -> A] /\ Goes(f, 0)
    OBVIOUS
  <2> HIDE DEF f, Goes
  <2>2. QED
    BY <2>1
<1>2. ASSUME NEW k \in 1..N, k - 1 \in T PROVE k \in T
  <2>1. PICK f \in [0..k - 1 -> A] : Goes(f, k - 1)
    BY <1>2
  <2> DEFINE g == [n \in 0..k |-> IF n = k THEN step[k][f[k - 1]] ELSE f[n]]
  <2>2. g \in [0..k -> A]
    BY <2>1
  <2>3. g[0] = base
    BY <2>1
  <2>4. ASSUME NEW n \in 1..k PROVE g[n] = step[n][g[n - 1]]
    <3>1. n \in 0..k /\ n - 1 \in 0..k /\ n - 1 # k
      OBVIOUS
    <3>2. g[n - 1] = f[n - 1]
      BY <3>1
    <3>3. CASE n = k
      <4>1. g[k] = step[k][f[k - 1]]
        OBVIOUS
      <4>2. QED
        BY <4>1, <3>2, <3>3
    <3>4. CASE n # k
      <4>1. n \in 1..k - 1 /\ g[n] = f[n]
        BY <3>4
      <4>2. QED
        BY <4>1, <3>2, <2>1
    <3>5. QED
      BY <3>3, <3>4
  <2>5. QED
    <3> HIDE DEF g
    <3>1. QED BY <2>2, <2>3, <2>4
<1>3. N \in T
  <2> HIDE DEF T
  <2>1. 0..N \subseteq T
    BY <1>1, <1>2, Upwards
  <2>2. QED
    BY <2>1
<1>4. QED
  BY <1>3 DEF Follows

\* The values of first in InOrder.
Selects(f, list, set, S) ==
  /\ f \in [0..Len(list) -> Seq(S)]
  /\ f[0] = <<>>
  /\ \A n \in 1..Len(list) : f[n] = IF list[n] \in set THEN Append(f[n - 1], list[n]) ELSE f[n - 1]
  /\ InOrder(list, set) = f[Len(list)]

LEMMA InOrderSteps ==
  ASSUME NEW S, NEW list \in Seq(S), NEW set
  PROVE  \E f : Selects(f, list, set, S)
<1> DEFINE N == Len(list)
           Step(n, v) == IF list[n] \in set THEN Append(v, list[n]) ELSE v
           step == [n \in 1..N |-> [v \in Seq(S) |-> Step(n, v)]]
           Defines(g) == g = [n \in 0..N |-> IF n = 0 THEN <<>> ELSE Step(n, g[n - 1])]
           h == CHOOSE g : Defines(g)
<1>0. /\ N \in Nat
      /\ <<>> \in Seq(S)
      /\ \A n \in 1..N, v \in Seq(S) : Step(n, v) \in Seq(S)
  OBVIOUS
<1>1. InOrder(list, set) = h[N]
  BY DEF InOrder
<1> HIDE DEF N, Step
<1>2. step \in [1..N -> [Seq(S) -> Seq(S)]] /\ \A n \in 1..N, v \in Seq(S) : step[n][v] = Step(n, v)
  BY <1>0
<1> HIDE DEF step
<1>3. PICK f \in [0..N -> Seq(S)] : f[0] = <<>> /\ \A n \in 1..N : f[n] = step[n][f[n - 1]]
  <2>1. Recursive(N, Seq(S), <<>>, step)
    BY <1>0, <1>2 DEF Recursive
  <2>2. PICK f : Follows(f, N, Seq(S), <<>>, step)
    BY <2>1, Recursion
  <2>3. QED
    BY <2>2 DEF Follows
<1>4. \A n \in 1..N : f[n - 1] \in Seq(S) /\ f[n] = Step(n, f[n - 1])
  <2>1. ASSUME NEW n \in 1..N PROVE f[n - 1] \in Seq(S) /\ f[n] = Step(n, f[n - 1])
    <3>1. n - 1 \in 0..N
      BY <1>0
    <3>2. QED
      BY <3>1, <1>2, <1>3
  <2>2. QED
    BY <2>1
<1>5. Defines(f)
  <2>1. \A n \in 0..N : f[n] = IF n = 0 THEN <<>> ELSE Step(n, f[n - 1])
    BY <1>0, <1>3, <1>4
  <2>2. QED
    BY <2>1
<1>6. Defines(h)
  BY <1>5
<1> HIDE DEF h
<1>7. h = f
  <2> DEFINE T == {n \in 0..N : h[n] = f[n]}
  <2>1. 0 \in T
    BY <1>0, <1>3, <1>6
  <2>2. ASSUME NEW n \in 1..N, n - 1 \in T PROVE n \in T
    <3>1. n \in 0..N /\ n # 0 /\ h[n - 1] = f[n - 1]
      BY <1>0, <2>2
    <3>2. h[n] = Step(n, h[n - 1])
      BY <3>1, <1>6
    <3>3. QED
      BY <3>1, <3>2, <1>4
  <2>3. 0..N \subseteq T
    <3> HIDE DEF T
    <3>1. QED
      BY <1>0, <2>1, <2>2, Upwards
  <2>4. QED
    BY <1>3, <1>6, <2>3
<1>8. QED
  BY <1>1, <1>3, <1>4, <1>7 DEF N, Step, Selects
(***************************************************************************)
(* Lists.                                                                   *)
(***************************************************************************)
\* What InOrder keeps is what is in both, and nothing twice that is not twice in the list.
LEMMA InOrderKeeps ==
  ASSUME NEW S, NEW list \in Seq(S), NEW set
  PROVE  /\ InOrder(list, set) \in Seq(S)
         /\ Range(InOrder(list, set)) = Range(list) \cap set
         /\ Len(InOrder(list, set)) <= Len(list)
         /\ Unique(list) => Unique(InOrder(list, set))
<1> DEFINE N == Len(list)
           Of(n) == {list[i] : i \in 1..n} \cap set
<1>0. N \in Nat /\ \A i \in 1..N : list[i] \in S
  OBVIOUS
<1>b. PICK f : Selects(f, list, set, S)
  BY InOrderSteps
<1>1. /\ f \in [0..N -> Seq(S)] /\ f[0] = <<>>
      /\ \A n \in 1..N : f[n] = IF list[n] \in set THEN Append(f[n - 1], list[n]) ELSE f[n - 1]
      /\ InOrder(list, set) = f[N]
  BY <1>b DEF Selects
<1> DEFINE T == {n \in 0..N : /\ Range(f[n]) = Of(n) /\ Len(f[n]) <= n
                              /\ Unique(list) => Unique(f[n])}
<1>2. 0 \in T
  <2>1. Of(0) = {} /\ Range(<<>>) = {} /\ Len(<<>>) = 0 /\ Unique(<<>>)
    BY DEF Range, Unique
  <2> HIDE DEF Of
  <2>2. Range(f[0]) = Of(0) /\ Len(f[0]) = 0 /\ Unique(f[0])
    BY <1>1, <2>1
  <2>3. 0 \in 0..N /\ 0 <= 0
    BY <1>0
  <2>4. QED
    BY <2>2, <2>3
<1>3. ASSUME NEW n \in 1..N, n - 1 \in T PROVE n \in T
  <2>0. /\ n \in 0..N /\ n - 1 \in 0..N /\ n \in Nat
        /\ f[n - 1] \in Seq(S) /\ Len(f[n - 1]) \in Nat /\ list[n] \in S
        /\ Of(n) = Of(n - 1) \cup ({list[n]} \cap set)
        /\ Range(f[n - 1]) = Of(n - 1)
        /\ Len(f[n - 1]) <= n - 1
        /\ Unique(list) => Unique(f[n - 1])
    <3>1. n \in 0..N /\ n - 1 \in 0..N /\ n \in Nat /\ 1..n = (1..n - 1) \cup {n}
      BY <1>0
    <3>2. f[n - 1] \in Seq(S) /\ list[n] \in S
      BY <3>1, <1>0, <1>1
    <3>3. Len(f[n - 1]) \in Nat
      BY <3>2, LenProperties
    <3>4. Of(n) = Of(n - 1) \cup ({list[n]} \cap set)
      BY <3>1
    <3>5. QED
      BY <1>3, <3>1, <3>2, <3>3, <3>4
  <2>1. CASE list[n] \notin set
    <3>1. f[n] = f[n - 1]
      BY <1>1, <2>1
    <3>2. Len(f[n]) <= n
      BY <2>0, <3>1
    <3>3. QED
      BY <2>0, <2>1, <3>1, <3>2
  <2>2. CASE list[n] \in set
    <3>1. f[n] = Append(f[n - 1], list[n])
      BY <1>1, <2>2
    <3> DEFINE g == f[n - 1]
               k == Len(f[n - 1])
    <3>2. /\ Len(f[n]) = k + 1 /\ DOMAIN f[n] = 1..k + 1 /\ f[n][k + 1] = list[n]
          /\ \A i \in 1..k : f[n][i] = g[i]
          /\ DOMAIN g = 1..k
      BY <2>0, <3>1, AppendProperties, LenProperties
    <3> HIDE DEF g, k
    <3>3. k \in Nat /\ k <= n - 1 /\ Range(g) = Of(n - 1) /\ (Unique(list) => Unique(g))
      BY <2>0 DEF g, k
    <3>4. Range(f[n]) = Range(g) \cup {list[n]}
      <4>1. 1..k + 1 = (1..k) \cup {k + 1}
        BY <3>3
      <4>2. Range(f[n]) = {f[n][i] : i \in 1..k} \cup {f[n][k + 1]}
        BY <3>2, <4>1 DEF Range
      <4>3. {f[n][i] : i \in 1..k} = Range(g)
        BY <3>2 DEF Range
      <4>4. QED
        BY <3>2, <4>2, <4>3
    <3>5. ASSUME Unique(list) PROVE Unique(f[n])
      <4>1. \A i \in 1..k : g[i] # list[n]
        <5>1. ASSUME NEW i \in 1..k, g[i] = list[n] PROVE FALSE
          <6>1. g[i] \in Of(n - 1)
            <7> HIDE DEF Of
            <7>1. g[i] \in Range(g)
              BY <3>2 DEF Range
            <7>2. QED
              BY <7>1, <3>3
          <6>2. PICK j \in 1..n - 1 : list[j] = list[n]
            BY <6>1, <5>1
          <6>3. j \in DOMAIN list /\ n \in DOMAIN list /\ j # n
            BY <1>0, <2>0, LenProperties
          <6>4. QED
            BY <6>2, <6>3, <3>5 DEF Unique
        <5>2. QED
          BY <5>1
      <4>2. ASSUME NEW i \in 1..k + 1, NEW j \in 1..k + 1, f[n][i] = f[n][j] PROVE i = j
        <5>1. \A x \in 1..k + 1 : x \in 1..k \/ x = k + 1
          BY <3>3
        <5>2. QED
          BY <5>1, <4>1, <4>2, <3>2, <3>3, <3>5 DEF Unique
      <4>3. QED
        BY <4>2, <3>2 DEF Unique
    <3>6. Len(f[n]) <= n
      BY <2>0, <3>2, <3>3
    <3>7. Range(f[n]) = Of(n)
      BY <2>0, <2>2, <3>3, <3>4
    <3>8. QED
      BY <2>0, <3>5, <3>6, <3>7
  <2>3. QED
    BY <2>1, <2>2
<1>4. N \in T
  <2> HIDE DEF T
  <2>1. 0..N \subseteq T
    BY <1>0, <1>2, <1>3, Upwards
  <2>2. QED
    BY <1>0, <2>1
<1>5. Range(list) \cap set = Of(N)
  BY LenProperties DEF Range
<1>6. f[N] \in Seq(S)
  BY <1>0, <1>1
<1>7. QED
  <2>1. /\ Range(f[N]) = Of(N) /\ Len(f[N]) <= N /\ (Unique(list) => Unique(f[N]))
    BY <1>4
  <2> HIDE DEF Of
  <2>2. QED
    BY <1>1, <1>5, <1>6, <2>1

LEMMA RangeIsFinite ==
  ASSUME NEW S, NEW s \in Seq(S)
  PROVE  /\ IsFiniteSet(Range(s)) /\ Cardinality(Range(s)) \in Nat
         /\ Cardinality(Range(s)) <= Len(s) /\ Range(s) \subseteq S
         /\ Unique(s) => Cardinality(Range(s)) = Len(s)
<1>1. Len(s) \in Nat /\ DOMAIN s = 1..Len(s) /\ s \in [1..Len(s) -> S]
  BY LenProperties
<1>2. IsFiniteSet(1..Len(s)) /\ Cardinality(1..Len(s)) = Len(s)
  BY <1>1, FS_Interval
<1>3. s \in Surjection(1..Len(s), Range(s))
  BY <1>1 DEF Surjection, Range
<1>4. /\ IsFiniteSet(Range(s)) /\ Cardinality(Range(s)) \in Nat
      /\ Cardinality(Range(s)) <= Len(s)
  BY <1>2, <1>3, FS_Surjection, FS_CardinalityType
<1>5. ASSUME Unique(s) PROVE Cardinality(Range(s)) = Len(s)
  <2>1. s \in Injection(1..Len(s), Range(s))
    BY <1>1, <1>3, <1>5 DEF Injection, Surjection, IsInjective, Unique
  <2>2. QED
    BY <1>2, <1>3, <2>1, FS_Surjection
<1>6. QED
  BY <1>1, <1>4, <1>5 DEF Range

LEMMA AppendKeeps ==
  ASSUME NEW S, NEW s \in Seq(S), NEW e \in S
  PROVE  /\ Append(s, e) \in Seq(S) /\ Len(Append(s, e)) = Len(s) + 1
         /\ Range(Append(s, e)) = Range(s) \cup {e}
         /\ Unique(s) /\ e \notin Range(s) => Unique(Append(s, e))
<1> DEFINE t == Append(s, e)
           n == Len(s)
<1>1. /\ n \in Nat /\ DOMAIN s = 1..n /\ t \in Seq(S) /\ Len(t) = n + 1
      /\ DOMAIN t = 1..n + 1 /\ t[n + 1] = e /\ \A i \in 1..n : t[i] = s[i]
  BY LenProperties, AppendProperties
<1> HIDE DEF t, n
<1>2. 1..n + 1 = (1..n) \cup {n + 1}
  BY <1>1
<1>3. Range(t) = {t[i] : i \in 1..n} \cup {t[n + 1]} /\ {t[i] : i \in 1..n} = Range(s)
  BY <1>1, <1>2 DEF Range
<1>4. ASSUME Unique(s), e \notin Range(s) PROVE Unique(t)
  <2>1. \A i \in 1..n : s[i] # e
    BY <1>1, <1>4 DEF Range
  <2>2. QED
    BY <1>1, <1>2, <1>4, <2>1 DEF Unique
<1>5. QED
  BY <1>1, <1>3, <1>4 DEF t, n

LEMMA RemoveAtKeeps ==
  ASSUME NEW S, NEW s \in Seq(S), NEW i \in DOMAIN s
  PROVE  /\ RemoveAt(s, i) \in Seq(S) /\ Len(RemoveAt(s, i)) <= Len(s)
         /\ Range(RemoveAt(s, i)) \subseteq Range(s)
         /\ Unique(s) => Unique(RemoveAt(s, i)) /\ Range(RemoveAt(s, i)) = Range(s) \ {s[i]}
<1> DEFINE t == RemoveAt(s, i)
           n == Len(s)
           From(j) == IF j < i THEN j ELSE j + 1
<1>1. n \in Nat /\ DOMAIN s = 1..n /\ i \in 1..n
  BY LenProperties
<1>2. /\ SubSeq(s, 1, i - 1) \in Seq(S) /\ Len(SubSeq(s, 1, i - 1)) = i - 1
      /\ \A j \in 1..i - 1 : SubSeq(s, 1, i - 1)[j] = s[j]
  BY <1>1
<1>3. /\ SubSeq(s, i + 1, n) \in Seq(S) /\ Len(SubSeq(s, i + 1, n)) = n - i
      /\ \A j \in 1..n - i : SubSeq(s, i + 1, n)[j] = s[i + j]
  BY <1>1
<1> DEFINE u == SubSeq(s, 1, i - 1)
           v == SubSeq(s, i + 1, n)
<1>4. t = u \o v
  BY DEF RemoveAt
<1> HIDE DEF t, n, u, v
<1>5. /\ t \in Seq(S) /\ Len(t) = n - 1 /\ DOMAIN t = 1..n - 1
      /\ \A j \in 1..n - 1 : t[j] = IF j <= i - 1 THEN u[j] ELSE v[j - (i - 1)]
  <2>1. /\ u \in Seq(S) /\ v \in Seq(S) /\ Len(u) = i - 1 /\ Len(v) = n - i
    BY <1>2, <1>3 DEF u, v
  <2>2. (i - 1) + (n - i) = n - 1 /\ i - 1 \in Nat /\ n - i \in Nat
    BY <1>1
  <2>3. QED
    BY <1>4, <2>1, <2>2, ConcatProperties, LenProperties
<1>6. ASSUME NEW j \in 1..n - 1 PROVE From(j) \in (1..n) \ {i} /\ t[j] = s[From(j)]
  <2>1. CASE j < i
    <3>1. j \in 1..i - 1 /\ j \in 1..n /\ j <= i - 1 /\ From(j) = j
      BY <1>1, <2>1
    <3>2. QED
      BY <1>1, <1>2, <1>5, <2>1, <3>1 DEF u
  <2>2. CASE ~(j < i)
    <3>1. j - (i - 1) \in 1..n - i /\ j + 1 \in 1..n /\ ~(j <= i - 1) /\ i + (j - (i - 1)) = j + 1 /\ From(j) = j + 1
      BY <1>1, <2>2
    <3>2. t[j] = v[j - (i - 1)]
      BY <1>5, <3>1
    <3>3. v[j - (i - 1)] = s[i + (j - (i - 1))]
      BY <1>3, <3>1 DEF v, n
    <3>4. QED
      BY <1>1, <2>2, <3>1, <3>2, <3>3
  <2>3. QED
    BY <2>1, <2>2
<1>7. \A k \in (1..n) \ {i} : \E j \in 1..n - 1 : From(j) = k
  <2>1. ASSUME NEW k \in (1..n) \ {i} PROVE \E j \in 1..n - 1 : From(j) = k
    <3>1. CASE k < i
      <4>1. k \in 1..n - 1 /\ From(k) = k
        BY <1>1, <3>1
      <4>2. QED
        BY <4>1
    <3>2. CASE ~(k < i)
      <4>1. k - 1 \in 1..n - 1 /\ From(k - 1) = k
        BY <1>1, <3>2
      <4>2. QED
        BY <4>1
    <3>3. QED
      BY <3>1, <3>2
  <2>2. QED
    BY <2>1
<1>8. \A j, k \in 1..n - 1 : From(j) = From(k) => j = k
  BY <1>1
<1> HIDE DEF From
<1>9. Range(t) = {s[k] : k \in (1..n) \ {i}}
  <2>1. Range(t) = {s[From(j)] : j \in 1..n - 1}
    BY <1>5, <1>6 DEF Range
  <2>2. QED
    BY <1>6, <1>7, <2>1
<1>10. Range(t) \subseteq Range(s)
  BY <1>1, <1>9 DEF Range
<1>11. ASSUME Unique(s) PROVE Unique(t) /\ Range(t) = Range(s) \ {s[i]}
  <2>1. Unique(t)
    <3>1. ASSUME NEW j \in 1..n - 1, NEW k \in 1..n - 1, t[j] = t[k] PROVE j = k
      BY <1>1, <1>6, <1>8, <1>11, <3>1 DEF Unique
    <3>2. QED
      BY <1>5, <3>1 DEF Unique
  <2>2. \A k \in (1..n) \ {i} : s[k] # s[i]
    BY <1>1, <1>11 DEF Unique
  <2>3. QED
    BY <1>1, <1>9, <2>1, <2>2 DEF Range
<1>12. n - 1 <= n
  BY <1>1
<1>13. QED
  BY <1>5, <1>10, <1>11, <1>12 DEF t, n

LEMMA ConcatKeeps ==
  ASSUME NEW S, NEW s \in Seq(S), NEW t \in Seq(S),
         Unique(s), Unique(t), Range(s) \cap Range(t) = {}
  PROVE  /\ s \o t \in Seq(S) /\ Unique(s \o t)
         /\ Range(s \o t) = Range(s) \cup Range(t)
<1> DEFINE r == s \o t
           m == Len(s)
           n == Len(t)
<1>1. /\ m \in Nat /\ n \in Nat /\ DOMAIN s = 1..m /\ DOMAIN t = 1..n
      /\ r \in Seq(S) /\ DOMAIN r = 1..m + n
      /\ \A i \in 1..m + n : r[i] = IF i <= m THEN s[i] ELSE t[i - m]
  BY LenProperties, ConcatProperties
<1> HIDE DEF r, m, n
<1>2. \A i \in 1..m + n : (i <= m => i \in 1..m) /\ (~(i <= m) => i - m \in 1..n)
  BY <1>1
<1>3. \A i \in 1..m, j \in 1..n : s[i] # t[j]
  BY <1>1 DEF Range
<1>4. Unique(r)
  <2>1. ASSUME NEW i \in 1..m + n, NEW j \in 1..m + n, r[i] = r[j] PROVE i = j
    <3>1. CASE i <= m /\ j <= m
      BY <1>1, <1>2, <2>1, <3>1 DEF Unique
    <3>2. CASE ~(i <= m) /\ ~(j <= m)
      <4>1. i - m \in 1..n /\ j - m \in 1..n /\ t[i - m] = t[j - m]
        BY <1>1, <1>2, <2>1, <3>2
      <4>2. i - m = j - m
        BY <1>1, <4>1 DEF Unique
      <4>3. QED
        BY <1>1, <4>2
    <3>3. CASE i <= m /\ ~(j <= m)
      BY <1>1, <1>2, <1>3, <2>1, <3>3
    <3>4. CASE ~(i <= m) /\ j <= m
      <4>1. s[j] = t[i - m] /\ j \in 1..m /\ i - m \in 1..n
        BY <1>1, <1>2, <2>1, <3>4
      <4>2. QED
        BY <1>3, <4>1
    <3>5. QED
      BY <3>1, <3>2, <3>3, <3>4
  <2>2. QED
    BY <1>1, <2>1 DEF Unique
<1>5. Range(r) = Range(s) \cup Range(t)
  <2>1. Range(r) \subseteq Range(s) \cup Range(t)
    BY <1>1, <1>2 DEF Range
  <2>2. ASSUME NEW i \in 1..m PROVE s[i] \in Range(r)
    <3>1. i \in 1..m + n /\ r[i] = s[i]
      BY <1>1
    <3>2. QED
      BY <1>1, <3>1 DEF Range
  <2>3. ASSUME NEW i \in 1..n PROVE t[i] \in Range(r)
    <3>1. m + i \in 1..m + n /\ ~(m + i <= m) /\ m + i - m = i
      BY <1>1
    <3>2. r[m + i] = t[i]
      BY <1>1, <3>1
    <3>3. QED
      BY <1>1, <3>1, <3>2 DEF Range
  <2>4. Range(s) = {s[i] : i \in 1..m} /\ Range(t) = {t[i] : i \in 1..n}
    BY <1>1 DEF Range
  <2>5. Range(s) \subseteq Range(r) /\ Range(t) \subseteq Range(r)
    BY <2>2, <2>3, <2>4
  <2>6. QED
    BY <2>1, <2>5
<1>6. QED
  BY <1>1, <1>4, <1>5 DEF r

\* What Ordering does to two neighbours.
LEMMA SwapKeeps ==
  ASSUME NEW S, NEW s \in Seq(S), NEW i \in 1..Len(s) - 1
  PROVE  LET t == [s EXCEPT ![i] = s[i + 1], ![i + 1] = s[i]]
         IN t \in Seq(S) /\ Range(t) = Range(s) /\ (Unique(s) => Unique(t))
<1> DEFINE t == [s EXCEPT ![i] = s[i + 1], ![i + 1] = s[i]]
           n == Len(s)
           From(j) == IF j = i THEN i + 1 ELSE IF j = i + 1 THEN i ELSE j
<1>1. n \in Nat /\ DOMAIN s = 1..n /\ i \in 1..n /\ i + 1 \in 1..n /\ i # i + 1
  BY LenProperties
<1>2. /\ DOMAIN t = 1..n /\ \A j \in 1..n : From(j) \in 1..n /\ t[j] = s[From(j)] /\ From(From(j)) = j
  BY <1>1
<1>3. t \in Seq(S)
  <2>1. t \in [1..n -> S]
    BY <1>1
  <2>2. QED
    BY <1>1, <2>1, IsASeq
<1> HIDE DEF t, n, From
<1>4. Range(t) = Range(s)
  BY <1>1, <1>2 DEF Range
<1>5. ASSUME Unique(s) PROVE Unique(t)
  BY <1>1, <1>2, <1>5 DEF Unique
<1>6. QED
  BY <1>3, <1>4, <1>5 DEF t

LEMMA ReverseKeeps ==
  ASSUME NEW S, NEW s \in Seq(S), Unique(s)
  PROVE  Reverse(s) \in Seq(S) /\ Unique(Reverse(s)) /\ Range(Reverse(s)) \subseteq Range(s)
<1>1. /\ Len(s) \in Nat /\ DOMAIN s = 1..Len(s)
      /\ \A i \in 1..Len(s) : s[i] \in S /\ (Len(s) - i) + 1 \in 1..Len(s)
  BY LenProperties
<1>2. Reverse(s) \in Seq(S) /\ DOMAIN Reverse(s) = 1..Len(s)
  <2>1. Reverse(s) \in [1..Len(s) -> S]
    BY <1>1 DEF Reverse
  <2>2. QED
    BY <1>1, <2>1, IsASeq
<1>3. \A i \in 1..Len(s) : Reverse(s)[i] = s[(Len(s) - i) + 1]
  BY DEF Reverse
<1>4. Range(Reverse(s)) \subseteq Range(s)
  BY <1>1, <1>2, <1>3 DEF Range
<1>5. Unique(Reverse(s))
  <2>1. ASSUME NEW i \in 1..Len(s), NEW j \in 1..Len(s), Reverse(s)[i] = Reverse(s)[j] PROVE i = j
    <3>1. (Len(s) - i) + 1 = (Len(s) - j) + 1
      BY <1>1, <1>3, <2>1 DEF Unique
    <3>2. QED
      BY <1>1, <3>1
  <2>2. QED
    BY <1>2, <2>1 DEF Unique
<1>6. QED
  BY <1>2, <1>4, <1>5

LEMMA TailKeeps ==
  ASSUME NEW S, NEW s \in Seq(S), Unique(s), s # <<>>
  PROVE  /\ Tail(s) \in Seq(S) /\ Unique(Tail(s)) /\ Head(s) \in Range(s)
         /\ Range(Tail(s)) = Range(s) \ {Head(s)}
<1>1. /\ Len(s) \in Nat /\ DOMAIN s = 1..Len(s) /\ Len(s) # 0 /\ Head(s) = s[1]
      /\ Tail(s) \in Seq(S) /\ Len(Tail(s)) = Len(s) - 1 /\ DOMAIN Tail(s) = 1..Len(s) - 1
      /\ \A i \in 1..Len(s) - 1 : Tail(s)[i] = s[i + 1] /\ i + 1 \in 1..Len(s) /\ i + 1 # 1
  BY LenProperties, HeadTailProperties, EmptySeq
<1>2. Head(s) \in Range(s)
  BY <1>1 DEF Range
<1>3. Unique(Tail(s))
  <2>1. ASSUME NEW i \in 1..Len(s) - 1, NEW j \in 1..Len(s) - 1, Tail(s)[i] = Tail(s)[j] PROVE i = j
    <3>1. i + 1 = j + 1
      BY <1>1, <2>1 DEF Unique
    <3>2. QED
      BY <3>1
  <2>2. QED
    BY <1>1, <2>1 DEF Unique
<1>4. ASSUME NEW x \in Range(s), x # Head(s) PROVE x \in Range(Tail(s))
  <2>1. PICK k \in 1..Len(s) : s[k] = x
    BY <1>1 DEF Range
  <2>2. k - 1 \in 1..Len(s) - 1 /\ (k - 1) + 1 = k
    BY <1>1, <1>4, <2>1
  <2>3. Tail(s)[k - 1] = x
    BY <1>1, <2>1, <2>2
  <2>4. QED
    BY <1>1, <2>2, <2>3 DEF Range
<1>5. Range(Tail(s)) \subseteq Range(s) \ {Head(s)}
  <2>1. ASSUME NEW i \in 1..Len(s) - 1 PROVE Tail(s)[i] \in Range(s) /\ Tail(s)[i] # Head(s)
    BY <1>1 DEF Unique, Range
  <2>2. QED
    BY <1>1, <2>1 DEF Range
<1>6. QED
  BY <1>1, <1>2, <1>3, <1>4, <1>5

LEMMA LastOfKeeps ==
  ASSUME NEW S, NEW s \in Seq(S), NEW n \in Nat
  PROVE  LastOf(s, n) \in Seq(S) /\ Len(LastOf(s, n)) <= n
<1>1. Len(s) \in Nat
  OBVIOUS
<1>2. CASE Len(s) > n
  BY <1>1, <1>2 DEF LastOf
<1>3. CASE ~(Len(s) > n)
  BY <1>1, <1>3 DEF LastOf
<1>4. QED
  BY <1>2, <1>3

(***************************************************************************)
(* Answers.                                                                 *)
(***************************************************************************)
\* The question, which no step changes.
Posed ==
  /\ definition \in Definition /\ QuestionDefinition(definition)
  /\ scoring \in ScoringSet /\ ScoringOK(scoring)
  /\ Is("ordering") => order \in Seq(Range(definition.items)) /\ Unique(order)

List(s, set) == s \in Seq(set) /\ Unique(s)

AtMost(s, max) == max = Null \/ Len(s) <= max

PairSet == [leftId : Range(definition.left), rightId : Range(definition.right)]
SegmentIds == [i \in DOMAIN definition.segments |-> definition.segments[i].id]
WordBlanks == {x \in Range(definition.blanks) : x.kind = "word_bank"}

WordsOnce(values) ==
  definition.reuseWordBank \/
    \A b, c \in WordBlanks : b.id # c.id => At(values, b.id) = Null \/ At(values, b.id) # At(values, c.id)

ChoiceOK(v) ==
  /\ Is("single_choice") => v.optionId \in Range(definition.options) \cup {Null}
  /\ Is("multiple_choice") => /\ List(v.optionIds, Range(definition.options))
                              /\ AtMost(v.optionIds, definition.max)
  /\ Is("multiple_true_false") => DOMAIN v.values \subseteq Range(definition.statements)
  /\ Is("short_answer") => Short(v.text)
  /\ Is("numeric") => v.value \in Typed \cup {Null}

ArrangeOK(v) ==
  /\ Is("matching") => /\ v.pairs \in Seq(PairSet) /\ Unique(Lefts(v.pairs))
                       /\ definition.reuse \/ Unique(Rights(v.pairs))
  /\ Is("ordering") => List(v.order, Range(definition.items)) /\ Range(v.order) = Range(definition.items)
  /\ Is("fill_blanks") => WordsOnce(v.values)
  /\ Is("categorization") => DOMAIN v.mapping \subseteq Range(definition.items)

AreaOK(v) ==
  /\ Is("hotspot") => v.points \in Seq(Spot) /\ Len(v.points) <= definition.max
  /\ Is("hot_text") => List(v.segmentIds, Range(SegmentIds)) /\ AtMost(v.segmentIds, definition.max)
  /\ Is("matrix") => /\ DOMAIN v.selections \subseteq Range(definition.rows)
                     /\ \A row \in DOMAIN v.selections :
                          /\ List(v.selections[row], Range(definition.columns))
                          /\ definition.many \/ Len(v.selections[row]) <= 1
  /\ Is("file_upload") => List(v.files, File) /\ Len(v.files) <= definition.maxFiles

ValueOK == value # Null => ChoiceOK(value) /\ ArrangeOK(value) /\ AreaOK(value)

\* What onPick holds is distinct: files that were uploaded before, and files that were not.
PicksOK ==
  /\ picks \in [Pick -> [kept : Seq(File), todo : Seq(File), open : BOOLEAN]]
  /\ \A p \in Pick :
       /\ Unique(picks[p].kept) /\ Unique(picks[p].todo)
       /\ Range(picks[p].kept) \subseteq uploaded /\ Range(picks[p].todo) \cap uploaded = {}
       /\ picks[p].open => Is("file_upload") /\ Len(picks[p].kept) <= definition.maxFiles
       /\ ~picks[p].open => picks[p] = IdlePick
  /\ \A p, q \in Pick : p # q => Range(picks[p].todo) \cap Range(picks[q].todo) = {}
  /\ Is("file_upload") => Range(Files) \subseteq uploaded
  /\ removed \subseteq uploaded

AnswerInv == Posed /\ ValueOK /\ PicksOK

\* What checkConsistency and the sizes of the schema say of a question, type by type.
LEMMA QuestionMeans ==
  ASSUME Posed
  PROVE  /\ definition.type \in QUESTION_TYPES
         /\ Is("multiple_choice") => List(definition.options, Range(definition.options)) /\ Len(definition.options) <= MaxItems
         /\ Is("multiple_choice") \/ Is("hot_text") => definition.max \in (Nat \ {0}) \cup {Null}
         /\ Is("matching") => /\ List(definition.left, Range(definition.left)) /\ Len(definition.left) <= MaxItems
         /\ Is("ordering") => /\ List(definition.items, Range(definition.items)) /\ Len(definition.items) <= MaxItems
                              /\ Null \notin Range(definition.items)
         /\ Is("fill_blanks") => \A b, c \in Range(definition.blanks) : b.id = c.id => b = c
         /\ Is("hotspot") => definition.max \in 1..MaxItems
         /\ Is("hot_text") => /\ List(SegmentIds, Range(SegmentIds)) /\ Len(SegmentIds) <= MaxItems
         /\ Is("matrix") => /\ List(definition.columns, Range(definition.columns)) /\ Len(definition.columns) <= MaxItems
         /\ Is("file_upload") => definition.maxFiles \in 1..MaxItems
<1> DEFINE d == definition
<1>0. definition \in Definition /\ QuestionDefinition(definition)
  BY DEF Posed
<1>1. definition.type \in QUESTION_TYPES
  BY <1>0, DefinitionAssumption
<1>2. CASE Is("multiple_choice")
  <2>1. ChoiceShape(definition) /\ MultipleChoiceConsistent(definition)
    BY <1>0, <1>2 DEF Is, QuestionDefinition, checkConsistency, ManualTypes, ChoiceTypes, TextTypes, ArrangeTypes, AreaTypes
  <2>2. QED
    BY <1>0, <1>2, <2>1, DefinitionAssumption
    DEF Is, ChoiceShape, Sized, Limit, MultipleChoiceConsistent, List, IsList, QUESTION_TYPES, ChoiceTypes
<1>3. CASE Is("matching")
  <2>1. ArrangeShape(definition) /\ MatchingConsistent(definition)
    BY <1>0, <1>3 DEF Is, QuestionDefinition, checkConsistency, ManualTypes, ChoiceTypes, TextTypes, ArrangeTypes, AreaTypes
  <2>2. QED
    BY <1>0, <1>1, <1>3, <2>1, DefinitionAssumption
    DEF Is, ArrangeShape, Sized, MatchingConsistent, List, IsList
<1>4. CASE Is("ordering")
  <2>1. ArrangeShape(definition) /\ OrderingConsistent(definition)
    BY <1>0, <1>4 DEF Is, QuestionDefinition, checkConsistency, ManualTypes, ChoiceTypes, TextTypes, ArrangeTypes, AreaTypes
  <2>2. QED
    BY <1>0, <1>1, <1>4, <2>1, DefinitionAssumption
    DEF Is, ArrangeShape, Sized, OrderingConsistent, List, IsList
<1>5. CASE Is("fill_blanks")
  <2>1. FillBlanksConsistent(definition)
    BY <1>0, <1>5 DEF Is, QuestionDefinition, checkConsistency, ManualTypes, ChoiceTypes, TextTypes, ArrangeTypes, AreaTypes
  <2>2. Unique([i \in DOMAIN definition.blanks |-> definition.blanks[i].id])
    BY <2>1 DEF FillBlanksConsistent
  <2>3. \A b, c \in Range(definition.blanks) : b.id = c.id => b = c
    BY <2>2 DEF Unique, Range
  <2>4. QED
    BY <1>1, <1>5, <2>3 DEF Is
<1>6. CASE Is("hotspot")
  <2>1. AreaShape(definition)
    BY <1>0, <1>6 DEF Is, QuestionDefinition, checkConsistency, ManualTypes, ChoiceTypes, TextTypes, ArrangeTypes, AreaTypes
  <2>2. QED
    BY <1>1, <1>6, <2>1 DEF Is, AreaShape
<1>7. CASE Is("hot_text")
  <2>1. AreaShape(definition) /\ HotTextConsistent(definition)
    BY <1>0, <1>7 DEF Is, QuestionDefinition, checkConsistency, ManualTypes, ChoiceTypes, TextTypes, ArrangeTypes, AreaTypes
  <2>2. definition.segments \in Seq(Range(definition.segments)) /\ Len(definition.segments) <= MaxItems
    BY <1>0, <1>7, <2>1, DefinitionAssumption DEF Is, AreaShape, Sized, IsList
  <2>3. Unique(SegmentIds) /\ definition.max \in (Nat \ {0}) \cup {Null}
    BY <1>7, <2>1 DEF Is, HotTextConsistent, SegmentIds, AreaShape, Limit
  <2>4. /\ Len(definition.segments) \in Nat /\ DOMAIN SegmentIds = 1..Len(definition.segments)
        /\ SegmentIds \in [1..Len(definition.segments) -> Range(SegmentIds)]
    BY <2>2, LenProperties DEF SegmentIds, Range
  <2>5. SegmentIds \in Seq(Range(SegmentIds)) /\ Len(SegmentIds) = Len(definition.segments)
    BY <2>4, IsASeq, LenProperties
  <2>6. QED
    BY <1>1, <1>7, <2>2, <2>3, <2>5 DEF Is, List
<1>8. CASE Is("matrix")
  <2>1. AreaShape(definition) /\ MatrixConsistent(definition)
    BY <1>0, <1>8 DEF Is, QuestionDefinition, checkConsistency, ManualTypes, ChoiceTypes, TextTypes, ArrangeTypes, AreaTypes
  <2>2. QED
    BY <1>0, <1>1, <1>8, <2>1, DefinitionAssumption DEF Is, AreaShape, Sized, MatrixConsistent, List, IsList
<1>9. CASE Is("file_upload")
  <2>1. AreaShape(definition)
    BY <1>0, <1>9 DEF Is, QuestionDefinition, checkConsistency, ManualTypes, ChoiceTypes, TextTypes, ArrangeTypes, AreaTypes
  <2>2. QED
    BY <1>1, <1>9, <2>1 DEF Is, AreaShape
<1>10. CASE ~Is("multiple_choice") /\ ~Is("matching") /\ ~Is("ordering") /\ ~Is("fill_blanks")
            /\ ~Is("hotspot") /\ ~Is("hot_text") /\ ~Is("matrix") /\ ~Is("file_upload")
  BY <1>1, <1>10
<1>11. QED
  BY <1>2, <1>3, <1>4, <1>5, <1>6, <1>7, <1>8, <1>9, <1>10

\* A change of any answer but files leaves the rest as it was.
LEMMA ChangeKeeps ==
  ASSUME AnswerInv, NEW r, Change(r), ~Is("file_upload"),
         ChoiceOK(r) /\ ArrangeOK(r) /\ AreaOK(r)
  PROVE  AnswerInv'
<1>1. value' = r /\ definition' = definition /\ scoring' = scoring /\ order' = order
      /\ picks' = picks /\ uploaded' = uploaded /\ removed' = removed
  BY DEF Change, question, history
<1>2. Posed'
  BY <1>1 DEF AnswerInv, Posed, Is
<1>3. ValueOK'
  BY <1>1 DEF ValueOK, ChoiceOK, ArrangeOK, AreaOK, Is, PairSet, SegmentIds, WordBlanks, WordsOnce
<1>4. PicksOK'
  BY <1>1 DEF AnswerInv, PicksOK, Is
<1>5. QED
  BY <1>2, <1>3, <1>4 DEF AnswerInv

LEMMA SingleChoiceKeeps == AnswerInv /\ SingleChoice => AnswerInv'
<1> SUFFICES ASSUME AnswerInv, SingleChoice PROVE AnswerInv'
  OBVIOUS
<1>1. PICK o \in Range(definition.options) :
        Change([optionId |-> IF Now("optionId", Null) = o THEN Null ELSE o])
  BY DEF SingleChoice
<1> DEFINE r == [optionId |-> IF Now("optionId", Null) = o THEN Null ELSE o]
<1>2. Is("single_choice") /\ r.optionId \in Range(definition.options) \cup {Null}
  BY DEF SingleChoice
<1>3. ~Is("file_upload") /\ ChoiceOK(r) /\ ArrangeOK(r) /\ AreaOK(r)
  BY <1>2 DEF Is, ChoiceOK, ArrangeOK, AreaOK
<1> HIDE DEF r
<1>4. QED
  BY <1>1, <1>3, ChangeKeeps DEF r

\* One more selection only if there is room.
LEMMA SelectionFits ==
  ASSUME NEW list, NEW S, list \in Seq(S), Unique(list),
         NEW s, s \in Seq(S), Unique(s), Range(s) \subseteq Range(list), NEW x \in Range(list),
         AtMost(s, definition.max), x \in Range(s) \/ Room(Range(s)),
         definition.max = Null \/ definition.max \in Int
  PROVE  LET t == InOrder(list, Toggle(Range(s), x))
         IN t \in Seq(S) /\ Unique(t) /\ Range(t) \subseteq Range(list) /\ AtMost(t, definition.max)
<1> DEFINE set == Toggle(Range(s), x)
           t == InOrder(list, set)
<1>1. t \in Seq(S) /\ Unique(t) /\ Range(t) = Range(list) \cap set
  BY InOrderKeeps
<1>2. set \subseteq Range(list)
  BY DEF Toggle
<1>3. Range(t) = set
  BY <1>1, <1>2
<1>4. Cardinality(set) = Len(t) /\ Cardinality(Range(s)) = Len(s) /\ IsFiniteSet(Range(s))
      /\ Len(s) \in Nat /\ Len(t) \in Nat
  BY <1>1, <1>3, RangeIsFinite, LenProperties
<1>5. ASSUME definition.max # Null PROVE Len(t) <= definition.max
  <2>1. CASE x \in Range(s)
    <3>1. Cardinality(Range(s) \ {x}) = Cardinality(Range(s)) - 1
      BY <1>4, <2>1, FS_RemoveElement
    <3>2. set = Range(s) \ {x}
      BY <2>1 DEF Toggle
    <3>3. QED
      BY <1>4, <1>5, <3>1, <3>2 DEF AtMost
  <2>2. CASE x \notin Range(s)
    <3>1. Cardinality(Range(s) \cup {x}) = Cardinality(Range(s)) + 1
      BY <1>4, <2>2, FS_AddElement
    <3>2. set = Range(s) \cup {x}
      BY <2>2 DEF Toggle
    <3>3. Cardinality(Range(s)) < definition.max
      BY <1>5, <2>2 DEF Room
    <3>4. QED
      BY <1>4, <1>5, <3>1, <3>2, <3>3
  <2>3. QED
    BY <2>1, <2>2
<1>6. QED
  BY <1>1, <1>5 DEF AtMost

LEMMA MultipleChoiceKeeps == AnswerInv /\ MultipleChoice => AnswerInv'
<1> SUFFICES ASSUME AnswerInv, MultipleChoice PROVE AnswerInv'
  OBVIOUS
<1> DEFINE now == Now("optionIds", <<>>)
<1>0. Is("multiple_choice")
  BY DEF MultipleChoice
<1>1. PICK o \in Range(definition.options) :
        /\ o \in Range(now) \/ Room(Range(now))
        /\ Change([optionIds |-> InOrder(definition.options, Toggle(Range(now), o))])
  BY DEF MultipleChoice
<1> DEFINE r == [optionIds |-> InOrder(definition.options, Toggle(Range(now), o))]
<1>2. /\ List(definition.options, Range(definition.options))
      /\ definition.max \in (Nat \ {0}) \cup {Null}
  BY <1>0, QuestionMeans DEF AnswerInv
<1>3. List(now, Range(definition.options)) /\ AtMost(now, definition.max)
  <2>1. CASE value = Null
    <3>1. now = <<>>
      BY <2>1 DEF Now
    <3>2. Len(<<>>) = 0 /\ Unique(<<>>) /\ <<>> \in Seq(Range(definition.options))
      BY DEF Unique
    <3>3. definition.max = Null \/ 0 <= definition.max
      BY <1>2
    <3>4. QED
      BY <3>1, <3>2, <3>3 DEF List, AtMost
  <2>2. CASE value # Null
    BY <1>0, <2>2 DEF AnswerInv, ValueOK, ChoiceOK, Now
  <2>3. QED
    BY <2>1, <2>2
<1> HIDE DEF now
<1>4. /\ List(r.optionIds, Range(definition.options)) /\ AtMost(r.optionIds, definition.max)
  <2>1. Range(now) \subseteq Range(definition.options)
    BY <1>3, RangeIsFinite DEF List
  <2>2. QED
    BY <1>1, <1>2, <1>3, <2>1, SelectionFits DEF List
<1>5. ~Is("file_upload") /\ ChoiceOK(r) /\ ArrangeOK(r) /\ AreaOK(r)
  BY <1>0, <1>4 DEF Is, ChoiceOK, ArrangeOK, AreaOK
<1> HIDE DEF r
<1>6. QED
  BY <1>1, <1>5, ChangeKeeps DEF r

LEMMA FreeAnswersKeep ==
  AnswerInv /\ (TrueFalse \/ ShortAnswer \/ Numeric \/ Essay) => AnswerInv'
<1> SUFFICES ASSUME AnswerInv, TrueFalse \/ ShortAnswer \/ Numeric \/ Essay
             PROVE  AnswerInv'
  OBVIOUS
<1>1. PICK r : /\ Change(r)
               /\ \/ Is("true_false") \/ Is("essay")
                  \/ Is("numeric") /\ r.value \in Typed \cup {Null}
                  \/ Is("short_answer") /\ Short(r.text)
  <2>1. CASE TrueFalse
    BY <2>1 DEF TrueFalse
  <2>2. CASE ShortAnswer
    <3>1. PICK t \in Typed : Short(t) /\ Change([text |-> t])
      BY <2>2 DEF ShortAnswer
    <3>2. Is("short_answer") /\ [text |-> t].text = t
      BY <2>2 DEF ShortAnswer
    <3>3. QED
      BY <3>1, <3>2
  <2>3. CASE Numeric
    <3>1. PICK t \in Typed : Change([value |-> IF t.word = <<>> /\ t.marks = {} THEN Null ELSE t])
      BY <2>3 DEF Numeric
    <3>2. Is("numeric") /\ \A x : [value |-> x].value = x
      BY <2>3 DEF Numeric
    <3>3. QED
      BY <3>1, <3>2
  <2>4. CASE Essay
    BY <2>4 DEF Essay
  <2>5. QED
    BY <2>1, <2>2, <2>3, <2>4
<1>2. ~Is("file_upload") /\ ChoiceOK(r) /\ ArrangeOK(r) /\ AreaOK(r)
  BY <1>1 DEF Is, ChoiceOK, ArrangeOK, AreaOK
<1>3. QED
  BY <1>1, <1>2, ChangeKeeps

LEMMA PutDomain ==
  ASSUME NEW f, NEW x, NEW y
  PROVE  /\ DOMAIN Put(f, x, y) = DOMAIN f \cup {x}
         /\ \A z \in DOMAIN f \cup {x} : Put(f, x, y)[z] = IF z = x THEN y ELSE f[z]
BY DEF Put

LEMMA MultipleTrueFalseKeeps == AnswerInv /\ MultipleTrueFalse => AnswerInv'
<1> SUFFICES ASSUME AnswerInv, MultipleTrueFalse PROVE AnswerInv'
  OBVIOUS
<1> DEFINE now == Now("values", NoMap)
<1>0. Is("multiple_true_false")
  BY DEF MultipleTrueFalse
<1>1. PICK s \in Range(definition.statements), v \in BOOLEAN : Change([values |-> Put(now, s, v)])
  BY DEF MultipleTrueFalse
<1> DEFINE r == [values |-> Put(now, s, v)]
<1>2. DOMAIN now \subseteq Range(definition.statements)
  BY <1>0 DEF AnswerInv, ValueOK, ChoiceOK, Now, NoMap
<1> HIDE DEF now
<1>3. DOMAIN r.values \subseteq Range(definition.statements)
  <2>1. r.values = Put(now, s, v) /\ DOMAIN Put(now, s, v) = DOMAIN now \cup {s}
    BY PutDomain
  <2>2. QED
    BY <1>2, <2>1
<1>4. ~Is("file_upload") /\ ChoiceOK(r) /\ ArrangeOK(r) /\ AreaOK(r)
  BY <1>0, <1>3 DEF Is, ChoiceOK, ArrangeOK, AreaOK
<1> HIDE DEF r
<1>5. QED
  BY <1>1, <1>4, ChangeKeeps DEF r

LEMMA CategorizationKeeps == AnswerInv /\ Categorization => AnswerInv'
<1> SUFFICES ASSUME AnswerInv, Categorization PROVE AnswerInv'
  OBVIOUS
<1> DEFINE now == Now("mapping", NoMap)
<1>0. Is("categorization")
  BY DEF Categorization
<1>1. PICK i \in Range(definition.items), c \in Range(definition.categories) \cup {Null} :
        Change([mapping |-> Put(now, i, c)])
  BY DEF Categorization
<1> DEFINE r == [mapping |-> Put(now, i, c)]
<1>2. DOMAIN now \subseteq Range(definition.items)
  BY <1>0 DEF AnswerInv, ValueOK, ArrangeOK, Now, NoMap
<1> HIDE DEF now
<1>3. DOMAIN r.mapping \subseteq Range(definition.items)
  <2>1. r.mapping = Put(now, i, c) /\ DOMAIN Put(now, i, c) = DOMAIN now \cup {i}
    BY PutDomain
  <2>2. QED
    BY <1>2, <2>1
<1>4. ~Is("file_upload") /\ ChoiceOK(r) /\ ArrangeOK(r) /\ AreaOK(r)
  BY <1>0, <1>3 DEF Is, ChoiceOK, ArrangeOK, AreaOK
<1> HIDE DEF r
<1>5. QED
  BY <1>1, <1>4, ChangeKeeps DEF r

\* Fields of the pairs of a list.
LEMMA SidesOfPairs ==
  ASSUME NEW s \in Seq(PairSet)
  PROVE  /\ DOMAIN Lefts(s) = DOMAIN s /\ DOMAIN Rights(s) = DOMAIN s
         /\ \A i \in DOMAIN s : /\ s[i] \in PairSet /\ s[i] \in Range(s)
                                /\ Lefts(s)[i] = s[i].leftId /\ Rights(s)[i] = s[i].rightId
         /\ Unique(Lefts(s)) => Unique(s)
         /\ Unique(Rights(s)) => Unique(s)
<1>1. /\ DOMAIN Lefts(s) = DOMAIN s /\ DOMAIN Rights(s) = DOMAIN s
      /\ \A i \in DOMAIN s : Lefts(s)[i] = s[i].leftId /\ Rights(s)[i] = s[i].rightId
  BY DEF Lefts, Rights
<1>2. \A i \in DOMAIN s : s[i] \in PairSet /\ s[i] \in Range(s)
  BY LenProperties, ElementOfSeq DEF Range
<1>3. QED
  BY <1>1, <1>2 DEF Unique

\* In a list that is unique, fields are unique if they tell its members apart.
LEMMA UniqueSides ==
  ASSUME NEW s \in Seq(PairSet), Unique(s)
  PROVE  /\ (\A p, q \in Range(s) : p.leftId = q.leftId => p = q) <=> Unique(Lefts(s))
         /\ (\A p, q \in Range(s) : p.rightId = q.rightId => p = q) <=> Unique(Rights(s))
<1>1. \A p \in Range(s) : \E i \in DOMAIN s : s[i] = p
  BY DEF Range
<1>2. QED
  BY <1>1, SidesOfPairs DEF Unique

LEMMA MatchingKeeps == AnswerInv /\ Matching => AnswerInv'
<1> SUFFICES ASSUME AnswerInv, Matching PROVE AnswerInv'
  OBVIOUS
<1> DEFINE pairs == Now("pairs", <<>>)
           Others(l) == InOrder(pairs, {p \in Range(pairs) : p.leftId # l})
           With(l, x) == Append(Others(l), [leftId |-> l, rightId |-> x])
<1>0. Is("matching")
  BY DEF Matching
<1>1. PICK l \in Range(definition.left) :
        \/ Change([pairs |-> Others(l)])
        \/ \E x \in Range(definition.right) :
             /\ definition.reuse \/ x \notin Range(Rights(Others(l)))
             /\ Change([pairs |-> With(l, x)])
  BY DEF Matching
<1>2. /\ pairs \in Seq(PairSet) /\ Unique(Lefts(pairs))
      /\ definition.reuse \/ Unique(Rights(pairs))
  <2>1. CASE value = Null
    <3>1. pairs = <<>>
      BY <2>1 DEF Now
    <3>2. <<>> \in Seq(PairSet) /\ DOMAIN Lefts(<<>>) = {} /\ DOMAIN Rights(<<>>) = {}
      BY DEF Lefts, Rights
    <3>3. QED
      BY <3>1, <3>2 DEF Unique
  <2>2. CASE value # Null
    BY <1>0, <2>2 DEF AnswerInv, ValueOK, ArrangeOK, Now
  <2>3. QED
    BY <2>1, <2>2
<1> HIDE DEF pairs
<1> DEFINE rest == Others(l)
<1>3. /\ rest \in Seq(PairSet) /\ Unique(rest)
      /\ Range(rest) = {p \in Range(pairs) : p.leftId # l}
  <2>1. Unique(pairs)
    BY <1>2, SidesOfPairs
  <2>2. QED
    BY <1>2, <2>1, InOrderKeeps
<1> HIDE DEF rest
<1>4. Unique(Lefts(rest)) /\ (definition.reuse \/ Unique(Rights(rest)))
  <2>1. Unique(pairs)
    BY <1>2, SidesOfPairs
  <2>2. \A p, q \in Range(pairs) : p.leftId = q.leftId => p = q
    BY <1>2, <2>1, UniqueSides
  <2>3. definition.reuse \/ \A p, q \in Range(pairs) : p.rightId = q.rightId => p = q
    BY <1>2, <2>1, UniqueSides
  <2>4. QED
    BY <1>3, <2>2, <2>3, UniqueSides
<1>5. CASE Change([pairs |-> Others(l)])
  <2> DEFINE r == [pairs |-> rest]
  <2>1. ~Is("file_upload") /\ ChoiceOK(r) /\ ArrangeOK(r) /\ AreaOK(r)
    BY <1>0, <1>3, <1>4 DEF Is, ChoiceOK, ArrangeOK, AreaOK
  <2>2. Change(r)
    BY <1>5 DEF rest
  <2> HIDE DEF r
  <2>3. QED
    BY <2>1, <2>2, ChangeKeeps
<1>6. ASSUME NEW x \in Range(definition.right),
             definition.reuse \/ x \notin Range(Rights(rest)), Change([pairs |-> With(l, x)])
      PROVE  AnswerInv'
  <2> DEFINE new == [leftId |-> l, rightId |-> x]
             s == Append(rest, new)
             r == [pairs |-> s]
  <2>1. new \in PairSet /\ new.leftId = l /\ new.rightId = x
    BY DEF PairSet
  <2>2. \A p \in Range(rest) : p.leftId # l
    BY <1>3
  <2>3. definition.reuse \/ \A p \in Range(rest) : p.rightId # x
    <3>1. ASSUME NEW p \in Range(rest) PROVE p.rightId \in Range(Rights(rest))
      <4>1. PICK i \in DOMAIN rest : rest[i] = p
        BY DEF Range
      <4>2. QED
        BY <1>3, <4>1, SidesOfPairs DEF Range
    <3>2. QED
      BY <1>6, <3>1
  <2>4. new \notin Range(rest)
    BY <2>1, <2>2
  <2> HIDE DEF new
  <2>5. s \in Seq(PairSet) /\ Range(s) = Range(rest) \cup {new} /\ Unique(s)
    BY <1>3, <2>1, <2>4, AppendKeeps
  <2> HIDE DEF s
  <2>6. Unique(Lefts(s))
    <3>1. \A p, q \in Range(rest) : p.leftId = q.leftId => p = q
      BY <1>3, <1>4, UniqueSides
    <3>2. \A p, q \in Range(s) : p.leftId = q.leftId => p = q
      BY <2>1, <2>2, <2>5, <3>1
    <3>3. QED
      BY <2>5, <3>2, UniqueSides
  <2>7. definition.reuse \/ Unique(Rights(s))
    <3>1. CASE ~definition.reuse
      <4>1. \A p, q \in Range(rest) : p.rightId = q.rightId => p = q
        BY <1>3, <1>4, <3>1, UniqueSides
      <4>2. \A p, q \in Range(s) : p.rightId = q.rightId => p = q
        BY <2>1, <2>3, <2>5, <3>1, <4>1
      <4>3. QED
        BY <2>5, <4>2, UniqueSides
    <3>2. QED
      BY <3>1
  <2>8. ~Is("file_upload") /\ ChoiceOK(r) /\ ArrangeOK(r) /\ AreaOK(r)
    BY <1>0, <2>5, <2>6, <2>7 DEF Is, ChoiceOK, ArrangeOK, AreaOK
  <2>9. Change(r)
    BY <1>6 DEF rest, s, new
  <2> HIDE DEF r
  <2>10. QED
    BY <2>8, <2>9, ChangeKeeps
<1>7. QED
  BY <1>1, <1>5, <1>6 DEF rest

LEMMA OrderingKeeps == AnswerInv /\ Ordering => AnswerInv'
<1> SUFFICES ASSUME AnswerInv, Ordering PROVE AnswerInv'
  OBVIOUS
<1> DEFINE items == definition.items
           given == Now("order", <<>>)
           current == IF given = <<>> THEN Displayed(items, order) ELSE given
<1>0. Is("ordering") /\ List(items, Range(items)) /\ List(order, Range(items))
  BY QuestionMeans DEF Ordering, AnswerInv, Posed, List
<1>1. List(current, Range(items)) /\ Range(current) = Range(items)
  <2>1. CASE given = <<>>
    <3> DEFINE front == InOrder(order, Range(items))
               back == InOrder(items, Range(items) \ Range(order))
    <3>1. front \in Seq(Range(items)) /\ Unique(front) /\ Range(front) = Range(order) \cap Range(items)
      BY <1>0, InOrderKeeps DEF List
    <3>2. /\ back \in Seq(Range(items)) /\ Unique(back)
          /\ Range(back) = Range(items) \cap (Range(items) \ Range(order))
      BY <1>0, InOrderKeeps DEF List
    <3>3. current = front \o back
      BY <2>1 DEF Displayed
    <3> HIDE DEF front, back, current
    <3>4. Range(front) \cap Range(back) = {} /\ Range(front) \cup Range(back) = Range(items)
      BY <3>1, <3>2
    <3>5. /\ front \o back \in Seq(Range(items)) /\ Unique(front \o back)
          /\ Range(front \o back) = Range(front) \cup Range(back)
      BY <3>1, <3>2, <3>4, ConcatKeeps
    <3>6. QED
      BY <3>3, <3>4, <3>5 DEF List
  <2>2. CASE given # <<>>
    <3>1. value # Null
      BY <2>2 DEF Now
    <3>2. QED
      BY <1>0, <2>2, <3>1 DEF AnswerInv, ValueOK, ArrangeOK, Now
  <2>3. QED
    BY <2>1, <2>2
<1>2. PICK i \in 1..Len(current) - 1 :
        Change([order |-> [current EXCEPT ![i] = current[i + 1], ![i + 1] = current[i]]])
  BY DEF Ordering
<1> HIDE DEF current
<1> DEFINE s == [current EXCEPT ![i] = current[i + 1], ![i + 1] = current[i]]
           r == [order |-> s]
<1>3. s \in Seq(Range(items)) /\ Range(s) = Range(items) /\ Unique(s)
  <2> HIDE DEF items
  <2>1. current \in Seq(Range(items)) /\ Unique(current)
    BY <1>1 DEF List
  <2>2. QED
    BY <1>1, <2>1, SwapKeeps
<1> HIDE DEF s
<1>4. ~Is("file_upload") /\ ChoiceOK(r) /\ ArrangeOK(r) /\ AreaOK(r)
  BY <1>0, <1>3 DEF Is, ChoiceOK, ArrangeOK, AreaOK, List
<1> HIDE DEF r
<1>5. QED
  BY <1>2, <1>4, ChangeKeeps DEF r, s

LEMMA FillBlanksKeeps == AnswerInv /\ FillBlanks => AnswerInv'
<1> SUFFICES ASSUME AnswerInv, FillBlanks PROVE AnswerInv'
  OBVIOUS
<1> DEFINE values == Now("values", NoMap)
           used == {values[x] : x \in DOMAIN values} \ {Null}
<1>0. Is("fill_blanks")
  BY DEF FillBlanks
<1> DEFINE Offered(b) ==
           CASE b.kind = "dropdown" -> b.options
             [] b.kind = "word_bank" ->
                  IF definition.reuseWordBank THEN definition.wordBank
                  ELSE definition.wordBank \ (used \ {At(values, b.id)})
             [] OTHER -> {t \in Typed : t.word # <<>> \/ t.marks # {}}
<1>a. PICK b \in Range(definition.blanks) :
        \E v \in Offered(b) \cup {Null} : Change([values |-> Put(values, b.id, v)])
  BY DEF FillBlanks
<1>b. PICK v \in Offered(b) \cup {Null} : Change([values |-> Put(values, b.id, v)])
  BY <1>a
<1>1. v # Null /\ b.kind = "word_bank" /\ ~definition.reuseWordBank
        => v \notin used \ {At(values, b.id)}
  <2>1. SUFFICES ASSUME v # Null, b.kind = "word_bank", ~definition.reuseWordBank
                 PROVE  v \notin used \ {At(values, b.id)}
    OBVIOUS
  <2> HIDE DEF used, values
  <2>2. Offered(b) = definition.wordBank \ (used \ {At(values, b.id)})
    BY <2>1
  <2> HIDE DEF Offered
  <2>3. QED
    BY <1>b, <2>1, <2>2
<1> HIDE DEF Offered
<1>2. WordsOnce(values)
  <2>1. CASE value = Null
    BY <2>1 DEF Now, NoMap, WordsOnce, At
  <2>2. CASE value # Null
    BY <1>0, <2>2 DEF AnswerInv, ValueOK, ArrangeOK, Now
  <2>3. QED
    BY <2>1, <2>2
<1>3. \A x, y \in Range(definition.blanks) : x.id = y.id => x = y
  BY <1>0, QuestionMeans DEF AnswerInv
<1> HIDE DEF values
<1> DEFINE new == Put(values, b.id, v)
           r == [values |-> new]
<1>4. \A x : At(new, x) = IF x = b.id THEN v ELSE At(values, x)
  <2>1. /\ DOMAIN new = DOMAIN values \cup {b.id}
        /\ \A z \in DOMAIN values \cup {b.id} : new[z] = IF z = b.id THEN v ELSE values[z]
    BY DEF Put
  <2> HIDE DEF new
  <2>2. QED
    BY <2>1 DEF At
<1>5. \A x : At(values, x) # Null => At(values, x) \in used
  BY DEF At
<1> HIDE DEF new, used
<1>6. WordsOnce(new)
  <2>1. SUFFICES ASSUME ~definition.reuseWordBank, NEW x \in WordBlanks, NEW y \in WordBlanks,
                        x.id # y.id, At(new, x.id) # Null, At(new, x.id) = At(new, y.id)
                 PROVE  FALSE
    BY DEF WordsOnce
  <2>2. \A z, w \in WordBlanks : z.id # w.id /\ At(values, z.id) # Null => At(values, z.id) # At(values, w.id)
    BY <1>2, <2>1 DEF WordsOnce
  <2>3. ASSUME NEW z \in WordBlanks, z.id # b.id, b \in WordBlanks, v # Null, At(values, z.id) = v
        PROVE  FALSE
    <3>1. b.kind = "word_bank" /\ v \in used
      BY <1>5, <2>3 DEF WordBlanks
    <3>2. v = At(values, b.id)
      BY <1>1, <2>1, <2>3, <3>1
    <3>3. QED
      BY <2>2, <2>3, <3>2
  <2>4. \A z \in WordBlanks : z.id = b.id => b \in WordBlanks
    BY <1>1, <1>3 DEF WordBlanks
  <2>5. CASE x.id = b.id
    BY <1>4, <2>1, <2>3, <2>4, <2>5
  <2>6. CASE y.id = b.id
    BY <1>4, <2>1, <2>3, <2>4, <2>6
  <2>7. CASE x.id # b.id /\ y.id # b.id
    BY <1>4, <2>1, <2>2, <2>7
  <2>8. QED
    BY <2>5, <2>6, <2>7
<1>7. ~Is("file_upload") /\ ChoiceOK(r) /\ ArrangeOK(r) /\ AreaOK(r)
  BY <1>0, <1>6 DEF Is, ChoiceOK, ArrangeOK, AreaOK
<1>8. Change(r)
  BY <1>b DEF new
<1> HIDE DEF r
<1>9. QED
  BY <1>7, <1>8, ChangeKeeps

LEMMA HotspotKeeps == AnswerInv /\ Hotspot => AnswerInv'
<1> SUFFICES ASSUME AnswerInv, Hotspot PROVE AnswerInv'
  OBVIOUS
<1> DEFINE points == Now("points", <<>>)
<1>0. Is("hotspot") /\ definition.max \in Nat
  BY QuestionMeans, MaxItemsAssumption DEF Hotspot, AnswerInv
<1>1. points \in Seq(Spot) /\ Len(points) <= definition.max
  <2>1. CASE value = Null
    BY <1>0, <2>1 DEF Now
  <2>2. CASE value # Null
    BY <1>0, <2>2 DEF AnswerInv, ValueOK, AreaOK, Now
  <2>3. QED
    BY <2>1, <2>2
<1>2. PICK s : Change([points |-> s]) /\ s \in Seq(Spot) /\ Len(s) <= definition.max
  <2>1. \/ \E p \in Spot : Change([points |-> LastOf(Append(points, p), definition.max)])
        \/ \E i \in DOMAIN points : Change([points |-> RemoveAt(points, i)])
    BY DEF Hotspot
  <2> HIDE DEF points
  <2>2. ASSUME NEW p \in Spot
        PROVE  /\ LastOf(Append(points, p), definition.max) \in Seq(Spot)
               /\ Len(LastOf(Append(points, p), definition.max)) <= definition.max
    BY <1>0, <1>1, AppendKeeps, LastOfKeeps
  <2>3. ASSUME NEW i \in DOMAIN points
        PROVE  RemoveAt(points, i) \in Seq(Spot) /\ Len(RemoveAt(points, i)) <= definition.max
    <3>1. RemoveAt(points, i) \in Seq(Spot) /\ Len(RemoveAt(points, i)) <= Len(points)
      BY <1>1, RemoveAtKeeps
    <3>2. Len(points) \in Nat /\ Len(RemoveAt(points, i)) \in Nat
      BY <1>1, <3>1, LenProperties
    <3>3. QED
      BY <1>0, <1>1, <3>1, <3>2
  <2>4. QED
    BY <2>1, <2>2, <2>3
<1> DEFINE r == [points |-> s]
<1>3. ~Is("file_upload") /\ ChoiceOK(r) /\ ArrangeOK(r) /\ AreaOK(r)
  BY <1>0, <1>2 DEF Is, ChoiceOK, ArrangeOK, AreaOK
<1> HIDE DEF r
<1>4. QED
  BY <1>2, <1>3, ChangeKeeps DEF r

LEMMA HotTextKeeps == AnswerInv /\ HotText => AnswerInv'
<1> SUFFICES ASSUME AnswerInv, HotText PROVE AnswerInv'
  OBVIOUS
<1> DEFINE now == Now("segmentIds", <<>>)
<1>0. Is("hot_text")
  BY DEF HotText
<1>1. PICK s \in Range(definition.segments) :
        /\ s.id \in Range(now) \/ Room(Range(now))
        /\ Change([segmentIds |-> InOrder(SegmentIds, Toggle(Range(now), s.id))])
  BY DEF HotText, SegmentIds
<1> DEFINE r == [segmentIds |-> InOrder(SegmentIds, Toggle(Range(now), s.id))]
<1>2. /\ List(SegmentIds, Range(SegmentIds)) /\ s.id \in Range(SegmentIds)
      /\ definition.max \in (Nat \ {0}) \cup {Null}
  <2>1. s.id \in Range(SegmentIds)
    BY <1>1 DEF SegmentIds, Range
  <2>2. QED
    BY <1>0, <2>1, QuestionMeans DEF AnswerInv
<1>3. List(now, Range(SegmentIds)) /\ AtMost(now, definition.max)
  <2>1. CASE value = Null
    <3>1. now = <<>>
      BY <2>1 DEF Now
    <3>2. Len(<<>>) = 0 /\ Unique(<<>>) /\ <<>> \in Seq(Range(SegmentIds))
      BY DEF Unique
    <3>3. definition.max = Null \/ 0 <= definition.max
      BY <1>2
    <3>4. QED
      BY <3>1, <3>2, <3>3 DEF List, AtMost
  <2>2. CASE value # Null
    BY <1>0, <2>2 DEF AnswerInv, ValueOK, AreaOK, Now
  <2>3. QED
    BY <2>1, <2>2
<1> HIDE DEF now
<1>4. /\ List(r.segmentIds, Range(SegmentIds)) /\ AtMost(r.segmentIds, definition.max)
  <2>1. Range(now) \subseteq Range(SegmentIds)
    BY <1>3, RangeIsFinite DEF List
  <2>2. QED
    BY <1>1, <1>2, <1>3, <2>1, SelectionFits DEF List
<1>5. ~Is("file_upload") /\ ChoiceOK(r) /\ ArrangeOK(r) /\ AreaOK(r)
  BY <1>0, <1>4 DEF Is, ChoiceOK, ArrangeOK, AreaOK
<1> HIDE DEF r
<1>6. QED
  BY <1>1, <1>5, ChangeKeeps DEF r

LEMMA MatrixKeeps == AnswerInv /\ Matrix => AnswerInv'
<1> SUFFICES ASSUME AnswerInv, Matrix PROVE AnswerInv'
  OBVIOUS
<1> DEFINE selections == Now("selections", NoMap)
           columns == Range(definition.columns)
           Cur(row) == IF row \in DOMAIN selections THEN selections[row] ELSE <<>>
           Clicked(row, col) ==
             IF definition.many
             THEN IF Contains(Cur(row), col) THEN Without(Cur(row), col) ELSE Append(Cur(row), col)
             ELSE IF Cur(row) = <<col>> THEN <<>> ELSE <<col>>
<1>0. Is("matrix")
  BY DEF Matrix
<1>1. PICK row \in Range(definition.rows), col \in columns :
        Change([selections |-> Put(selections, row, Clicked(row, col))])
  BY DEF Matrix
<1> DEFINE cell == Clicked(row, col)
           new == Put(selections, row, cell)
           r == [selections |-> new]
           CellOK(s) == List(s, columns) /\ (definition.many \/ Len(s) <= 1)
<1>2. DOMAIN selections \subseteq Range(definition.rows) /\ \A x \in DOMAIN selections : CellOK(selections[x])
  BY <1>0 DEF AnswerInv, ValueOK, AreaOK, Now, NoMap
<1> HIDE DEF selections, columns
<1>3. List(<<>>, columns) /\ Len(<<>>) = 0
  BY DEF List, Unique
<1>4. List(Cur(row), columns)
  BY <1>2, <1>3
<1>5. CellOK(cell)
  <2> DEFINE c == Cur(row)
  <2>1. CASE definition.many /\ Contains(c, col)
    <3>1. cell = InOrder(c, Range(c) \ {col})
      BY <2>1 DEF Without
    <3> HIDE DEF c, cell
    <3>2. c \in Seq(columns) /\ Unique(c)
      BY <1>4 DEF List, c
    <3>3. cell \in Seq(columns) /\ Unique(cell)
      BY <3>1, <3>2, InOrderKeeps
    <3>4. QED
      BY <2>1, <3>3 DEF List
  <2>2. CASE definition.many /\ ~Contains(c, col)
    <3>1. cell = Append(c, col)
      BY <2>2
    <3> HIDE DEF c, cell
    <3>2. c \in Seq(columns) /\ Unique(c)
      BY <1>4 DEF List, c
    <3>3. col \notin Range(c)
      BY <2>2, <3>2, LenProperties DEF Contains, Range
    <3>4. cell \in Seq(columns) /\ Unique(cell)
      BY <3>1, <3>2, <3>3, AppendKeeps
    <3>5. QED
      BY <2>2, <3>4 DEF List
  <2>3. CASE ~definition.many
    <3>1. cell = <<>> \/ cell = <<col>>
      BY <2>3
    <3>2. List(<<col>>, columns) /\ Len(<<col>>) = 1
      BY DEF List, Unique
    <3> HIDE DEF cell, c
    <3>3. List(cell, columns) /\ (Len(cell) = 0 \/ Len(cell) = 1)
      BY <1>3, <3>1, <3>2
    <3>4. QED
      BY <3>3
  <2>4. QED
    BY <2>1, <2>2, <2>3
<1> HIDE DEF cell
<1>6. DOMAIN new \subseteq Range(definition.rows) /\ \A x \in DOMAIN new : CellOK(new[x])
  <2>1. /\ DOMAIN new = DOMAIN selections \cup {row}
        /\ \A z \in DOMAIN selections \cup {row} : new[z] = IF z = row THEN cell ELSE selections[z]
    BY DEF Put
  <2> HIDE DEF CellOK, new
  <2>2. ASSUME NEW x \in DOMAIN new PROVE CellOK(new[x])
    BY <1>2, <1>5, <2>1
  <2>3. QED
    BY <1>2, <2>1, <2>2
<1>7. ~Is("file_upload") /\ ChoiceOK(r) /\ ArrangeOK(r) /\ AreaOK(r)
  <2>1. r.selections = new
    OBVIOUS
  <2> HIDE DEF r, new
  <2>2. QED
    BY <1>0, <1>6, <2>1 DEF Is, ChoiceOK, ArrangeOK, AreaOK, columns
<1>8. Change(r)
  BY <1>1 DEF new, cell
<1> HIDE DEF r
<1>9. QED
  BY <1>7, <1>8, ChangeKeeps


(***************************************************************************)
(* Files.                                                                   *)
(***************************************************************************)
FilesOK == List(Files, File) /\ Len(Files) <= definition.maxFiles

\* A step of a dialogue that puts lists of files into the answer and into picks.
LEMMA FileStepKeeps ==
  ASSUME AnswerInv, Is("file_upload"), UNCHANGED question, PicksOK',
         \/ UNCHANGED value
         \/ \E s : value' = [files |-> s] /\ List(s, File) /\ Len(s) <= definition.maxFiles
  PROVE  AnswerInv'
<1>1. definition' = definition /\ scoring' = scoring /\ order' = order
  BY DEF question
<1>2. Posed'
  BY <1>1 DEF AnswerInv, Posed, Is
<1>3. ValueOK'
  <2>1. CASE UNCHANGED value
    BY <1>1, <2>1
    DEF AnswerInv, ValueOK, ChoiceOK, ArrangeOK, AreaOK, Is, PairSet, SegmentIds, WordBlanks, WordsOnce
  <2>2. CASE \E s : value' = [files |-> s] /\ List(s, File) /\ Len(s) <= definition.maxFiles
    <3>1. PICK s : value' = [files |-> s] /\ List(s, File) /\ Len(s) <= definition.maxFiles
      BY <2>2
    <3>2. value'.files = s /\ definition'.type = "file_upload"
      BY <1>1, <3>1 DEF Is
    <3>3. QED
      BY <1>1, <3>1, <3>2 DEF ValueOK, ChoiceOK, ArrangeOK, AreaOK, Is
  <2>3. QED
    BY <2>1, <2>2
<1>4. QED
  BY <1>2, <1>3 DEF AnswerInv

LEMMA FilesAreOK ==
  ASSUME AnswerInv, Is("file_upload")
  PROVE  /\ FilesOK /\ definition.maxFiles \in Nat \ {0}
         /\ \A p \in Pick : picks[p] \in [kept : Seq(File), todo : Seq(File), open : BOOLEAN]
         /\ DOMAIN picks = Pick
<1>1. definition.maxFiles \in Nat \ {0}
  BY QuestionMeans, MaxItemsAssumption DEF AnswerInv
<1>2. FilesOK
  <2>1. CASE value = Null
    <3>1. Files = <<>> /\ Len(<<>>) = 0
      BY <2>1 DEF Files, Now
    <3>2. QED
      BY <1>1, <3>1 DEF FilesOK, List, Unique
  <2>2. CASE value # Null
    BY <2>2 DEF AnswerInv, ValueOK, AreaOK, FilesOK, Files, Now
  <2>3. QED
    BY <2>1, <2>2
<1>3. QED
  BY <1>1, <1>2 DEF AnswerInv, PicksOK

\* Of a dialogue whose answer was Null before, or a list of files, Files is what it becomes.
LEMMA FilesBecome ==
  ASSUME NEW s \in Seq(File), value' = [files |-> s]
  PROVE  Files' = s
<1>1. [files |-> s] \in [files : Seq(File)]
  OBVIOUS
<1>2. value' # Null /\ value'.files = s
  BY <1>1, NullAssumption
<1>3. QED
  BY <1>2 DEF Files, Now

\* What is uploaded and was not taken out is in the answer or held by a dialogue, each new
\* file by one of them.
Held(p) == Range(picks[p].kept)

FilesInv ==
  Is("file_upload") /\ ~overlap =>
    /\ \A p \in Pick : picks[p].open => Range(Files) \subseteq Held(p)
    /\ uploaded \ removed = Range(Files) \cup UNION {Held(p) : p \in Pick}
    /\ \A p, q \in Pick : p # q => Held(p) \cap Held(q) \subseteq Range(Files)

LEMMA PickFilesKeeps == AnswerInv /\ FilesInv /\ PickFiles => (AnswerInv /\ FilesInv)'
<1> SUFFICES ASSUME AnswerInv, FilesInv, PickFiles PROVE (AnswerInv /\ FilesInv)'
  OBVIOUS
<1>0. /\ Is("file_upload") /\ FilesOK /\ DOMAIN picks = Pick
      /\ UNCHANGED <<definition, scoring, order, value, uploaded, removed, overlap>>
      /\ definition.maxFiles \in Nat \ {0}
  BY FilesAreOK DEF PickFiles, question, history
<1>1. PICK p \in Pick, chosen \in {s \in UNION {[1..n -> File] : n \in 1..2} : Unique(s)} :
        /\ ~picks[p].open
        /\ Range(chosen) \cap (uploaded \cup UNION {Range(picks[q].todo) : q \in Pick}) = {}
        /\ picks' = [picks EXCEPT ![p] = Opened(chosen)]
  BY DEF PickFiles
<1>2. chosen \in Seq(File) /\ Unique(chosen)
  <2>1. PICK n \in 1..2 : chosen \in [1..n -> File]
    OBVIOUS
  <2>2. n \in Nat
    OBVIOUS
  <2>3. QED
    BY <2>1, <2>2, IsASeq
<1>3. /\ picks'[p] = [kept |-> Files, todo |-> chosen, open |-> TRUE]
      /\ \A q \in Pick \ {p} : picks'[q] = picks[q]
      /\ DOMAIN picks' = Pick
  BY <1>0, <1>1 DEF Opened
<1>4. Files' = Files
  BY <1>0 DEF Files, Now
<1>5. picks[p].kept = <<>> /\ Range(<<>>) = {} /\ Range(Files) \subseteq uploaded
  BY <1>0, <1>1 DEF AnswerInv, PicksOK, IdlePick, Range
<1>6. PicksOK'
  <2>1. picks' \in [Pick -> [kept : Seq(File), todo : Seq(File), open : BOOLEAN]]
    <3>1. picks'[p] \in [kept : Seq(File), todo : Seq(File), open : BOOLEAN]
      BY <1>0, <1>2, <1>3 DEF FilesOK, List
    <3>2. \A q \in Pick \ {p} : picks'[q] \in [kept : Seq(File), todo : Seq(File), open : BOOLEAN]
      BY <1>0, <1>3, FilesAreOK
    <3>3. picks' = [q \in Pick |-> picks'[q]]
      BY <1>0, <1>1
    <3>4. QED
      BY <3>1, <3>2, <3>3
  <2>2. ASSUME NEW q \in Pick
        PROVE  /\ Unique(picks'[q].kept) /\ Unique(picks'[q].todo)
               /\ Range(picks'[q].kept) \subseteq uploaded /\ Range(picks'[q].todo) \cap uploaded = {}
               /\ picks'[q].open => Is("file_upload") /\ Len(picks'[q].kept) <= definition.maxFiles
               /\ ~picks'[q].open => picks'[q] = IdlePick
    <3>1. CASE q = p
      BY <1>0, <1>1, <1>2, <1>3, <1>5, <3>1 DEF FilesOK, List
    <3>2. CASE q # p
      BY <1>3, <3>2 DEF AnswerInv, PicksOK
    <3>3. QED
      BY <3>1, <3>2
  <2>3. \A q, r \in Pick : q # r => Range(picks'[q].todo) \cap Range(picks'[r].todo) = {}
    <3>1. \A q \in Pick : Range(chosen) \cap Range(picks[q].todo) = {}
      BY <1>1
    <3>2. \A q, r \in Pick : q # r => Range(picks[q].todo) \cap Range(picks[r].todo) = {}
      BY DEF AnswerInv, PicksOK
    <3>3. picks'[p].todo = chosen
      BY <1>3
    <3>4. QED
      BY <1>3, <3>1, <3>2, <3>3
  <2>4. QED
    BY <1>0, <1>4, <2>1, <2>2, <2>3 DEF AnswerInv, PicksOK, Is
<1>7. AnswerInv'
  <2>1. UNCHANGED question /\ UNCHANGED value
    BY <1>0 DEF question
  <2>2. QED
    BY <1>0, <1>6, <2>1, FileStepKeeps
<1>8. FilesInv'
  <2>1. Held(p)' = Range(Files) /\ Held(p) = {} /\ \A q \in Pick \ {p} : Held(q)' = Held(q)
    BY <1>3, <1>5 DEF Held
  <2> SUFFICES ASSUME ~overlap
               PROVE  /\ \A q \in Pick : picks'[q].open => Range(Files) \subseteq Held(q)'
                      /\ uploaded \ removed = Range(Files) \cup UNION {Held(q)' : q \in Pick}
                      /\ \A q, r \in Pick : q # r => Held(q)' \cap Held(r)' \subseteq Range(Files)
    BY <1>0, <1>4 DEF FilesInv, Is
  <2>2. /\ \A q \in Pick : picks[q].open => Range(Files) \subseteq Held(q)
        /\ uploaded \ removed = Range(Files) \cup UNION {Held(q) : q \in Pick}
        /\ \A q, r \in Pick : q # r => Held(q) \cap Held(r) \subseteq Range(Files)
    BY <1>0 DEF FilesInv
  <2> HIDE DEF Held
  <2>3. \A q \in Pick : picks'[q].open => Range(Files) \subseteq Held(q)'
    BY <1>3, <2>1, <2>2
  <2>4. UNION {Held(q)' : q \in Pick} = Range(Files) \cup UNION {Held(q) : q \in Pick}
    BY <2>1
  <2>5. \A q, r \in Pick : q # r => Held(q)' \cap Held(r)' \subseteq Range(Files)
    BY <2>1, <2>2
  <2>6. QED
    BY <2>2, <2>3, <2>4, <2>5
<1>9. QED
  BY <1>7, <1>8

\* What a step leaves alone in a dialogue that it ends, and in the others.
LEMMA EndedKeeps ==
  ASSUME AnswerInv, Is("file_upload"), NEW p \in Pick,
         UNCHANGED <<definition, uploaded>>, removed' \subseteq uploaded, Range(Files)' \subseteq uploaded,
         picks' = [picks EXCEPT ![p] = IdlePick]
  PROVE  PicksOK' /\ Held(p)' = {} /\ \A q \in Pick \ {p} : picks'[q] = picks[q] /\ Held(q)' = Held(q)
<1>1. /\ picks'[p] = IdlePick /\ \A q \in Pick \ {p} : picks'[q] = picks[q]
      /\ picks' = [q \in Pick |-> picks'[q]]
  BY DEF AnswerInv, PicksOK
<1>2. /\ IdlePick \in [kept : Seq(File), todo : Seq(File), open : BOOLEAN]
      /\ Unique(<<>>) /\ Range(<<>>) = {} /\ ~IdlePick.open
      /\ IdlePick.kept = <<>> /\ IdlePick.todo = <<>>
  BY DEF IdlePick, Unique, Range
<1>3. picks' \in [Pick -> [kept : Seq(File), todo : Seq(File), open : BOOLEAN]]
  BY <1>1, <1>2 DEF AnswerInv, PicksOK
<1>4. ASSUME NEW q \in Pick
      PROVE  /\ Unique(picks'[q].kept) /\ Unique(picks'[q].todo)
             /\ Range(picks'[q].kept) \subseteq uploaded /\ Range(picks'[q].todo) \cap uploaded = {}
             /\ picks'[q].open => Is("file_upload") /\ Len(picks'[q].kept) <= definition.maxFiles
             /\ ~picks'[q].open => picks'[q] = IdlePick
  <2>1. CASE q = p
    BY <1>1, <1>2, <2>1
  <2>2. CASE q # p
    BY <1>1, <2>2 DEF AnswerInv, PicksOK
  <2>3. QED
    BY <2>1, <2>2
<1>5. \A q, r \in Pick : q # r => Range(picks'[q].todo) \cap Range(picks'[r].todo) = {}
  <2>1. \A q, r \in Pick : q # r => Range(picks[q].todo) \cap Range(picks[r].todo) = {}
    BY DEF AnswerInv, PicksOK
  <2>2. Range(picks'[p].todo) = {} /\ \A q \in Pick \ {p} : Range(picks'[q].todo) = Range(picks[q].todo)
    BY <1>1, <1>2
  <2>3. QED
    BY <2>1, <2>2
<1>6. Held(p)' = {} /\ \A q \in Pick \ {p} : Held(q)' = Held(q)
  BY <1>1, <1>2 DEF Held
<1>7. QED
  BY <1>1, <1>3, <1>4, <1>5, <1>6 DEF PicksOK, Is

LEMMA UploadFileKeeps == AnswerInv /\ FilesInv /\ UploadFile => (AnswerInv /\ FilesInv)'
<1> SUFFICES ASSUME AnswerInv, FilesInv, UploadFile PROVE (AnswerInv /\ FilesInv)'
  OBVIOUS
<1>1. PICK p \in Pick :
        /\ picks[p].open /\ picks[p].todo # <<>> /\ Len(picks[p].kept) < definition.maxFiles
        /\ picks' = [picks EXCEPT ![p].kept = Append(@, Head(picks[p].todo)), ![p].todo = Tail(@)]
        /\ uploaded' = uploaded \cup {Head(picks[p].todo)}
        /\ UNCHANGED <<question, value, removed, overlap>>
  BY DEF UploadFile
<1>2. Is("file_upload")
  BY <1>1 DEF AnswerInv, PicksOK
<1>3. /\ FilesOK /\ DOMAIN picks = Pick /\ definition.maxFiles \in Nat \ {0}
      /\ UNCHANGED <<definition, scoring, order, value, removed, overlap>>
  BY <1>1, <1>2, FilesAreOK DEF question
<1> DEFINE k == picks[p].kept
           t == picks[p].todo
           h == Head(t)
<1>4. /\ k \in Seq(File) /\ t \in Seq(File) /\ Unique(k) /\ Unique(t) /\ t # <<>>
      /\ Range(k) \subseteq uploaded /\ Range(t) \cap uploaded = {}
  BY <1>1 DEF AnswerInv, PicksOK
<1>5. /\ picks'[p] = [kept |-> Append(k, h), todo |-> Tail(t), open |-> TRUE]
      /\ \A q \in Pick \ {p} : picks'[q] = picks[q]
      /\ picks' = [q \in Pick |-> picks'[q]]
  <2>1. picks[p] = [kept |-> k, todo |-> t, open |-> TRUE]
    BY <1>1, <1>2, FilesAreOK
  <2>2. QED
    BY <1>1, <1>3, <2>1
<1>6. /\ h \in Range(t) /\ Tail(t) \in Seq(File) /\ Unique(Tail(t)) /\ Range(Tail(t)) = Range(t) \ {h}
      /\ h \in File /\ h \notin uploaded
  <2> HIDE DEF k, t
  <2>1. h \in Range(t) /\ Tail(t) \in Seq(File) /\ Unique(Tail(t)) /\ Range(Tail(t)) = Range(t) \ {h}
    BY <1>4, TailKeeps
  <2>2. Range(t) \subseteq File
    BY <1>4, RangeIsFinite
  <2>3. QED
    BY <1>4, <2>1, <2>2
<1> HIDE DEF k, t, h
<1>7. /\ Append(k, h) \in Seq(File) /\ Len(Append(k, h)) = Len(k) + 1 /\ Unique(Append(k, h))
      /\ Range(Append(k, h)) = Range(k) \cup {h} /\ Len(k) \in Nat
  <2>1. h \notin Range(k)
    BY <1>4, <1>6
  <2>2. QED
    BY <1>4, <1>6, <2>1, AppendKeeps, LenProperties
<1>8. /\ uploaded' = uploaded \cup {h} /\ Len(k) < definition.maxFiles /\ Files' = Files
      /\ Held(p) = Range(k) /\ Held(p)' = Range(k) \cup {h}
      /\ \A q \in Pick \ {p} : Held(q)' = Held(q)
      /\ \A q \in Pick : Held(q) \subseteq uploaded
      /\ Range(Files) \subseteq uploaded /\ removed \subseteq uploaded
  <2>1. uploaded' = uploaded \cup {h} /\ Len(k) < definition.maxFiles
    BY <1>1 DEF h, k, t
  <2>2. Files' = Files
    BY <1>3 DEF Files, Now
  <2>3. /\ Held(p) = Range(k) /\ Held(p)' = Range(k) \cup {h}
        /\ \A q \in Pick \ {p} : Held(q)' = Held(q)
    BY <1>5, <1>7 DEF Held, k
  <2>4. \A q \in Pick : Held(q) \subseteq uploaded
    BY DEF AnswerInv, PicksOK, Held
  <2>5. Range(Files) \subseteq uploaded /\ removed \subseteq uploaded
    BY <1>2 DEF AnswerInv, PicksOK
  <2>6. QED
    BY <2>1, <2>2, <2>3, <2>4, <2>5
<1>9. PicksOK'
  <2>1. picks' \in [Pick -> [kept : Seq(File), todo : Seq(File), open : BOOLEAN]]
    <3>1. picks'[p] \in [kept : Seq(File), todo : Seq(File), open : BOOLEAN]
      BY <1>5, <1>6, <1>7
    <3>2. \A q \in Pick \ {p} : picks'[q] \in [kept : Seq(File), todo : Seq(File), open : BOOLEAN]
      BY <1>2, <1>5, FilesAreOK
    <3>3. QED
      BY <1>5, <3>1, <3>2
  <2>2. ASSUME NEW q \in Pick
        PROVE  /\ Unique(picks'[q].kept) /\ Unique(picks'[q].todo)
               /\ Range(picks'[q].kept) \subseteq uploaded' /\ Range(picks'[q].todo) \cap uploaded' = {}
               /\ picks'[q].open => Is("file_upload") /\ Len(picks'[q].kept) <= definition.maxFiles
               /\ ~picks'[q].open => picks'[q] = IdlePick
    <3>1. CASE q = p
      <4>1. /\ Unique(Append(k, h)) /\ Unique(Tail(t)) /\ Range(Append(k, h)) \subseteq uploaded'
            /\ Range(Tail(t)) \cap uploaded' = {} /\ Len(Append(k, h)) <= definition.maxFiles
        BY <1>3, <1>4, <1>6, <1>7, <1>8
      <4>2. /\ picks'[q].kept = Append(k, h) /\ picks'[q].todo = Tail(t) /\ picks'[q].open
        BY <1>5, <3>1
      <4>3. QED
        BY <1>2, <4>1, <4>2
    <3>2. CASE q # p
      <4>1. /\ Unique(picks[q].kept) /\ Unique(picks[q].todo)
            /\ Range(picks[q].kept) \subseteq uploaded /\ Range(picks[q].todo) \cap uploaded = {}
            /\ picks[q].open => Is("file_upload") /\ Len(picks[q].kept) <= definition.maxFiles
            /\ ~picks[q].open => picks[q] = IdlePick
            /\ Range(picks[q].todo) \cap Range(t) = {}
        BY <3>2 DEF AnswerInv, PicksOK, t
      <4>2. QED
        BY <1>5, <1>6, <1>8, <3>2, <4>1
    <3>3. QED
      BY <3>1, <3>2
  <2>3. \A q, r \in Pick : q # r => Range(picks'[q].todo) \cap Range(picks'[r].todo) = {}
    <3>1. \A q, r \in Pick : q # r => Range(picks[q].todo) \cap Range(picks[r].todo) = {}
      BY DEF AnswerInv, PicksOK
    <3>2. Range(picks'[p].todo) \subseteq Range(picks[p].todo)
      BY <1>5, <1>6 DEF t
    <3>3. \A q \in Pick \ {p} : Range(picks'[q].todo) = Range(picks[q].todo)
      BY <1>5
    <3>4. QED
      BY <3>1, <3>2, <3>3
  <2>4. Range(Files)' \subseteq uploaded' /\ removed' \subseteq uploaded'
    BY <1>3, <1>8
  <2>5. QED
    BY <1>3, <2>1, <2>2, <2>3, <2>4 DEF PicksOK, Is
<1>10. AnswerInv'
  <2>1. UNCHANGED question /\ UNCHANGED value
    BY <1>1
  <2>2. QED
    BY <1>2, <1>9, <2>1, FileStepKeeps
<1>11. FilesInv'
  <2> SUFFICES ASSUME ~overlap
               PROVE  /\ \A q \in Pick : picks'[q].open => Range(Files) \subseteq Held(q)'
                      /\ uploaded' \ removed = Range(Files) \cup UNION {Held(q)' : q \in Pick}
                      /\ \A q, r \in Pick : q # r => Held(q)' \cap Held(r)' \subseteq Range(Files)
    BY <1>3, <1>8 DEF FilesInv, Is
  <2>2. /\ \A q \in Pick : picks[q].open => Range(Files) \subseteq Held(q)
        /\ uploaded \ removed = Range(Files) \cup UNION {Held(q) : q \in Pick}
        /\ \A q, r \in Pick : q # r => Held(q) \cap Held(r) \subseteq Range(Files)
    BY <1>2 DEF FilesInv
  <2> HIDE DEF Held
  <2>3. \A q \in Pick : picks'[q].open => Range(Files) \subseteq Held(q)'
    BY <1>1, <1>5, <1>8, <2>2
  <2>4. UNION {Held(q)' : q \in Pick} = {h} \cup UNION {Held(q) : q \in Pick}
    BY <1>8
  <2>5. uploaded' \ removed = (uploaded \ removed) \cup {h}
    BY <1>6, <1>8
  <2>6. \A q, r \in Pick : q # r => Held(q)' \cap Held(r)' \subseteq Range(Files)
    BY <1>6, <1>8, <2>2
  <2>7. QED
    BY <2>2, <2>3, <2>4, <2>5, <2>6
<1>12. QED
  BY <1>10, <1>11

LEMMA EndPickKeeps == AnswerInv /\ FilesInv /\ EndPick => (AnswerInv /\ FilesInv)'
<1> SUFFICES ASSUME AnswerInv, FilesInv, EndPick PROVE (AnswerInv /\ FilesInv)'
  OBVIOUS
<1>1. PICK p \in Pick :
        /\ picks[p].open
        /\ value' = [files |-> picks[p].kept]
        /\ picks' = [picks EXCEPT ![p] = IdlePick]
        /\ overlap' = (overlap \/ OpenBeside(p))
        /\ UNCHANGED <<question, uploaded, removed>>
  BY DEF EndPick
<1>2. /\ Is("file_upload") /\ List(picks[p].kept, File) /\ Len(picks[p].kept) <= definition.maxFiles
      /\ Range(picks[p].kept) \subseteq uploaded /\ removed \subseteq uploaded
  BY <1>1 DEF AnswerInv, PicksOK, List
<1>3. /\ Files' = picks[p].kept /\ Range(Files)' = Held(p)
      /\ UNCHANGED <<definition, scoring, order, uploaded, removed>>
  <2>1. Files' = picks[p].kept
    BY <1>1, <1>2, FilesBecome DEF List
  <2>2. QED
    BY <1>1, <2>1 DEF question, Held
<1>4. PicksOK' /\ Held(p)' = {} /\ \A q \in Pick \ {p} : picks'[q] = picks[q] /\ Held(q)' = Held(q)
  <2>1. removed' \subseteq uploaded /\ Range(Files)' \subseteq uploaded
    BY <1>2, <1>3 DEF Held
  <2>2. QED
    BY <1>1, <1>2, <1>3, <2>1, EndedKeeps
<1>5. AnswerInv'
  <2>1. UNCHANGED question
    BY <1>1
  <2>2. QED
    BY <1>1, <1>2, <1>4, <2>1, FileStepKeeps
<1>6. FilesInv'
  <2> SUFFICES ASSUME ~overlap'
               PROVE  /\ \A q \in Pick : picks'[q].open => Range(Files)' \subseteq Held(q)'
                      /\ uploaded \ removed = Range(Files)' \cup UNION {Held(q)' : q \in Pick}
                      /\ \A q, r \in Pick : q # r => Held(q)' \cap Held(r)' \subseteq Range(Files)'
    BY <1>3 DEF FilesInv, Is
  <2>1. ~overlap /\ \A q \in Pick \ {p} : ~picks[q].open
    BY <1>1 DEF OpenBeside
  <2>2. \A q \in Pick \ {p} : Held(q) = {}
    BY <2>1 DEF AnswerInv, PicksOK, IdlePick, Held, Range
  <2>3. Range(Files) \subseteq Held(p) /\ uploaded \ removed = Range(Files) \cup UNION {Held(q) : q \in Pick}
    BY <1>1, <1>2, <2>1 DEF FilesInv
  <2>4. picks'[p].open = FALSE
    BY <1>1 DEF AnswerInv, PicksOK, IdlePick
  <2> HIDE DEF Held
  <2>5. uploaded \ removed = Held(p)
    BY <2>2, <2>3
  <2>6. \A q \in Pick : Held(q)' = {}
    BY <1>4, <2>2
  <2>7. \A q \in Pick : ~picks'[q].open
    BY <1>4, <2>1, <2>4
  <2>8. QED
    BY <1>3, <2>5, <2>6, <2>7
<1>7. QED
  BY <1>5, <1>6

LEMMA UploadFailsKeeps == AnswerInv /\ FilesInv /\ UploadFails => (AnswerInv /\ FilesInv)'
<1> SUFFICES ASSUME AnswerInv, FilesInv, UploadFails PROVE (AnswerInv /\ FilesInv)'
  OBVIOUS
<1>1. PICK p \in Pick :
        /\ picks[p].open
        /\ picks' = [picks EXCEPT ![p] = IdlePick]
        /\ removed' = removed \cup (Range(picks[p].kept) \ Range(Files))
        /\ UNCHANGED <<question, value, uploaded, overlap>>
  BY DEF UploadFails
<1>2. /\ Is("file_upload") /\ Range(picks[p].kept) \subseteq uploaded /\ removed \subseteq uploaded
      /\ Range(Files) \subseteq uploaded
  BY <1>1 DEF AnswerInv, PicksOK
<1>3. Files' = Files /\ UNCHANGED <<definition, scoring, order, value, uploaded, overlap>>
  BY <1>1 DEF question, Files, Now
<1>4. PicksOK' /\ Held(p)' = {} /\ \A q \in Pick \ {p} : picks'[q] = picks[q] /\ Held(q)' = Held(q)
  <2>1. removed' \subseteq uploaded /\ Range(Files)' \subseteq uploaded
    BY <1>1, <1>2, <1>3
  <2>2. QED
    BY <1>1, <1>2, <1>3, <2>1, EndedKeeps
<1>5. AnswerInv'
  <2>1. UNCHANGED question /\ UNCHANGED value
    BY <1>1
  <2>2. QED
    BY <1>2, <1>4, <2>1, FileStepKeeps
<1>6. FilesInv'
  <2> SUFFICES ASSUME ~overlap
               PROVE  /\ \A q \in Pick : picks'[q].open => Range(Files) \subseteq Held(q)'
                      /\ uploaded \ removed' = Range(Files) \cup UNION {Held(q)' : q \in Pick}
                      /\ \A q, r \in Pick : q # r => Held(q)' \cap Held(r)' \subseteq Range(Files)
    BY <1>3 DEF FilesInv, Is
  <2>1. /\ \A q \in Pick : picks[q].open => Range(Files) \subseteq Held(q)
        /\ uploaded \ removed = Range(Files) \cup UNION {Held(q) : q \in Pick}
        /\ \A q, r \in Pick : q # r => Held(q) \cap Held(r) \subseteq Range(Files)
    BY <1>2 DEF FilesInv
  <2>2. removed' = removed \cup (Held(p) \ Range(Files))
    BY <1>1 DEF Held
  <2>3. picks'[p].open = FALSE
    BY <1>1 DEF AnswerInv, PicksOK, IdlePick
  <2> HIDE DEF Held
  <2>4. \A q \in Pick : picks'[q].open => Range(Files) \subseteq Held(q)'
    BY <1>4, <2>1, <2>3
  <2>5. \A q, r \in Pick : q # r => Held(q)' \cap Held(r)' \subseteq Range(Files)
    BY <1>4, <2>1
  <2>6. uploaded \ removed' = Range(Files) \cup UNION {Held(q)' : q \in Pick}
    <3>1. uploaded \ removed' = (uploaded \ removed) \ (Held(p) \ Range(Files))
      BY <2>2
    <3>2. \A q \in Pick \ {p} : Held(q) \cap (Held(p) \ Range(Files)) = {}
      BY <2>1
    <3>3. UNION {Held(q)' : q \in Pick} = UNION {Held(q) : q \in Pick \ {p}}
      BY <1>4
    <3>4. UNION {Held(q) : q \in Pick} = Held(p) \cup UNION {Held(q) : q \in Pick \ {p}}
      OBVIOUS
    <3>5. ASSUME NEW x \in UNION {Held(q) : q \in Pick \ {p}} PROVE x \notin Held(p) \ Range(Files)
      <4>1. PICK q \in Pick \ {p} : x \in Held(q)
        OBVIOUS
      <4>2. QED
        BY <3>2, <4>1
    <3>6. QED
      BY <2>1, <3>1, <3>3, <3>4, <3>5
  <2>7. QED
    BY <2>4, <2>5, <2>6
<1>7. QED
  BY <1>5, <1>6

LEMMA RemoveFileKeeps == AnswerInv /\ FilesInv /\ RemoveFile => (AnswerInv /\ FilesInv)'
<1> SUFFICES ASSUME AnswerInv, FilesInv, RemoveFile PROVE (AnswerInv /\ FilesInv)'
  OBVIOUS
<1>0. Is("file_upload") /\ FilesOK /\ definition.maxFiles \in Nat \ {0}
  BY FilesAreOK DEF RemoveFile
<1>1. PICK i \in DOMAIN Files : value' = [files |-> RemoveAt(Files, i)] /\ removed' = removed \cup {Files[i]}
  BY DEF RemoveFile
<1>2. /\ UNCHANGED <<definition, scoring, order, picks, uploaded>>
      /\ overlap' = (overlap \/ \E p \in Pick : picks[p].open)
  BY DEF RemoveFile, question
<1> DEFINE s == RemoveAt(Files, i)
<1>3. /\ s \in Seq(File) /\ Len(s) <= Len(Files) /\ Unique(s) /\ Range(s) = Range(Files) \ {Files[i]}
      /\ Files[i] \in Range(Files)
  <2>1. Files[i] \in Range(Files)
    BY DEF Range
  <2>2. QED
    BY <1>0, <2>1, RemoveAtKeeps DEF FilesOK, List
<1> HIDE DEF s
<1>4. List(s, File) /\ Len(s) <= definition.maxFiles
  <2>1. Len(s) \in Nat /\ Len(Files) \in Nat
    BY <1>0, <1>3, LenProperties DEF FilesOK, List
  <2>2. QED
    BY <1>0, <1>3, <2>1 DEF FilesOK, List
<1>5. Files' = s
  BY <1>1, <1>3, FilesBecome DEF s
<1>6. PicksOK'
  BY <1>0, <1>1, <1>2, <1>3, <1>5 DEF AnswerInv, PicksOK, Is
<1>7. AnswerInv'
  <2>1. UNCHANGED question /\ value' = [files |-> s]
    BY <1>1 DEF RemoveFile, s
  <2>2. QED
    BY <1>0, <1>4, <1>6, <2>1, FileStepKeeps
<1>8. FilesInv'
  <2> SUFFICES ASSUME ~overlap'
               PROVE  /\ \A q \in Pick : picks'[q].open => Range(Files)' \subseteq Held(q)'
                      /\ uploaded \ removed' = Range(Files)' \cup UNION {Held(q)' : q \in Pick}
                      /\ \A q, r \in Pick : q # r => Held(q)' \cap Held(r)' \subseteq Range(Files)'
    BY <1>2 DEF FilesInv, Is
  <2>1. ~overlap /\ \A q \in Pick : ~picks[q].open
    BY <1>2
  <2>2. \A q \in Pick : Held(q) = {} /\ Held(q)' = {} /\ ~picks'[q].open
    BY <1>2, <2>1 DEF AnswerInv, PicksOK, IdlePick, Held, Range
  <2>3. uploaded \ removed = Range(Files) \cup UNION {Held(q) : q \in Pick}
    BY <1>0, <2>1 DEF FilesInv
  <2> HIDE DEF Held
  <2>4. uploaded \ removed = Range(Files)
    BY <2>2, <2>3
  <2>5. Range(Files)' = Range(Files) \ {Files[i]}
    BY <1>3, <1>5
  <2>6. QED
    BY <1>1, <2>2, <2>4, <2>5
<1>9. QED
  BY <1>7, <1>8

LEMMA InitOK == Init => AnswerInv /\ FilesInv
<1> SUFFICES ASSUME Init PROVE AnswerInv /\ FilesInv
  OBVIOUS
<1>1. /\ definition \in Definition /\ QuestionDefinition(definition)
      /\ scoring \in ScoringSet /\ ScoringOK(scoring)
      /\ value = Null /\ uploaded = {} /\ removed = {}
      /\ picks = [p \in Pick |-> IdlePick]
  BY DEF Init
<1>2. Is("ordering") => order \in Seq(Range(definition.items)) /\ Unique(order)
  <2>1. SUFFICES ASSUME Is("ordering") PROVE order \in Seq(Range(definition.items)) /\ Unique(order)
    OBVIOUS
  <2> DEFINE items == definition.items
             S == Range(definition.items)
  <2>2. items \in Seq(S) /\ Unique(items) /\ items # <<>>
    <3>1. ArrangeShape(definition) /\ OrderingConsistent(definition)
      BY <1>1, <2>1
      DEF Is, QuestionDefinition, checkConsistency, ManualTypes, ChoiceTypes, TextTypes, ArrangeTypes, AreaTypes
    <3>2. Unique(items) /\ Len(items) >= 2 /\ MaxItems \in Nat
      BY <2>1, <3>1, MaxItemsAssumption DEF Is, ArrangeShape, Sized, OrderingConsistent
    <3>3. items \in Seq(S)
      BY <1>1, <2>1, DefinitionAssumption DEF Is, IsList
    <3>4. QED
      BY <3>2, <3>3
  <2>3. order \in {<<>>, Reverse(items), Tail(items)}
    BY <2>1 DEF Init, Is
  <2> HIDE DEF items, S
  <2>4. CASE order = <<>>
    BY <2>4 DEF Unique, S
  <2>5. CASE order = Reverse(items)
    BY <2>2, <2>5, ReverseKeeps DEF S, items
  <2>6. CASE order = Tail(items)
    BY <2>2, <2>6, TailKeeps DEF S, items
  <2>7. QED
    BY <2>3, <2>4, <2>5, <2>6
<1>3. Files = <<>> /\ Range(<<>>) = {} /\ Unique(<<>>) /\ <<>> \in Seq(File)
  BY <1>1 DEF Files, Now, Range, Unique
<1>4. PicksOK
  BY <1>1, <1>3 DEF PicksOK, IdlePick
<1>5. FilesInv
  <2>1. \A p \in Pick : Held(p) = {}
    BY <1>1, <1>3 DEF Held, IdlePick
  <2> HIDE DEF Held
  <2>2. UNION {Held(p) : p \in Pick} = {}
    BY <2>1
  <2>3. \A p \in Pick : ~picks[p].open
    BY <1>1 DEF IdlePick
  <2>4. QED
    BY <1>1, <1>3, <2>1, <2>2, <2>3 DEF FilesInv
<1>6. QED
  BY <1>1, <1>2, <1>4, <1>5 DEF AnswerInv, Posed, ValueOK

LEMMA QuestionStays == Next => UNCHANGED <<definition, scoring>>
<1> SUFFICES ASSUME Next PROVE definition' = definition /\ scoring' = scoring
  OBVIOUS
<1>1. \/ SingleChoice \/ MultipleChoice \/ TrueFalse \/ MultipleTrueFalse
      \/ ShortAnswer \/ Numeric \/ Essay
      \/ Matching \/ Ordering \/ FillBlanks \/ Categorization
      \/ Hotspot \/ HotText \/ Matrix
      => definition' = definition /\ scoring' = scoring
  BY DEF SingleChoice, MultipleChoice, TrueFalse, MultipleTrueFalse, ShortAnswer, Numeric, Essay,
         Matching, Ordering, FillBlanks, Categorization, Hotspot, HotText, Matrix, Change, question
<1>2. PickFiles \/ UploadFile \/ UploadFails \/ EndPick \/ RemoveFile => definition' = definition /\ scoring' = scoring
  BY DEF PickFiles, UploadFile, UploadFails, EndPick, RemoveFile, question
<1>3. QED
  BY <1>1, <1>2 DEF Next

LEMMA StepsKeep == AnswerInv /\ FilesInv /\ [Next]_vars => (AnswerInv /\ FilesInv)'
<1> SUFFICES ASSUME AnswerInv, FilesInv, [Next]_vars PROVE (AnswerInv /\ FilesInv)'
  OBVIOUS
<1>1. CASE SingleChoice \/ MultipleChoice \/ TrueFalse \/ MultipleTrueFalse
           \/ ShortAnswer \/ Numeric \/ Essay \/ Matching \/ Ordering \/ FillBlanks \/ Categorization
           \/ Hotspot \/ HotText \/ Matrix
  <2>1. AnswerInv'
    BY <1>1, SingleChoiceKeeps, MultipleChoiceKeeps, MultipleTrueFalseKeeps, FreeAnswersKeep,
       MatchingKeeps, OrderingKeeps, CategorizationKeeps, FillBlanksKeeps, HotspotKeeps, HotTextKeeps, MatrixKeeps
  <2>2. ~Is("file_upload")
    BY <1>1 DEF SingleChoice, MultipleChoice, TrueFalse, MultipleTrueFalse, ShortAnswer, Numeric, Essay,
                Matching, Ordering, FillBlanks, Categorization, Hotspot, HotText, Matrix, Is
  <2>3. Next
    BY <1>1 DEF Next
  <2>4. QED
    BY <2>1, <2>2, <2>3, QuestionStays DEF FilesInv, Is
<1>2. CASE PickFiles
  BY <1>2, PickFilesKeeps
<1>3. CASE UploadFile
  BY <1>3, UploadFileKeeps
<1>4. CASE UploadFails
  BY <1>4, UploadFailsKeeps
<1>5. CASE EndPick
  BY <1>5, EndPickKeeps
<1>6. CASE RemoveFile
  BY <1>6, RemoveFileKeeps
<1>7. CASE UNCHANGED vars
  <2>1. UNCHANGED <<definition, scoring, order, value, picks, uploaded, removed, overlap>>
    BY <1>7 DEF vars, question, history
  <2>a. Posed'
    BY <2>1 DEF AnswerInv, Posed, Is
  <2>b. ValueOK'
    BY <2>1 DEF AnswerInv, ValueOK, ChoiceOK, ArrangeOK, AreaOK, Is, PairSet, SegmentIds, WordBlanks, WordsOnce
  <2>c. PicksOK'
    BY <2>1 DEF AnswerInv, PicksOK, Is, Files, Now
  <2>2. AnswerInv'
    BY <2>a, <2>b, <2>c DEF AnswerInv
  <2>3. FilesInv'
    BY <2>1 DEF FilesInv, Held, Is, Files, Now
  <2>4. QED
    BY <2>2, <2>3
<1>8. QED
  BY <1>1, <1>2, <1>3, <1>4, <1>5, <1>6, <1>7 DEF Next

LEMMA Invariant == Spec => [](AnswerInv /\ FilesInv)
  BY InitOK, StepsKeep, PTL DEF Spec

\* NoUploadLost, for any number of files and of dialogues: as long as no two changes of the
\* files overlap, every upload is in the answer when onPick has ended, unless RemoveFile took it
\* out or a later upload of its dialogue failed.
THEOREM FilesAreKept == Spec => []NoUploadLost
<1>1. AnswerInv /\ FilesInv => NoUploadLost
  <2> SUFFICES ASSUME AnswerInv, FilesInv, Is("file_upload"), ~overlap, \A p \in Pick : ~picks[p].open
               PROVE  uploaded \ removed = Range(Files)
    BY DEF NoUploadLost
  <2>1. \A p \in Pick : Held(p) = {}
    BY DEF AnswerInv, PicksOK, IdlePick, Held, Range
  <2>2. uploaded \ removed = Range(Files) \cup UNION {Held(p) : p \in Pick}
    BY DEF FilesInv
  <2> HIDE DEF Held
  <2>3. QED
    BY <2>1, <2>2
<1>2. QED
  BY Invariant, <1>1, PTL

(***************************************************************************)
(* Answers that fit.                                                        *)
(***************************************************************************)
LEMMA DistinctLists ==
  ASSUME NEW S, NEW s \in Seq(S), Unique(s)
  PROVE  Distinct(s)
BY RangeIsFinite DEF Distinct

\* The definitions of Answering by type, one type at a time.
LEMMA WithinHolds ==
  ASSUME NEW v, ChoiceOK(v), ArrangeOK(v), AreaOK(v)
  PROVE  Within(v)
<1>1. CASE Is("multiple_choice")
  BY <1>1, DistinctLists DEF Within, ChoiceOK, AtMost, List, Is
<1>2. CASE Is("matching")
  <2>1. v.pairs \in Seq(PairSet) /\ Unique(Lefts(v.pairs)) /\ (definition.reuse \/ Unique(Rights(v.pairs)))
    BY <1>2 DEF ArrangeOK
  <2>2. /\ Lefts(v.pairs) \in Seq(Range(definition.left))
        /\ Rights(v.pairs) \in Seq(Range(definition.right))
    <3>1. /\ Len(v.pairs) \in Nat /\ DOMAIN v.pairs = 1..Len(v.pairs)
          /\ \A i \in 1..Len(v.pairs) : v.pairs[i] \in PairSet
      BY <2>1, LenProperties
    <3>2. /\ Lefts(v.pairs) \in [1..Len(v.pairs) -> Range(definition.left)]
          /\ Rights(v.pairs) \in [1..Len(v.pairs) -> Range(definition.right)]
      BY <3>1 DEF Lefts, Rights, PairSet
    <3>3. QED
      BY <3>1, <3>2, IsASeq
  <2>3. Distinct(Lefts(v.pairs)) /\ (definition.reuse \/ Distinct(Rights(v.pairs)))
    BY <2>1, <2>2, DistinctLists
  <2>4. QED
    BY <1>2, <2>3 DEF Within, Is
<1>3. CASE Is("ordering")
  <2>1. Distinct(v.order)
    BY <1>3, DistinctLists DEF ArrangeOK, List
  <2>2. QED
    BY <1>3, <2>1 DEF Within, Is
<1>4. CASE Is("fill_blanks")
  BY <1>4 DEF Within, ArrangeOK, WordsOnce, WordBlanks, Is
<1>5. CASE Is("hotspot")
  BY <1>5 DEF Within, AreaOK, Is
<1>6. CASE Is("hot_text")
  BY <1>6 DEF Within, AreaOK, AtMost, Is
<1>7. CASE Is("matrix")
  <2>1. ASSUME NEW row \in DOMAIN v.selections
        PROVE  /\ Distinct(v.selections[row])
               /\ definition.many \/ Len(v.selections[row]) <= 1
    <3>1. /\ v.selections[row] \in Seq(Range(definition.columns)) /\ Unique(v.selections[row])
          /\ definition.many \/ Len(v.selections[row]) <= 1
      BY <1>7 DEF AreaOK, List
    <3>2. QED
      BY <3>1, DistinctLists
  <2>2. QED
    BY <1>7, <2>1 DEF Within, Is
<1>8. CASE Is("file_upload")
  <2>1. Distinct(v.files) /\ Len(v.files) <= definition.maxFiles
    BY <1>8, DistinctLists DEF AreaOK, List
  <2>2. QED
    BY <1>8, <2>1 DEF Within, Is
<1>9. CASE /\ ~Is("multiple_choice") /\ ~Is("matching") /\ ~Is("ordering") /\ ~Is("fill_blanks")
           /\ ~Is("hotspot") /\ ~Is("hot_text") /\ ~Is("matrix") /\ ~Is("file_upload")
  BY <1>9 DEF Within
<1>10. QED
  BY <1>1, <1>2, <1>3, <1>4, <1>5, <1>6, <1>7, <1>8, <1>9

LEMMA WithinLimitsHolds == AnswerInv => WithinLimits
BY WithinHolds DEF WithinLimits, AnswerInv, ValueOK

LEMMA TypesHold == AnswerInv => TypeOK
<1> SUFFICES ASSUME AnswerInv PROVE TypeOK
  OBVIOUS
<1>1. definition.type \in QUESTION_TYPES
  BY QuestionMeans DEF AnswerInv
<1>2. ASSUME NEW p \in Pick PROVE Range(picks[p].kept) \cup Range(picks[p].todo) \subseteq File
  <2>1. picks[p].kept \in Seq(File) /\ picks[p].todo \in Seq(File)
    BY DEF AnswerInv, PicksOK
  <2>2. QED
    BY <2>1, RangeIsFinite
<1>3. ASSUME value # Null
      PROVE  /\ Is("single_choice") => value.optionId \in Range(definition.options) \cup {Null}
             /\ Is("multiple_choice") => Range(value.optionIds) \subseteq Range(definition.options)
             /\ Is("multiple_true_false") => DOMAIN value.values \subseteq Range(definition.statements)
             /\ Is("ordering") => Range(value.order) = Range(definition.items)
             /\ Is("hotspot") => Range(value.points) \subseteq Spot
             /\ Is("file_upload") => Range(value.files) \subseteq File
  <2>0. ChoiceOK(value) /\ ArrangeOK(value) /\ AreaOK(value)
    BY <1>3 DEF AnswerInv, ValueOK
  <2>1. Is("single_choice") => value.optionId \in Range(definition.options) \cup {Null}
    BY <2>0 DEF ChoiceOK
  <2>2. Is("multiple_choice") => Range(value.optionIds) \subseteq Range(definition.options)
    BY <2>0, RangeIsFinite DEF ChoiceOK, List
  <2>3. Is("multiple_true_false") => DOMAIN value.values \subseteq Range(definition.statements)
    BY <2>0 DEF ChoiceOK
  <2>4. Is("ordering") => Range(value.order) = Range(definition.items)
    BY <2>0 DEF ArrangeOK
  <2>5. Is("hotspot") => Range(value.points) \subseteq Spot
    BY <2>0, RangeIsFinite DEF AreaOK
  <2>6. Is("file_upload") => Range(value.files) \subseteq File
    BY <2>0, RangeIsFinite DEF AreaOK, List
  <2>7. QED
    BY <2>1, <2>2, <2>3, <2>4, <2>5, <2>6
<1>4. QED
  BY <1>1, <1>2, <1>3 DEF TypeOK, Is

\* The lists of an answer are no longer than those of its question.
LEMMA ListIsBounded ==
  ASSUME NEW S, NEW s \in Seq(S), Unique(s), NEW T, NEW list \in Seq(T), Unique(list),
         Range(s) \subseteq Range(list), Len(list) <= MaxItems
  PROVE  Len(s) <= MaxItems
<1>1. /\ Cardinality(Range(s)) = Len(s) /\ Cardinality(Range(list)) = Len(list) /\ IsFiniteSet(Range(list))
      /\ Len(s) \in Nat /\ Len(list) \in Nat /\ MaxItems \in Nat
  BY RangeIsFinite, MaxItemsAssumption, LenProperties
<1>2. Cardinality(Range(s)) <= Cardinality(Range(list))
  BY <1>1, FS_Subset
<1>3. QED
  BY <1>1, <1>2

\* When gradeResponse refuses an answer.
LEMMA StatusMeans ==
  ASSUME NEW d, NEW s, NEW r, NEW fits
  PROVE  /\ gradeResponse(d, s, r, fits).status = "invalid" => ~isEmptyResponse(d, r) /\ ~fits
         /\ ~(s.points = 0 \/ (d.type = "matrix" /\ d.correct = Null)) /\ isEmptyResponse(d, r)
              => gradeResponse(d, s, r, fits).status = "unanswered"
<1>1. \A p : Graded(p, s).status = "graded"
  BY DEF Graded, Result
<1> HIDE DEF isEmptyResponse
<1>2. QED
  BY <1>1 DEF gradeResponse, Result

LEMMA NothingIsEmpty == ASSUME NEW d PROVE isEmptyResponse(d, Null)
BY DEF isEmptyResponse

LEMMA AnswersFit ==
  ASSUME AnswerInv, value # Null
  PROVE  ResponseFits(definition, value) \/ Is("essay") \/ Is("numeric") \/ Is("fill_blanks")
<1> SUFFICES ASSUME ~Is("essay"), ~Is("numeric"), ~Is("fill_blanks") PROVE ResponseFits(definition, value)
  OBVIOUS
<1>0. ChoiceOK(value) /\ ArrangeOK(value) /\ AreaOK(value) /\ Posed
  BY DEF AnswerInv, ValueOK
<1>1. CASE Is("multiple_choice")
  <2> DEFINE s == value.optionIds
             list == definition.options
  <2>1. List(s, Range(list)) /\ List(list, Range(list)) /\ Len(list) <= MaxItems
    BY <1>0, <1>1, QuestionMeans DEF ChoiceOK
  <2> HIDE DEF list, s
  <2>2. Range(s) \subseteq Range(list)
    BY <2>1, RangeIsFinite DEF List
  <2>3. Len(s) <= MaxItems
    BY <2>1, <2>2, ListIsBounded DEF List
  <2>4. QED
    BY <1>1, <2>3 DEF ResponseFits, Is, s
<1>2. CASE Is("short_answer")
  BY <1>0, <1>2 DEF ResponseFits, ChoiceOK, Is
<1>3. CASE Is("matching")
  <2> DEFINE s == Lefts(value.pairs)
             list == definition.left
             pairs == value.pairs
  <2>1. /\ pairs \in Seq(PairSet) /\ Unique(s) /\ List(list, Range(list)) /\ Len(list) <= MaxItems
    BY <1>0, <1>3, QuestionMeans DEF ArrangeOK
  <2>2. /\ Len(pairs) \in Nat /\ s \in [1..Len(pairs) -> Range(list)]
    <3>1. /\ Len(pairs) \in Nat /\ DOMAIN pairs = 1..Len(pairs)
          /\ \A i \in 1..Len(pairs) : pairs[i] \in PairSet
      BY <2>1, LenProperties
    <3>2. QED
      BY <3>1 DEF Lefts, PairSet
  <2> HIDE DEF list, s, pairs
  <2>3. s \in Seq(Range(list)) /\ Len(s) = Len(pairs)
    BY <2>2, IsASeq, LenProperties
  <2>4. Range(s) \subseteq Range(list)
    BY <2>3, RangeIsFinite
  <2>5. Len(s) <= MaxItems
    BY <2>1, <2>3, <2>4, ListIsBounded DEF List
  <2>6. QED
    BY <1>3, <2>3, <2>5 DEF ResponseFits, Is, pairs
<1>4. CASE Is("ordering")
  <2> DEFINE s == value.order
             list == definition.items
  <2>1. List(s, Range(list)) /\ List(list, Range(list)) /\ Len(list) <= MaxItems
    BY <1>0, <1>4, QuestionMeans DEF ArrangeOK
  <2> HIDE DEF list, s
  <2>2. Range(s) \subseteq Range(list)
    BY <2>1, RangeIsFinite DEF List
  <2>3. Len(s) <= MaxItems
    BY <2>1, <2>2, ListIsBounded DEF List
  <2>4. QED
    BY <1>4, <2>3 DEF ResponseFits, Is, s
<1>5. CASE Is("hotspot")
  <2>1. value.points \in Seq(Spot) /\ Len(value.points) <= definition.max /\ definition.max \in 1..MaxItems
    BY <1>0, <1>5, QuestionMeans DEF AreaOK
  <2>2. Len(value.points) \in Nat
    BY <2>1, LenProperties
  <2>3. Len(value.points) <= MaxItems
    BY <2>1, <2>2, MaxItemsAssumption
  <2>4. QED
    BY <1>5, <2>3 DEF ResponseFits, Is
<1>6. CASE Is("hot_text")
  <2> DEFINE s == value.segmentIds
             list == SegmentIds
  <2>1. List(s, Range(list)) /\ List(list, Range(list)) /\ Len(list) <= MaxItems
    BY <1>0, <1>6, QuestionMeans DEF AreaOK
  <2> HIDE DEF list, s
  <2>2. Range(s) \subseteq Range(list)
    BY <2>1, RangeIsFinite DEF List
  <2>3. Len(s) <= MaxItems
    BY <2>1, <2>2, ListIsBounded DEF List
  <2>4. QED
    BY <1>6, <2>3 DEF ResponseFits, Is, s
<1>7. CASE Is("matrix")
  <2> DEFINE list == definition.columns
  <2>1. /\ List(list, Range(list)) /\ Len(list) <= MaxItems
        /\ \A row \in DOMAIN value.selections : List(value.selections[row], Range(list))
    BY <1>0, <1>7, QuestionMeans DEF AreaOK
  <2> HIDE DEF list
  <2>2. ASSUME NEW row \in DOMAIN value.selections PROVE Len(value.selections[row]) <= MaxItems
    <3> DEFINE s == value.selections[row]
    <3>1. List(s, Range(list))
      BY <2>1
    <3> HIDE DEF s
    <3>2. Range(s) \subseteq Range(list)
      BY <3>1, RangeIsFinite DEF List
    <3>3. Len(s) <= MaxItems
      BY <2>1, <3>1, <3>2, ListIsBounded DEF List
    <3>4. QED
      BY <3>3 DEF s
  <2>3. QED
    BY <1>7, <2>2 DEF ResponseFits, Is
<1>8. CASE Is("file_upload")
  <2>1. value.files \in Seq(File) /\ Len(value.files) <= definition.maxFiles /\ definition.maxFiles \in 1..MaxItems
    BY <1>0, <1>8, QuestionMeans DEF AreaOK, List
  <2>2. Len(value.files) \in Nat
    BY <2>1, LenProperties
  <2>3. Len(value.files) <= MaxItems
    BY <2>1, <2>2, MaxItemsAssumption
  <2>4. QED
    BY <1>8, <2>3 DEF ResponseFits, Is
<1>9. CASE definition.type \in {"single_choice", "true_false", "multiple_true_false", "categorization"}
  BY <1>9 DEF ResponseFits
<1>10. definition.type \in QUESTION_TYPES
  BY <1>0, QuestionMeans
<1>11. QED
  BY <1>1, <1>2, <1>3, <1>4, <1>5, <1>6, <1>7, <1>8, <1>9, <1>10
  DEF Is, QUESTION_TYPES, ChoiceTypes, TextTypes, ArrangeTypes, AreaTypes

LEMMA RefusedIsLongHolds == AnswerInv => RefusedIsLong
<1> SUFFICES ASSUME AnswerInv, Grade.status = "invalid"
             PROVE  \/ Is("essay") /\ ~Short(value.text)
                    \/ Is("numeric") /\ ~Short(value.value)
                    \/ Is("fill_blanks") /\ \E x \in DOMAIN value.values : ~Short(value.values[x])
  BY DEF RefusedIsLong
<1>2. value # Null /\ ~ResponseFits(definition, value)
  BY StatusMeans, NothingIsEmpty DEF Grade, GradeAs
<1>3. Is("essay") \/ Is("numeric") \/ Is("fill_blanks")
  BY <1>2, AnswersFit
<1>4. CASE Is("essay")
  BY <1>2, <1>4 DEF ResponseFits, Is
<1>5. CASE Is("numeric")
  BY <1>2, <1>5 DEF ResponseFits, Is
<1>6. CASE Is("fill_blanks")
  BY <1>2, <1>6 DEF ResponseFits, Is
<1>7. QED
  BY <1>3, <1>4, <1>5, <1>6

\* AnswersAreValid, for any questions, texts and points: however an answer was put together, it
\* keeps to the limits of its question and is refused only if a text of it is too long.
THEOREM AnswersAreWellFormed == Spec => []AnswersAreValid
<1>1. AnswerInv /\ FilesInv => AnswersAreValid
  BY TypesHold, RefusedIsLongHolds, WithinLimitsHolds DEF AnswersAreValid
<1>2. QED
  BY Invariant, <1>1, PTL

(***************************************************************************)
(* Answers taken back.                                                      *)
(***************************************************************************)
LEMMA EmptyRange ==
  ASSUME NEW S, NEW s \in Seq(S), Range(s) = {}
  PROVE  s = <<>>
<1>1. Len(s) \in Nat /\ DOMAIN s = 1..Len(s) /\ \A i \in 1..Len(s) : s[i] \in Range(s)
  BY LenProperties DEF Range
<1>2. Len(s) = 0
  <2>1. CASE Len(s) # 0
    <3>1. 1 \in 1..Len(s)
      BY <1>1, <2>1
    <3>2. QED
      BY <1>1, <3>1
  <2>2. QED
    BY <2>1
<1>3. QED
  BY <1>2, EmptySeq

LEMMA NoEntries == ASSUME NEW f, Entries(f) = {} PROVE AllAre(Null, f)
<1>1. ASSUME NEW x \in DOMAIN f, f[x] # Null PROVE FALSE
  <2>1. <<x, f[x]>> \in Entries(f)
    BY <1>1 DEF Entries
  <2>2. QED
    BY <2>1
<1>2. QED
  BY <1>1 DEF AllAre

\* An answer without facts is empty for the grader, whatever is left of it.
LEMMA ClearedIsEmpty ==
  ASSUME AnswerInv, value # Null, HasFacts, Facts(value) = {}
  PROVE  isEmptyResponse(definition, value)
<1>0. ChoiceOK(value) /\ ArrangeOK(value) /\ AreaOK(value) /\ Posed
  BY DEF AnswerInv, ValueOK
<1>1. CASE Is("single_choice")
  <2>1. value.optionId = Null
    BY <1>1 DEF Facts, Is
  <2>2. QED
    BY <1>1, <2>1 DEF isEmptyResponse, Is
<1>2. CASE Is("multiple_choice")
  <2>1. value.optionIds \in Seq(Range(definition.options)) /\ Range(value.optionIds) = {}
    BY <1>0, <1>2 DEF Facts, ChoiceOK, List, Is
  <2>2. value.optionIds = <<>>
    BY <2>1, EmptyRange
  <2>3. QED
    BY <1>2, <2>2 DEF isEmptyResponse, Is
<1>3. CASE Is("true_false")
  <2>1. value.value = Null
    BY <1>3 DEF Facts, Is
  <2>2. QED
    BY <1>3, <2>1 DEF isEmptyResponse, Is
<1>4. CASE Is("multiple_true_false")
  <2>1. Entries(value.values) = {}
    BY <1>4 DEF Facts, Is
  <2>2. AllAre(Null, value.values)
    BY <2>1, NoEntries
  <2> HIDE DEF Facts
  <2>3. QED
    BY <1>4, <2>2 DEF isEmptyResponse, Is
<1>5. CASE Is("matching")
  <2>1. value.pairs \in Seq(PairSet) /\ PairsOf(value.pairs) = {}
    BY <1>0, <1>5 DEF Facts, ArrangeOK, Is
  <2>2. Range(value.pairs) = {}
    BY <2>1 DEF PairsOf
  <2>3. value.pairs = <<>>
    BY <2>1, <2>2, EmptyRange
  <2>4. QED
    BY <1>5, <2>3 DEF isEmptyResponse, Is
<1>6. CASE Is("ordering")
  <2>1. /\ value.order \in Seq(Range(definition.items)) /\ Entries(value.order) = {}
        /\ Null \notin Range(definition.items)
    BY <1>0, <1>6, QuestionMeans DEF Facts, ArrangeOK, List, Is
  <2>2. AllAre(Null, value.order)
    BY <2>1, NoEntries
  <2>3. Range(value.order) \subseteq Range(definition.items)
    BY <2>1, RangeIsFinite
  <2>4. Range(value.order) = {}
    BY <2>1, <2>2, <2>3 DEF AllAre, Range
  <2>5. value.order = <<>>
    BY <2>1, <2>4, EmptyRange
  <2>6. QED
    BY <1>6, <2>5 DEF isEmptyResponse, Is
<1>7. CASE Is("categorization")
  <2>1. Entries(value.mapping) = {}
    BY <1>7 DEF Facts, Is
  <2>2. AllAre(Null, value.mapping)
    BY <2>1, NoEntries
  <2>3. QED
    BY <1>7, <2>2 DEF isEmptyResponse, Is
<1>8. CASE Is("hot_text")
  <2>1. value.segmentIds \in Seq(Range(SegmentIds)) /\ Range(value.segmentIds) = {}
    BY <1>0, <1>8 DEF Facts, AreaOK, List, Is
  <2>2. value.segmentIds = <<>>
    BY <2>1, EmptyRange
  <2>3. QED
    BY <1>8, <2>2 DEF isEmptyResponse, Is
<1>9. CASE Is("matrix")
  <2>1. Cells(value.selections) = {}
    BY <1>9 DEF Facts, Is
  <2>2. ASSUME NEW row \in DOMAIN value.selections PROVE value.selections[row] = <<>>
    <3> DEFINE s == value.selections[row]
    <3>1. s \in Seq(Range(definition.columns))
      BY <1>0, <1>9 DEF AreaOK, List
    <3>2. ASSUME NEW col \in Range(s) PROVE FALSE
      <4>1. <<row, col>> \in Cells(value.selections)
        BY DEF Cells
      <4>2. QED
        BY <2>1, <4>1
    <3> HIDE DEF s
    <3>3. s = <<>>
      BY <3>1, <3>2, EmptyRange
    <3>4. QED
      BY <3>3 DEF s
  <2>3. AllAre(<<>>, value.selections)
    BY <2>2 DEF AllAre
  <2>4. QED
    BY <1>9, <2>3 DEF isEmptyResponse, Is
<1>10. QED
  BY <1>1, <1>2, <1>3, <1>4, <1>5, <1>6, <1>7, <1>8, <1>9
  DEF HasFacts, Is, QUESTION_TYPES, ChoiceTypes, TextTypes, ArrangeTypes, AreaTypes

\* ClearedIsUnanswered, for any questions: who takes an answer back click by click is not
\* penalised for what is left of it, and gives the graders nothing to do.
THEOREM ClearedIsNone == Spec => []ClearedIsUnanswered
<1>1. AnswerInv => ClearedIsUnanswered
  <2> SUFFICES ASSUME AnswerInv, value # Null, scoring.points > 0,
                      \/ HasFacts /\ Facts(value) = {}
                      \/ Is("file_upload") /\ value.files = <<>>
               PROVE  Grade.status = "unanswered"
    BY DEF ClearedIsUnanswered
  <2>1. scoring.points # 0
    OBVIOUS
  <2>2. ~(definition.type = "matrix" /\ definition.correct = Null)
    BY DEF HasFacts, Is
  <2>3. isEmptyResponse(definition, value)
    <3>1. CASE HasFacts /\ Facts(value) = {}
      BY <3>1, ClearedIsEmpty
    <3>2. CASE Is("file_upload") /\ value.files = <<>>
      BY <3>2 DEF isEmptyResponse, Is
    <3>3. QED
      BY <3>1, <3>2
  <2>4. QED
    BY <2>1, <2>2, <2>3, StatusMeans DEF Grade, GradeAs
<1>2. QED
  BY Invariant, <1>1, PTL

(***************************************************************************)
(* Marks.                                                                   *)
(***************************************************************************)
LEMMA TimesKeeps ==
  ASSUME NEW k \in Nat \ {0}, NEW x \in Int, NEW y \in Int
  PROVE  /\ x <= y => k * x <= k * y
         /\ k * x < k * y => x < y
OBVIOUS

LEMMA TimesKeepsNat ==
  ASSUME NEW k \in Nat, NEW x \in Int, NEW y \in Int, x <= y
  PROVE  k * x <= k * y
OBVIOUS

LEMMA DivideMeans ==
  ASSUME NEW x \in Int, NEW d \in Nat \ {0}
  PROVE  /\ x \div d \in Int /\ d * (x \div d) <= x /\ x < d * ((x \div d) + 1)
  OBVIOUS

\* Round is monotone, whatever the denominators.
LEMMA RoundIsMonotone ==
  ASSUME NEW a \in Int, NEW b \in Int, NEW d \in Nat \ {0}, NEW e \in Nat \ {0}, a * e <= b * d
  PROVE  Round(a, d) <= Round(b, e) /\ Round(a, d) \in Int
<1> DEFINE x == 2 * a + Grain * d
           y == 2 * b + Grain * e
           D == 2 * Grain * d
           E == 2 * Grain * e
           q == x \div D
           r == y \div E
<1>0. Grain \in Nat \ {0}
  BY GrainAssumption
<1>1. x \in Int /\ y \in Int /\ D \in Nat \ {0} /\ E \in Nat \ {0}
  BY <1>0
<1>2. q \in Int /\ r \in Int /\ D * q <= x /\ y < E * (r + 1)
  BY <1>1, DivideMeans
<1>3. x * e <= y * d
  <2>1. x * e = 2 * (a * e) + Grain * d * e
    BY <1>0
  <2>2. y * d = 2 * (b * d) + Grain * d * e
    BY <1>0
  <2>3. a * e \in Int /\ b * d \in Int /\ Grain * d * e \in Int
    BY <1>0
  <2>4. QED
    BY <2>1, <2>2, <2>3
<1> DEFINE k == D * e
<1>4. k \in Nat \ {0} /\ k = E * d
  BY <1>0
<1> HIDE DEF x, y, q, r, k
<1>5. k * q <= x * e
  <2>1. e * (D * q) <= e * x
    BY <1>1, <1>2, TimesKeeps
  <2>2. k * q = e * (D * q) /\ e * x = x * e
    BY <1>1, <1>2 DEF k
  <2>3. QED
    BY <2>1, <2>2
<1>6. y * d < k * (r + 1)
  <2>1. d * y < d * (E * (r + 1))
    BY <1>1, <1>2
  <2>2. k * (r + 1) = d * (E * (r + 1)) /\ d * y = y * d
    BY <1>1, <1>2, <1>4
  <2>3. QED
    BY <2>1, <2>2
<1>7. q < r + 1
  <2>1. k * q \in Int /\ k * (r + 1) \in Int /\ x * e \in Int /\ y * d \in Int
    BY <1>1, <1>2, <1>4
  <2>2. k * q < k * (r + 1)
    BY <1>3, <1>5, <1>6, <2>1
  <2>3. QED
    BY <1>2, <1>4, <2>2, TimesKeeps
<1>8. Grain * q <= Grain * r /\ Grain * q \in Int
  BY <1>0, <1>2, <1>7, TimesKeeps
<1>9. QED
  BY <1>8 DEF Round, q, r, x, y

LEMMA RoundOfZero == ASSUME NEW d \in Nat \ {0} PROVE Round(0, d) = 0
<1>0. Grain \in Nat \ {0}
  BY GrainAssumption
<1> DEFINE h == Grain * d
<1>1. h \in Nat \ {0} /\ 2 * 0 + h = h /\ 2 * Grain * d = 2 * h
  BY <1>0
<1> HIDE DEF h
<1>2. h \div (2 * h) = 0
  <2>1. (h \div (2 * h)) \in Int /\ (2 * h) * (h \div (2 * h)) <= h /\ h < (2 * h) * ((h \div (2 * h)) + 1)
    BY <1>1, DivideMeans
  <2> DEFINE q == h \div (2 * h)
  <2> HIDE DEF q
  <2>2. q \in Int /\ (2 * h) * q <= h /\ h < (2 * h) * (q + 1)
    BY <2>1 DEF q
  <2>3. q < 1
    BY <1>1, <2>2
  <2>4. 0 < q + 1
    BY <1>1, <2>2
  <2>5. QED
    BY <2>2, <2>3, <2>4 DEF q
<1>3. QED
  BY <1>0, <1>1, <1>2 DEF Round, h

\* The values of sum in Total.
Sums(f, marks) ==
  /\ f \in [0..Len(marks) -> Int]
  /\ f[0] = 0 /\ \A n \in 1..Len(marks) : f[n] = f[n - 1] + marks[n]
  /\ Total(marks) = f[Len(marks)]

LEMMA TotalSteps ==
  ASSUME NEW marks \in Seq(Int)
  PROVE  \E f : Sums(f, marks)
<1> DEFINE N == Len(marks)
           Step(n, v) == v + marks[n]
           step == [n \in 1..N |-> [v \in Int |-> Step(n, v)]]
           Defines(g) == g = [n \in 0..N |-> IF n = 0 THEN 0 ELSE Step(n, g[n - 1])]
           h == CHOOSE g : Defines(g)
<1>0. /\ N \in Nat /\ 0 \in Int
      /\ \A n \in 1..N, v \in Int : Step(n, v) \in Int
  OBVIOUS
<1>1. Total(marks) = h[N]
  BY DEF Total
<1> HIDE DEF N, Step
<1>2. step \in [1..N -> [Int -> Int]] /\ \A n \in 1..N, v \in Int : step[n][v] = Step(n, v)
  BY <1>0
<1> HIDE DEF step
<1>3. PICK f \in [0..N -> Int] : f[0] = 0 /\ \A n \in 1..N : f[n] = step[n][f[n - 1]]
  <2>1. Recursive(N, Int, 0, step)
    BY <1>0, <1>2 DEF Recursive
  <2>2. PICK f : Follows(f, N, Int, 0, step)
    BY <2>1, Recursion
  <2>3. QED
    BY <2>2 DEF Follows
<1>4. \A n \in 1..N : f[n - 1] \in Int /\ f[n] = Step(n, f[n - 1])
  <2>1. ASSUME NEW n \in 1..N PROVE f[n - 1] \in Int /\ f[n] = Step(n, f[n - 1])
    <3>1. n - 1 \in 0..N
      BY <1>0
    <3>2. QED
      BY <3>1, <1>2, <1>3
  <2>2. QED
    BY <2>1
<1>5. Defines(f)
  <2>1. \A n \in 0..N : f[n] = IF n = 0 THEN 0 ELSE Step(n, f[n - 1])
    BY <1>0, <1>3, <1>4
  <2>2. QED
    BY <2>1
<1>6. Defines(h)
  BY <1>5
<1> HIDE DEF h
<1>7. h = f
  <2> DEFINE T == {n \in 0..N : h[n] = f[n]}
  <2>1. 0 \in T
    BY <1>0, <1>3, <1>6
  <2>2. ASSUME NEW n \in 1..N, n - 1 \in T PROVE n \in T
    <3>1. n \in 0..N /\ n # 0 /\ h[n - 1] = f[n - 1]
      BY <1>0, <2>2
    <3>2. h[n] = Step(n, h[n - 1])
      BY <3>1, <1>6
    <3>3. QED
      BY <3>1, <3>2, <1>4
  <2>3. 0..N \subseteq T
    <3> HIDE DEF T
    <3>1. QED
      BY <1>0, <2>1, <2>2, Upwards
  <2>4. QED
    BY <1>3, <1>6, <2>3
<1>8. QED
  BY <1>1, <1>3, <1>4, <1>7 DEF N, Step, Sums

LEMMA TotalIsNumber == ASSUME NEW marks \in Seq(Int) PROVE Total(marks) \in Int
<1>1. PICK f : Sums(f, marks)
  BY TotalSteps
<1>2. Len(marks) \in 0..Len(marks)
  BY LenProperties
<1>3. QED
  BY <1>1, <1>2 DEF Sums

\* Marks between zero and what they can be add up to no more than that does.
LEMMA TotalsCompare ==
  ASSUME NEW marks \in Seq(Int), NEW most \in Seq(Int), Len(marks) = Len(most),
         \A i \in 1..Len(marks) : 0 <= marks[i] /\ marks[i] <= most[i]
  PROVE  /\ 0 <= Total(marks) /\ Total(marks) <= Total(most)
         /\ \A i \in 1..Len(marks) : most[i] <= Total(most)
<1> DEFINE N == Len(marks)
<1>1. PICK f : Sums(f, marks)
  BY TotalSteps
<1>2. PICK g : Sums(g, most)
  BY TotalSteps
<1>3. /\ N \in Nat /\ \A i \in 1..N : marks[i] \in Int /\ most[i] \in Int /\ 0 <= marks[i] /\ marks[i] <= most[i]
      /\ f \in [0..N -> Int] /\ f[0] = 0 /\ \A n \in 1..N : f[n] = f[n - 1] + marks[n]
      /\ g \in [0..N -> Int] /\ g[0] = 0 /\ \A n \in 1..N : g[n] = g[n - 1] + most[n]
      /\ Total(marks) = f[N] /\ Total(most) = g[N]
  BY <1>1, <1>2, LenProperties DEF Sums
<1> HIDE DEF N
<1> DEFINE T == {n \in 0..N : /\ 0 <= f[n] /\ f[n] <= g[n] /\ \A i \in 1..n : most[i] <= g[n]}
<1>4. 0 \in T
  BY <1>3
<1>5. ASSUME NEW n \in 1..N, n - 1 \in T PROVE n \in T
  <2>1. /\ n \in 0..N /\ n - 1 \in 0..N /\ f[n - 1] \in Int /\ g[n - 1] \in Int
        /\ 0 <= f[n - 1] /\ f[n - 1] <= g[n - 1] /\ \A i \in 1..n - 1 : most[i] <= g[n - 1]
        /\ marks[n] \in Int /\ most[n] \in Int /\ 0 <= marks[n] /\ marks[n] <= most[n]
        /\ f[n] = f[n - 1] + marks[n] /\ g[n] = g[n - 1] + most[n]
    BY <1>3, <1>5
  <2>2. 0 <= f[n] /\ f[n] <= g[n] /\ g[n - 1] <= g[n] /\ most[n] <= g[n] /\ g[n] \in Int
    BY <2>1
  <2>3. ASSUME NEW i \in 1..n PROVE most[i] <= g[n]
    <3>1. CASE i = n
      BY <2>2, <3>1
    <3>2. CASE i # n
      <4>1. i \in 1..n - 1 /\ i \in 1..N
        BY <1>3, <3>2
      <4>2. most[i] \in Int
        BY <1>3, <4>1
      <4>3. most[i] <= g[n - 1]
        BY <2>1, <4>1
      <4>4. QED
        BY <2>1, <2>2, <4>2, <4>3
    <3>3. QED
      BY <3>1, <3>2
  <2>4. QED
    BY <2>1, <2>2, <2>3
<1>6. N \in T
  <2> HIDE DEF T
  <2>1. 0..N \subseteq T
    BY <1>3, <1>4, <1>5, Upwards
  <2>2. QED
    BY <1>3, <2>1
<1>7. QED
  BY <1>3, <1>6 DEF N

LEMMA BestFits ==
  ASSUME NEW S, S \subseteq 0..Whole
  PROVE  Best(S) \in 0..Whole /\ (Best(S) = Whole <=> Whole \in S)
<1>0. Whole \in Nat /\ Whole # 0
  BY GrainAssumption
<1> DEFINE T == {Whole - b : b \in S \cup {0}}
<1>1. T \subseteq Nat /\ T # {}
  BY <1>0
<1>2. PICK x \in T : \A y \in T : x <= y
  <2> HIDE DEF T
  <2>1. QED
    BY <1>1, Least
<1>3. PICK b \in S \cup {0} : x = Whole - b
  BY <1>2
<1>4. \A s \in S \cup {0} : s <= b
  <2>1. ASSUME NEW s \in S \cup {0} PROVE s <= b
    <3>a. s \in 0..Whole /\ b \in 0..Whole
      BY <1>0, <1>3
    <3>b. Whole - s \in T
      OBVIOUS
    <3>1. Whole - b <= Whole - s /\ s \in Int /\ b \in Int
      BY <1>2, <1>3, <3>a, <3>b
    <3>2. QED
      BY <1>0, <3>1
  <2>2. QED
    BY <2>1
<1>5. Best(S) \in S \cup {0} /\ \A s \in S \cup {0} : s <= Best(S)
  BY <1>4 DEF Best
<1>6. S \cup {0} \subseteq 0..Whole
  BY <1>0
<1> HIDE DEF T
<1>7. Best(S) \in 0..Whole
  BY <1>5, <1>6
<1>8. Whole \in S => Best(S) = Whole
  BY <1>0, <1>5, <1>7
<1>9. Best(S) = Whole => Whole \in S
  BY <1>0, <1>5
<1>10. QED
  BY <1>7, <1>8, <1>9

\* What a grader finds: a part of an answer that is exactly right is all of it.
PartOK(p) == p.num \in Int /\ p.den \in Nat \ {0} /\ (p.exact => p.num >= p.den)

\* The marks of a part stay between the penalty (or zero) and the points, and to count
\* parts never gives less than to ask for all.
LEMMA GradedFits ==
  ASSUME NEW p, PartOK(p), NEW points \in Nat, NEW penalty \in Nat, NEW free \in BOOLEAN,
         NEW s, s.points = points, s.penalty = penalty, s.allowNegative = free,
         NEW t, t.points = points, t.penalty = penalty, t.allowNegative = free,
         s.mode = "partial", t.mode # "partial"
  PROVE  LET a == Graded(p, s).score
             b == Graded(p, t).score
         IN /\ a \in Int /\ b \in Int /\ a >= b /\ a <= Round(points, 1)
            /\ b >= IF free THEN Round(-penalty, 1) ELSE 0
<1> DEFINE den == p.den
           c == IF p.num < 0 THEN 0 ELSE IF p.num > den THEN den ELSE p.num
           all == IF p.exact THEN den ELSE 0
           Kept(n) == IF n = 0 THEN n * points - penalty * den ELSE n * points
           Floor(n) == IF free \/ Kept(n) >= 0 THEN Kept(n) ELSE 0
<1>1. /\ Clamp(p).num = c /\ Clamp(p).den = den
  BY DEF Clamp, PartOK
<1>2. Graded(p, s).score = Round(Floor(c), den) /\ Graded(p, t).score = Round(Floor(all), den)
  BY <1>1 DEF Graded, Result
<1>3. /\ den \in Nat \ {0} /\ c \in 0..den /\ all \in {0, den} /\ (all = den => c = den)
  BY DEF PartOK
<1> HIDE DEF c, den, all
<1>4. ASSUME NEW n \in 0..den
      PROVE  /\ Floor(n) \in Int /\ Floor(n) * 1 <= points * den
             /\ (free => (-penalty) * den <= Floor(n) * 1) /\ (~free => 0 <= Floor(n))
             /\ Floor(0) <= Floor(n)
  <2>1. n * points \in Nat /\ penalty * den \in Nat /\ points * den \in Nat /\ n * points <= points * den
    <3>1. points * n <= points * den
      BY <1>3, TimesKeepsNat
    <3>2. QED
      BY <1>3, <3>1
  <2>2. 0 * points = 0 /\ (-penalty) * den = -(penalty * den) /\ -penalty \in Int
    BY <1>3
  <2> DEFINE gain == n * points
             loss == penalty * den
             full == points * den
  <2> HIDE DEF gain, loss, full
  <2>3. /\ gain \in Nat /\ loss \in Nat /\ full \in Nat /\ gain <= full
        /\ Kept(n) = (IF n = 0 THEN gain - loss ELSE gain) /\ Kept(0) = 0 - loss
        /\ (-penalty) * den = -loss
    BY <2>1, <2>2 DEF gain, loss, full
  <2> HIDE DEF Kept
  <2>4. /\ Kept(n) \in Int /\ Kept(n) <= full /\ -loss <= Kept(n) /\ Kept(0) <= Kept(n) /\ Kept(0) \in Int
        /\ Kept(0) <= 0
    BY <2>3
  <2>5. /\ Floor(n) \in Int /\ Floor(n) <= full /\ (free => -loss <= Floor(n)) /\ (~free => 0 <= Floor(n))
        /\ Floor(0) <= Floor(n)
    BY <2>3, <2>4
  <2> HIDE DEF Floor
  <2>6. QED
    BY <2>3, <2>5 DEF full
<1>5. Floor(all) <= Floor(c) /\ Floor(all) \in Int /\ Floor(c) \in Int
  <2>1. CASE all = 0
    BY <1>3, <1>4, <2>1
  <2>2. CASE all = den
    BY <1>3, <1>4, <2>2
  <2>3. QED
    BY <1>3, <2>1, <2>2
<1> HIDE DEF Floor
<1>6. Round(Floor(all), den) <= Round(Floor(c), den) /\ Round(Floor(all), den) \in Int
  <2>1. Floor(all) * den <= Floor(c) * den
    BY <1>3, <1>5, TimesKeeps
  <2>2. QED
    BY <1>3, <1>5, <2>1, RoundIsMonotone
<1>7. Round(Floor(c), den) <= Round(points, 1) /\ Round(Floor(c), den) \in Int
  BY <1>3, <1>4, RoundIsMonotone
<1>8. ASSUME free PROVE Round(-penalty, 1) <= Round(Floor(all), den)
  BY <1>3, <1>4, <1>8, RoundIsMonotone
<1>9. ASSUME ~free PROVE 0 <= Round(Floor(all), den)
  <2>1. Round(0, 1) <= Round(Floor(all), den)
    BY <1>3, <1>4, <1>9, RoundIsMonotone
  <2>2. QED
    BY <2>1, RoundOfZero
<1>10. QED
  BY <1>2, <1>6, <1>7, <1>8, <1>9

(***************************************************************************)
(* Graders.                                                                 *)
(***************************************************************************)
\* What the schema says of the keys.
LEMMA ChoiceKeys ==
  ASSUME Posed
  PROVE  /\ Is("single_choice") => definition.weights = Null \/ Range(definition.weights) \subseteq 0..Whole
         /\ Is("multiple_choice") => IsList(definition.keys) /\ Len(definition.keys) >= 1
         /\ Is("multiple_true_false") => List(definition.statements, Range(definition.statements)) /\ Len(definition.statements) >= 1
         /\ Is("short_answer") => \A rule \in definition.accepted : RuleOK(rule)
         /\ Is("numeric") => \A rule \in definition.accepted : NumericRuleOK(rule)
         /\ Is("essay") => IsList(definition.rubric) /\ \A c \in Range(definition.rubric) : c.maxPoints \in Nat
<1>0. definition \in Definition /\ QuestionDefinition(definition) /\ MaxItems \in Nat
  BY MaxItemsAssumption DEF Posed
<1>1. CASE Is("single_choice")
  <2>1. ChoiceShape(definition)
    BY <1>0, <1>1 DEF Is, QuestionDefinition, ManualTypes, ChoiceTypes, TextTypes, ArrangeTypes, AreaTypes
  <2>2. QED
    BY <1>1, <2>1 DEF Is, ChoiceShape
<1>2. CASE Is("multiple_choice")
  <2>1. ChoiceShape(definition)
    BY <1>0, <1>2 DEF Is, QuestionDefinition, ManualTypes, ChoiceTypes, TextTypes, ArrangeTypes, AreaTypes
  <2>2. QED
    BY <1>0, <1>2, <2>1, DefinitionAssumption DEF Is, ChoiceShape
<1>3. CASE Is("multiple_true_false")
  <2>1. ChoiceShape(definition) /\ MultipleTrueFalseConsistent(definition)
    BY <1>0, <1>3 DEF Is, QuestionDefinition, checkConsistency, ManualTypes, ChoiceTypes, TextTypes, ArrangeTypes, AreaTypes
  <2>2. QED
    BY <1>0, <1>3, <2>1, DefinitionAssumption
    DEF Is, ChoiceShape, Sized, MultipleTrueFalseConsistent, List, IsList
<1>4. CASE Is("short_answer") \/ Is("numeric") \/ Is("essay")
  <2>1. TextShape(definition)
    BY <1>0, <1>4 DEF Is, QuestionDefinition, ManualTypes, ChoiceTypes, TextTypes, ArrangeTypes, AreaTypes
  <2>2. CASE Is("short_answer")
    BY <2>1, <2>2 DEF Is, TextShape
  <2>3. CASE Is("numeric")
    BY <2>1, <2>3 DEF Is, TextShape
  <2>4. CASE Is("essay")
    <3>1. IsList(definition.rubric) /\ \A c \in Range(definition.rubric) : c.maxPoints \in Int
      BY <1>0, <2>4, DefinitionAssumption DEF Is
    <3>2. \A i \in DOMAIN definition.rubric : definition.rubric[i].maxPoints >= 0
      BY <2>1, <2>4 DEF Is, TextShape
    <3>3. \A c \in Range(definition.rubric) : c.maxPoints \in Nat
      BY <3>1, <3>2 DEF Range
    <3>4. QED
      BY <2>4, <3>1, <3>3 DEF Is
  <2>5. QED
    BY <1>4, <2>2, <2>3, <2>4
<1>5. CASE ~Is("single_choice") /\ ~Is("multiple_choice") /\ ~Is("multiple_true_false")
           /\ ~Is("short_answer") /\ ~Is("numeric") /\ ~Is("essay")
  BY <1>5
<1>6. QED
  BY <1>1, <1>2, <1>3, <1>4, <1>5

LEMMA ArrangeKeys ==
  ASSUME Posed
  PROVE  /\ Is("matching") => IsList(definition.pairs) /\ Len(definition.pairs) >= 1
         /\ Is("ordering") => IsList(definition.order) /\ Len(definition.order) >= 2
         /\ Is("fill_blanks") =>
              /\ IsList(definition.blanks) /\ Len(definition.blanks) >= 1
              /\ \A b \in Range(definition.blanks) :
                   /\ b.kind \in BlankKinds /\ b.id \in DOMAIN definition.keys
                   /\ \A rule \in definition.keys[b.id].accepted : RuleOK(rule)
                   /\ \A number \in definition.keys[b.id].numeric : NumericRuleOK(number)
         /\ Is("categorization") => IsList(definition.items) /\ DOMAIN definition.mapping \subseteq Range(definition.items)
         /\ Is("hotspot") => IsList(definition.regions) /\ Len(definition.regions) >= 1
         /\ Is("hot_text") => IsList(definition.keys) /\ Len(definition.keys) >= 1
         /\ Is("matrix") => List(definition.rows, Range(definition.rows)) /\ Len(definition.rows) >= 1
<1>0. definition \in Definition /\ QuestionDefinition(definition) /\ MaxItems \in Nat
  BY MaxItemsAssumption DEF Posed
<1>1. CASE Is("matching") \/ Is("ordering") \/ Is("categorization")
  <2>1. ArrangeShape(definition)
    BY <1>0, <1>1 DEF Is, QuestionDefinition, ManualTypes, ChoiceTypes, TextTypes, ArrangeTypes, AreaTypes
  <2>2. CASE Is("matching")
    BY <1>0, <2>1, <2>2, DefinitionAssumption DEF Is, ArrangeShape
  <2>3. CASE Is("ordering")
    BY <1>0, <2>1, <2>3, DefinitionAssumption DEF Is, ArrangeShape
  <2>4. CASE Is("categorization")
    <3>1. CategorizationConsistent(definition)
      BY <1>0, <2>4 DEF Is, QuestionDefinition, checkConsistency, ManualTypes
    <3>2. QED
      BY <1>0, <2>4, <3>1, DefinitionAssumption DEF Is, CategorizationConsistent
  <2>5. QED
    BY <1>1, <2>2, <2>3, <2>4
<1>2. CASE Is("fill_blanks")
  <2>1. FillBlanksShape(definition) /\ FillBlanksConsistent(definition)
    BY <1>0, <1>2 DEF Is, QuestionDefinition, checkConsistency, ManualTypes, ChoiceTypes, TextTypes, ArrangeTypes, AreaTypes
  <2>2. /\ IsList(definition.blanks) /\ Len(definition.blanks) >= 1
        /\ \A b \in Range(definition.blanks) : b.kind \in BlankKinds
    BY <1>0, <1>2, <2>1, DefinitionAssumption DEF Is, FillBlanksShape, Sized, IsList
  <2>3. ASSUME NEW b \in Range(definition.blanks)
        PROVE  b.id \in DOMAIN definition.keys /\ definition.keys[b.id] \in Range(definition.keys)
    <3>1. b.id \in Range([i \in DOMAIN definition.blanks |-> definition.blanks[i].id])
      BY DEF Range
    <3>2. QED
      BY <2>1, <3>1 DEF FillBlanksConsistent, Range
  <2>4. QED
    BY <1>2, <2>1, <2>2, <2>3 DEF Is, FillBlanksShape
<1>3. CASE Is("hotspot") \/ Is("hot_text") \/ Is("matrix")
  <2>1. AreaShape(definition)
    BY <1>0, <1>3 DEF Is, QuestionDefinition, ManualTypes, ChoiceTypes, TextTypes, ArrangeTypes, AreaTypes
  <2>2. CASE Is("hotspot")
    BY <1>0, <2>1, <2>2, DefinitionAssumption DEF Is, AreaShape, Sized, IsList
  <2>3. CASE Is("hot_text")
    BY <1>0, <2>1, <2>3, DefinitionAssumption DEF Is, AreaShape
  <2>4. CASE Is("matrix")
    <3>1. MatrixConsistent(definition)
      BY <1>0, <2>4 DEF Is, QuestionDefinition, checkConsistency, ManualTypes
    <3>2. QED
      BY <1>0, <2>1, <2>4, <3>1, DefinitionAssumption DEF Is, AreaShape, Sized, MatrixConsistent, List, IsList
  <2>5. QED
    BY <1>3, <2>2, <2>3, <2>4
<1>4. CASE ~Is("matching") /\ ~Is("ordering") /\ ~Is("categorization") /\ ~Is("fill_blanks")
           /\ ~Is("hotspot") /\ ~Is("hot_text") /\ ~Is("matrix")
  BY <1>4
<1>5. QED
  BY <1>1, <1>2, <1>3, <1>4

\* How many of a finite set there are.
LEMMA Counts ==
  ASSUME NEW K, IsFiniteSet(K), NEW S, S \subseteq K
  PROVE  IsFiniteSet(S) /\ Cardinality(S) \in Nat /\ (S # {} => Cardinality(S) \in Nat \ {0})
<1>1. IsFiniteSet(S)
  BY FS_Subset
<1>2. Cardinality(S) \in Nat /\ (Cardinality(S) = 0 <=> S = {})
  BY <1>1, FS_CardinalityType, FS_EmptySet
<1>3. QED
  BY <1>1, <1>2

\* The entries of a list that has some.
LEMMA ListHasSome ==
  ASSUME NEW S, NEW s \in Seq(S), Len(s) >= 1
  PROVE  /\ IsFiniteSet(Range(s)) /\ Range(s) # {} /\ Cardinality(Range(s)) \in Nat \ {0}
         /\ DOMAIN s = 1..Len(s) /\ Len(s) \in Nat \ {0}
         /\ IsFiniteSet(DOMAIN s) /\ Cardinality(DOMAIN s) = Len(s)
<1>1. DOMAIN s = 1..Len(s) /\ Len(s) \in Nat \ {0}
  BY LenProperties
<1>2. s[1] \in Range(s)
  BY <1>1 DEF Range
<1>3. IsFiniteSet(Range(s))
  BY RangeIsFinite
<1>4. Cardinality(Range(s)) \in Nat \ {0}
  BY <1>2, <1>3, Counts
<1>5. IsFiniteSet(1..Len(s)) /\ Cardinality(1..Len(s)) = Len(s)
  BY <1>1, FS_Interval
<1>6. QED
  BY <1>1, <1>2, <1>3, <1>4, <1>5

LEMMA PartFits ==
  ASSUME NEW num \in Int, NEW den \in Nat \ {0}, NEW exact \in BOOLEAN, exact => num >= den
  PROVE  PartOK(Part(num, den, exact))
BY DEF Part, PartOK

LEMMA YesNoPart == ASSUME NEW ok \in BOOLEAN PROVE PartOK(YesNo(ok))
<1>1. (IF ok THEN 1 ELSE 0) \in Int /\ (ok => (IF ok THEN 1 ELSE 0) >= 1)
  OBVIOUS
<1>2. QED
  BY <1>1, PartFits DEF YesNo

LEMMA SelectionPart ==
  ASSUME NEW selected, NEW keys, IsFiniteSet(selected), IsFiniteSet(keys), keys # {}
  PROVE  PartOK(selectionFraction(selected, keys))
<1>1. Cardinality(selected \cap keys) \in Nat /\ Cardinality(selected \ keys) \in Nat
  BY Counts
<1>2. Cardinality(keys) \in Nat \ {0}
  BY Counts
<1> DEFINE hits == Cardinality(selected \cap keys)
           wrong == Cardinality(selected \ keys)
           all == Cardinality(keys)
<1>3. selectionFraction(selected, keys) = Part(hits - wrong, all, hits = all /\ wrong = 0)
  BY DEF selectionFraction
<1> HIDE DEF hits, wrong, all
<1>4. hits - wrong \in Int /\ all \in Nat \ {0} /\ (hits = all /\ wrong = 0 => hits - wrong >= all)
  BY <1>1, <1>2 DEF hits, wrong, all
<1>5. QED
  BY <1>3, <1>4, PartFits

LEMMA WeightIsPart == ASSUME NEW w \in Int PROVE PartOK(WeightPart(w))
<1>1. Whole \in Nat \ {0} /\ (w = Whole => w >= Whole)
  BY GrainAssumption
<1>2. QED
  BY <1>1, PartFits DEF WeightPart

LEMMA TextScores ==
  ASSUME NEW t, NEW rules, \A rule \in rules : RuleOK(rule)
  PROVE  matchText(t, rules) \in Int
<1>1. {r.score : r \in {q \in rules : TextMatches(t, q)}} \subseteq 0..Whole
  BY DEF RuleOK
<1>2. matchText(t, rules) \in 0..Whole
  BY <1>1, BestFits DEF matchText
<1>3. QED
  BY <1>2

LEMMA NumberScores ==
  ASSUME NEW chars, NEW rules, \A rule \in rules : NumericRuleOK(rule)
  PROVE  NumericScore(chars, rules) \in Int
<1>1. ASSUME NEW v PROVE matchNumeric(v, rules) \in 0..Whole
  <2>1. {r.score : r \in {q \in rules : NumberMatches(v[1], v[2], q)}} \subseteq 0..Whole
    BY DEF NumericRuleOK
  <2>2. QED
    BY <2>1, BestFits DEF matchNumeric
<1>2. NumericScore(chars, rules) = 0
      \/ NumericScore(chars, rules) = matchNumeric(parseNumericInput(chars), rules)
  BY DEF NumericScore
<1>3. QED
  BY <1>1, <1>2

LEMMA ChoiceParts ==
  ASSUME AnswerInv, value # Null,
         \/ Is("single_choice") \/ Is("multiple_choice") \/ Is("true_false")
         \/ Is("multiple_true_false") \/ Is("short_answer") \/ Is("numeric")
  PROVE  PartOK(AutoPart(definition, value))
<1>0. ChoiceOK(value) /\ Posed
  BY DEF AnswerInv, ValueOK
<1>1. CASE Is("single_choice")
  <2>1. definition.weights = Null \/ Range(definition.weights) \subseteq 0..Whole
    BY <1>0, <1>1, ChoiceKeys
  <2>2. AutoPart(definition, value) = SingleChoicePart(definition, value)
    BY <1>1 DEF AutoPart, Is
  <2>3. CASE definition.weights = Null
    <3>1. (value.optionId = definition.correct) \in BOOLEAN
      OBVIOUS
    <3>2. SingleChoicePart(definition, value) = YesNo(value.optionId = definition.correct)
      BY <2>3 DEF SingleChoicePart
    <3>3. QED
      BY <2>2, <3>1, <3>2, YesNoPart
  <2>4. CASE definition.weights # Null
    <3> DEFINE w == At(definition.weights, value.optionId)
               n == IF w = Null THEN 0 ELSE w
    <3>1. w = Null \/ w \in 0..Whole
      BY <2>1, <2>4 DEF At, Range
    <3>2. n \in Int /\ (w = Whole => n >= Whole)
      BY <3>1, GrainAssumption, NullAssumption
    <3>3. SingleChoicePart(definition, value) = Part(n, Whole, w = Whole)
      BY <2>4 DEF SingleChoicePart
    <3>5. Whole \in Nat \ {0}
      BY GrainAssumption
    <3> HIDE DEF n, w
    <3>4. QED
      BY <2>2, <3>2, <3>3, <3>5, PartFits
  <2>5. QED
    BY <2>3, <2>4
<1>2. CASE Is("multiple_choice")
  <2>1. IsList(definition.keys) /\ Len(definition.keys) >= 1
    BY <1>0, <1>2, ChoiceKeys
  <2>2. value.optionIds \in Seq(Range(definition.options))
    BY <1>0, <1>2 DEF ChoiceOK, List
  <2>3. IsFiniteSet(Range(value.optionIds))
    BY <2>2, RangeIsFinite
  <2>4. IsFiniteSet(Range(definition.keys)) /\ Range(definition.keys) # {}
    BY <2>1, ListHasSome DEF IsList
  <2>5. AutoPart(definition, value) = selectionFraction(Range(value.optionIds), Range(definition.keys))
    BY <1>2 DEF AutoPart, Is
  <2>6. QED
    BY <2>3, <2>4, <2>5, SelectionPart
<1>3. CASE Is("true_false")
  <2>1. (value.value = definition.answer) \in BOOLEAN
    OBVIOUS
  <2>2. AutoPart(definition, value) = YesNo(value.value = definition.answer)
    BY <1>3 DEF AutoPart, Is
  <2>3. QED
    BY <2>1, <2>2, YesNoPart
<1>4. CASE Is("multiple_true_false")
  <2> DEFINE K == Range(definition.statements)
             right == {s \in K : At(value.values, s) = definition.answers[s]}
  <2>1. definition.statements \in Seq(K) /\ Unique(definition.statements) /\ Len(definition.statements) >= 1
    BY <1>0, <1>4, ChoiceKeys DEF List
  <2>2. IsFiniteSet(K) /\ Cardinality(K) = Len(definition.statements) /\ Len(definition.statements) \in Nat \ {0}
    BY <2>1, RangeIsFinite, ListHasSome
  <2>3. right \subseteq K
    OBVIOUS
  <2>4. AutoPart(definition, value) = Part(Cardinality(right), Len(definition.statements), right = K)
    BY <1>4 DEF AutoPart, MultipleTrueFalsePart, Is
  <2> HIDE DEF right, K
  <2>5. Cardinality(right) \in Nat
    BY <2>2, <2>3, Counts
  <2> DEFINE n == Cardinality(right)
             all == Len(definition.statements)
  <2>6. n \in Int /\ all \in Nat \ {0} /\ (right = K => n >= all)
    BY <2>2, <2>5
  <2> HIDE DEF n, all
  <2>7. PartOK(Part(n, all, right = K))
    BY <2>6, PartFits
  <2>8. QED
    BY <2>4, <2>7 DEF n, all
<1>5. CASE Is("short_answer")
  <2>1. matchText(value.text, definition.accepted) \in Int
    BY <1>0, <1>5, ChoiceKeys, TextScores
  <2>2. AutoPart(definition, value) = WeightPart(matchText(value.text, definition.accepted))
    BY <1>5 DEF AutoPart, Is
  <2>3. QED
    BY <2>1, <2>2, WeightIsPart
<1>6. CASE Is("numeric")
  <2>1. NumericScore(value.value.word, definition.accepted) \in Int
    BY <1>0, <1>6, ChoiceKeys, NumberScores
  <2>2. AutoPart(definition, value) = WeightPart(NumericScore(value.value.word, definition.accepted))
    BY <1>6 DEF AutoPart, Is
  <2>3. QED
    BY <2>1, <2>2, WeightIsPart
<1>7. QED
  BY <1>1, <1>2, <1>3, <1>4, <1>5, <1>6

LEMMA LeftsAreFinite == ASSUME NEW S, IsFiniteSet(S) PROVE IsFiniteSet({p.leftId : p \in S})
<1> DEFINE T == {p.leftId : p \in S}
           f == [p \in S |-> p.leftId]
<1>1. f \in Surjection(S, T)
  BY DEF Surjection
<1> HIDE DEF f, T
<1>2. IsFiniteSet(T)
  BY <1>1, FS_Surjection
<1>3. QED
  BY <1>2 DEF T

LEMMA ArrangeParts ==
  ASSUME AnswerInv, value # Null, ~isEmptyResponse(definition, value),
         Is("matching") \/ Is("ordering") \/ Is("categorization")
  PROVE  PartOK(AutoPart(definition, value))
<1>0. ArrangeOK(value) /\ Posed
  BY DEF AnswerInv, ValueOK
<1>1. CASE Is("matching")
  <2> DEFINE keyed == {p.leftId : p \in Range(definition.pairs)}
             key == [l \in keyed |-> FirstPair(definition.pairs, l).rightId]
             seen == {p.leftId : p \in Range(value.pairs)}
             right == {l \in seen \cap DOMAIN key : FirstPair(value.pairs, l).rightId = key[l]}
             wrong == seen \ DOMAIN key
  <2>1. definition.pairs \in Seq(Range(definition.pairs)) /\ Len(definition.pairs) >= 1
    BY <1>0, <1>1, ArrangeKeys DEF IsList
  <2>2. IsFiniteSet(Range(definition.pairs)) /\ Range(definition.pairs) # {} /\ IsFiniteSet(Range(value.pairs))
    <3>1. value.pairs \in Seq(PairSet)
      BY <1>0, <1>1 DEF ArrangeOK
    <3>2. QED
      BY <2>1, <3>1, ListHasSome, RangeIsFinite
  <2>3. IsFiniteSet(keyed) /\ keyed # {}
    BY <2>2, LeftsAreFinite
  <2>4. IsFiniteSet(seen)
    BY <2>2, LeftsAreFinite
  <2>5. DOMAIN key = keyed /\ right \subseteq keyed /\ wrong \subseteq seen
    OBVIOUS
  <2>6. AutoPart(definition, value)
          = Part(Cardinality(right) - Cardinality(wrong), Cardinality(DOMAIN key), right = DOMAIN key /\ wrong = {})
    BY <1>1 DEF AutoPart, MatchingPart, Is
  <2> HIDE DEF keyed, seen, right, wrong, key
  <2>7. Cardinality(right) \in Nat /\ Cardinality(wrong) \in Nat /\ Cardinality(keyed) \in Nat \ {0}
    BY <2>3, <2>4, <2>5, Counts
  <2>8. wrong = {} => Cardinality(wrong) = 0
    BY FS_EmptySet
  <2> DEFINE n == Cardinality(right) - Cardinality(wrong)
             all == Cardinality(keyed)
  <2>9. n \in Int /\ all \in Nat \ {0} /\ (right = keyed /\ wrong = {} => n >= all)
    BY <2>7, <2>8
  <2> HIDE DEF n, all
  <2>10. PartOK(Part(n, all, right = keyed /\ wrong = {}))
    BY <2>9, PartFits
  <2>11. QED
    BY <2>5, <2>6, <2>10 DEF n, all
<1>2. CASE Is("ordering")
  <2> DEFINE list == definition.order
             inPlace == {i \in DOMAIN list \cap DOMAIN value.order : value.order[i] = list[i]}
  <2>1. list \in Seq(Range(list)) /\ Len(list) >= 1
    BY <1>0, <1>2, ArrangeKeys, LenProperties DEF IsList
  <2>2. /\ IsFiniteSet(DOMAIN list) /\ Cardinality(DOMAIN list) = Len(list)
        /\ Len(list) \in Nat \ {0}
    BY <2>1, ListHasSome
  <2>3. inPlace \subseteq DOMAIN list /\ (value.order = list => inPlace = DOMAIN list)
    OBVIOUS
  <2>4. AutoPart(definition, value) = Part(Cardinality(inPlace), Len(list), value.order = list)
    BY <1>2 DEF AutoPart, OrderingPart, Is
  <2> HIDE DEF inPlace, list
  <2>5. Cardinality(inPlace) \in Nat
    BY <2>2, <2>3, Counts
  <2> DEFINE n == Cardinality(inPlace)
             all == Len(list)
  <2>6. n \in Int /\ all \in Nat \ {0} /\ (value.order = list => n >= all)
    BY <2>2, <2>3, <2>5
  <2> HIDE DEF n, all
  <2>7. PartOK(Part(n, all, value.order = list))
    BY <2>6, PartFits
  <2>8. QED
    BY <2>4, <2>7 DEF n, all
<1>3. CASE Is("categorization")
  <2> DEFINE K == Range(definition.items)
             keyed == DOMAIN definition.mapping
             right == {i \in K \cap keyed : At(value.mapping, i) = definition.mapping[i]}
             wrong == {i \in K \ keyed : At(value.mapping, i) # Null}
             all == IF Cardinality(keyed) = 0 THEN 1 ELSE Cardinality(keyed)
  <2>1. IsFiniteSet(K) /\ keyed \subseteq K
    <3>1. IsList(definition.items) /\ keyed \subseteq K
      BY <1>0, <1>3, ArrangeKeys
    <3>2. QED
      BY <3>1, RangeIsFinite DEF IsList
  <2>2. DOMAIN value.mapping \subseteq K
    BY <1>0, <1>3 DEF ArrangeOK
  <2>3. right \subseteq keyed /\ wrong \subseteq K
    OBVIOUS
  <2>4. keyed # {} \/ wrong # {}
    <3>1. SUFFICES ASSUME keyed = {}, wrong = {} PROVE FALSE
      OBVIOUS
    <3>2. \A i \in DOMAIN value.mapping : At(value.mapping, i) = Null
      BY <2>2, <3>1
    <3>3. AllAre(Null, value.mapping)
      BY <3>2 DEF At, AllAre
    <3>4. QED
      BY <1>3, <3>3 DEF isEmptyResponse, Is
  <2>5. AutoPart(definition, value)
          = Part(Cardinality(right) - Cardinality(wrong), all, right = keyed /\ wrong = {})
    BY <1>3 DEF AutoPart, CategorizationPart, Is
  <2> HIDE DEF K, keyed, right, wrong
  <2>6. IsFiniteSet(keyed)
    BY <2>1, FS_Subset
  <2>7. Cardinality(right) \in Nat /\ Cardinality(wrong) \in Nat
    BY <2>1, <2>3, <2>6, Counts
  <2>8. Cardinality(keyed) \in Nat /\ (keyed # {} => Cardinality(keyed) \in Nat \ {0})
    BY <2>6, Counts
  <2>9. wrong = {} => Cardinality(wrong) = 0
    BY FS_EmptySet
  <2> DEFINE n == Cardinality(right) - Cardinality(wrong)
  <2>10. n \in Int /\ all \in Nat \ {0} /\ (right = keyed /\ wrong = {} => n >= all)
    BY <2>4, <2>7, <2>8, <2>9
  <2> HIDE DEF n, all
  <2>11. PartOK(Part(n, all, right = keyed /\ wrong = {}))
    BY <2>10, PartFits
  <2>12. QED
    BY <2>5, <2>11 DEF n
<1>4. QED
  BY <1>1, <1>2, <1>3

LEMMA TextAndGridParts ==
  ASSUME AnswerInv, value # Null, Is("hot_text") \/ Is("matrix")
  PROVE  PartOK(AutoPart(definition, value))
<1>0. AreaOK(value) /\ Posed
  BY DEF AnswerInv, ValueOK
<1>1. CASE Is("hot_text")
  <2>1. IsList(definition.keys) /\ Len(definition.keys) >= 1
    BY <1>0, <1>1, ArrangeKeys
  <2>2. value.segmentIds \in Seq(Range(SegmentIds))
    BY <1>0, <1>1 DEF AreaOK, List
  <2>3. IsFiniteSet(Range(value.segmentIds))
    BY <2>2, RangeIsFinite
  <2>4. IsFiniteSet(Range(definition.keys)) /\ Range(definition.keys) # {}
    BY <2>1, ListHasSome DEF IsList
  <2>5. AutoPart(definition, value) = selectionFraction(Range(value.segmentIds), Range(definition.keys))
    BY <1>1 DEF AutoPart, Is
  <2>6. QED
    BY <2>3, <2>4, <2>5, SelectionPart
<1>2. CASE Is("matrix")
  <2> DEFINE K == Range(definition.rows)
             Expected(row) == IF row \in DOMAIN definition.correct THEN definition.correct[row] ELSE <<>>
             Got(row) == IF row \in DOMAIN value.selections THEN Range(value.selections[row]) ELSE {}
             right == {row \in K : /\ Range(Expected(row)) = Got(row)
                                   /\ Len(Expected(row)) = Cardinality(Got(row))}
  <2>1. definition.rows \in Seq(K) /\ Unique(definition.rows) /\ Len(definition.rows) >= 1
    BY <1>0, <1>2, ArrangeKeys DEF List
  <2>2. IsFiniteSet(K) /\ Cardinality(K) = Len(definition.rows) /\ Len(definition.rows) \in Nat \ {0}
    BY <2>1, RangeIsFinite, ListHasSome
  <2>3. right \subseteq K
    OBVIOUS
  <2>4. AutoPart(definition, value) = Part(Cardinality(right), Len(definition.rows), right = K)
    BY <1>2 DEF AutoPart, MatrixPart, Is
  <2> HIDE DEF right, K
  <2>5. Cardinality(right) \in Nat
    BY <2>2, <2>3, Counts
  <2> DEFINE n == Cardinality(right)
             all == Len(definition.rows)
  <2>6. n \in Int /\ all \in Nat \ {0} /\ (right = K => n >= all)
    BY <2>2, <2>5
  <2> HIDE DEF n, all
  <2>7. PartOK(Part(n, all, right = K))
    BY <2>6, PartFits
  <2>8. QED
    BY <2>4, <2>7 DEF n, all
<1>3. QED
  BY <1>1, <1>2

LEMMA FillBlanksParts ==
  ASSUME AnswerInv, value # Null, Is("fill_blanks")
  PROVE  PartOK(AutoPart(definition, value))
<1> DEFINE list == definition.blanks
           Score(b) == BlankScore(b, definition.keys[b.id], At(value.values, b.id))
           marks == [i \in DOMAIN list |-> Score(list[i])]
           all == Whole * Len(list)
<1>1. /\ list \in Seq(Range(list)) /\ Len(list) >= 1
      /\ \A b \in Range(list) :
           /\ b.kind \in BlankKinds
           /\ \A rule \in definition.keys[b.id].accepted : RuleOK(rule)
           /\ \A number \in definition.keys[b.id].numeric : NumericRuleOK(number)
  BY ArrangeKeys DEF AnswerInv, IsList
<1>2. ASSUME NEW b \in Range(list) PROVE Score(b) \in Int
  <2> DEFINE key == definition.keys[b.id]
             v == At(value.values, b.id)
  <2>1. CASE v = Null
    <3>1. BlankScore(b, key, v) = 0
      BY <2>1 DEF BlankScore
    <3>2. QED
      BY <3>1
  <2>2. CASE v # Null /\ b.kind = "text"
    <3>1. matchText(v, key.accepted) \in Int
      BY <1>1, TextScores
    <3>2. BlankScore(b, key, v) = 0 \/ BlankScore(b, key, v) = matchText(v, key.accepted)
      BY <2>2 DEF BlankScore
    <3>3. QED
      BY <3>1, <3>2
  <2>3. CASE v # Null /\ b.kind = "numeric"
    <3>1. NumericScore(v.word, key.numeric) \in Int
      BY <1>1, NumberScores
    <3>2. BlankScore(b, key, v) = NumericScore(v.word, key.numeric)
      BY <2>3 DEF BlankScore
    <3>3. QED
      BY <3>1, <3>2
  <2>4. CASE v # Null /\ b.kind \in {"dropdown", "word_bank"}
    <3>1. BlankScore(b, key, v) \in {0, Whole}
      BY <2>4 DEF BlankScore
    <3>2. QED
      BY <3>1, GrainAssumption
  <2>5. b.kind \in {"text", "numeric", "dropdown", "word_bank"}
    BY <1>1 DEF BlankKinds
  <2>6. QED
    BY <2>1, <2>2, <2>3, <2>4, <2>5
<1>3. DOMAIN list = 1..Len(list) /\ Len(list) \in Nat \ {0}
  BY <1>1, ListHasSome
<1>4. marks \in Seq(Int)
  <2>1. \A i \in 1..Len(list) : list[i] \in Range(list)
    BY <1>3 DEF Range
  <2>2. \A i \in 1..Len(list) : Score(list[i]) \in Int
    BY <1>2, <2>1
  <2> HIDE DEF Score
  <2>3. marks \in [1..Len(list) -> Int]
    BY <1>3, <2>2
  <2> HIDE DEF marks
  <2>4. QED
    BY <1>3, <2>3, IsASeq
<1>5. AutoPart(definition, value) = Part(Total(marks), all, Total(marks) = all)
  BY DEF AutoPart, FillBlanksPart, Is
<1> HIDE DEF list, marks
<1>6. Total(marks) \in Int
  BY <1>4, TotalIsNumber
<1>7. all \in Nat \ {0}
  BY <1>3, GrainAssumption
<1> DEFINE n == Total(marks)
<1> HIDE DEF n, all
<1>8. n \in Int /\ (n = all => n >= all)
  BY <1>6, <1>7 DEF n
<1>9. PartOK(Part(n, all, n = all))
  BY <1>7, <1>8, PartFits
<1>10. QED
  BY <1>5, <1>9 DEF n

\* What HotspotPart keeps after each point.
Tally == [hit : SUBSET DOMAIN definition.regions, misses : Nat]
NoShots == [hit |-> {}, misses |-> 0]
Open(acc, p) == {i \in DOMAIN definition.regions \ acc.hit : pointInRegion(p, definition.regions[i])}
HitBy(acc, p) ==
  IF Open(acc, p) = {} THEN [acc EXCEPT !.misses = @ + 1]
  ELSE [acc EXCEPT !.hit = @ \cup {CHOOSE i \in Open(acc, p) : \A j \in Open(acc, p) : i <= j}]

\* The tallies f of the points of an answer.
Shots(f) ==
  LET N == Len(value.points)
      hit == f[N].hit
      misses == f[N].misses
  IN /\ f \in [0..N -> Tally] /\ f[0] = NoShots
     /\ \A n \in 1..N : f[n] = HitBy(f[n - 1], value.points[n])
     /\ AutoPart(definition, value)
          = Part(Cardinality(hit) - misses, Len(definition.regions), hit = DOMAIN definition.regions /\ misses = 0)

\* A point is a miss or hits one more region, in which it lies.
LEMMA HitMeans ==
  ASSUME Posed, Is("hotspot"), NEW acc \in Tally, NEW p
  PROVE  /\ HitBy(acc, p) \in Tally
         /\ Open(acc, p) = {} => HitBy(acc, p).hit = acc.hit /\ HitBy(acc, p).misses = acc.misses + 1
         /\ Open(acc, p) # {} => \E i \in Open(acc, p) : /\ HitBy(acc, p).hit = acc.hit \cup {i}
                                                         /\ HitBy(acc, p).misses = acc.misses
<1> DEFINE D == DOMAIN definition.regions
           open == Open(acc, p)
           first == CHOOSE i \in open : \A j \in open : i <= j
<1>1. D \subseteq Nat
  <2>1. definition.regions \in Seq(Range(definition.regions)) /\ Len(definition.regions) >= 1
    BY ArrangeKeys DEF IsList
  <2>2. QED
    BY <2>1, ListHasSome
<1>2. acc.hit \subseteq D /\ acc.misses \in Nat
  BY DEF Tally
<1>3. open \subseteq D /\ open \subseteq Nat
  BY <1>1 DEF Open
<1>4. HitBy(acc, p) = IF open = {} THEN [acc EXCEPT !.misses = @ + 1] ELSE [acc EXCEPT !.hit = @ \cup {first}]
  BY DEF HitBy
<1> HIDE DEF open
<1>5. CASE open = {}
  <2>1. [acc EXCEPT !.misses = @ + 1] \in Tally
    BY <1>2 DEF Tally
  <2>2. [acc EXCEPT !.misses = @ + 1].hit = acc.hit /\ [acc EXCEPT !.misses = @ + 1].misses = acc.misses + 1
    BY DEF Tally
  <2>3. QED
    BY <1>4, <1>5, <2>1, <2>2 DEF open
<1>6. CASE open # {}
  <2>1. \E i \in open : \A j \in open : i <= j
    BY <1>3, <1>6, Least
  <2>2. first \in open
    BY <2>1
  <2> HIDE DEF first
  <2>3. acc.hit \cup {first} \in SUBSET D
    BY <1>2, <1>3, <2>2
  <2>4. [acc EXCEPT !.hit = @ \cup {first}] \in Tally
    BY <1>2, <2>3 DEF Tally
  <2>5. [acc EXCEPT !.hit = @ \cup {first}].hit = acc.hit \cup {first} /\ [acc EXCEPT !.hit = @ \cup {first}].misses = acc.misses
    BY DEF Tally
  <2>6. QED
    BY <1>4, <1>6, <2>2, <2>4, <2>5 DEF open
<1>7. QED
  BY <1>5, <1>6

LEMMA HotspotSteps ==
  ASSUME AnswerInv, value # Null, Is("hotspot")
  PROVE  \E f : Shots(f)
<1> DEFINE list == definition.regions
           shot == value.points
           Hit(acc, p) == HitBy(acc, p)
           N == IF Len(shot) < definition.max THEN Len(shot) ELSE definition.max
           Defines(g) == g = [n \in 0..N |-> IF n = 0 THEN NoShots ELSE Hit(g[n - 1], shot[n])]
           h == CHOOSE g : Defines(g)
           step == [n \in 1..N |-> [acc \in Tally |-> Hit(acc, shot[n])]]
           hit == h[N].hit
           misses == h[N].misses
<1>a. shot \in Seq(Spot) /\ definition.max \in Nat /\ Len(shot) <= definition.max
  BY QuestionMeans, MaxItemsAssumption DEF AnswerInv, ValueOK, AreaOK
<1>b. N \in Nat /\ N = Len(shot)
  BY <1>a, LenProperties
<1>c. AutoPart(definition, value)
        = Part(Cardinality(hit) - misses, Len(list), hit = DOMAIN list /\ misses = 0)
  BY DEF AutoPart, HotspotPart, Is, HitBy, Open, NoShots
<1>d. ASSUME NEW acc \in Tally, NEW p PROVE Hit(acc, p) \in Tally
  BY HitMeans DEF AnswerInv
<1> HIDE DEF list, shot, N, Hit
<1>1. NoShots \in Tally
  BY DEF NoShots, Tally
<1>2. step \in [1..N -> [Tally -> Tally]] /\ \A n \in 1..N, acc \in Tally : step[n][acc] = Hit(acc, shot[n])
  BY <1>d
<1> HIDE DEF step
<1>3. PICK f \in [0..N -> Tally] : f[0] = NoShots /\ \A n \in 1..N : f[n] = step[n][f[n - 1]]
  <2>1. Recursive(N, Tally, NoShots, step)
    BY <1>b, <1>1, <1>2 DEF Recursive
  <2>2. PICK f : Follows(f, N, Tally, NoShots, step)
    BY <2>1, Recursion
  <2>3. QED
    BY <2>2 DEF Follows
<1>4. \A n \in 1..N : f[n - 1] \in Tally /\ f[n] = Hit(f[n - 1], shot[n])
  <2>1. ASSUME NEW n \in 1..N PROVE f[n - 1] \in Tally /\ f[n] = Hit(f[n - 1], shot[n])
    <3>1. n - 1 \in 0..N
      BY <1>b
    <3>2. QED
      BY <3>1, <1>2, <1>3
  <2>2. QED
    BY <2>1
<1>5. Defines(f)
  <2>1. \A n \in 0..N : f[n] = IF n = 0 THEN NoShots ELSE Hit(f[n - 1], shot[n])
    BY <1>b, <1>3, <1>4
  <2>2. QED
    BY <2>1
<1>6. Defines(h)
  BY <1>5
<1> HIDE DEF h
<1>7. \A n \in 0..N : h[n] \in Tally
  <2> DEFINE T == {n \in 0..N : h[n] \in Tally}
  <2>1. 0 \in T
    BY <1>b, <1>1, <1>6
  <2>2. ASSUME NEW n \in 1..N, n - 1 \in T PROVE n \in T
    <3>1. n \in 0..N /\ n # 0 /\ h[n - 1] \in Tally
      BY <1>b, <2>2
    <3>2. h[n] = Hit(h[n - 1], shot[n])
      BY <3>1, <1>6
    <3>3. QED
      BY <1>d, <3>1, <3>2
  <2>3. 0..N \subseteq T
    <3> HIDE DEF T
    <3>1. QED
      BY <1>b, <2>1, <2>2, Upwards
  <2>4. QED
    BY <2>3
<1>8. h \in [0..N -> Tally] /\ h[0] = NoShots /\ \A n \in 1..N : h[n] = Hit(h[n - 1], shot[n])
  BY <1>b, <1>6, <1>7
<1>9. Shots(h)
  BY <1>b, <1>c, <1>8 DEF Shots, list, shot, Hit
<1>10. QED
  BY <1>9

LEMMA HotspotParts ==
  ASSUME AnswerInv, value # Null, Is("hotspot")
  PROVE  PartOK(AutoPart(definition, value))
<1> DEFINE D == DOMAIN definition.regions
           all == Len(definition.regions)
           N == Len(value.points)
<1>1. PICK f : Shots(f)
  BY HotspotSteps
<1> DEFINE hit == f[N].hit
           misses == f[N].misses
           n == Cardinality(hit) - misses
<1>2. IsFiniteSet(D) /\ Cardinality(D) = all /\ all \in Nat \ {0}
  <2>1. definition.regions \in Seq(Range(definition.regions)) /\ Len(definition.regions) >= 1
    BY ArrangeKeys DEF AnswerInv, IsList
  <2>2. QED
    BY <2>1, ListHasSome
<1>3. f[N] \in Tally
  <2>1. N \in Nat
    BY LenProperties DEF AnswerInv, ValueOK, AreaOK
  <2>2. QED
    BY <1>1, <2>1 DEF Shots
<1>4. hit \subseteq D /\ misses \in Nat
  BY <1>3 DEF Tally
<1>5. AutoPart(definition, value) = Part(n, all, hit = D /\ misses = 0)
  BY <1>1 DEF Shots
<1> HIDE DEF hit, misses, D, all
<1>6. Cardinality(hit) \in Nat
  BY <1>2, <1>4, Counts
<1>7. n \in Int /\ (hit = D /\ misses = 0 => n >= all)
  BY <1>2, <1>4, <1>6
<1> HIDE DEF n
<1>8. PartOK(Part(n, all, hit = D /\ misses = 0))
  BY <1>2, <1>7, PartFits
<1>9. QED
  BY <1>5, <1>8

LEMMA GradersFind ==
  ASSUME AnswerInv, value # Null, ~isEmptyResponse(definition, value), definition.type \notin ManualTypes
  PROVE  PartOK(AutoPart(definition, value))
<1>1. definition.type \in QUESTION_TYPES \ ManualTypes
  BY QuestionMeans DEF AnswerInv
<1>2. \/ Is("single_choice") \/ Is("multiple_choice") \/ Is("true_false") \/ Is("multiple_true_false")
      \/ Is("short_answer") \/ Is("numeric") \/ Is("matching") \/ Is("ordering") \/ Is("categorization")
      \/ Is("fill_blanks") \/ Is("hotspot") \/ Is("hot_text") \/ Is("matrix")
  BY <1>1 DEF Is, QUESTION_TYPES, ManualTypes, ChoiceTypes, TextTypes, ArrangeTypes, AreaTypes
<1>3. QED
  BY <1>2, ChoiceParts, ArrangeParts, FillBlanksParts, HotspotParts, TextAndGridParts

\* When and how gradeResponse grades.
LEMMA GradedMeans ==
  ASSUME NEW d, NEW s, NEW r, NEW fits, gradeResponse(d, s, r, fits).status = "graded"
  PROVE  /\ s.points # 0 /\ ~(d.type = "matrix" /\ d.correct = Null) /\ ~isEmptyResponse(d, r) /\ fits
         /\ d.type \notin ManualTypes
         /\ gradeResponse(d, s, r, fits) = Graded(AutoPart(d, r), s)
         /\ \A t : t.points = s.points => gradeResponse(d, t, r, fits) = Graded(AutoPart(d, r), t)
BY DEF gradeResponse, Result

LEMMA GradeInRangeHolds == AnswerInv => GradeInRange
<1> SUFFICES ASSUME AnswerInv, Grade.status = "graded"
             PROVE  /\ Grade.score <= Round(scoring.points, 1)
                    /\ Grade.score >= IF scoring.allowNegative THEN Round(-scoring.penalty, 1) ELSE 0
                    /\ GradeAs([scoring EXCEPT !.mode = "partial"], value).score
                         >= GradeAs([scoring EXCEPT !.mode = "all_or_nothing"], value).score
  BY DEF GradeInRange
<1> DEFINE p == AutoPart(definition, value)
           s == [scoring EXCEPT !.mode = "partial"]
           t == [scoring EXCEPT !.mode = "all_or_nothing"]
<1>1. /\ ~isEmptyResponse(definition, value) /\ definition.type \notin ManualTypes
      /\ Grade = Graded(p, scoring)
      /\ \A u : u.points = scoring.points => GradeAs(u, value) = Graded(p, u)
  BY GradedMeans DEF Grade, GradeAs
<1>2. value # Null
  BY <1>1, NothingIsEmpty
<1>3. PartOK(p)
  BY <1>1, <1>2, GradersFind
<1>4. /\ scoring \in [points : Int, penalty : Int, mode : STRING, allowNegative : BOOLEAN]
      /\ scoring.points >= 0 /\ scoring.penalty >= 0 /\ scoring.mode \in {"all_or_nothing", "partial"}
  BY ScoringAssumption DEF AnswerInv, Posed, ScoringOK
<1> HIDE DEF p
<1>5. /\ s.points = scoring.points /\ s.penalty = scoring.penalty /\ s.mode = "partial"
      /\ t.points = scoring.points /\ t.penalty = scoring.penalty /\ t.mode = "all_or_nothing"
      /\ s.allowNegative = scoring.allowNegative /\ t.allowNegative = scoring.allowNegative
      /\ scoring \in {s, t}
  BY <1>4
<1>6. GradeAs(s, value) = Graded(p, s) /\ GradeAs(t, value) = Graded(p, t)
  BY <1>1, <1>5
<1>7. /\ scoring.points \in Nat /\ scoring.penalty \in Nat /\ scoring.allowNegative \in BOOLEAN
  BY <1>4
<1> HIDE DEF s, t
<1> DEFINE a == Graded(p, s).score
           b == Graded(p, t).score
           low == IF scoring.allowNegative THEN Round(-scoring.penalty, 1) ELSE 0
<1>8. a \in Int /\ b \in Int /\ a >= b /\ a <= Round(scoring.points, 1) /\ b >= low
  <2>1. "all_or_nothing" # "partial"
    OBVIOUS
  <2>2. QED
    BY <1>3, <1>5, <1>7, <2>1, GradedFits
<1>9. Round(scoring.points, 1) \in Int /\ low \in Int
  <2>1. scoring.points * 1 <= scoring.points * 1 /\ (-scoring.penalty) * 1 <= (-scoring.penalty) * 1
    BY <1>7
  <2>2. QED
    BY <1>7, <2>1, RoundIsMonotone
<1>10. Grade.score \in {a, b}
  BY <1>1, <1>5
<1> HIDE DEF a, b, low
<1>11. Grade.score <= Round(scoring.points, 1) /\ Grade.score >= low
  BY <1>8, <1>9, <1>10
<1>12. QED
  BY <1>6, <1>8, <1>11 DEF a, b, s, t, low

LEMMA RubricScores ==
  ASSUME NEW total \in Nat, NEW most \in Nat \ {0}, NEW max \in Nat, total <= most
  PROVE  /\ Round(total * max, most) \in 0..Round(max, 1)
         /\ total = most => Round(total * max, most) = Round(max, 1)
<1> DEFINE n == total * max
           k == most * max
<1>1. n \in Nat /\ k \in Nat /\ n <= k
  <2>1. max * total <= max * most
    BY TimesKeepsNat
  <2>2. QED
    BY <2>1
<1>2. max * most = k /\ (total = most => n = k)
  OBVIOUS
<1> HIDE DEF n, k
<1>3. 0 * most = 0 /\ n * 1 = n
  BY <1>1
<1>4. Round(0, 1) <= Round(n, most) /\ Round(0, 1) \in Int
  BY <1>1, <1>3, RoundIsMonotone
<1>5. Round(n, most) <= Round(max, 1) /\ Round(n, most) \in Int
  BY <1>1, <1>2, <1>3, RoundIsMonotone
<1>6. Round(max, 1) \in Int
  <2>1. max * 1 <= max * 1
    OBVIOUS
  <2>2. QED
    BY <2>1, RoundIsMonotone
<1>7. ASSUME n = k PROVE Round(max, 1) <= Round(n, most)
  BY <1>1, <1>2, <1>3, <1>7, RoundIsMonotone
<1>8. Round(0, 1) = 0
  BY RoundOfZero
<1> DEFINE score == Round(n, most)
           high == Round(max, 1)
<1> HIDE DEF score, high
<1>9. score \in Int /\ high \in Int /\ 0 <= score /\ score <= high /\ (n = k => high <= score)
  BY <1>4, <1>5, <1>6, <1>7, <1>8 DEF score, high
<1>10. score \in 0..high /\ (n = k => score = high)
  BY <1>9
<1>11. QED
  BY <1>2, <1>10 DEF n, score, high

LEMMA RubricInRangeHolds == AnswerInv => RubricInRange
<1> DEFINE rubric == definition.rubric
           criteria == Range(rubric)
           max == scoring.points
<1> SUFFICES ASSUME AnswerInv, Is("essay"), NEW marks \in [{c.id : c \in criteria} -> -1..5]
             PROVE  LET score == scoreFromRubric(rubric, marks, max)
                    IN /\ score \in 0..Round(max, 1)
                       /\ /\ \A c \in criteria : marks[c.id] >= c.maxPoints
                          /\ \E c \in criteria : c.maxPoints > 0
                          => score = Round(max, 1)
  BY DEF RubricInRange
<1>1. rubric \in Seq(criteria) /\ \A c \in criteria : c.maxPoints \in Nat
  BY ChoiceKeys DEF AnswerInv, IsList
<1>2. max \in Nat
  <2>1. scoring \in [points : Int, penalty : Int, mode : STRING, allowNegative : BOOLEAN] /\ scoring.points >= 0
    BY ScoringAssumption DEF AnswerInv, Posed, ScoringOK
  <2>2. QED
    BY <2>1
<1> DEFINE Mark(c) == LET m == IF c.id \in DOMAIN marks THEN marks[c.id] ELSE 0
                      IN IF m < 0 THEN 0 ELSE IF m > c.maxPoints THEN c.maxPoints ELSE m
           given == [i \in DOMAIN rubric |-> Mark(rubric[i])]
           most == [i \in DOMAIN rubric |-> rubric[i].maxPoints]
           N == Len(rubric)
           score == scoreFromRubric(rubric, marks, max)
<1>3. score = IF Total(most) <= 0 THEN 0 ELSE Round(Total(given) * max, Total(most))
  BY DEF scoreFromRubric
<1>4. DOMAIN rubric = 1..N /\ N \in Nat /\ \A i \in 1..N : rubric[i] \in criteria
  BY <1>1, LenProperties DEF Range
<1>5. ASSUME NEW c \in criteria
      PROVE  Mark(c) \in 0..c.maxPoints /\ (marks[c.id] >= c.maxPoints => Mark(c) = c.maxPoints)
  <2>1. c.maxPoints \in Nat /\ c.id \in DOMAIN marks /\ marks[c.id] \in Int
    BY <1>1
  <2> DEFINE m == marks[c.id]
             top == c.maxPoints
  <2>2. Mark(c) = IF m < 0 THEN 0 ELSE IF m > top THEN top ELSE m
    BY <2>1
  <2> HIDE DEF m, top, Mark
  <2>3. m \in Int /\ top \in Nat
    BY <2>1 DEF m, top
  <2>4. Mark(c) \in 0..top /\ (m >= top => Mark(c) = top)
    BY <2>2, <2>3
  <2>5. QED
    BY <2>4 DEF m, top
<1> HIDE DEF Mark, score, rubric, criteria
<1>6. /\ given \in [1..N -> Int] /\ most \in [1..N -> Int]
      /\ \A i \in 1..N : 0 <= given[i] /\ given[i] <= most[i]
  <2>1. \A i \in 1..N : rubric[i].maxPoints \in Nat /\ Mark(rubric[i]) \in 0..rubric[i].maxPoints
    BY <1>1, <1>4, <1>5
  <2>2. QED
    BY <1>4, <2>1
<1>7. /\ given \in Seq(Int) /\ most \in Seq(Int) /\ Len(given) = N /\ Len(most) = N
  <2> HIDE DEF given, most
  <2>1. given \in Seq(Int) /\ most \in Seq(Int)
    BY <1>4, <1>6, IsASeq
  <2>2. DOMAIN given = 1..N /\ DOMAIN most = 1..N
    BY <1>6
  <2>3. QED
    BY <1>4, <2>1, <2>2, LenProperties
<1>8. /\ 0 <= Total(given) /\ Total(given) <= Total(most) /\ \A i \in 1..N : most[i] <= Total(most)
      /\ Total(given) \in Int /\ Total(most) \in Int
  <2> HIDE DEF given, most
  <2>1. QED
    BY <1>6, <1>7, TotalsCompare, TotalIsNumber
<1>9. ASSUME \A c \in criteria : marks[c.id] >= c.maxPoints PROVE Total(given) = Total(most)
  <2>1. \A i \in 1..N : Mark(rubric[i]) = rubric[i].maxPoints
    BY <1>4, <1>5, <1>9
  <2>2. given = most
    BY <1>4, <2>1
  <2>3. QED
    BY <2>2
<1>10. ASSUME NEW c \in criteria, c.maxPoints > 0 PROVE Total(most) > 0
  <2>1. PICK i \in 1..N : c = rubric[i]
    BY <1>4 DEF criteria, Range
  <2>2. most[i] > 0 /\ most[i] \in Int /\ most[i] <= Total(most)
    <3>1. most[i] = c.maxPoints
      BY <1>4, <2>1
    <3>2. c.maxPoints \in Nat
      BY <1>1
    <3> HIDE DEF most
    <3>3. most[i] <= Total(most)
      BY <1>8
    <3>4. QED
      BY <3>1, <3>2, <3>3, <1>10
  <2>3. QED
    BY <2>2, <1>8
<1> DEFINE n == Total(given)
           all == Total(most)
<1> HIDE DEF n, all
<1>11. n \in Nat /\ all \in Nat /\ n <= all /\ score = IF all <= 0 THEN 0 ELSE Round(n * max, all)
  BY <1>3, <1>8 DEF n, all
<1>12. 0 \in 0..Round(max, 1)
  BY <1>2, RubricScores
<1>13. score \in 0..Round(max, 1) /\ (all > 0 /\ n = all => score = Round(max, 1))
  <2>1. CASE all = 0
    BY <1>11, <1>12, <2>1
  <2>2. CASE all # 0
    BY <1>2, <1>11, <2>2, RubricScores
  <2>3. QED
    BY <2>1, <2>2
<1>14. QED
  BY <1>9, <1>10, <1>13 DEF score, n, all, rubric, criteria

\* ScoreInRange, for any questions, scorings and answers: gradeResponse never takes more than the
\* penalty nor gives more than the points, partial scoring never gives less than all or
\* nothing, and scoreFromRubric cuts whatever a grader enters.
THEOREM ScoresStayInRange == Spec => []ScoreInRange
<1>1. AnswerInv => ScoreInRange
  BY RubricInRangeHolds, GradeInRangeHolds DEF ScoreInRange
<1>2. QED
  BY Invariant, <1>1, PTL

(***************************************************************************)
(* Answers and keys as sets of facts.                                       *)
(***************************************************************************)
\* What checkConsistency says of the keys.
LEMMA KeysMean ==
  ASSUME Posed
  PROVE  /\ Is("single_choice") => definition.correct \in Range(definition.options) /\ Null \notin Range(definition.options)
         /\ Is("multiple_choice") => /\ IsList(definition.keys) /\ Range(definition.keys) \subseteq Range(definition.options)
                                     /\ Unique(definition.keys)
         /\ Is("multiple_true_false") => /\ DOMAIN definition.answers = Range(definition.statements)
                                         /\ \A s \in DOMAIN definition.answers : definition.answers[s] # Null
         /\ Is("matching") => IsList(definition.pairs) /\ Unique(Lefts(definition.pairs))
         /\ Is("ordering") => /\ List(definition.order, Range(definition.items)) /\ Len(definition.order) = Len(definition.items)
                              /\ Range(definition.order) = Range(definition.items) /\ Null \notin Range(definition.items)
         /\ Is("categorization") => /\ DOMAIN definition.mapping \subseteq Range(definition.items)
                                    /\ \A i \in DOMAIN definition.mapping :
                                         definition.mapping[i] \in Range(definition.categories) \ {Null}
         /\ Is("hot_text") => IsList(definition.keys) /\ Range(definition.keys) \subseteq Range(SegmentIds)
         /\ Is("matrix") /\ definition.correct # Null =>
              /\ DOMAIN definition.correct \subseteq Range(definition.rows)
              /\ \A row \in DOMAIN definition.correct :
                   IsList(definition.correct[row]) /\ Range(definition.correct[row]) \subseteq Range(definition.columns)
<1>0. definition \in Definition /\ checkConsistency(definition)
  BY DEF Posed, QuestionDefinition
<1>1. CASE Is("single_choice")
  <2>1. SingleChoiceConsistent(definition)
    BY <1>0, <1>1 DEF Is, checkConsistency, ManualTypes
  <2>2. IsList(definition.options)
    BY <1>0, <1>1, DefinitionAssumption DEF Is
  <2>3. QED
    BY <1>1, <2>1, <2>2 DEF Is, SingleChoiceConsistent, IsList
<1>2. CASE Is("multiple_choice")
  <2>1. MultipleChoiceConsistent(definition)
    BY <1>0, <1>2 DEF Is, checkConsistency, ManualTypes
  <2>2. IsList(definition.keys)
    BY <1>0, <1>2, DefinitionAssumption DEF Is
  <2>3. QED
    BY <1>2, <2>1, <2>2 DEF Is, MultipleChoiceConsistent
<1>3. CASE Is("multiple_true_false")
  <2>1. MultipleTrueFalseConsistent(definition)
    BY <1>0, <1>3 DEF Is, checkConsistency, ManualTypes
  <2>2. Range(definition.answers) \subseteq BOOLEAN
    BY <1>0, <1>3, DefinitionAssumption DEF Is
  <2>3. \A s \in DOMAIN definition.answers : definition.answers[s] # Null
    BY <2>2, NullAssumption DEF Range
  <2>4. QED
    BY <1>3, <2>1, <2>3 DEF Is, MultipleTrueFalseConsistent
<1>4. CASE Is("matching")
  <2>1. MatchingConsistent(definition)
    BY <1>0, <1>4 DEF Is, checkConsistency, ManualTypes
  <2>2. IsList(definition.pairs)
    BY <1>0, <1>4, DefinitionAssumption DEF Is
  <2>3. QED
    BY <1>4, <2>1, <2>2 DEF Is, MatchingConsistent
<1>5. CASE Is("ordering")
  <2> DEFINE items == definition.items
             order_ == definition.order
  <2>1. /\ Unique(items) /\ Unique(order_) /\ Len(order_) = Len(items) /\ Range(items) \subseteq Range(order_)
    BY <1>0, <1>5 DEF Is, checkConsistency, ManualTypes, OrderingConsistent
  <2>2. IsList(items) /\ IsList(order_)
    BY <1>0, <1>5, DefinitionAssumption DEF Is
  <2> HIDE DEF items, order_
  <2>3. /\ items \in Seq(Range(items)) /\ order_ \in Seq(Range(order_)) /\ Null \notin Range(items)
    BY <2>2 DEF IsList
  <2>4. Cardinality(Range(items)) = Cardinality(Range(order_)) /\ IsFiniteSet(Range(order_))
    BY <2>1, <2>3, RangeIsFinite
  <2>5. Range(items) = Range(order_)
    BY <2>1, <2>4, FS_Subset
  <2>6. List(order_, Range(items))
    BY <2>1, <2>3, <2>5 DEF List
  <2>7. QED
    BY <1>5, <2>1, <2>3, <2>5, <2>6 DEF Is, items, order_
<1>6. CASE Is("categorization")
  <2>1. CategorizationConsistent(definition)
    BY <1>0, <1>6 DEF Is, checkConsistency, ManualTypes
  <2>2. Null \notin Range(definition.categories)
    BY <1>0, <1>6, DefinitionAssumption DEF Is, IsList
  <2>3. \A i \in DOMAIN definition.mapping : definition.mapping[i] \in Range(definition.categories)
    BY <2>1 DEF CategorizationConsistent, Range
  <2>4. QED
    BY <1>6, <2>1, <2>2, <2>3 DEF Is, CategorizationConsistent
<1>7. CASE Is("hot_text")
  <2>1. HotTextConsistent(definition)
    BY <1>0, <1>7 DEF Is, checkConsistency, ManualTypes
  <2>2. IsList(definition.keys)
    BY <1>0, <1>7, DefinitionAssumption DEF Is
  <2>3. \A s \in Range(definition.segments) : s.id \in Range(SegmentIds)
    BY DEF SegmentIds, Range
  <2>4. QED
    BY <1>7, <2>1, <2>2, <2>3 DEF Is, HotTextConsistent
<1>8. CASE Is("matrix") /\ definition.correct # Null
  <2>1. MatrixConsistent(definition)
    BY <1>0, <1>8 DEF Is, checkConsistency, ManualTypes
  <2>2. \A row \in DOMAIN definition.correct : IsList(definition.correct[row])
    BY <1>0, <1>8, DefinitionAssumption DEF Is
  <2>3. QED
    BY <1>8, <2>1, <2>2 DEF Is, MatrixConsistent
<1>9. CASE /\ ~Is("single_choice") /\ ~Is("multiple_choice") /\ ~Is("multiple_true_false") /\ ~Is("matching")
           /\ ~Is("ordering") /\ ~Is("categorization") /\ ~Is("hot_text") /\ ~(Is("matrix") /\ definition.correct # Null)
  BY <1>9
<1>10. QED
  BY <1>1, <1>2, <1>3, <1>4, <1>5, <1>6, <1>7, <1>8, <1>9

\* w has what is right in v and nothing wrong that is not in v.
More(v, w) == Facts(v) \cap KeyFacts \subseteq Facts(w) /\ Facts(w) \ KeyFacts \subseteq Facts(v)

\* q is worth at least as much as p.
Better(p, q) ==
  p.den = q.den /\ p.num \in Int /\ q.num \in Int /\ p.num <= q.num /\ (p.exact => q.exact)

LEMMA BetterParts ==
  ASSUME NEW m \in Int, NEW n \in Int, m <= n, NEW den, NEW x \in BOOLEAN, NEW y \in BOOLEAN, x => y
  PROVE  Better(Part(m, den, x), Part(n, den, y))
BY DEF Better, Part

LEMMA ExactIs == ASSUME NEW num, NEW den, NEW x PROVE Part(num, den, x).exact = x
BY DEF Part

LEMMA CountsCompare ==
  ASSUME NEW T, IsFiniteSet(T), NEW S, S \subseteq T
  PROVE  /\ Cardinality(S) \in Nat /\ Cardinality(T) \in Nat /\ Cardinality(S) <= Cardinality(T)
         /\ Cardinality(S) = Cardinality(T) <=> S = T
         /\ Cardinality(S) = 0 <=> S = {}
BY FS_Subset, FS_CardinalityType, FS_EmptySet

LEMMA SelectionDecides ==
  ASSUME NEW keys, IsFiniteSet(keys), NEW v, IsFiniteSet(v)
  PROVE  /\ selectionFraction(v, keys).exact <=> v = keys
         /\ \A w : IsFiniteSet(w) /\ v \cap keys \subseteq w /\ w \ keys \subseteq v
              => Better(selectionFraction(v, keys), selectionFraction(w, keys))
<1> DEFINE Hits(x) == Cardinality(x \cap keys)
           Wrong(x) == Cardinality(x \ keys)
           Exact(x) == Hits(x) = Cardinality(keys) /\ Wrong(x) = 0
<1>1. ASSUME NEW x, IsFiniteSet(x)
      PROVE  /\ Hits(x) \in Int /\ Wrong(x) \in Int
             /\ Exact(x) <=> x = keys
             /\ selectionFraction(x, keys) = Part(Hits(x) - Wrong(x), Cardinality(keys), Exact(x))
  <2>1. /\ Hits(x) \in Nat /\ (Hits(x) = Cardinality(keys) <=> x \cap keys = keys)
    BY CountsCompare
  <2>2. Wrong(x) \in Nat /\ (Wrong(x) = 0 <=> x \ keys = {})
    BY <1>1, CountsCompare
  <2>3. QED
    BY <2>1, <2>2 DEF selectionFraction
<1>2. ASSUME NEW w, IsFiniteSet(w), v \cap keys \subseteq w, w \ keys \subseteq v
      PROVE  Better(selectionFraction(v, keys), selectionFraction(w, keys))
  <2>1. v \cap keys \subseteq w \cap keys /\ w \ keys \subseteq v \ keys
    BY <1>2
  <2>2. IsFiniteSet(w \cap keys) /\ IsFiniteSet(v \ keys)
    BY FS_Subset
  <2>3. Hits(v) <= Hits(w) /\ Wrong(w) <= Wrong(v)
    BY <2>1, <2>2, CountsCompare
  <2>4. /\ Hits(v) \in Int /\ Wrong(v) \in Int /\ (Exact(v) <=> v = keys)
        /\ selectionFraction(v, keys) = Part(Hits(v) - Wrong(v), Cardinality(keys), Exact(v))
    BY <1>1
  <2>5. /\ Hits(w) \in Int /\ Wrong(w) \in Int /\ (Exact(w) <=> w = keys)
        /\ selectionFraction(w, keys) = Part(Hits(w) - Wrong(w), Cardinality(keys), Exact(w))
    BY <1>1, <1>2
  <2>6. Exact(v) => Exact(w)
    BY <2>4, <2>5, <1>2
  <2>7. Exact(v) \in BOOLEAN /\ Exact(w) \in BOOLEAN
    OBVIOUS
  <2> HIDE DEF Hits, Wrong, Exact
  <2>8. Hits(v) - Wrong(v) \in Int /\ Hits(w) - Wrong(w) \in Int /\ Hits(v) - Wrong(v) <= Hits(w) - Wrong(w)
    BY <2>3, <2>4, <2>5
  <2>9. QED
    BY <2>4, <2>5, <2>6, <2>7, <2>8, BetterParts
<1> HIDE DEF Hits, Wrong, Exact
<1>3. selectionFraction(v, keys).exact <=> v = keys
  BY <1>1, ExactIs
<1>4. QED
  BY <1>2, <1>3

LEMMA YesNoDecides ==
  ASSUME NEW x \in BOOLEAN, NEW y \in BOOLEAN
  PROVE  /\ YesNo(x).exact = x
         /\ (x => y) => Better(YesNo(x), YesNo(y))
<1>1. YesNo(x).exact = x
  BY ExactIs DEF YesNo
<1>2. ASSUME x => y PROVE Better(YesNo(x), YesNo(y))
  <2>1. /\ (IF x THEN 1 ELSE 0) \in Int /\ (IF y THEN 1 ELSE 0) \in Int
        /\ (IF x THEN 1 ELSE 0) <= (IF y THEN 1 ELSE 0)
    BY <1>2
  <2>2. QED
    BY <1>2, <2>1, BetterParts DEF YesNo
<1>3. QED
  BY <1>1, <1>2

\* An answer to a question with a set of facts: full marks, and what is better.
Decides(v) == AutoPart(definition, v).exact <=> Facts(v) = KeyFacts
Grows(v, w) == More(v, w) => Better(AutoPart(definition, v), AutoPart(definition, w))

Answers(v) == ChoiceOK(v) /\ ArrangeOK(v) /\ AreaOK(v)

LEMMA ChoiceDecides ==
  ASSUME Posed, NEW v, Answers(v), ~isEmptyResponse(definition, v), NEW w, Answers(w), ~isEmptyResponse(definition, w),
         \/ Is("single_choice") /\ definition.weights = Null
         \/ Is("true_false") \/ Is("multiple_choice") \/ Is("hot_text")
  PROVE  Decides(v) /\ Grows(v, w)
<1>1. CASE Is("single_choice") /\ definition.weights = Null
  <2> DEFINE Ok(x) == x.optionId = definition.correct
  <2>1. ASSUME NEW x, ~isEmptyResponse(definition, x)
        PROVE  AutoPart(definition, x) = YesNo(Ok(x)) /\ Facts(x) = {x.optionId} /\ KeyFacts = {definition.correct}
    <3>1. x.optionId # Null
      BY <1>1, <2>1 DEF isEmptyResponse, Is
    <3>2. QED
      BY <1>1, <3>1 DEF Is, AutoPart, SingleChoicePart, Facts, KeyFacts
  <2>2. /\ AutoPart(definition, v) = YesNo(Ok(v)) /\ Facts(v) = {v.optionId} /\ KeyFacts = {definition.correct}
        /\ AutoPart(definition, w) = YesNo(Ok(w)) /\ Facts(w) = {w.optionId}
    BY <2>1
  <2>3. (Ok(v) <=> Facts(v) = KeyFacts) /\ (More(v, w) => (Ok(v) => Ok(w))) /\ Ok(v) \in BOOLEAN /\ Ok(w) \in BOOLEAN
    BY <2>2 DEF More
  <2> HIDE DEF Ok
  <2>4. QED
    BY <2>2, <2>3, YesNoDecides DEF Decides, Grows
<1>2. CASE Is("true_false")
  <2> DEFINE Ok(x) == x.value = definition.answer
  <2>1. ASSUME NEW x, ~isEmptyResponse(definition, x)
        PROVE  AutoPart(definition, x) = YesNo(Ok(x)) /\ Facts(x) = {x.value} /\ KeyFacts = {definition.answer}
    <3>1. x.value # Null
      BY <1>2, <2>1 DEF isEmptyResponse, Is
    <3>2. QED
      BY <1>2, <3>1 DEF Is, AutoPart, Facts, KeyFacts
  <2>2. /\ AutoPart(definition, v) = YesNo(Ok(v)) /\ Facts(v) = {v.value} /\ KeyFacts = {definition.answer}
        /\ AutoPart(definition, w) = YesNo(Ok(w)) /\ Facts(w) = {w.value}
    BY <2>1
  <2>3. (Ok(v) <=> Facts(v) = KeyFacts) /\ (More(v, w) => (Ok(v) => Ok(w))) /\ Ok(v) \in BOOLEAN /\ Ok(w) \in BOOLEAN
    BY <2>2 DEF More
  <2> HIDE DEF Ok
  <2>4. QED
    BY <2>2, <2>3, YesNoDecides DEF Decides, Grows
<1>3. CASE Is("multiple_choice") \/ Is("hot_text")
  <2> DEFINE S(x) == IF Is("multiple_choice") THEN Range(x.optionIds) ELSE Range(x.segmentIds)
             K == Range(definition.keys)
  <2>1. IsFiniteSet(K)
    BY <1>3, KeysMean, RangeIsFinite DEF IsList
  <2>2. ASSUME NEW x, Answers(x)
        PROVE  /\ AutoPart(definition, x) = selectionFraction(S(x), K) /\ IsFiniteSet(S(x))
               /\ Facts(x) = S(x) /\ KeyFacts = K
    <3>1. CASE Is("multiple_choice")
      <4>1. x.optionIds \in Seq(Range(definition.options))
        BY <2>2, <3>1 DEF Answers, ChoiceOK, List
      <4>2. IsFiniteSet(Range(x.optionIds))
        BY <4>1, RangeIsFinite
      <4>3. QED
        BY <3>1, <4>2 DEF Is, AutoPart, Facts, KeyFacts
    <3>2. CASE Is("hot_text")
      <4>1. x.segmentIds \in Seq(Range(SegmentIds))
        BY <2>2, <3>2 DEF Answers, AreaOK, List
      <4>2. IsFiniteSet(Range(x.segmentIds))
        BY <4>1, RangeIsFinite
      <4>3. QED
        BY <3>2, <4>2 DEF Is, AutoPart, Facts, KeyFacts
    <3>3. QED
      BY <1>3, <3>1, <3>2
  <2>3. /\ AutoPart(definition, v) = selectionFraction(S(v), K) /\ IsFiniteSet(S(v)) /\ Facts(v) = S(v)
        /\ AutoPart(definition, w) = selectionFraction(S(w), K) /\ IsFiniteSet(S(w)) /\ Facts(w) = S(w)
        /\ KeyFacts = K
    BY <2>2
  <2> HIDE DEF S, K
  <2>4. QED
    BY <2>1, <2>3, SelectionDecides DEF Decides, Grows, More
<1>4. QED
  BY <1>1, <1>2, <1>3

\* Answers that are maps: what agrees with the key, and what the key does not have.
Graph(f) == {<<x, f[x]>> : x \in DOMAIN f}
Given(f) == [x \in {y \in DOMAIN f : f[y] # Null} |-> f[x]]
Right(f, key) == {x \in DOMAIN f \cap DOMAIN key : f[x] = key[x]}
Wrong(f, key) == DOMAIN f \ DOMAIN key

LEMMA GraphMeans == ASSUME NEW f, NEW x, NEW y PROVE <<x, y>> \in Graph(f) <=> x \in DOMAIN f /\ y = f[x]
BY DEF Graph

LEMMA EntriesAreGiven == ASSUME NEW f PROVE Entries(f) = Graph(Given(f))
BY DEF Entries, Graph, Given

LEMMA MapsCompare ==
  ASSUME NEW f, NEW key
  PROVE  /\ Graph(f) = Graph(key) <=> Right(f, key) = DOMAIN key /\ Wrong(f, key) = {}
         /\ \A g : Graph(f) \cap Graph(key) \subseteq Graph(g) /\ Graph(g) \ Graph(key) \subseteq Graph(f)
              => Right(f, key) \subseteq Right(g, key) /\ Wrong(g, key) \subseteq Wrong(f, key)
<1>1. ASSUME Graph(f) = Graph(key) PROVE Right(f, key) = DOMAIN key /\ Wrong(f, key) = {}
  <2>1. \A x \in DOMAIN f : x \in DOMAIN key /\ f[x] = key[x]
    BY <1>1, GraphMeans
  <2>2. \A x \in DOMAIN key : x \in DOMAIN f
    BY <1>1, GraphMeans
  <2>3. QED
    BY <2>1, <2>2 DEF Right, Wrong
<1>2. ASSUME Right(f, key) = DOMAIN key, Wrong(f, key) = {} PROVE Graph(f) = Graph(key)
  <2>1. DOMAIN f = DOMAIN key /\ \A x \in DOMAIN key : f[x] = key[x]
    BY <1>2 DEF Right, Wrong
  <2>2. QED
    BY <2>1 DEF Graph
<1>3. ASSUME NEW g, Graph(f) \cap Graph(key) \subseteq Graph(g), Graph(g) \ Graph(key) \subseteq Graph(f)
      PROVE  Right(f, key) \subseteq Right(g, key) /\ Wrong(g, key) \subseteq Wrong(f, key)
  <2>1. ASSUME NEW x \in Right(f, key) PROVE x \in Right(g, key)
    <3>1. x \in DOMAIN f /\ x \in DOMAIN key /\ f[x] = key[x]
      BY DEF Right
    <3>2. <<x, key[x]>> \in Graph(f) /\ <<x, key[x]>> \in Graph(key)
      BY <3>1, GraphMeans
    <3>3. <<x, key[x]>> \in Graph(g)
      BY <1>3, <3>2
    <3>4. x \in DOMAIN g /\ g[x] = key[x]
      BY <3>3, GraphMeans
    <3>5. QED
      BY <3>1, <3>4 DEF Right
  <2>2. ASSUME NEW x \in Wrong(g, key) PROVE x \in Wrong(f, key)
    <3>1. x \in DOMAIN g /\ x \notin DOMAIN key
      BY DEF Wrong
    <3>2. <<x, g[x]>> \in Graph(g) /\ <<x, g[x]>> \notin Graph(key)
      BY <3>1, GraphMeans
    <3>3. <<x, g[x]>> \in Graph(f)
      BY <1>3, <3>2
    <3>4. QED
      BY <3>1, <3>3, GraphMeans DEF Wrong
  <2>3. QED
    BY <2>1, <2>2
<1>4. QED
  BY <1>1, <1>2, <1>3

\* What a grader makes of a map: its facts are the graph of a map f, and the part counts what is
\* right in f and, if it counts them at all, what is wrong.
MapGrade(x, f, key, strict, den) ==
  /\ IsFiniteSet(DOMAIN f) /\ IsFiniteSet(DOMAIN key)
  /\ Facts(x) = Graph(f) /\ KeyFacts = Graph(key)
  /\ ~strict => Wrong(f, key) = {}
  /\ \E exact \in BOOLEAN :
       /\ exact <=> Right(f, key) = DOMAIN key /\ Wrong(f, key) = {}
       /\ AutoPart(definition, x)
            = Part(Cardinality(Right(f, key)) - (IF strict THEN Cardinality(Wrong(f, key)) ELSE 0), den, exact)

LEMMA MapsDecide ==
  ASSUME NEW v, NEW w, NEW f, NEW g, NEW key, NEW strict \in BOOLEAN, NEW den,
         MapGrade(v, f, key, strict, den), MapGrade(w, g, key, strict, den)
  PROVE  Decides(v) /\ Grows(v, w)
<1>1. PICK x \in BOOLEAN :
        /\ x <=> Right(f, key) = DOMAIN key /\ Wrong(f, key) = {}
        /\ AutoPart(definition, v)
             = Part(Cardinality(Right(f, key)) - (IF strict THEN Cardinality(Wrong(f, key)) ELSE 0), den, x)
  BY DEF MapGrade
<1>2. PICK y \in BOOLEAN :
        /\ y <=> Right(g, key) = DOMAIN key /\ Wrong(g, key) = {}
        /\ AutoPart(definition, w)
             = Part(Cardinality(Right(g, key)) - (IF strict THEN Cardinality(Wrong(g, key)) ELSE 0), den, y)
  BY DEF MapGrade
<1>3. /\ IsFiniteSet(DOMAIN f) /\ IsFiniteSet(DOMAIN g) /\ IsFiniteSet(DOMAIN key)
      /\ Facts(v) = Graph(f) /\ Facts(w) = Graph(g) /\ KeyFacts = Graph(key)
  BY DEF MapGrade
<1>4. Decides(v)
  BY <1>1, <1>3, ExactIs, MapsCompare DEF Decides
<1>5. ASSUME More(v, w) PROVE Better(AutoPart(definition, v), AutoPart(definition, w))
  <2>1. Right(f, key) \subseteq Right(g, key) /\ Wrong(g, key) \subseteq Wrong(f, key)
    BY <1>3, <1>5, MapsCompare DEF More
  <2>2. IsFiniteSet(Right(g, key)) /\ IsFiniteSet(Wrong(f, key))
    BY <1>3, FS_Subset DEF Right, Wrong
  <2>3. /\ Cardinality(Right(f, key)) \in Nat /\ Cardinality(Right(g, key)) \in Nat
        /\ Cardinality(Right(f, key)) <= Cardinality(Right(g, key))
        /\ Cardinality(Wrong(f, key)) \in Nat /\ Cardinality(Wrong(g, key)) \in Nat
        /\ Cardinality(Wrong(g, key)) <= Cardinality(Wrong(f, key))
    BY <2>1, <2>2, CountsCompare
  <2>4. x => y
    BY <1>1, <1>2, <2>1 DEF Right
  <2> DEFINE m == Cardinality(Right(f, key)) - (IF strict THEN Cardinality(Wrong(f, key)) ELSE 0)
             n == Cardinality(Right(g, key)) - (IF strict THEN Cardinality(Wrong(g, key)) ELSE 0)
  <2>5. m \in Int /\ n \in Int /\ m <= n
    BY <2>3
  <2> HIDE DEF m, n
  <2>6. Better(Part(m, den, x), Part(n, den, y))
    BY <2>4, <2>5, BetterParts
  <2>7. QED
    BY <1>1, <1>2, <2>6 DEF m, n
<1>6. QED
  BY <1>4, <1>5 DEF Grows

LEMMA AtGiven ==
  ASSUME NEW f, NEW x
  PROVE  /\ x \in DOMAIN Given(f) <=> At(f, x) # Null
         /\ x \in DOMAIN Given(f) => Given(f)[x] = At(f, x) /\ x \in DOMAIN f
BY DEF Given, At

LEMMA TrueFalseIsMap ==
  ASSUME Posed, NEW v, Answers(v), Is("multiple_true_false")
  PROVE  MapGrade(v, Given(v.values), definition.answers, FALSE, Len(definition.statements))
<1> DEFINE K == Range(definition.statements)
           key == definition.answers
           f == Given(v.values)
           right == {s \in K : At(v.values, s) = key[s]}
<1>1. DOMAIN key = K /\ \A s \in K : key[s] # Null
  BY KeysMean
<1>2. IsFiniteSet(K)
  BY ChoiceKeys, RangeIsFinite DEF List
<1>3. DOMAIN v.values \subseteq K
  BY DEF Answers, ChoiceOK
<1>4. Facts(v) = Entries(v.values) /\ KeyFacts = Entries(key)
  BY DEF Is, Facts, KeyFacts
<1>5. AutoPart(definition, v) = Part(Cardinality(right), Len(definition.statements), right = K)
  BY DEF Is, AutoPart, MultipleTrueFalsePart
<1> HIDE DEF K, key
<1>6. DOMAIN f \subseteq K
  BY <1>3 DEF Given
<1>7. Entries(key) = Graph(key)
  BY <1>1 DEF Entries, Graph
<1>8. Facts(v) = Graph(f)
  BY <1>4, EntriesAreGiven
<1>9. right = Right(f, key)
  <2>1. \A s \in K : At(v.values, s) = key[s] <=> s \in DOMAIN f /\ f[s] = key[s]
    BY <1>1, AtGiven
  <2> HIDE DEF f
  <2>2. QED
    BY <1>1, <2>1 DEF Right
<1>10. Wrong(f, key) = {}
  BY <1>1, <1>6 DEF Wrong
<1>11. IsFiniteSet(DOMAIN f) /\ IsFiniteSet(DOMAIN key)
  BY <1>1, <1>2, <1>6, FS_Subset
<1>12. Cardinality(Right(f, key)) \in Nat
  BY <1>11, CountsCompare DEF Right
<1> HIDE DEF f, right
<1>13. (right = K) \in BOOLEAN /\ ((right = K) <=> Right(f, key) = DOMAIN key /\ Wrong(f, key) = {})
  BY <1>1, <1>9, <1>10
<1>14. Cardinality(Right(f, key)) - (IF FALSE THEN Cardinality(Wrong(f, key)) ELSE 0) = Cardinality(right)
  BY <1>9, <1>12
<1>15. QED
  BY <1>4, <1>5, <1>7, <1>8, <1>10, <1>11, <1>13, <1>14 DEF MapGrade, f, key

LEMMA OrderIsMap ==
  ASSUME Posed, NEW v, Answers(v), Is("ordering")
  PROVE  MapGrade(v, v.order, definition.order, FALSE, Len(definition.order))
<1> DEFINE f == v.order
           key == definition.order
           S == Range(definition.items)
           inPlace == {i \in DOMAIN key \cap DOMAIN f : f[i] = key[i]}
<1>1. /\ key \in Seq(S) /\ Unique(key) /\ Range(key) = S /\ Null \notin S
  BY KeysMean DEF List
<1>2. /\ f \in Seq(S) /\ Unique(f) /\ Range(f) = S
  BY DEF Answers, ArrangeOK, List
<1>3. Len(f) = Len(key)
  BY <1>1, <1>2, RangeIsFinite
<1>4. DOMAIN f = 1..Len(f) /\ DOMAIN key = 1..Len(f) /\ Len(f) \in Nat /\ IsFiniteSet(1..Len(f))
  <2> HIDE DEF f, key, S
  <2>1. DOMAIN f = 1..Len(f) /\ Len(f) \in Nat
    BY <1>2, LenProperties
  <2>2. DOMAIN key = 1..Len(key)
    BY <1>1, LenProperties
  <2>3. IsFiniteSet(1..Len(f))
    BY <2>1, FS_Interval
  <2>4. QED
    BY <1>3, <2>1, <2>2, <2>3
<1>5. Facts(v) = Entries(f) /\ KeyFacts = Entries(key)
  BY DEF Is, Facts, KeyFacts
<1>6. AutoPart(definition, v) = Part(Cardinality(inPlace), Len(key), f = key)
  BY DEF Is, AutoPart, OrderingPart
<1> HIDE DEF f, key, S
<1>7. (\A i \in DOMAIN f : f[i] # Null) /\ (\A i \in DOMAIN key : key[i] # Null)
  BY <1>1, <1>2 DEF Range
<1>8. Entries(f) = Graph(f) /\ Entries(key) = Graph(key)
  BY <1>7 DEF Entries, Graph
<1>9. Right(f, key) = inPlace /\ Wrong(f, key) = {}
  BY <1>4 DEF Right, Wrong
<1>10. f = key <=> Right(f, key) = DOMAIN key
  <2>1. ASSUME Right(f, key) = DOMAIN key PROVE f = key
    <3>1. \A i \in 1..Len(f) : f[i] = key[i]
      BY <1>4, <2>1 DEF Right
    <3>2. f \in [1..Len(f) -> S] /\ key \in [1..Len(f) -> S]
      BY <1>1, <1>2, <1>3, LenProperties
    <3>3. QED
      BY <3>1, <3>2
  <2>2. ASSUME f = key PROVE Right(f, key) = DOMAIN key
    BY <2>2 DEF Right
  <2>3. QED
    BY <2>1, <2>2
<1>11. Cardinality(Right(f, key)) \in Nat
  BY <1>4, CountsCompare DEF Right
<1> HIDE DEF inPlace
<1>12. (f = key) \in BOOLEAN /\ ((f = key) <=> Right(f, key) = DOMAIN key /\ Wrong(f, key) = {})
  BY <1>9, <1>10
<1>13. Cardinality(Right(f, key)) - (IF FALSE THEN Cardinality(Wrong(f, key)) ELSE 0) = Cardinality(inPlace)
  BY <1>9, <1>11
<1>14. IsFiniteSet(DOMAIN f) /\ IsFiniteSet(DOMAIN key)
  BY <1>4
<1>15. QED
  BY <1>5, <1>6, <1>8, <1>9, <1>12, <1>13, <1>14 DEF MapGrade, f, key

LEMMA MappingIsMap ==
  ASSUME Posed, NEW v, Answers(v), Is("categorization")
  PROVE  MapGrade(v, Given(v.mapping), definition.mapping, TRUE,
                  IF Cardinality(DOMAIN definition.mapping) = 0 THEN 1 ELSE Cardinality(DOMAIN definition.mapping))
<1> DEFINE K == Range(definition.items)
           key == definition.mapping
           f == Given(v.mapping)
           right == {i \in K \cap DOMAIN key : At(v.mapping, i) = key[i]}
           wrong == {i \in K \ DOMAIN key : At(v.mapping, i) # Null}
           all == IF Cardinality(DOMAIN key) = 0 THEN 1 ELSE Cardinality(DOMAIN key)
           exact == right = DOMAIN key /\ wrong = {}
<1>1. DOMAIN key \subseteq K /\ \A i \in DOMAIN key : key[i] # Null
  BY KeysMean
<1>2. IsFiniteSet(K)
  BY ArrangeKeys, RangeIsFinite DEF IsList
<1>3. DOMAIN v.mapping \subseteq K
  BY DEF Answers, ArrangeOK
<1>4. Facts(v) = Entries(v.mapping) /\ KeyFacts = Entries(key)
  BY DEF Is, Facts, KeyFacts
<1>5. AutoPart(definition, v) = Part(Cardinality(right) - Cardinality(wrong), all, exact)
  BY DEF Is, AutoPart, CategorizationPart
<1> HIDE DEF K, key, all
<1>6. DOMAIN f \subseteq K
  BY <1>3 DEF Given
<1>7. Entries(key) = Graph(key)
  BY <1>1 DEF Entries, Graph
<1>8. Facts(v) = Graph(f)
  BY <1>4, EntriesAreGiven
<1>9. right = Right(f, key) /\ wrong = Wrong(f, key)
  <2>1. \A i \in DOMAIN key : At(v.mapping, i) = key[i] <=> i \in DOMAIN f /\ f[i] = key[i]
    BY <1>1, AtGiven
  <2>2. \A i \in K : At(v.mapping, i) # Null <=> i \in DOMAIN f
    BY AtGiven
  <2> HIDE DEF f
  <2>3. right = Right(f, key)
    BY <1>1, <2>1 DEF Right
  <2>4. wrong = Wrong(f, key)
    BY <1>6, <2>2 DEF Wrong
  <2>5. QED
    BY <2>3, <2>4
<1>10. IsFiniteSet(DOMAIN f) /\ IsFiniteSet(DOMAIN key)
  BY <1>1, <1>2, <1>6, FS_Subset
<1>11. exact \in BOOLEAN /\ (exact <=> Right(f, key) = DOMAIN key /\ Wrong(f, key) = {})
  BY <1>9
<1> HIDE DEF f, right, wrong, exact
<1>12. AutoPart(definition, v)
         = Part(Cardinality(Right(f, key)) - (IF TRUE THEN Cardinality(Wrong(f, key)) ELSE 0), all, exact)
  BY <1>5, <1>9
<1>13. MapGrade(v, f, key, TRUE, all)
  BY <1>4, <1>7, <1>8, <1>10, <1>11, <1>12 DEF MapGrade
<1>14. QED
  BY <1>13 DEF f, key, all

LEMMA FirstPairIs ==
  ASSUME NEW S, NEW pairs \in Seq(S), Unique(Lefts(pairs)), NEW p \in Range(pairs)
  PROVE  FirstPair(pairs, p.leftId) = p
<1>1. DOMAIN pairs = 1..Len(pairs) /\ Len(pairs) \in Nat
  BY LenProperties
<1>2. PICK k \in DOMAIN pairs : pairs[k] = p
  BY DEF Range
<1>3. \A i, j \in DOMAIN pairs : pairs[i].leftId = pairs[j].leftId => i = j
  BY DEF Unique, Lefts
<1> DEFINE First(i) == pairs[i].leftId = p.leftId /\ \A j \in 1..i - 1 : pairs[j].leftId # p.leftId
<1>4. First(k)
  <2>1. ASSUME NEW j \in 1..k - 1 PROVE pairs[j].leftId # p.leftId
    <3>1. j \in DOMAIN pairs /\ j # k
      BY <1>1, <1>2
    <3>2. QED
      BY <1>2, <1>3, <3>1
  <2>2. QED
    BY <1>2, <2>1
<1>5. \A i \in DOMAIN pairs : First(i) => i = k
  BY <1>2, <1>3
<1>6. (CHOOSE i \in DOMAIN pairs : First(i)) = k
  <2> HIDE DEF First
  <2>1. QED
    BY <1>2, <1>4, <1>5
<1>7. QED
  BY <1>2, <1>6 DEF FirstPair

\* Whom the pairs join to each item on the left.
Partner(pairs) == [l \in {p.leftId : p \in Range(pairs)} |-> FirstPair(pairs, l).rightId]

LEMMA PairsAreMap ==
  ASSUME NEW S, NEW pairs \in Seq(S), Unique(Lefts(pairs))
  PROVE  PairsOf(pairs) = Graph(Partner(pairs))
<1> DEFINE f == Partner(pairs)
<1>1. \A p \in Range(pairs) : p.leftId \in DOMAIN f /\ f[p.leftId] = p.rightId
  BY FirstPairIs DEF Partner
<1>2. \A l \in DOMAIN f : \E p \in Range(pairs) : p.leftId = l
  BY DEF Partner
<1> HIDE DEF f
<1>3. PairsOf(pairs) \subseteq Graph(f)
  BY <1>1 DEF PairsOf, Graph
<1>4. Graph(f) \subseteq PairsOf(pairs)
  BY <1>1, <1>2 DEF PairsOf, Graph
<1>5. QED
  BY <1>3, <1>4 DEF f

LEMMA PairsAreMapGrade ==
  ASSUME Posed, NEW v, NEW S, v.pairs \in Seq(S), Unique(Lefts(v.pairs)), Is("matching")
  PROVE  MapGrade(v, Partner(v.pairs), Partner(definition.pairs), TRUE, Cardinality({p.leftId : p \in Range(definition.pairs)}))
<1> DEFINE f == Partner(v.pairs)
           key == Partner(definition.pairs)
           seen == {p.leftId : p \in Range(v.pairs)}
           keyed == {p.leftId : p \in Range(definition.pairs)}
           right == {l \in seen \cap DOMAIN key : FirstPair(v.pairs, l).rightId = key[l]}
           wrong == seen \ DOMAIN key
           exact == right = DOMAIN key /\ wrong = {}
<1>1. definition.pairs \in Seq(Range(definition.pairs)) /\ Unique(Lefts(definition.pairs))
  BY KeysMean DEF IsList
<1>2. Facts(v) = PairsOf(v.pairs) /\ KeyFacts = PairsOf(definition.pairs)
  BY DEF Is, Facts, KeyFacts
<1>3. Facts(v) = Graph(f) /\ KeyFacts = Graph(key)
  BY <1>1, <1>2, PairsAreMap
<1>4. AutoPart(definition, v) = Part(Cardinality(right) - Cardinality(wrong), Cardinality(DOMAIN key), exact)
  BY DEF Is, AutoPart, MatchingPart, Partner
<1>5. DOMAIN f = seen /\ DOMAIN key = keyed /\ \A l \in seen : f[l] = FirstPair(v.pairs, l).rightId
  BY DEF Partner
<1>6. IsFiniteSet(seen) /\ IsFiniteSet(keyed)
  BY <1>1, RangeIsFinite, LeftsAreFinite
<1> HIDE DEF f, key, seen
<1>7. right = Right(f, key) /\ wrong = Wrong(f, key)
  BY <1>5 DEF Right, Wrong
<1>8. exact \in BOOLEAN /\ (exact <=> Right(f, key) = DOMAIN key /\ Wrong(f, key) = {})
  BY <1>7
<1> HIDE DEF right, wrong, exact, keyed
<1>9. AutoPart(definition, v)
        = Part(Cardinality(Right(f, key)) - (IF TRUE THEN Cardinality(Wrong(f, key)) ELSE 0), Cardinality(keyed), exact)
  BY <1>4, <1>5, <1>7
<1>10. MapGrade(v, f, key, TRUE, Cardinality(keyed))
  BY <1>3, <1>5, <1>6, <1>8, <1>9 DEF MapGrade
<1>11. QED
  BY <1>10 DEF f, key, keyed

\* The columns of a row.
RowOf(f, row) == IF row \in DOMAIN f THEN Range(f[row]) ELSE {}
RowIsRight(v, row) ==
  /\ RowOf(definition.correct, row) = RowOf(v.selections, row)
  /\ Len(IF row \in DOMAIN definition.correct THEN definition.correct[row] ELSE <<>>)
       = Cardinality(RowOf(v.selections, row))

LEMMA CellsMean ==
  ASSUME NEW f
  PROVE  /\ \A x, y : <<x, y>> \in Cells(f) <=> y \in RowOf(f, x)
         /\ \A c \in Cells(f) : \E x \in DOMAIN f : \E y : c = <<x, y>>
<1> DEFINE Line(row) == {<<row, col>> : col \in Range(f[row])}
<1>1. Cells(f) = UNION {Line(row) : row \in DOMAIN f}
  BY DEF Cells
<1>2. \A c : c \in Cells(f) <=> \E row \in DOMAIN f : c \in Line(row)
  BY <1>1
<1>3. \A row, x, y : <<x, y>> \in Line(row) <=> x = row /\ y \in Range(f[row])
  OBVIOUS
<1>4. \A row : \A c \in Line(row) : \E y : c = <<row, y>>
  OBVIOUS
<1> HIDE DEF Line
<1>5. QED
  BY <1>2, <1>3, <1>4 DEF RowOf

LEMMA MatrixRows ==
  ASSUME Posed, NEW v, Answers(v), Is("matrix"), definition.correct # Null
  PROVE  /\ Facts(v) = Cells(v.selections) /\ KeyFacts = Cells(definition.correct)
         /\ AutoPart(definition, v)
              = LET right == {row \in Range(definition.rows) : RowIsRight(v, row)}
                IN Part(Cardinality(right), Len(definition.rows), right = Range(definition.rows))
         /\ DOMAIN v.selections \subseteq Range(definition.rows)
         /\ DOMAIN definition.correct \subseteq Range(definition.rows)
         /\ IsFiniteSet(Range(definition.rows))
         /\ KeyIsSet => \A row : RowIsRight(v, row) <=> RowOf(definition.correct, row) = RowOf(v.selections, row)
<1> DEFINE key == definition.correct
           f == v.selections
           Expected(row) == IF row \in DOMAIN key THEN key[row] ELSE <<>>
           Got(row) == IF row \in DOMAIN f THEN Range(f[row]) ELSE {}
           right == {row \in Range(definition.rows) : Range(Expected(row)) = Got(row)
                                                      /\ Len(Expected(row)) = Cardinality(Got(row))}
<1>1. Facts(v) = Cells(f) /\ KeyFacts = Cells(key)
  BY DEF Is, Facts, KeyFacts
<1>2. AutoPart(definition, v) = Part(Cardinality(right), Len(definition.rows), right = Range(definition.rows))
  BY DEF Is, AutoPart, MatrixPart
<1>3. ASSUME NEW row PROVE Range(Expected(row)) = RowOf(key, row) /\ Got(row) = RowOf(f, row)
  <2>1. Range(<<>>) = {}
    BY DEF Range
  <2>2. QED
    BY <2>1 DEF RowOf
<1>4. \A row \in Range(definition.rows) :
        RowIsRight(v, row) <=> Range(Expected(row)) = Got(row) /\ Len(Expected(row)) = Cardinality(Got(row))
  <2>1. \A row : RowIsRight(v, row) <=> RowOf(key, row) = RowOf(f, row) /\ Len(Expected(row)) = Cardinality(RowOf(f, row))
    BY DEF RowIsRight
  <2> HIDE DEF Expected, Got, key, f
  <2>2. QED
    BY <2>1, <1>3
<1>5. right = {row \in Range(definition.rows) : RowIsRight(v, row)}
  <2> HIDE DEF Expected, Got
  <2>1. QED
    BY <1>4
<1>6. DOMAIN f \subseteq Range(definition.rows)
  BY DEF Answers, AreaOK
<1>7. /\ DOMAIN key \subseteq Range(definition.rows)
      /\ \A row \in DOMAIN key : key[row] \in Seq(Range(key[row]))
  BY KeysMean DEF IsList
<1>8. IsFiniteSet(Range(definition.rows))
  BY ArrangeKeys, RangeIsFinite DEF List
<1>9. ASSUME KeyIsSet, NEW row, RowOf(key, row) = RowOf(f, row) PROVE RowIsRight(v, row)
  <2>1. CASE row \in DOMAIN key
    <3>1. Unique(key[row]) /\ key[row] \in Seq(Range(key[row])) /\ RowOf(key, row) = Range(key[row])
      BY <1>7, <1>9, <2>1 DEF KeyIsSet, RowOf
    <3>2. Cardinality(Range(key[row])) = Len(key[row])
      BY <3>1, RangeIsFinite
    <3>3. QED
      BY <1>9, <2>1, <3>1, <3>2 DEF RowIsRight
  <2>2. CASE row \notin DOMAIN key
    <3>1. RowOf(key, row) = {} /\ Cardinality({}) = 0 /\ Len(<<>>) = 0
      BY <2>2, FS_EmptySet DEF RowOf
    <3>2. QED
      BY <1>9, <2>2, <3>1 DEF RowIsRight
  <2>3. QED
    BY <2>1, <2>2
<1>10. \A row : RowIsRight(v, row) => RowOf(key, row) = RowOf(f, row)
  BY DEF RowIsRight
<1> HIDE DEF right
<1>11. QED
  BY <1>1, <1>2, <1>5, <1>6, <1>7, <1>8, <1>9, <1>10

LEMMA MatrixDecides ==
  ASSUME Posed, NEW v, Answers(v), NEW w, Answers(w), Is("matrix"), definition.correct # Null
  PROVE  (KeyIsSet => Decides(v)) /\ Grows(v, w)
<1> DEFINE key == definition.correct
           R == Range(definition.rows)
           Good(x) == {row \in R : RowIsRight(x, row)}
           n == Len(definition.rows)
<1>1. ASSUME NEW x, Answers(x)
      PROVE  /\ Facts(x) = Cells(x.selections) /\ KeyFacts = Cells(key)
             /\ AutoPart(definition, x) = Part(Cardinality(Good(x)), n, Good(x) = R)
             /\ DOMAIN x.selections \subseteq R /\ DOMAIN key \subseteq R
             /\ KeyIsSet => \A row : RowIsRight(x, row) <=> RowOf(key, row) = RowOf(x.selections, row)
  BY <1>1, MatrixRows
<1>2. IsFiniteSet(R)
  BY MatrixRows
<1> HIDE DEF key, R, n
<1>3. ASSUME KeyIsSet PROVE Decides(v)
  <2>1. Good(v) = R <=> \A row \in R : RowOf(key, row) = RowOf(v.selections, row)
    BY <1>1, <1>3
  <2>2. \A row : row \notin R => RowOf(key, row) = {} /\ RowOf(v.selections, row) = {}
    BY <1>1 DEF RowOf
  <2>3. ASSUME \A row : RowOf(key, row) = RowOf(v.selections, row) PROVE Cells(v.selections) = Cells(key)
    <3>1. \A x, y : <<x, y>> \in Cells(v.selections) <=> <<x, y>> \in Cells(key)
      BY <2>3, CellsMean
    <3>2. \A c : c \in Cells(v.selections) \/ c \in Cells(key) => \E x, y : c = <<x, y>>
      BY CellsMean
    <3>3. QED
      BY <3>1, <3>2
  <2>4. ASSUME Cells(v.selections) = Cells(key), NEW row PROVE RowOf(key, row) = RowOf(v.selections, row)
    <3>1. \A y : y \in RowOf(key, row) <=> y \in RowOf(v.selections, row)
      BY <2>4, CellsMean
    <3>2. QED
      BY <3>1
  <2>5. Good(v) = R <=> Cells(v.selections) = Cells(key)
    BY <2>1, <2>2, <2>3, <2>4
  <2> DEFINE exact == Good(v) = R
  <2>6. AutoPart(definition, v) = Part(Cardinality(Good(v)), n, exact) /\ exact \in BOOLEAN
    BY <1>1
  <2>7. exact <=> Facts(v) = KeyFacts
    BY <1>1, <2>5
  <2> HIDE DEF Good, exact
  <2>8. QED
    BY <2>6, <2>7, ExactIs DEF Decides
<1>4. ASSUME More(v, w) PROVE Better(AutoPart(definition, v), AutoPart(definition, w))
  <2>1. \A x, y : /\ y \in RowOf(v.selections, x) /\ y \in RowOf(key, x) => y \in RowOf(w.selections, x)
                  /\ y \in RowOf(w.selections, x) /\ y \notin RowOf(key, x) => y \in RowOf(v.selections, x)
    <3>1. \A c : /\ c \in Cells(v.selections) /\ c \in Cells(key) => c \in Cells(w.selections)
                 /\ c \in Cells(w.selections) /\ c \notin Cells(key) => c \in Cells(v.selections)
      BY <1>1, <1>4 DEF More
    <3>2. QED
      BY <3>1, CellsMean
  <2>2. ASSUME NEW row \in R, RowIsRight(v, row) PROVE RowIsRight(w, row)
    <3>1. RowOf(key, row) = RowOf(v.selections, row)
      BY <2>2 DEF RowIsRight, key
    <3>2. RowOf(w.selections, row) = RowOf(v.selections, row)
      BY <2>1, <3>1
    <3>3. QED
      BY <2>2, <3>2 DEF RowIsRight
  <2>3. Good(v) \subseteq Good(w) /\ Good(w) \subseteq R
    BY <2>2
  <2>4. IsFiniteSet(Good(w))
    BY <1>2, FS_Subset
  <2>5. Good(v) = R => Good(w) = R
    BY <2>3
  <2> HIDE DEF Good
  <2>6. /\ Cardinality(Good(v)) \in Int /\ Cardinality(Good(w)) \in Int
        /\ Cardinality(Good(v)) <= Cardinality(Good(w))
    BY <2>3, <2>4, CountsCompare
  <2>7. (Good(v) = R) \in BOOLEAN /\ (Good(w) = R) \in BOOLEAN
    OBVIOUS
  <2>8. Better(Part(Cardinality(Good(v)), n, Good(v) = R), Part(Cardinality(Good(w)), n, Good(w) = R))
    BY <2>5, <2>6, <2>7, BetterParts
  <2>9. QED
    BY <1>1, <2>8
<1>5. QED
  BY <1>3, <1>4 DEF Grows

\* A question that has facts is one of those above.
LEMMA FactsDecide ==
  ASSUME Posed, HasFacts, NEW v, Answers(v), ~isEmptyResponse(definition, v),
         NEW w, Answers(w), ~isEmptyResponse(definition, w)
  PROVE  (KeyIsSet => Decides(v)) /\ Grows(v, w)
<1>1. \/ Is("single_choice") /\ definition.weights = Null
      \/ Is("true_false") \/ Is("multiple_choice") \/ Is("hot_text")
      \/ Is("multiple_true_false") \/ Is("ordering") \/ Is("categorization") \/ Is("matching")
      \/ Is("matrix") /\ definition.correct # Null
  BY DEF HasFacts, Is, QUESTION_TYPES, ChoiceTypes, TextTypes, ArrangeTypes, AreaTypes
<1>2. CASE \/ Is("single_choice") /\ definition.weights = Null
           \/ Is("true_false") \/ Is("multiple_choice") \/ Is("hot_text")
  BY <1>2, ChoiceDecides
<1>3. CASE Is("multiple_true_false")
  BY <1>3, TrueFalseIsMap, MapsDecide
<1>4. CASE Is("ordering")
  BY <1>4, OrderIsMap, MapsDecide
<1>5. CASE Is("categorization")
  BY <1>5, MappingIsMap, MapsDecide
<1>6. CASE Is("matching")
  <2>1. /\ v.pairs \in Seq(PairSet) /\ Unique(Lefts(v.pairs)) /\ w.pairs \in Seq(PairSet) /\ Unique(Lefts(w.pairs))
    BY <1>6 DEF Answers, ArrangeOK
  <2>2. QED
    BY <1>6, <2>1, PairsAreMapGrade, MapsDecide
<1>7. CASE Is("matrix") /\ definition.correct # Null
  BY <1>7, MatrixDecides
<1>8. QED
  BY <1>1, <1>2, <1>3, <1>4, <1>5, <1>6, <1>7

(***************************************************************************)
(* What a part is worth.                                                    *)
(***************************************************************************)
ScoringFits(s) == s.points \in Nat /\ s.penalty \in Nat /\ s.allowNegative \in BOOLEAN

\* The right part of den that a scoring counts, and its marks times den.
Earned(p, s) ==
  IF s.mode = "partial" THEN IF p.num < 0 THEN 0 ELSE IF p.num > p.den THEN p.den ELSE p.num
  ELSE IF p.exact THEN p.den ELSE 0
Kept(n, den, s) == IF n = 0 THEN n * s.points - s.penalty * den ELSE n * s.points
Floored(n, den, s) == IF s.allowNegative \/ Kept(n, den, s) >= 0 THEN Kept(n, den, s) ELSE 0

LEMMA GradedIs ==
  ASSUME NEW p, PartOK(p), NEW s
  PROVE  /\ Graded(p, s).score = Round(Floored(Earned(p, s), p.den, s), p.den)
         /\ Graded(p, s).correct = p.exact
         /\ Earned(p, s) \in 0..p.den /\ (p.exact => Earned(p, s) = p.den)
<1>1. /\ Clamp(p).num = IF p.num < 0 THEN 0 ELSE IF p.num > p.den THEN p.den ELSE p.num
      /\ Clamp(p).den = p.den
  BY DEF Clamp, PartOK
<1>2. Graded(p, s).score = Round(Floored(Earned(p, s), p.den, s), p.den)
  BY <1>1 DEF Graded, Result, Earned, Kept, Floored
<1>3. Graded(p, s).correct = p.exact
  BY DEF Graded, Result
<1>4. Earned(p, s) \in 0..p.den /\ (p.exact => Earned(p, s) = p.den)
  BY DEF Earned, PartOK
<1>5. QED
  BY <1>2, <1>3, <1>4

LEMMA FlooredGrows ==
  ASSUME NEW s, ScoringFits(s), NEW den \in Nat \ {0}, NEW m \in 0..den, NEW n \in 0..den, m <= n
  PROVE  Floored(m, den, s) \in Int /\ Floored(n, den, s) \in Int /\ Floored(m, den, s) <= Floored(n, den, s)
<1> DEFINE loss == s.penalty * den
           a == m * s.points
           b == n * s.points
<1>1. loss \in Nat /\ a \in Nat /\ b \in Nat
  BY DEF ScoringFits
<1>2. a <= b
  <2>1. s.points * m <= s.points * n
    BY TimesKeepsNat DEF ScoringFits
  <2>2. QED
    BY <2>1 DEF ScoringFits
<1>3. m = 0 => a = 0
  BY DEF ScoringFits
<1>4. Kept(m, den, s) = (IF m = 0 THEN a - loss ELSE a) /\ Kept(n, den, s) = (IF n = 0 THEN b - loss ELSE b)
  BY DEF Kept
<1>5. s.allowNegative \in BOOLEAN
  BY DEF ScoringFits
<1> HIDE DEF loss, a, b
<1>6. Kept(m, den, s) \in Int /\ Kept(n, den, s) \in Int /\ Kept(m, den, s) <= Kept(n, den, s)
  BY <1>1, <1>2, <1>3, <1>4
<1>7. QED
  BY <1>5, <1>6 DEF Floored

\* What is better is never worth less ...
LEMMA GradedGrows ==
  ASSUME NEW p, PartOK(p), NEW q, PartOK(q), Better(p, q), NEW s, ScoringFits(s)
  PROVE  Graded(q, s).score >= Graded(p, s).score
<1> DEFINE m == Earned(p, s)
           n == Earned(q, s)
           den == p.den
<1>1. m \in 0..den /\ n \in 0..den /\ q.den = den /\ den \in Nat \ {0}
  BY GradedIs DEF Better, PartOK
<1>2. m <= n
  BY DEF Earned, Better, PartOK
<1>3. /\ Graded(p, s).score = Round(Floored(m, den, s), den)
      /\ Graded(q, s).score = Round(Floored(n, den, s), den)
  BY <1>1, GradedIs
<1> HIDE DEF m, n, den
<1>4. Floored(m, den, s) \in Int /\ Floored(n, den, s) \in Int /\ Floored(m, den, s) <= Floored(n, den, s)
  BY <1>1, <1>2, FlooredGrows
<1> DEFINE x == Floored(m, den, s)
           y == Floored(n, den, s)
<1> HIDE DEF x, y
<1>5. x \in Int /\ y \in Int /\ x <= y
  BY <1>4 DEF x, y
<1>6. x * den <= y * den
  BY <1>1, <1>5, TimesKeeps
<1>7. y * den <= y * den
  BY <1>1, <1>5
<1>8. Round(x, den) <= Round(y, den) /\ Round(x, den) \in Int /\ Round(y, den) \in Int
  BY <1>1, <1>5, <1>6, <1>7, RoundIsMonotone
<1>9. QED
  BY <1>3, <1>8 DEF x, y

\* ... and what is exactly right is worth all the points.
LEMMA ExactIsAll ==
  ASSUME NEW p, PartOK(p), p.exact, NEW s, ScoringFits(s)
  PROVE  Graded(p, s).score = Round(s.points, 1)
<1> DEFINE den == p.den
           points == s.points
           full == den * points
<1>1. den \in Nat \ {0} /\ points \in Nat
  BY DEF PartOK, ScoringFits
<1>2. full \in Nat /\ Kept(den, den, s) = full
  BY <1>1 DEF Kept
<1>3. Floored(den, den, s) = full
  <2> HIDE DEF full
  <2>1. QED
    BY <1>2 DEF Floored
<1>4. Graded(p, s).score = Round(full, den)
  BY <1>3, GradedIs
<1>5. full * 1 = points * den
  BY <1>1
<1> HIDE DEF full, points, den
<1>6. points * den \in Int
  BY <1>1
<1>7. Round(full, den) <= Round(points, 1) /\ Round(full, den) \in Int
  BY <1>1, <1>2, <1>5, <1>6, RoundIsMonotone
<1>8. Round(points, 1) <= Round(full, den) /\ Round(points, 1) \in Int
  BY <1>1, <1>2, <1>5, <1>6, RoundIsMonotone
<1>9. QED
  BY <1>4, <1>7, <1>8 DEF points

\* What a graded answer is.
PartOfGrade ==
  Grade.status = "graded" =>
    /\ value # Null /\ ~isEmptyResponse(definition, value)
    /\ PartOK(AutoPart(definition, value)) /\ ScoringFits(scoring)
    /\ Grade = Graded(AutoPart(definition, value), scoring)

LEMMA GradesAreParts == AnswerInv => PartOfGrade
<1> SUFFICES ASSUME AnswerInv, Grade.status = "graded"
             PROVE  /\ value # Null /\ ~isEmptyResponse(definition, value)
                    /\ PartOK(AutoPart(definition, value)) /\ ScoringFits(scoring)
                    /\ Grade = Graded(AutoPart(definition, value), scoring)
  BY DEF PartOfGrade
<1>1. /\ ~isEmptyResponse(definition, value) /\ definition.type \notin ManualTypes
      /\ Grade = Graded(AutoPart(definition, value), scoring)
  BY GradedMeans DEF Grade, GradeAs
<1>2. value # Null
  BY <1>1, NothingIsEmpty
<1>3. PartOK(AutoPart(definition, value))
  BY <1>1, <1>2, GradersFind
<1>4. ScoringFits(scoring)
  <2>1. /\ scoring \in [points : Int, penalty : Int, mode : STRING, allowNegative : BOOLEAN]
        /\ scoring.points >= 0 /\ scoring.penalty >= 0
    BY ScoringAssumption DEF AnswerInv, Posed, ScoringOK
  <2>2. QED
    BY <2>1 DEF ScoringFits
<1>5. QED
  BY <1>1, <1>2, <1>3, <1>4

LEMMA ProgressStep ==
  ASSUME AnswerInv, AnswerInv', PartOfGrade, PartOfGrade', [Next]_vars,
         HasFacts, Grade.status = "graded", Grade'.status = "graded",
         Facts(value) \cap KeyFacts \subseteq Facts(value)',
         Facts(value)' \ KeyFacts \subseteq Facts(value)
  PROVE  Grade'.score >= Grade.score
<1>1. definition' = definition /\ scoring' = scoring
  BY QuestionStays DEF vars, question
<1> DEFINE v == value
           w == value'
           p == AutoPart(definition, v)
           q == AutoPart(definition, w)
<1>2. /\ v # Null /\ ~isEmptyResponse(definition, v) /\ PartOK(p) /\ ScoringFits(scoring)
      /\ Grade = Graded(p, scoring)
  BY DEF PartOfGrade
<1>3. /\ w # Null /\ ~isEmptyResponse(definition, w) /\ PartOK(q)
      /\ Grade' = Graded(q, scoring)
  BY <1>1 DEF PartOfGrade
<1>4. Answers(v) /\ Posed
  BY <1>2 DEF AnswerInv, ValueOK, Answers
<1>5. Answers(w)
  <2>1. ChoiceOK(value)' /\ ArrangeOK(value)' /\ AreaOK(value)'
    BY <1>3 DEF AnswerInv, ValueOK
  <2>2. ChoiceOK(w)
    BY <1>1, <2>1 DEF ChoiceOK, Is
  <2>3. ArrangeOK(w)
    BY <1>1, <2>1 DEF ArrangeOK, Is, PairSet, WordsOnce, WordBlanks
  <2>4. AreaOK(w)
    BY <1>1, <2>1 DEF AreaOK, Is, SegmentIds
  <2>5. QED
    BY <2>2, <2>3, <2>4 DEF Answers
<1>6. Facts(value)' = Facts(w)
  BY <1>1 DEF Facts, Is
<1>7. More(v, w)
  BY <1>6 DEF More
<1>8. Better(p, q)
  BY <1>2, <1>3, <1>4, <1>5, <1>7, FactsDecide DEF Grows
<1> HIDE DEF p, q
<1>9. QED
  BY <1>2, <1>3, <1>8, GradedGrows

\* ProgressPays, for any questions that have facts: whatever is clicked, and in whichever mode of
\* scoring, an answer with more right and nothing more wrong scores no less in gradeResponse.
THEOREM ProgressIsPaid == Spec => ProgressPays
<1> DEFINE P == AnswerInv /\ PartOfGrade
           Paid == /\ HasFacts /\ value # Null /\ value' # Null
                   /\ Grade.status = "graded" /\ Grade'.status = "graded"
                   /\ Facts(value) \cap KeyFacts \subseteq Facts(value)'
                   /\ Facts(value)' \ KeyFacts \subseteq Facts(value)
                   => Grade'.score >= Grade.score
<1>1. AnswerInv /\ FilesInv => P
  BY GradesAreParts
<1>2. P /\ P' /\ [Next]_vars => [Paid]_vars
  BY ProgressStep
<1> HIDE DEF P, Paid
<1>3. Spec => [][Paid]_vars
  BY Invariant, <1>1, <1>2, PTL DEF Spec
<1>4. QED
  BY <1>3 DEF ProgressPays, Paid

(***************************************************************************)
(* Areas and numbers.                                                       *)
(***************************************************************************)
\* Each point lies in one area at most, so that it finds it or is wasted.
LEMMA HotspotDecides ==
  ASSUME AnswerInv, value # Null, Is("hotspot"), AreasApart
  PROVE  AutoPart(definition, value).exact <=>
           /\ Len(value.points) = Len(definition.regions)
           /\ \A g \in Range(definition.regions) : \E q \in Range(value.points) : pointInRegion(q, g)
<1> DEFINE list == definition.regions
           D == DOMAIN list
           shot == value.points
           N == Len(shot)
           Lies(k, i) == pointInRegion(shot[k], list[i])
           Found(n) == {i \in D : \E k \in 1..n : Lies(k, i)}
<1>1. PICK f : Shots(f)
  BY HotspotSteps
<1>2. shot \in Seq(Spot)
  BY DEF AnswerInv, ValueOK, AreaOK
<1>3. N \in Nat /\ DOMAIN shot = 1..N /\ \A k \in 1..N : shot[k] \in Spot
  BY <1>2, LenProperties
<1>4. /\ IsFiniteSet(D) /\ Cardinality(D) = Len(list) /\ Len(list) \in Nat
  <2>1. list \in Seq(Range(list)) /\ Len(list) >= 1
    BY ArrangeKeys DEF AnswerInv, IsList
  <2>2. QED
    BY <2>1, ListHasSome
<1>5. \A k \in 1..N : \A i, j \in D : Lies(k, i) /\ Lies(k, j) => i = j
  BY <1>3 DEF AreasApart
<1>6. /\ f \in [0..N -> Tally] /\ f[0] = NoShots
      /\ \A n \in 1..N : f[n] = HitBy(f[n - 1], shot[n])
  BY <1>1 DEF Shots
<1>7. ASSUME NEW acc, NEW n PROVE Open(acc, shot[n]) = {i \in D \ acc.hit : Lies(n, i)}
  BY DEF Open
<1>8. AutoPart(definition, value)
        = Part(Cardinality(f[N].hit) - f[N].misses, Len(list), f[N].hit = D /\ f[N].misses = 0)
  BY <1>1 DEF Shots
<1>a. /\ \A g \in Range(list) : \E q \in Range(shot) : pointInRegion(q, g)
      <=> D = Found(N)
  <2>1. Range(list) = {list[i] : i \in D} /\ Range(shot) = {shot[k] : k \in 1..N}
    BY <1>3 DEF Range
  <2>2. (\A g \in Range(list) : \E q \in Range(shot) : pointInRegion(q, g))
        <=> \A i \in D : \E k \in 1..N : Lies(k, i)
    BY <2>1
  <2> HIDE DEF Lies
  <2>3. QED
    BY <2>2
<1> HIDE DEF list, D, shot, N, Lies
<1>b. \A acc \in Tally : acc.hit \subseteq D /\ acc.misses \in Nat /\ IsFiniteSet(acc.hit) /\ Cardinality(acc.hit) \in Nat
  <2>1. \A acc \in Tally : acc.hit \subseteq D /\ acc.misses \in Nat
    BY DEF Tally, D, list
  <2>2. QED
    BY <2>1, <1>4, Counts
<1> DEFINE T == {n \in 0..N : f[n].hit = Found(n) /\ Cardinality(f[n].hit) + f[n].misses = n}
<1>9. 0 \in T
  <2>1. Found(0) = {}
    OBVIOUS
  <2>2. f[0].hit = {} /\ f[0].misses = 0 /\ Cardinality({}) = 0
    BY <1>6, FS_EmptySet DEF NoShots
  <2> HIDE DEF Found
  <2>3. f[0].hit = Found(0) /\ Cardinality(f[0].hit) = 0
    BY <2>1, <2>2
  <2>4. Cardinality(f[0].hit) + f[0].misses = 0
    BY <2>2, <2>3
  <2>5. 0 \in 0..N
    BY <1>3
  <2>6. QED
    BY <2>3, <2>4, <2>5
<1>10. ASSUME NEW n \in 1..N, n - 1 \in T PROVE n \in T
  <2> DEFINE acc == f[n - 1]
             open == {i \in D \ acc.hit : Lies(n, i)}
  <2>1. /\ n \in 0..N /\ n - 1 \in 0..N /\ n \in Nat
        /\ acc.hit = Found(n - 1) /\ Cardinality(acc.hit) + acc.misses = n - 1
    BY <1>3, <1>10
  <2>2. acc \in Tally /\ f[n] = HitBy(acc, shot[n]) /\ Open(acc, shot[n]) = open
    BY <1>6, <1>7, <2>1
  <2>3. /\ acc.hit \subseteq D /\ acc.misses \in Nat /\ IsFiniteSet(acc.hit) /\ Cardinality(acc.hit) \in Nat
    BY <1>b, <2>2
  <2>4. Found(n) = Found(n - 1) \cup {i \in D : Lies(n, i)}
    BY <2>1
  <2>5. \A i, j \in D : Lies(n, i) /\ Lies(n, j) => i = j
    BY <1>5
  <2>6. /\ open = {} => f[n].hit = acc.hit /\ f[n].misses = acc.misses + 1
        /\ open # {} => \E i \in open : f[n].hit = acc.hit \cup {i} /\ f[n].misses = acc.misses
    BY <2>2, HitMeans DEF AnswerInv
  <2> HIDE DEF Found, acc
  <2>7. CASE open = {}
    <3>1. {i \in D : Lies(n, i)} \subseteq acc.hit
      BY <2>7
    <3>2. f[n].hit = Found(n)
      BY <2>1, <2>4, <2>6, <2>7, <3>1
    <3>3. Cardinality(f[n].hit) + f[n].misses = n
      BY <2>1, <2>3, <2>6, <2>7
    <3>4. QED
      BY <2>1, <3>2, <3>3
  <2>8. CASE open # {}
    <3>1. PICK i \in open : f[n].hit = acc.hit \cup {i} /\ f[n].misses = acc.misses
      BY <2>6, <2>8
    <3>2. i \in D /\ i \notin acc.hit /\ {j \in D : Lies(n, j)} = {i}
      BY <2>5
    <3>3. f[n].hit = Found(n)
      BY <2>1, <2>4, <3>1, <3>2
    <3>4. Cardinality(acc.hit \cup {i}) = Cardinality(acc.hit) + 1
      BY <2>3, <3>2, FS_AddElement
    <3>5. Cardinality(f[n].hit) + f[n].misses = n
      BY <2>1, <2>3, <3>1, <3>4
    <3>6. QED
      BY <2>1, <3>3, <3>5
  <2>9. QED
    BY <2>7, <2>8
<1>11. f[N].hit = Found(N) /\ Cardinality(f[N].hit) + f[N].misses = N /\ f[N] \in Tally
  <2> HIDE DEF T
  <2>1. 0..N \subseteq T
    BY <1>3, <1>9, <1>10, Upwards
  <2>2. N \in 0..N
    BY <1>3
  <2>3. QED
    BY <1>6, <2>1, <2>2 DEF T
<1> DEFINE hit == f[N].hit
           misses == f[N].misses
           exact == hit = D /\ misses = 0
<1>12. hit \subseteq D /\ misses \in Nat /\ Cardinality(hit) \in Nat
  BY <1>b, <1>11
<1> HIDE DEF hit, misses
<1>13. exact <=> N = Len(list) /\ D = Found(N)
  <2>1. hit = Found(N) /\ Cardinality(hit) + misses = N
    BY <1>11 DEF hit, misses
  <2>2. D = Found(N) <=> hit = D
    BY <2>1
  <2> DEFINE size == Cardinality(hit)
  <2>a. hit = D => size = Len(list)
    BY <1>4
  <2>b. size \in Nat /\ size + misses = N
    BY <1>12, <2>1
  <2> HIDE DEF size
  <2>3. hit = D => (misses = 0 <=> N = Len(list))
    BY <1>3, <1>4, <1>12, <2>a, <2>b
  <2>4. QED
    BY <2>2, <2>3
<1>14. AutoPart(definition, value) = Part(Cardinality(hit) - misses, Len(list), exact)
  BY <1>8 DEF hit, misses
<1> HIDE DEF exact
<1>15. AutoPart(definition, value).exact = exact
  BY <1>14, ExactIs
<1>16. QED
  BY <1>13, <1>15, <1>a DEF list, N, shot

LEMMA Cancels == ASSUME NEW k \in Nat \ {0}, NEW x \in Int, NEW y \in Int PROVE k * x <= k * y <=> x <= y
OBVIOUS

\* How far a number x is from y, and k times as far.
LEMMA AbsTimes ==
  ASSUME NEW d \in Nat \ {0}, NEW z \in Int
  PROVE  Abs(z * d) = d * Abs(z) /\ Abs(z) \in Nat
<1>1. CASE z < 0
  <2>1. z * d < 0 /\ -(z * d) = d * (-z)
    BY <1>1
  <2>2. QED
    BY <1>1, <2>1 DEF Abs
<1>2. CASE z >= 0
  <2>1. z * d >= 0 /\ z * d = d * z
    BY <1>2
  <2>2. QED
    BY <1>2, <2>1 DEF Abs
<1>3. QED
  BY <1>1, <1>2

\* NumberMatches in terms of the number x that n / d means.
LEMMA NumberAgrees ==
  ASSUME NEW n \in Nat, NEW d \in Nat \ {0}, NEW x \in Int, Res * n = x * d,
         NEW r, r.value = Null => r.min \in Int /\ r.max \in Int, r.value # Null => r.value \in Int,
         r.tolerance \in Int, r.toleranceMode \in {"absolute", "percent"}
  PROVE  NumberMatches(n, d, r) <=> Agrees(x, r)
<1>1. CASE r.value = Null
  <2>1. NumberMatches(n, d, r) <=> r.min * d <= x * d /\ x * d <= r.max * d
    BY <1>1 DEF NumberMatches
  <2> DEFINE low == r.min
             high == r.max
  <2>2. low \in Int /\ high \in Int
    BY <1>1
  <2> HIDE DEF low, high
  <2>3. low * d = d * low /\ high * d = d * high /\ x * d = d * x
    BY <2>2
  <2>4. d * low <= d * x <=> low <= x
    BY <2>2, Cancels
  <2>5. d * x <= d * high <=> x <= high
    BY <2>2, Cancels
  <2>6. NumberMatches(n, d, r) <=> x \in low..high
    BY <2>1, <2>2, <2>3, <2>4, <2>5 DEF low, high
  <2>7. QED
    BY <1>1, <2>6 DEF Agrees, low, high
<1>2. CASE r.value # Null
  <2> DEFINE y == r.value
             tol == r.tolerance
             off == Abs(Res * n - y * d)
             gap == Abs(x - y)
             span == Abs(y)
  <2>1. y \in Int /\ tol \in Int
    BY <1>2
  <2> HIDE DEF y, tol
  <2>2. Res * n - y * d = (x - y) * d
    BY <2>1
  <2>3. off = d * gap /\ gap \in Nat
    BY <2>1, <2>2, AbsTimes
  <2>4. span \in Nat
    BY <2>1 DEF Abs
  <2>5. NumberMatches(n, d, r) <=> IF r.toleranceMode = "percent" THEN 100 * off <= span * tol * d ELSE off <= tol * d
    BY <1>2 DEF NumberMatches, y, tol
  <2>6. Agrees(x, r) <=> IF r.toleranceMode = "absolute" THEN x \in y - tol..y + tol ELSE 100 * gap <= span * tol
    BY <1>2 DEF Agrees, y, tol
  <2>7. x \in y - tol..y + tol <=> gap <= tol
    BY <2>1 DEF Abs
  <2> HIDE DEF off, gap, span
  <2>8. off <= tol * d <=> gap <= tol
    <3>1. tol * d = d * tol
      BY <2>1
    <3>2. QED
      BY <2>1, <2>3, <3>1, Cancels
  <2>9. 100 * off <= span * tol * d <=> 100 * gap <= span * tol
    <3> DEFINE a == 100 * gap
               b == span * tol
    <3>1. a \in Int /\ b \in Int /\ 100 * off = d * a /\ span * tol * d = d * b
      BY <2>1, <2>3, <2>4
    <3> HIDE DEF a, b
    <3>2. d * a <= d * b <=> a <= b
      BY <3>1, Cancels
    <3>3. QED
      BY <3>1, <3>2 DEF a, b
  <2>10. CASE r.toleranceMode = "percent"
    BY <2>5, <2>6, <2>9, <2>10
  <2>11. CASE r.toleranceMode = "absolute"
    BY <2>5, <2>6, <2>7, <2>8, <2>11
  <2>12. QED
    BY <2>10, <2>11
<1>3. QED
  BY <1>1, <1>2

LEMMA NumbersDecide ==
  ASSUME Posed, Is("numeric"), NEW t \in Typed
  PROVE  NumericScore(t.word, definition.accepted) = Whole <=>
           \E r \in definition.accepted : r.score = Whole /\ t.word \in DOMAIN Reading /\ Agrees(Reading[t.word], r)
<1> DEFINE rules == definition.accepted
           v == parseNumericInput(t.word)
           n == v[1]
           d == v[2]
           x == Reading[t.word]
           scores == {r.score : r \in {q \in rules : NumberMatches(n, d, q)}}
<1>0. Whole \in Nat \ {0}
  BY GrainAssumption
<1>1. \A r \in rules : /\ NumericRuleOK(r) /\ {r.value, r.min, r.max} \subseteq Int \cup {Null}
                       /\ r.tolerance \in Int /\ r.toleranceMode \in {"absolute", "percent"}
  <2>1. definition \in Definition
    BY DEF Posed
  <2>2. QED
    BY <2>1, ChoiceKeys, DefinitionAssumption DEF Is
<1>2. CASE t.word \notin DOMAIN Reading
  <2>1. v = Null
    BY <1>2, ReadingAssumption
  <2>2. NumericScore(t.word, rules) = 0
    BY <2>1 DEF NumericScore
  <2>3. QED
    BY <1>0, <1>2, <2>2
<1>3. CASE t.word \in DOMAIN Reading
  <2>1. v \in Nat \X (Nat \ {0}) /\ x \in Int /\ Res * n = x * d
    BY <1>3, ReadingAssumption
  <2>2. n \in Nat /\ d \in Nat \ {0}
    BY <2>1
  <2>3. NumericScore(t.word, rules) = IF v = Null THEN 0 ELSE Best(scores)
    BY DEF NumericScore, matchNumeric
  <2>4. v # Null
    <3>1. v \in Int \X Int
      BY <2>1
    <3> HIDE DEF v
    <3>2. QED
      BY <3>1, NullAssumption
  <2> HIDE DEF v, n, d, x
  <2>5. ASSUME NEW r \in rules PROVE NumberMatches(n, d, r) <=> Agrees(x, r)
    <3>1. /\ r.value = Null => r.min \in Int /\ r.max \in Int
          /\ r.value # Null => r.value \in Int
      BY <1>1 DEF NumericRuleOK
    <3>2. QED
      BY <1>1, <2>1, <2>2, <3>1, NumberAgrees
  <2>6. scores \subseteq 0..Whole
    BY <1>1 DEF NumericRuleOK
  <2>7. Whole \in scores <=> \E r \in rules : r.score = Whole /\ NumberMatches(n, d, r)
    OBVIOUS
  <2> HIDE DEF scores
  <2>8. Best(scores) = Whole <=> Whole \in scores
    BY <2>6, BestFits
  <2>9. QED
    BY <1>3, <2>3, <2>4, <2>5, <2>7, <2>8 DEF x
<1>4. QED
  BY <1>2, <1>3

LEMMA KeyDecidesHolds == AnswerInv => KeyDecides
<1> SUFFICES ASSUME AnswerInv, Grade.status = "graded"
             PROVE  /\ HasFacts /\ KeyIsSet => (Grade.correct <=> Facts(value) = KeyFacts)
                    /\ Is("hotspot") /\ AreasApart => (Grade.correct <=>
                         /\ Len(value.points) = Len(definition.regions)
                         /\ \A g \in Range(definition.regions) : \E q \in Range(value.points) : pointInRegion(q, g))
                    /\ Grade.correct => Grade.score = Round(scoring.points, 1)
  BY DEF KeyDecides
<1> DEFINE p == AutoPart(definition, value)
<1>1. /\ value # Null /\ ~isEmptyResponse(definition, value) /\ PartOK(p) /\ ScoringFits(scoring)
      /\ Grade = Graded(p, scoring)
  BY GradesAreParts DEF PartOfGrade
<1>2. Answers(value) /\ Posed
  BY <1>1 DEF AnswerInv, ValueOK, Answers
<1>3. ASSUME HasFacts, KeyIsSet PROVE p.exact <=> Facts(value) = KeyFacts
  BY <1>1, <1>2, <1>3, FactsDecide DEF Decides
<1>4. ASSUME Is("hotspot"), AreasApart
      PROVE  p.exact <=>
               /\ Len(value.points) = Len(definition.regions)
               /\ \A g \in Range(definition.regions) : \E q \in Range(value.points) : pointInRegion(q, g)
  BY <1>1, <1>4, HotspotDecides
<1> HIDE DEF p
<1>5. Grade.correct = p.exact
  BY <1>1, GradedIs
<1>6. ASSUME p.exact PROVE Grade.score = Round(scoring.points, 1)
  BY <1>1, <1>6, ExactIsAll
<1>7. QED
  BY <1>3, <1>4, <1>5, <1>6

LEMMA NumberDecidesHolds == AnswerInv => NumberDecides
<1> SUFFICES ASSUME AnswerInv, Grade.status = "graded", Is("numeric")
             PROVE  Grade.correct <=> \E r \in definition.accepted :
                      r.score = Whole /\ value.value.word \in DOMAIN Reading /\ Agrees(Reading[value.value.word], r)
  BY DEF NumberDecides
<1> DEFINE p == AutoPart(definition, value)
           t == value.value
           n == NumericScore(t.word, definition.accepted)
<1>1. /\ value # Null /\ ~isEmptyResponse(definition, value) /\ PartOK(p) /\ Grade = Graded(p, scoring)
  BY GradesAreParts DEF PartOfGrade
<1>2. t \in Typed
  <2>1. t \in Typed \cup {Null}
    BY <1>1 DEF AnswerInv, ValueOK, ChoiceOK
  <2>2. ~IsBlank(t)
    BY <1>1 DEF isEmptyResponse, Is
  <2>3. QED
    BY <2>1, <2>2 DEF IsBlank
<1>3. p = Part(n, Whole, n = Whole)
  BY DEF AutoPart, Is, WeightPart
<1>4. n = Whole <=> \E r \in definition.accepted :
        r.score = Whole /\ t.word \in DOMAIN Reading /\ Agrees(Reading[t.word], r)
  BY <1>2, NumbersDecide DEF AnswerInv
<1> DEFINE exact == n = Whole
<1>5. p.exact = exact
  BY <1>3, ExactIs
<1> HIDE DEF p, n
<1>6. Grade.correct = p.exact
  BY <1>1, GradedIs
<1>7. QED
  BY <1>4, <1>5, <1>6

\* FullMarksIffRight, for any questions and answers: gradeResponse calls an answer correct, and
\* gives it all the points, exactly if its facts are those of the key (the areas are hit one by
\* one, the number is accepted), however the participant came by it.
THEOREM FullMarksForTheKey == Spec => []FullMarksIffRight
<1>1. AnswerInv => FullMarksIffRight
  BY KeyDecidesHolds, NumberDecidesHolds DEF FullMarksIffRight
<1>2. QED
  BY Invariant, <1>1, PTL
(***************************************************************************)
(* The answer that the key asks for.                                        *)
(***************************************************************************)
LEMMA InOrderAll ==
  ASSUME NEW S, NEW list \in Seq(S), NEW set, Range(list) \subseteq set
  PROVE  InOrder(list, set) = list
<1> DEFINE N == Len(list)
<1>0. N \in Nat /\ DOMAIN list = 1..N /\ list \in [1..N -> S] /\ \A i \in 1..N : list[i] \in set
  BY LenProperties DEF Range
<1>1. PICK f : Selects(f, list, set, S)
  BY InOrderSteps
<1>2. /\ f \in [0..N -> Seq(S)] /\ f[0] = <<>> /\ InOrder(list, set) = f[N]
      /\ \A n \in 1..N : f[n] = Append(f[n - 1], list[n])
  BY <1>0, <1>1 DEF Selects
<1> HIDE DEF N
<1> DEFINE T == {n \in 0..N : Len(f[n]) = n /\ \A i \in 1..n : f[n][i] = list[i]}
<1>3. 0 \in T
  BY <1>0, <1>2
<1>4. ASSUME NEW n \in 1..N, n - 1 \in T PROVE n \in T
  <2>1. /\ n \in 0..N /\ n - 1 \in 0..N /\ n \in Nat /\ f[n - 1] \in Seq(S) /\ list[n] \in S
        /\ Len(f[n - 1]) = n - 1 /\ \A i \in 1..n - 1 : f[n - 1][i] = list[i]
        /\ f[n] = Append(f[n - 1], list[n])
    <3>1. n \in 0..N /\ n - 1 \in 0..N /\ n \in Nat
      BY <1>0
    <3>2. Len(f[n - 1]) = n - 1 /\ \A i \in 1..n - 1 : f[n - 1][i] = list[i]
      BY <1>4
    <3> HIDE DEF T
    <3>3. f[n - 1] \in Seq(S) /\ list[n] \in S
      BY <1>0, <1>2, <3>1
    <3>4. QED
      BY <1>2, <3>1, <3>2, <3>3
  <2> DEFINE s == f[n - 1]
             t == f[n]
             e == list[n]
  <2>2. s \in Seq(S) /\ e \in S /\ t = Append(s, e) /\ Len(s) = n - 1
    BY <2>1
  <2> HIDE DEF s, t, e
  <2>3. Len(t) = n /\ t[n] = e /\ \A i \in 1..n - 1 : t[i] = s[i]
    BY <2>1, <2>2, AppendProperties, LenProperties
  <2>4. \A i \in 1..n : t[i] = list[i]
    <3>1. \A i \in 1..n : i = n \/ i \in 1..n - 1
      BY <2>1
    <3>2. QED
      BY <2>1, <2>3, <3>1 DEF s, e
  <2>5. QED
    BY <2>1, <2>3, <2>4 DEF t
<1>5. N \in T
  <2> HIDE DEF T
  <2>1. 0..N \subseteq T
    BY <1>0, <1>3, <1>4, Upwards
  <2>2. QED
    BY <1>0, <2>1
<1> DEFINE t == f[N]
<1>6. t \in Seq(S) /\ Len(t) = N /\ \A i \in 1..N : t[i] = list[i]
  BY <1>0, <1>2, <1>5
<1> HIDE DEF t
<1>7. t \in [1..N -> S]
  BY <1>6, LenProperties
<1>8. t = list
  BY <1>0, <1>6, <1>7
<1>9. QED
  BY <1>2, <1>8 DEF t

\* Maps that say the same have the same entries.
LEMMA EntriesAgree ==
  ASSUME NEW f, NEW g, \A x : At(f, x) = At(g, x)
  PROVE  Entries(f) = Entries(g)
<1>1. ASSUME NEW h, NEW k, \A x : At(h, x) = At(k, x), NEW x \in DOMAIN h, h[x] # Null
      PROVE  x \in DOMAIN k /\ k[x] = h[x]
  BY <1>1 DEF At
<1>2. \A x \in DOMAIN f : f[x] # Null => x \in DOMAIN g /\ g[x] = f[x]
  BY <1>1
<1>3. \A x \in DOMAIN g : g[x] # Null => x \in DOMAIN f /\ f[x] = g[x]
  BY <1>1
<1>4. QED
  BY <1>2, <1>3 DEF Entries

LEMMA CellsAgree ==
  ASSUME NEW f, NEW g, \A row : RowOf(f, row) = RowOf(g, row)
  PROVE  Cells(f) = Cells(g)
<1>1. \A x, y : <<x, y>> \in Cells(f) <=> <<x, y>> \in Cells(g)
  BY CellsMean
<1>2. \A c : c \in Cells(f) \/ c \in Cells(g) => \E x, y : c = <<x, y>>
  BY CellsMean
<1>3. QED
  BY <1>1, <1>2

\* The converse of ClearedIsEmpty.
LEMMA EmptyHasNoFacts ==
  ASSUME HasFacts, NEW v, v # Null, isEmptyResponse(definition, v)
  PROVE  Facts(v) = {}
<1>1. CASE Is("single_choice")
  BY <1>1 DEF isEmptyResponse, Facts, Is
<1>2. CASE Is("multiple_choice")
  BY <1>2 DEF isEmptyResponse, Facts, Is, Range
<1>3. CASE Is("true_false")
  BY <1>3 DEF isEmptyResponse, Facts, Is
<1>4. CASE Is("multiple_true_false")
  BY <1>4 DEF isEmptyResponse, Facts, Is, AllAre, Entries
<1>5. CASE Is("matching")
  BY <1>5 DEF isEmptyResponse, Facts, Is, PairsOf, Range
<1>6. CASE Is("ordering")
  BY <1>6 DEF isEmptyResponse, Facts, Is, Entries
<1>7. CASE Is("categorization")
  BY <1>7 DEF isEmptyResponse, Facts, Is, AllAre, Entries
<1>8. CASE Is("hot_text")
  BY <1>8 DEF isEmptyResponse, Facts, Is, Range
<1>9. CASE Is("matrix")
  <2>1. AllAre(<<>>, v.selections) /\ Facts(v) = Cells(v.selections)
    BY <1>9 DEF isEmptyResponse, Facts, Is
  <2>2. \A row \in DOMAIN v.selections : Range(v.selections[row]) = {}
    BY <2>1 DEF AllAre, Range
  <2>3. \A row : RowOf(v.selections, row) = {}
    BY <2>2 DEF RowOf
  <2>4. Cells(v.selections) = {}
    BY <2>3, CellsMean
  <2>5. QED
    BY <2>1, <2>4
<1>10. QED
  BY <1>1, <1>2, <1>3, <1>4, <1>5, <1>6, <1>7, <1>8, <1>9
  DEF HasFacts, Is, QUESTION_TYPES, ChoiceTypes, TextTypes, ArrangeTypes, AreaTypes

\* It is an answer that the display could have made, and its facts are those of the key.
FullFits(v) == Answers(v) /\ Facts(v) = KeyFacts

LEMMA ChoicesFull ==
  ASSUME Posed, HasFacts, KeyAllowed, NEW v, v = Full(definition),
         Is("single_choice") \/ Is("true_false") \/ Is("multiple_choice") \/ Is("multiple_true_false")
  PROVE  FullFits(v)
<1>1. CASE Is("single_choice")
  <2>1. v = [optionId |-> definition.correct]
    BY <1>1 DEF Full, Is
  <2>2. definition.correct \in Range(definition.options) /\ definition.correct # Null
    BY <1>1, KeysMean
  <2>3. Answers(v)
    BY <1>1, <2>1, <2>2 DEF Is, Answers, ChoiceOK, ArrangeOK, AreaOK
  <2>4. Facts(v) = KeyFacts
    BY <1>1, <2>1, <2>2 DEF Is, Facts, KeyFacts
  <2>5. QED
    BY <2>3, <2>4 DEF FullFits
<1>2. CASE Is("true_false")
  <2>1. v = [value |-> definition.answer]
    BY <1>2 DEF Full, Is
  <2>2. definition.answer # Null
    <3>1. ChoiceShape(definition)
      BY <1>2 DEF Posed, Is, QuestionDefinition, ManualTypes, ChoiceTypes, TextTypes, ArrangeTypes, AreaTypes
    <3>2. definition.answer \in BOOLEAN
      BY <1>2, <3>1 DEF Is, ChoiceShape
    <3>3. QED
      BY <3>2, NullAssumption
  <2>3. Answers(v)
    BY <1>2 DEF Is, Answers, ChoiceOK, ArrangeOK, AreaOK
  <2>4. Facts(v) = KeyFacts
    BY <1>2, <2>1, <2>2 DEF Is, Facts, KeyFacts
  <2>5. QED
    BY <2>3, <2>4 DEF FullFits
<1>3. CASE Is("multiple_choice")
  <2> DEFINE S == Range(definition.options)
             K == Range(definition.keys)
             t == InOrder(definition.options, K)
  <2>1. v = [optionIds |-> t]
    BY <1>3 DEF Full, Is
  <2>2. definition.options \in Seq(S) /\ Unique(definition.options) /\ K \subseteq S
    BY <1>3, QuestionMeans, KeysMean DEF List
  <2>3. t \in Seq(S) /\ Unique(t) /\ Range(t) = K
    <3>1. t \in Seq(S) /\ Range(t) = Range(definition.options) \cap K /\ (Unique(definition.options) => Unique(t))
      BY <2>2, InOrderKeeps
    <3>2. QED
      BY <2>2, <3>1
  <2>4. definition.max = Null \/ Cardinality(K) <= definition.max
    BY <1>3 DEF Is, KeyAllowed
  <2> HIDE DEF t, S
  <2>5. Cardinality(K) = Len(t)
    BY <2>3, RangeIsFinite
  <2>6. List(t, S) /\ AtMost(t, definition.max)
    BY <2>3, <2>4, <2>5 DEF List, AtMost
  <2>7. v.optionIds = t
    BY <2>1
  <2>8. Answers(v)
    BY <1>3, <2>6, <2>7 DEF Is, Answers, ChoiceOK, ArrangeOK, AreaOK, S
  <2>9. Facts(v) = KeyFacts
    BY <1>3, <2>3, <2>7 DEF Is, Facts, KeyFacts
  <2>10. QED
    BY <2>8, <2>9 DEF FullFits
<1>4. CASE Is("multiple_true_false")
  <2> DEFINE K == Range(definition.statements)
             f == [s \in K |-> definition.answers[s]]
  <2>1. v = [values |-> f]
    BY <1>4 DEF Full, Is
  <2>2. DOMAIN definition.answers = K
    BY <1>4, KeysMean
  <2>3. \A x : At(f, x) = At(definition.answers, x)
    BY <2>2 DEF At
  <2>4. DOMAIN f = K
    OBVIOUS
  <2> HIDE DEF f
  <2>5. Entries(f) = Entries(definition.answers)
    BY <2>3, EntriesAgree
  <2>6. v.values = f
    BY <2>1
  <2>7. Answers(v)
    BY <1>4, <2>4, <2>6 DEF Is, Answers, ChoiceOK, ArrangeOK, AreaOK
  <2>8. Facts(v) = KeyFacts
    BY <1>4, <2>5, <2>6 DEF Is, Facts, KeyFacts
  <2>9. QED
    BY <2>7, <2>8 DEF FullFits
<1>5. QED
  BY <1>1, <1>2, <1>3, <1>4

LEMMA MatchingFull ==
  ASSUME Posed, NEW v, v = Full(definition), Is("matching")
  PROVE  FullFits(v)
<1> DEFINE pairs == definition.pairs
           t == InOrder(pairs, PairSet)
<1>1. v = [pairs |-> t]
  BY DEF Full, Is, PairSet
<1>2. /\ pairs \in Seq(Range(pairs)) /\ Unique(Lefts(pairs)) /\ (definition.reuse \/ Unique(Rights(pairs)))
      /\ Range(Lefts(pairs)) \subseteq Range(definition.left)
      /\ Range(Rights(pairs)) \subseteq Range(definition.right)
      /\ \A p \in Range(pairs) : p = [leftId |-> p.leftId, rightId |-> p.rightId]
  <2>1. MatchingConsistent(definition)
    BY DEF Posed, Is, QuestionDefinition, checkConsistency, ManualTypes
  <2>2. IsList(pairs) /\ \A p \in Range(pairs) : p = [leftId |-> p.leftId, rightId |-> p.rightId]
    BY DefinitionAssumption DEF Posed, Is
  <2>3. QED
    BY <2>1, <2>2 DEF MatchingConsistent, IsList
<1> HIDE DEF pairs
<1>3. Range(pairs) \subseteq PairSet
  <2>1. ASSUME NEW i \in DOMAIN pairs PROVE pairs[i] \in PairSet
    <3>1. Lefts(pairs)[i] = pairs[i].leftId /\ Rights(pairs)[i] = pairs[i].rightId
      BY DEF Lefts, Rights
    <3>2. DOMAIN Lefts(pairs) = DOMAIN pairs /\ DOMAIN Rights(pairs) = DOMAIN pairs
      BY DEF Lefts, Rights
    <3>3. pairs[i].leftId \in Range(Lefts(pairs)) /\ pairs[i].rightId \in Range(Rights(pairs))
      BY <3>1, <3>2 DEF Range
    <3>4. pairs[i] = [leftId |-> pairs[i].leftId, rightId |-> pairs[i].rightId]
      BY <1>2 DEF Range
    <3>5. QED
      BY <1>2, <3>3, <3>4 DEF PairSet
  <2>2. QED
    BY <2>1 DEF Range
<1>4. pairs \in Seq(PairSet)
  <2>1. Len(pairs) \in Nat /\ DOMAIN pairs = 1..Len(pairs) /\ pairs \in [1..Len(pairs) -> Range(pairs)]
    BY <1>2, LenProperties
  <2>2. pairs \in [1..Len(pairs) -> PairSet]
    BY <1>3, <2>1
  <2>3. QED
    BY <2>1, <2>2, IsASeq
<1>5. t = pairs
  BY <1>3, <1>4, InOrderAll
<1> HIDE DEF t
<1>6. v.pairs = pairs
  BY <1>1, <1>5
<1>7. Answers(v)
  BY <1>2, <1>4, <1>6 DEF Is, Answers, ChoiceOK, ArrangeOK, AreaOK
<1>8. Facts(v) = KeyFacts
  BY <1>6 DEF Is, Facts, KeyFacts, pairs
<1>9. QED
  BY <1>7, <1>8 DEF FullFits

LEMMA OrderFull ==
  ASSUME Posed, NEW v, v = Full(definition), Is("ordering")
  PROVE  FullFits(v)
<1> DEFINE S == Range(definition.items)
           t == InOrder(definition.order, S)
<1>1. v = [order |-> t]
  BY DEF Full, Is
<1>2. List(definition.order, S) /\ Range(definition.order) = S
  BY KeysMean
<1>3. t = definition.order
  BY <1>2, InOrderAll DEF List
<1> HIDE DEF t
<1>4. v.order = definition.order
  BY <1>1, <1>3
<1>5. Answers(v)
  BY <1>2, <1>4 DEF Is, Answers, ChoiceOK, ArrangeOK, AreaOK
<1>6. Facts(v) = KeyFacts
  BY <1>4 DEF Is, Facts, KeyFacts
<1>7. QED
  BY <1>5, <1>6 DEF FullFits

LEMMA MappingFull ==
  ASSUME Posed, NEW v, v = Full(definition), Is("categorization")
  PROVE  FullFits(v)
<1> DEFINE K == Range(definition.items)
           C == Range(definition.categories)
           key == definition.mapping
           f == [i \in K |-> IF At(key, i) \in C THEN key[i] ELSE Null]
<1>1. v = [mapping |-> f]
  BY DEF Full, Is
<1>2. DOMAIN key \subseteq K /\ \A i \in DOMAIN key : key[i] \in C
  BY KeysMean
<1>3. Null \notin C
  BY DefinitionAssumption DEF Posed, Is, IsList
<1> HIDE DEF K, C, key
<1>4. \A x : At(f, x) = At(key, x)
  BY <1>2, <1>3 DEF At
<1>5. DOMAIN f = K
  OBVIOUS
<1> HIDE DEF f
<1>6. Entries(f) = Entries(key)
  BY <1>4, EntriesAgree
<1>7. v.mapping = f
  BY <1>1
<1>8. Answers(v)
  BY <1>5, <1>7 DEF Is, Answers, ChoiceOK, ArrangeOK, AreaOK, K
<1>9. Facts(v) = KeyFacts
  BY <1>6, <1>7 DEF Is, Facts, KeyFacts, key
<1>10. QED
  BY <1>8, <1>9 DEF FullFits

LEMMA HotTextFull ==
  ASSUME Posed, KeyAllowed, NEW v, v = Full(definition), Is("hot_text")
  PROVE  FullFits(v)
<1> DEFINE K == Range(definition.keys)
           selectable == {s.id : s \in {t \in Range(definition.segments) : t.selectable}}
           t == InOrder(SegmentIds, K \cap selectable)
<1>1. v = [segmentIds |-> t]
  BY DEF Full, Is, SegmentIds
<1>2. K \subseteq selectable
  <2>1. HotTextConsistent(definition)
    BY DEF Posed, Is, QuestionDefinition, checkConsistency, ManualTypes
  <2>2. QED
    BY <2>1 DEF HotTextConsistent
<1>3. /\ SegmentIds \in Seq(Range(SegmentIds)) /\ Unique(SegmentIds) /\ K \subseteq Range(SegmentIds)
      /\ definition.max = Null \/ Cardinality(K) <= definition.max
  BY QuestionMeans, KeysMean DEF List, Is, KeyAllowed
<1> HIDE DEF K, selectable
<1>4. t \in Seq(Range(SegmentIds)) /\ Unique(t) /\ Range(t) = K
  <2>1. K \cap selectable = K
    BY <1>2
  <2>2. /\ t \in Seq(Range(SegmentIds)) /\ Range(t) = Range(SegmentIds) \cap (K \cap selectable)
        /\ Unique(SegmentIds) => Unique(t)
    BY <1>3, InOrderKeeps
  <2>3. QED
    BY <1>3, <2>1, <2>2
<1> HIDE DEF t
<1>5. Cardinality(K) = Len(t)
  BY <1>4, RangeIsFinite
<1>6. List(t, Range(SegmentIds)) /\ AtMost(t, definition.max)
  BY <1>3, <1>4, <1>5 DEF List, AtMost
<1>7. v.segmentIds = t
  BY <1>1
<1>8. Answers(v)
  BY <1>6, <1>7 DEF Is, Answers, ChoiceOK, ArrangeOK, AreaOK
<1>9. Facts(v) = KeyFacts
  BY <1>4, <1>7 DEF Is, Facts, KeyFacts, K
<1>10. QED
  BY <1>8, <1>9 DEF FullFits

LEMMA MatrixFull ==
  ASSUME Posed, HasFacts, KeyIsSet, NEW v, v = Full(definition), Is("matrix")
  PROVE  FullFits(v)
<1> DEFINE key == definition.correct
           R == Range(definition.rows)
           C == Range(definition.columns)
           f == [row \in R |-> RowKey(definition, row)]
<1>1. v = [selections |-> f]
  BY DEF Full, Is
<1>2. /\ DOMAIN key \subseteq R
      /\ \A row \in DOMAIN key : /\ key[row] \in Seq(Range(key[row])) /\ Range(key[row]) \subseteq C
                                 /\ definition.many \/ Len(key[row]) <= 1
                                 /\ Unique(key[row])
  <2>1. key # Null
    BY DEF HasFacts
  <2>2. MatrixConsistent(definition)
    BY DEF Posed, Is, QuestionDefinition, checkConsistency, ManualTypes
  <2>3. \A row \in DOMAIN key : IsList(key[row])
    BY <2>1, DefinitionAssumption DEF Posed, Is
  <2>4. \A row \in DOMAIN key : Unique(key[row])
    BY DEF KeyIsSet
  <2>5. QED
    BY <2>1, <2>2, <2>3, <2>4 DEF MatrixConsistent, IsList
<1>3. \A row : RowKey(definition, row) = IF row \in DOMAIN key THEN key[row] ELSE <<>>
  BY DEF RowKey
<1> HIDE DEF key, R, C
<1>4. ASSUME NEW row \in R
      PROVE  List(f[row], C) /\ (definition.many \/ Len(f[row]) <= 1)
  <2> DEFINE s == key[row]
  <2>1. CASE row \in DOMAIN key
    <3>1. s \in Seq(Range(s)) /\ Range(s) \subseteq C /\ Unique(s) /\ (definition.many \/ Len(s) <= 1) /\ f[row] = s
      BY <1>2, <1>3, <2>1
    <3> HIDE DEF s, f
    <3>2. Len(s) \in Nat /\ s \in [1..Len(s) -> Range(s)]
      BY <3>1, LenProperties
    <3>3. s \in [1..Len(s) -> C]
      BY <3>1, <3>2
    <3>4. s \in Seq(C)
      BY <3>2, <3>3, IsASeq
    <3>5. QED
      BY <3>1, <3>4 DEF List
  <2>2. CASE row \notin DOMAIN key
    <3>1. f[row] = <<>>
      BY <1>3, <2>2
    <3>2. <<>> \in Seq(C) /\ Unique(<<>>) /\ Len(<<>>) = 0
      BY DEF Unique
    <3> HIDE DEF f
    <3>3. QED
      BY <3>1, <3>2 DEF List
  <2>3. QED
    BY <2>1, <2>2
<1>5. ASSUME NEW row PROVE RowOf(f, row) = RowOf(key, row)
  <2>1. CASE row \in DOMAIN key
    <3>1. row \in DOMAIN f /\ f[row] = key[row]
      BY <1>2, <1>3, <2>1
    <3> HIDE DEF f
    <3>2. QED
      BY <2>1, <3>1 DEF RowOf
  <2>2. CASE row \in R /\ row \notin DOMAIN key
    <3>1. row \in DOMAIN f /\ f[row] = <<>>
      BY <1>3, <2>2
    <3>2. Range(<<>>) = {}
      BY DEF Range
    <3> HIDE DEF f
    <3>3. QED
      BY <2>2, <3>1, <3>2 DEF RowOf
  <2>3. CASE row \notin R
    <3>1. row \notin DOMAIN f /\ row \notin DOMAIN key
      BY <1>2, <2>3
    <3> HIDE DEF f
    <3>2. QED
      BY <3>1 DEF RowOf
  <2>4. QED
    BY <2>1, <2>2, <2>3
<1>6. DOMAIN f = R
  OBVIOUS
<1> HIDE DEF f
<1>7. Cells(f) = Cells(key)
  BY <1>5, CellsAgree
<1>8. v.selections = f
  BY <1>1
<1>9. Answers(v)
  BY <1>4, <1>6, <1>8 DEF Is, Answers, ChoiceOK, ArrangeOK, AreaOK, R, C
<1>10. Facts(v) = KeyFacts
  BY <1>7, <1>8 DEF Is, Facts, KeyFacts, key
<1>11. QED
  BY <1>9, <1>10 DEF FullFits

LEMMA FactsFull ==
  ASSUME Posed, HasFacts, KeyIsSet, KeyAllowed, NEW v, v = Full(definition)
  PROVE  FullFits(v)
BY ChoicesFull, MatchingFull, OrderFull, MappingFull, HotTextFull, MatrixFull
DEF HasFacts, Is, QUESTION_TYPES, ChoiceTypes, TextTypes, ArrangeTypes, AreaTypes

\* An answer with the facts of the key is right also if both have none.
LEMMA FullIsExact ==
  ASSUME Posed, HasFacts, KeyIsSet, NEW v, v # Null, FullFits(v)
  PROVE  /\ AutoPart(definition, v).exact
         /\ isEmptyResponse(definition, v) => KeyFacts = {}
<1>1. Answers(v) /\ Facts(v) = KeyFacts
  BY DEF FullFits
<1>2. isEmptyResponse(definition, v) => KeyFacts = {}
  BY <1>1, EmptyHasNoFacts
<1>3. CASE ~isEmptyResponse(definition, v)
  <2>1. Decides(v)
    BY <1>1, <1>3, FactsDecide
  <2>2. QED
    BY <1>1, <1>2, <2>1 DEF Decides
<1>4. CASE isEmptyResponse(definition, v)
  <2>1. KeyFacts = {}
    BY <1>2, <1>4
  <2>2. ~Is("single_choice") /\ ~Is("true_false")
    BY <2>1 DEF KeyFacts, Is
  <2>3. ~Is("multiple_choice") /\ ~Is("hot_text")
    <3>1. Is("multiple_choice") \/ Is("hot_text") => Range(definition.keys) # {}
      BY ChoiceKeys, ArrangeKeys, ListHasSome DEF IsList
    <3>2. Is("multiple_choice") \/ Is("hot_text") => KeyFacts = Range(definition.keys)
      BY DEF KeyFacts, Is
    <3>3. QED
      BY <2>1, <3>1, <3>2
  <2>4. Is("matching") => v.pairs \in Seq(PairSet) /\ Unique(Lefts(v.pairs))
    BY <1>1 DEF Answers, ArrangeOK
  <2>5. \/ Is("multiple_true_false") \/ Is("ordering") \/ Is("categorization") \/ Is("matching")
        \/ Is("matrix") /\ definition.correct # Null
    BY <2>2, <2>3 DEF HasFacts, Is, QUESTION_TYPES, ChoiceTypes, TextTypes, ArrangeTypes, AreaTypes
  <2>6. Decides(v)
    <3>1. CASE Is("multiple_true_false")
      BY <1>1, <3>1, TrueFalseIsMap, MapsDecide
    <3>2. CASE Is("ordering")
      BY <1>1, <3>2, OrderIsMap, MapsDecide
    <3>3. CASE Is("categorization")
      BY <1>1, <3>3, MappingIsMap, MapsDecide
    <3>4. CASE Is("matching")
      BY <2>4, <3>4, PairsAreMapGrade, MapsDecide
    <3>5. CASE Is("matrix") /\ definition.correct # Null
      BY <1>1, <3>5, MatrixDecides
    <3>6. QED
      BY <2>5, <3>1, <3>2, <3>3, <3>4, <3>5
  <2>7. QED
    BY <1>1, <1>2, <2>6 DEF Decides
<1>5. QED
  BY <1>3, <1>4

LEMMA TotalOfWhole ==
  ASSUME NEW marks \in Seq(Int), \A i \in 1..Len(marks) : marks[i] = Whole
  PROVE  Total(marks) = Whole * Len(marks)
<1> DEFINE N == Len(marks)
<1>1. PICK f : Sums(f, marks)
  BY TotalSteps
<1>2. /\ N \in Nat /\ Whole \in Nat /\ f[0] = 0 /\ Total(marks) = f[N]
      /\ \A n \in 1..N : f[n] = f[n - 1] + Whole
  BY <1>1, LenProperties, GrainAssumption DEF Sums
<1> HIDE DEF N
<1> DEFINE T == {n \in 0..N : f[n] = Whole * n}
<1>3. 0 \in T
  BY <1>2
<1>4. ASSUME NEW n \in 1..N, n - 1 \in T PROVE n \in T
  <2>1. n \in 0..N /\ n \in Nat /\ f[n - 1] = Whole * (n - 1)
    BY <1>2, <1>4
  <2>2. f[n] = Whole * (n - 1) + Whole
    BY <1>2, <2>1
  <2>3. Whole * (n - 1) + Whole = Whole * n
    BY <1>2, <2>1
  <2>4. QED
    BY <2>1, <2>2, <2>3
<1>5. N \in T
  <2> HIDE DEF T
  <2>1. 0..N \subseteq T
    BY <1>2, <1>3, <1>4, Upwards
  <2>2. QED
    BY <1>2, <2>1
<1>6. QED
  BY <1>2, <1>5 DEF N

\* What fills a blank counts in full and is an answer.
LEMMA FillsCount ==
  ASSUME Posed, Is("fill_blanks"), NEW b \in Range(definition.blanks), NEW x \in Fills(definition, b)
  PROVE  BlankScore(b, definition.keys[b.id], x) = Whole /\ ~IsBlank(x)
<1> DEFINE key == definition.keys[b.id]
<1>1. /\ b.kind \in BlankKinds
      /\ \A o \in definition.wordBank \cup b.options : ~IsBlank(o)
  BY DefinitionAssumption DEF Posed, Is
<1>2. CASE b.kind \in {"dropdown", "word_bank"}
  <2>1. x \in key.optionIds /\ x \in definition.wordBank \cup b.options
    BY <1>2 DEF Fills
  <2>2. ~IsBlank(x) /\ x # Null
    BY <1>1, <2>1 DEF IsBlank
  <2>3. BlankScore(b, key, x) = Whole
    BY <1>2, <2>1, <2>2 DEF BlankScore
  <2>4. QED
    BY <2>2, <2>3
<1>3. CASE b.kind \in {"text", "numeric"}
  BY <1>3 DEF Fills
<1>4. QED
  BY <1>1, <1>2, <1>3 DEF BlankKinds

LEMMA FilledCounts ==
  ASSUME Posed, Is("fill_blanks"), Fillable, NEW b \in Range(definition.blanks)
  PROVE  Filled(definition, b.id) \in Fills(definition, b)
<1> DEFINE key == definition.keys[b.id]
           fills == UNION {Fills(definition, c) : c \in {e \in Range(definition.blanks) : e.id = b.id}}
<1>1. BlankConsistent(definition, b)
  <2>1. FillBlanksConsistent(definition)
    BY DEF Posed, Is, QuestionDefinition, checkConsistency, ManualTypes
  <2>2. QED
    BY <2>1 DEF FillBlanksConsistent
<1>2. Fills(definition, b) # {}
  <2>1. CASE b.kind = "dropdown"
    <3>1. key.optionIds # {} /\ key.optionIds \subseteq b.options
      BY <1>1, <2>1 DEF BlankConsistent
    <3>2. Fills(definition, b) = key.optionIds \cap b.options
      BY <2>1 DEF Fills
    <3>3. QED
      BY <3>1, <3>2
  <2>2. CASE b.kind = "word_bank"
    <3>1. key.optionIds # {} /\ key.optionIds \subseteq definition.wordBank
      BY <1>1, <2>2 DEF BlankConsistent
    <3>2. Fills(definition, b) = key.optionIds \cap definition.wordBank
      BY <2>2 DEF Fills
    <3>3. QED
      BY <3>1, <3>2
  <2>3. CASE b.kind \in {"text", "numeric"}
    BY <2>3 DEF Fillable
  <2>4. b.kind \in {"text", "numeric", "dropdown", "word_bank"}
    BY ArrangeKeys DEF BlankKinds
  <2>5. QED
    BY <2>1, <2>2, <2>3, <2>4
<1>3. {e \in Range(definition.blanks) : e.id = b.id} = {b}
  BY QuestionMeans
<1>4. fills = Fills(definition, b)
  BY <1>3
<1>5. Filled(definition, b.id) = IF fills = {} THEN Null ELSE CHOOSE x \in fills : TRUE
  BY DEF Filled
<1> HIDE DEF fills
<1>6. QED
  BY <1>2, <1>4, <1>5

LEMMA BlanksFull ==
  ASSUME Posed, Is("fill_blanks"), Fillable, NEW v, v # Null, v = Full(definition)
  PROVE  AutoPart(definition, v).exact /\ ~isEmptyResponse(definition, v)
<1> DEFINE list == definition.blanks
           f == [x \in {b.id : b \in Range(list)} |-> Filled(definition, x)]
           Score(b) == BlankScore(b, definition.keys[b.id], At(v.values, b.id))
           marks == [i \in DOMAIN list |-> Score(list[i])]
           all == Whole * Len(list)
           exact == Total(marks) = all
<1>1. v = [values |-> f]
  BY DEF Full, Is
<1>2. v.values = f
  BY <1>1
<1>3. list \in Seq(Range(list)) /\ Len(list) >= 1
  BY ArrangeKeys DEF IsList
<1>4. ASSUME NEW b \in Range(list)
      PROVE  b.id \in DOMAIN v.values /\ v.values[b.id] \in Fills(definition, b)
  <2>1. b.id \in DOMAIN f /\ f[b.id] = Filled(definition, b.id)
    OBVIOUS
  <2> HIDE DEF f
  <2>2. QED
    BY <1>2, <2>1, FilledCounts
<1> HIDE DEF f
<1>5. ASSUME NEW b \in Range(list) PROVE Score(b) = Whole /\ ~IsBlank(v.values[b.id])
  <2>1. At(v.values, b.id) = v.values[b.id]
    BY <1>4 DEF At
  <2>2. QED
    BY <1>4, <2>1, FillsCount
<1>6. DOMAIN list = 1..Len(list) /\ Len(list) \in Nat \ {0} /\ list[1] \in Range(list)
  <2>1. DOMAIN list = 1..Len(list) /\ Len(list) \in Nat \ {0}
    BY <1>3, ListHasSome
  <2>2. QED
    BY <2>1 DEF Range
<1>7. marks \in Seq(Int) /\ Len(marks) = Len(list) /\ \A i \in 1..Len(marks) : marks[i] = Whole
  <2>1. \A i \in 1..Len(list) : Score(list[i]) = Whole
    BY <1>5, <1>6 DEF Range
  <2> HIDE DEF Score
  <2>2. marks \in [1..Len(list) -> Int] /\ \A i \in 1..Len(list) : marks[i] = Whole
    BY <1>6, <2>1, GrainAssumption
  <2> HIDE DEF marks
  <2>3. marks \in Seq(Int) /\ Len(marks) = Len(list)
    BY <1>6, <2>2, IsASeq, LenProperties
  <2>4. QED
    BY <2>2, <2>3
<1>8. AutoPart(definition, v) = Part(Total(marks), all, exact)
  BY DEF AutoPart, FillBlanksPart, Is
<1> HIDE DEF marks
<1>9. exact
  BY <1>7, TotalOfWhole
<1> HIDE DEF all, exact
<1>10. AutoPart(definition, v).exact
  BY <1>8, <1>9, ExactIs
<1>11. ~isEmptyResponse(definition, v)
  <2>1. ~\A x \in DOMAIN v.values : IsBlank(v.values[x])
    BY <1>4, <1>5, <1>6
  <2>2. isEmptyResponse(definition, v) <=> v = Null \/ \A x \in DOMAIN v.values : IsBlank(v.values[x])
    BY DEF isEmptyResponse, Is
  <2>3. QED
    BY <2>1, <2>2
<1>12. QED
  BY <1>10, <1>11

\* KeyIsAnswerable, for any questions: what checkConsistency lets through, the display lets a
\* participant answer in full, and the grader gives full marks for that answer.
THEOREM KeysAreAnswerable == Spec => []KeyIsAnswerable
<1>1. AnswerInv => KeyIsAnswerable
  <2> DEFINE v == Full(definition)
  <2>0. SUFFICES ASSUME AnswerInv, (Is("fill_blanks") /\ Fillable) \/ (HasFacts /\ KeyIsSet /\ KeyAllowed)
                 PROVE  /\ AutoPart(definition, v).exact
                        /\ Is("fill_blanks") \/ Within(v)
                        /\ isEmptyResponse(definition, v) => HasFacts /\ KeyFacts = {}
    BY DEF KeyIsAnswerable
  <2>1. Posed
    BY <2>0 DEF AnswerInv
  <2>2. v # Null
    <3>1. HasKey(definition)
      BY <2>0 DEF HasKey, HasFacts, Is, QUESTION_TYPES, TextTypes
    <3>2. QED
      BY <2>1, <3>1, FullAssumption DEF Posed
  <2> HIDE DEF v
  <2>3. CASE Is("fill_blanks") /\ Fillable
    <3>1. AutoPart(definition, v).exact /\ ~isEmptyResponse(definition, v)
      BY <2>1, <2>2, <2>3, BlanksFull DEF v
    <3>2. QED
      BY <2>3, <3>1
  <2>4. CASE HasFacts /\ KeyIsSet /\ KeyAllowed
    <3>1. FullFits(v)
      BY <2>1, <2>4, FactsFull DEF v
    <3>2. AutoPart(definition, v).exact /\ (isEmptyResponse(definition, v) => KeyFacts = {})
      BY <2>1, <2>2, <2>4, <3>1, FullIsExact
    <3>3. Within(v)
      BY <3>1, WithinHolds DEF FullFits, Answers
    <3>4. QED
      BY <2>4, <3>2, <3>3
  <2>5. QED
    BY <2>0, <2>3, <2>4
<1>2. AnswerInv /\ FilesInv => AnswerInv
  OBVIOUS
<1>3. QED
  BY Invariant, <1>1, <1>2, PTL
================================================================================
