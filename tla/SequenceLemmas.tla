--------------------------- MODULE SequenceLemmas ---------------------------
(***************************************************************************)
(* What the proofs keep needing of sequences: the lines of waiters of      *)
(* ChatLock, the tables and logs of the other modules, which only grow at  *)
(* their end and change one entry at a time; and what Chosen and           *)
(* FlattenSeq, which are defined by recursion, make of a list.             *)
(***************************************************************************)
EXTENDS Integers, SequencesExt, SequenceTheorems, WellFoundedInduction, Picks, TLAPS

\* A new entry goes behind all the others, which keep their places.
LEMMA AppendFacts ==
    ASSUME NEW S, NEW s \in Seq(S), NEW e \in S
    PROVE  /\ Append(s, e) \in Seq(S)
           /\ Len(Append(s, e)) = Len(s) + 1
           /\ Append(s, e) # <<>>
           /\ \A j \in 1 .. Len(s) + 1 :
                    Append(s, e)[j] = IF j = Len(s) + 1 THEN e ELSE s[j]
<1>1. Len(s) \in Nat
    BY LenProperties
<1>2. \A j \in 1 .. Len(s) + 1 : j = Len(s) + 1 \/ j \in 1 .. Len(s)
    BY <1>1
<1> QED BY <1>2, AppendProperties

\* The same by domains: one index more, and it is nobody else's.
LEMMA GrowthFacts ==
    ASSUME NEW S, NEW s \in Seq(S), NEW e \in S
    PROVE  /\ Append(s, e) \in Seq(S)
           /\ Len(s) + 1 \in Nat \ {0}
           /\ Len(s) + 1 \notin DOMAIN s
           /\ DOMAIN Append(s, e) = DOMAIN s \cup {Len(s) + 1}
           /\ Append(s, e)[Len(s) + 1] = e
           /\ \A j \in DOMAIN s : Append(s, e)[j] = s[j]
<1>1. Len(s) \in Nat /\ DOMAIN s = 1 .. Len(s)
    BY LenProperties
<1>2. DOMAIN Append(s, e) = 1 .. Len(s) + 1
    BY AppendFacts, LenProperties
<1>3. Append(s, e)[Len(s) + 1] = e
    BY <1>1, AppendFacts
<1>4. \A j \in DOMAIN s : Append(s, e)[j] = s[j]
    BY <1>1, AppendFacts
<1>5. 1 .. Len(s) + 1 = 1 .. Len(s) \cup {Len(s) + 1} /\ Len(s) + 1 \notin 1 .. Len(s)
    BY <1>1
<1> QED BY <1>1, <1>2, <1>3, <1>4, <1>5, AppendFacts

\* An entry that is changed in place disturbs no other.
LEMMA ChangeFacts ==
    ASSUME NEW S, NEW s \in Seq(S), NEW i \in DOMAIN s, NEW e \in S
    PROVE  /\ [s EXCEPT ![i] = e] \in Seq(S)
           /\ DOMAIN [s EXCEPT ![i] = e] = DOMAIN s
           /\ [s EXCEPT ![i] = e][i] = e
           /\ \A j \in DOMAIN s : j # i => [s EXCEPT ![i] = e][j] = s[j]
<1>1. i \in 1 .. Len(s)
    BY LenProperties
<1> QED BY <1>1, ExceptSeq

\* The entries of a sequence, by their indices.
LEMMA EntryFacts ==
    ASSUME NEW S, NEW s \in Seq(S)
    PROVE  /\ Len(s) \in Nat
           /\ DOMAIN s = 1 .. Len(s)
           /\ \A j \in DOMAIN s : s[j] \in S /\ j \in Nat \ {0}
BY LenProperties, ElementOfSeq

\* The first of a non-empty line.
LEMMA HeadFacts ==
    ASSUME NEW S, NEW s \in Seq(S)
    PROVE  /\ s = <<>> <=> Len(s) = 0
           /\ s # <<>> => Head(s) = s[1] /\ 1 \in 1 .. Len(s)
OBVIOUS

\* Who is in a line when its first has left, if nobody stood in it twice.
LEMMA TailFacts ==
    ASSUME NEW S, NEW s \in Seq(S), s # <<>>,
           \A i, j \in DOMAIN s : s[i] = s[j] => i = j
    PROVE  /\ Tail(s) \in Seq(S)
           /\ \A i, j \in DOMAIN Tail(s) : Tail(s)[i] = Tail(s)[j] => i = j
           /\ \A e : (\E i \in DOMAIN Tail(s) : Tail(s)[i] = e)
                    <=> (\E i \in DOMAIN s : s[i] = e) /\ e # Head(s)
<1>1. /\ Tail(s) \in Seq(S) /\ Len(Tail(s)) = Len(s) - 1 /\ Len(s) \in Nat \ {0}
      /\ \A i \in 1 .. Len(Tail(s)) : Tail(s)[i] = s[i + 1]
    BY HeadTailProperties, EmptySeq, LenProperties
<1>2. DOMAIN s = 1 .. Len(s) /\ DOMAIN Tail(s) = 1 .. Len(s) - 1 /\ Head(s) = s[1]
    BY <1>1, LenProperties, HeadFacts
<1>3. \A i \in DOMAIN Tail(s) : Tail(s)[i] = s[i + 1] /\ i + 1 \in DOMAIN s /\ i + 1 # 1
    BY <1>1, <1>2
<1>4. \A i \in DOMAIN s : i = 1 \/ (i - 1 \in DOMAIN Tail(s) /\ Tail(s)[i - 1] = s[i])
    <2> SUFFICES ASSUME NEW i \in DOMAIN s, i # 1
                 PROVE  i - 1 \in DOMAIN Tail(s) /\ Tail(s)[i - 1] = s[i]
        OBVIOUS
    <2>1. i - 1 \in DOMAIN Tail(s) /\ (i - 1) + 1 = i
        BY <1>1, <1>2
    <2>2. Tail(s)[i - 1] = s[(i - 1) + 1]
        BY <1>3, <2>1
    <2> QED BY <2>1, <2>2
<1>5. 1 \in DOMAIN s
    BY <1>1, <1>2
<1>6. ASSUME NEW i \in DOMAIN Tail(s), NEW j \in DOMAIN Tail(s), Tail(s)[i] = Tail(s)[j]
      PROVE  i = j
    <2>1. i + 1 = j + 1
        BY <1>3, <1>6
    <2> QED BY <1>1, <1>2, <2>1
<1>7. \A i \in DOMAIN Tail(s) : Tail(s)[i] # Head(s)
    BY <1>2, <1>3, <1>5
<1>8. ASSUME NEW e
      PROVE  (\E i \in DOMAIN Tail(s) : Tail(s)[i] = e)
                <=> (\E i \in DOMAIN s : s[i] = e) /\ e # Head(s)
    <2>1. ASSUME NEW i \in DOMAIN Tail(s), Tail(s)[i] = e
          PROVE  (\E j \in DOMAIN s : s[j] = e) /\ e # Head(s)
        BY <1>3, <1>7, <2>1
    <2>2. ASSUME NEW i \in DOMAIN s, s[i] = e, e # Head(s)
          PROVE  \E j \in DOMAIN Tail(s) : Tail(s)[j] = e
        BY <1>2, <1>4, <2>2
    <2> QED BY <2>1, <2>2
<1> QED BY <1>1, <1>6, <1>8

\* The least of some numbers.
LEMMA Least ==
    ASSUME NEW S \in SUBSET Nat, S # {}
    PROVE  \E x \in S : \A y \in S : x <= y
<1> DEFINE R == OpToRel(<, Nat)
<1>1. IsWellFoundedOn(R, Nat)
    BY NatLessThanWellFounded, Zenon
<1>2. \A x, y \in Nat : x < y => <<x, y>> \in R
    BY DEF OpToRel
<1> HIDE DEF R
<1>3. PICK x \in S : \A y \in S : <<y, x>> \notin R
    BY <1>1, WFMin
<1>4. ASSUME NEW y \in S PROVE x <= y
  <2>1. x \in Nat /\ y \in Nat /\ ~(y < x)
      BY <1>2, <1>3
  <2> QED BY <2>1
<1> QED BY <1>4

\* What holds of 0, and of every number when it holds of the one before, holds up to n.
LEMMA Climb ==
    ASSUME NEW n \in Nat, NEW T, 0 \in T, \A k \in 1 .. n : k - 1 \in T => k \in T
    PROVE  \A k \in 0 .. n : k \in T
<1> DEFINE U == {k \in 0 .. n : k \notin T}
<1>1. SUFFICES ASSUME U # {} PROVE FALSE
    OBVIOUS
<1>2. U \in SUBSET Nat
    OBVIOUS
<1>3. PICK k \in U : \A j \in U : k <= j
  <2> HIDE DEF U
  <2> QED BY <1>1, <1>2, Least
<1>4. k \in 0 .. n /\ k \notin T /\ k # 0
    OBVIOUS
<1>5. k \in 1 .. n /\ k - 1 \in 0 .. n /\ ~(k <= k - 1)
    BY <1>4
<1>6. k - 1 \in T
    BY <1>3, <1>5
<1> QED BY <1>4, <1>5, <1>6

\* A function that is defined by its value at 0 and a step from each number to the next.
Recurs(F, n, first, step) == F[0] = first /\ \A i \in 1 .. n : F[i] = step[<<i, F[i - 1]>>]
LEMMA Recursion ==
    ASSUME NEW n \in Nat, NEW S, NEW first \in S, NEW step \in [(1 .. n) \X S -> S]
    PROVE  \E F \in [0 .. n -> S] : Recurs(F, n, first, step)
<1> DEFINE Upto(k, F) == F \in [0 .. k -> S] /\ F[0] = first /\ \A i \in 1 .. k : F[i] = step[<<i, F[i - 1]>>]
           Has(k) == \E F : Upto(k, F)
           T == {k \in 0 .. n : Has(k)}
<1>1. 0 \in T
  <2> DEFINE F == [i \in 0 .. 0 |-> first]
  <2>1. F \in [0 .. 0 -> S] /\ F[0] = first /\ \A i \in 1 .. 0 : F[i] = step[<<i, F[i - 1]>>]
      OBVIOUS
  <2> HIDE DEF F
  <2> QED BY <2>1
<1>2. ASSUME NEW k \in 1 .. n, k - 1 \in T PROVE k \in T
  <2>1. PICK F : Upto(k - 1, F)
      BY <1>2
  <2> DEFINE v == step[<<k, F[k - 1]>>]
             G == [i \in 0 .. k |-> IF i = k THEN v ELSE F[i]]
  <2>2. k - 1 \in 0 .. k - 1 /\ F[k - 1] \in S /\ v \in S /\ k # 0 /\ 0 \in 0 .. k
    <3>1. k - 1 \in 0 .. k - 1 /\ k # 0 /\ 0 \in 0 .. k
        OBVIOUS
    <3>2. F[k - 1] \in S
        BY <2>1, <3>1
    <3> QED BY <3>1, <3>2
  <2>3. G \in [0 .. k -> S] /\ G[0] = first
      BY <2>1, <2>2
  <2>4. ASSUME NEW i \in 1 .. k PROVE G[i] = step[<<i, G[i - 1]>>]
    <3>1. i \in 0 .. k /\ i - 1 \in 0 .. k /\ i - 1 # k
        OBVIOUS
    <3>2. G[i - 1] = F[i - 1]
        BY <3>1
    <3>3. CASE i = k
        BY <3>1, <3>2, <3>3
    <3>4. CASE i # k
      <4>1. i \in 1 .. k - 1
          BY <3>4
      <4>2. F[i] = step[<<i, F[i - 1]>>]
          BY <2>1, <4>1
      <4> QED BY <3>1, <3>2, <3>4, <4>2
    <3> QED BY <3>3, <3>4
  <2> HIDE DEF G
  <2>5. Has(k)
      BY <2>3, <2>4
  <2> QED BY <2>5
<1>3. \A k \in 0 .. n : k \in T
  <2> HIDE DEF T
  <2> QED BY <1>1, <1>2, Climb
<1>4. Has(n)
    BY <1>3
<1> QED BY <1>4 DEF Recurs

\* Chosen, entry by entry: F[k] is what of the first k entries is chosen.
Chooses_(F, s, those) ==
    F[0] = <<>> /\ \A k \in 1 .. Len(s) : F[k] = IF s[k] \in those THEN Append(F[k - 1], s[k]) ELSE F[k - 1]
LEMMA ChosenIs ==
    ASSUME NEW S, NEW s \in Seq(S), NEW those
    PROVE  \E F \in [0 .. Len(s) -> Seq(S \cap those)] : Chooses_(F, s, those) /\ Chosen(s, those) = F[Len(s)]
<1> DEFINE n == Len(s)
           R == S \cap those
           Def(f) == [k \in 0 .. n |-> IF k = 0 THEN <<>> ELSE IF s[k] \in those THEN Append(f[k - 1], s[k]) ELSE f[k - 1]]
           step == [p \in (1 .. n) \X Seq(R) |-> IF s[p[1]] \in those THEN Append(p[2], s[p[1]]) ELSE p[2]]
<1>1. n \in Nat /\ \A k \in 1 .. n : s[k] \in S
    BY EntryFacts
<1>2. step \in [(1 .. n) \X Seq(R) -> Seq(R)]
  <2> SUFFICES ASSUME NEW k \in 1 .. n, NEW t \in Seq(R)
               PROVE  (IF s[k] \in those THEN Append(t, s[k]) ELSE t) \in Seq(R)
      OBVIOUS
  <2>1. CASE s[k] \in those
    <3>1. s[k] \in R
        BY <1>1, <2>1
    <3> HIDE DEF R
    <3> QED BY <2>1, <3>1, AppendFacts
  <2>2. CASE s[k] \notin those
      BY <2>2
  <2> QED BY <2>1, <2>2
<1>3. <<>> \in Seq(R)
    OBVIOUS
<1>4. PICK F \in [0 .. n -> Seq(R)] : F[0] = <<>> /\ \A i \in 1 .. n : F[i] = step[<<i, F[i - 1]>>]
  <2>1. \E F \in [0 .. n -> Seq(R)] : Recurs(F, n, <<>>, step)
    <3> HIDE DEF n, R, step
    <3> QED BY <1>1, <1>2, <1>3, Recursion
  <2> QED BY <2>1 DEF Recurs
<1>5. F = Def(F)
  <2>1. ASSUME NEW k \in 0 .. n
        PROVE  F[k] = IF k = 0 THEN <<>> ELSE IF s[k] \in those THEN Append(F[k - 1], s[k]) ELSE F[k - 1]
    <3>1. CASE k = 0
        BY <1>4, <3>1
    <3>2. CASE k # 0
      <4>1. k \in 1 .. n /\ k - 1 \in 0 .. n
          BY <1>1, <3>2
      <4>2. F[k - 1] \in Seq(R)
          BY <4>1
      <4>3. F[k] = step[<<k, F[k - 1]>>]
          BY <1>4, <4>1
      <4>4. <<k, F[k - 1]>> \in (1 .. n) \X Seq(R)
          BY <4>1, <4>2
      <4>5. step[<<k, F[k - 1]>>] = IF s[k] \in those THEN Append(F[k - 1], s[k]) ELSE F[k - 1]
          BY <4>4
      <4> QED BY <3>2, <4>3, <4>5
    <3> QED BY <3>1, <3>2
  <2> QED BY <2>1
<1> DEFINE f == CHOOSE g : g = Def(g)
<1>6. f = Def(f)
  <2> HIDE DEF Def
  <2> QED BY <1>5
<1>7. Chosen(s, those) = f[n]
    BY DEF Chosen
<1> HIDE DEF f
<1>8. /\ f[0] = <<>>
      /\ \A k \in 1 .. n : f[k] = IF s[k] \in those THEN Append(f[k - 1], s[k]) ELSE f[k - 1]
  <2>1. \A k \in 0 .. n : f[k] = IF k = 0 THEN <<>> ELSE IF s[k] \in those THEN Append(f[k - 1], s[k]) ELSE f[k - 1]
      BY <1>6
  <2>2. 0 \in 0 .. n
      BY <1>1
  <2>3. f[0] = <<>>
      BY <2>1, <2>2
  <2>4. ASSUME NEW k \in 1 .. n PROVE f[k] = IF s[k] \in those THEN Append(f[k - 1], s[k]) ELSE f[k - 1]
    <3>1. k \in 0 .. n /\ k # 0
        OBVIOUS
    <3> QED BY <2>1, <3>1
  <2> QED BY <2>3, <2>4
<1> DEFINE T == {k \in 0 .. n : f[k] \in Seq(R)}
<1>9. 0 \in T
  <2>1. 0 \in 0 .. n /\ f[0] \in Seq(R)
      BY <1>1, <1>3, <1>8
  <2> QED BY <2>1
<1>10. ASSUME NEW k \in 1 .. n, k - 1 \in T PROVE k \in T
  <2>1. f[k - 1] \in Seq(R) /\ k \in 0 .. n
      BY <1>10
  <2>2. <<k, f[k - 1]>> \in (1 .. n) \X Seq(R)
      BY <2>1
  <2>3. step[<<k, f[k - 1]>>] \in Seq(R) /\ step[<<k, f[k - 1]>>] = IF s[k] \in those THEN Append(f[k - 1], s[k]) ELSE f[k - 1]
      BY <1>2, <2>2
  <2> QED BY <1>8, <2>1, <2>3
<1>11. \A k \in 0 .. n : k \in T
  <2> HIDE DEF T
  <2> QED BY <1>1, <1>9, <1>10, Climb
<1>12. DOMAIN f = 0 .. n /\ f = [k \in 0 .. n |-> f[k]]
    BY <1>6
<1>13. f \in [0 .. n -> Seq(R)]
    BY <1>11, <1>12
<1>14. Chooses_(f, s, those)
    BY <1>8 DEF Chooses_
<1> QED BY <1>7, <1>13, <1>14

\* The chosen entries are entries of the sequence, at other places but in their order, ...
LEMMA ChosenOrder ==
    ASSUME NEW S, NEW s \in Seq(S), NEW those
    PROVE  /\ Chosen(s, those) \in Seq(S \cap those)
           /\ \E h \in [DOMAIN Chosen(s, those) -> DOMAIN s] :
                 /\ \A i \in DOMAIN Chosen(s, those) : Chosen(s, those)[i] = s[h[i]]
                 /\ \A i, j \in DOMAIN Chosen(s, those) : i < j => h[i] < h[j]
<1> DEFINE n == Len(s)
           R == S \cap those
<1>1. n \in Nat /\ DOMAIN s = 1 .. n /\ \A k \in 1 .. n : s[k] \in S
    BY EntryFacts
<1>2. PICK F \in [0 .. n -> Seq(R)] :
          /\ F[0] = <<>> /\ Chosen(s, those) = F[n]
          /\ \A k \in 1 .. n : F[k] = IF s[k] \in those THEN Append(F[k - 1], s[k]) ELSE F[k - 1]
  <2>1. \E F \in [0 .. n -> Seq(R)] : Chooses_(F, s, those) /\ Chosen(s, those) = F[n]
    <3> USE DEF n, R
    <3> QED BY ChosenIs
  <2> QED BY <2>1 DEF Chooses_
<1> DEFINE P(k, h) == /\ h \in [1 .. Len(F[k]) -> 1 .. k]
                      /\ \A i \in 1 .. Len(F[k]) : F[k][i] = s[h[i]]
                      /\ \A i, j \in 1 .. Len(F[k]) : i < j => h[i] < h[j]
           T == {k \in 0 .. n : \E h : P(k, h)}
<1>3. \A k \in 0 .. n : F[k] \in Seq(R) /\ Len(F[k]) \in Nat
  <2> SUFFICES ASSUME NEW k \in 0 .. n PROVE F[k] \in Seq(R) /\ Len(F[k]) \in Nat
      OBVIOUS
  <2>1. F[k] \in Seq(R)
      OBVIOUS
  <2> HIDE DEF R
  <2> QED BY <2>1, LenProperties
<1>4. 0 \in T
  <2>1. 0 \in 0 .. n /\ Len(F[0]) = 0
      BY <1>1, <1>2
  <2> DEFINE h == [i \in 1 .. 0 |-> 0]
  <2>2. P(0, h)
      BY <2>1
  <2> QED BY <2>1, <2>2
<1>5. ASSUME NEW k \in 1 .. n, k - 1 \in T PROVE k \in T
  <2>1. PICK h : P(k - 1, h)
      BY <1>5
  <2>2. k \in 0 .. n /\ k - 1 \in 0 .. n
      BY <1>1
  <2> DEFINE m == Len(F[k - 1])
  <2>3. m \in Nat /\ F[k - 1] \in Seq(R)
      BY <1>3, <2>2
  <2>4. CASE s[k] \notin those
    <3>1. F[k] = F[k - 1]
        BY <1>2, <2>4
    <3>2. P(k, h)
        BY <2>1, <2>2, <3>1
    <3> QED BY <2>2, <3>2
  <2>5. CASE s[k] \in those
    <3>1. F[k] = Append(F[k - 1], s[k]) /\ s[k] \in R
        BY <1>1, <1>2, <2>5
    <3>2. /\ Len(F[k]) = m + 1
          /\ \A j \in 1 .. m + 1 : F[k][j] = IF j = m + 1 THEN s[k] ELSE F[k - 1][j]
      <4> HIDE DEF R
      <4> QED BY <2>3, <3>1, AppendFacts
    <3> DEFINE g == [i \in 1 .. m + 1 |-> IF i = m + 1 THEN k ELSE h[i]]
    <3> HIDE DEF m
    <3>3. /\ h \in [1 .. m -> 1 .. k - 1]
          /\ \A i \in 1 .. m : F[k - 1][i] = s[h[i]]
          /\ \A i, j \in 1 .. m : i < j => h[i] < h[j]
        BY <2>1 DEF m
    <3>4. \A i \in 1 .. m + 1 : i # m + 1 => i \in 1 .. m
        BY <2>3
    <3>5. g \in [1 .. m + 1 -> 1 .. k]
        BY <3>3, <3>4
    <3>6. \A i \in 1 .. m + 1 : F[k][i] = s[g[i]]
        BY <3>2, <3>3, <3>4
    <3>7. ASSUME NEW i \in 1 .. m + 1, NEW j \in 1 .. m + 1, i < j PROVE g[i] < g[j]
      <4>1. i \in 1 .. m
          BY <2>3, <3>7
      <4>2. h[i] \in 1 .. k - 1 /\ g[i] = h[i]
          BY <2>3, <3>3, <4>1
      <4>3. CASE j = m + 1
          BY <4>2, <4>3
      <4>4. CASE j # m + 1
          BY <3>3, <3>4, <3>7, <4>1, <4>2, <4>4
      <4> QED BY <4>3, <4>4
    <3> HIDE DEF g
    <3>8. P(k, g)
        BY <3>2, <3>5, <3>6, <3>7
    <3> QED BY <2>2, <3>8
  <2> QED BY <2>4, <2>5
<1>6. \A k \in 0 .. n : k \in T
  <2> HIDE DEF T
  <2> QED BY <1>1, <1>4, <1>5, Climb
<1>7. n \in 0 .. n
    BY <1>1
<1>8. PICK h : P(n, h)
    BY <1>6, <1>7
<1>9. F[n] \in Seq(R) /\ DOMAIN F[n] = 1 .. Len(F[n])
  <2>1. F[n] \in Seq(R)
      BY <1>7
  <2> HIDE DEF R
  <2> QED BY <2>1, LenProperties
<1> QED BY <1>1, <1>2, <1>8, <1>9

\* ... and all of them are.
LEMMA ChosenAll ==
    ASSUME NEW S, NEW s \in Seq(S), NEW those, NEW i \in DOMAIN s, s[i] \in those
    PROVE  \E j \in DOMAIN Chosen(s, those) : Chosen(s, those)[j] = s[i]
<1> DEFINE n == Len(s)
           R == S \cap those
<1>1. n \in Nat /\ i \in 1 .. n /\ \A k \in 1 .. n : s[k] \in S
    BY EntryFacts
<1>2. PICK F \in [0 .. n -> Seq(R)] :
          /\ F[0] = <<>> /\ Chosen(s, those) = F[n]
          /\ \A k \in 1 .. n : F[k] = IF s[k] \in those THEN Append(F[k - 1], s[k]) ELSE F[k - 1]
  <2>1. \E F \in [0 .. n -> Seq(R)] : Chooses_(F, s, those) /\ Chosen(s, those) = F[n]
    <3> USE DEF n, R
    <3> QED BY ChosenIs
  <2> QED BY <2>1 DEF Chooses_
<1> DEFINE T == {k \in 0 .. n : k >= i => \E j \in 1 .. Len(F[k]) : F[k][j] = s[i]}
<1>4. 0 \in T
    BY <1>1
<1>5. ASSUME NEW k \in 1 .. n, k - 1 \in T PROVE k \in T
  <2>1. SUFFICES ASSUME k >= i PROVE \E j \in 1 .. Len(F[k]) : F[k][j] = s[i]
      BY <1>1
  <2>2. k - 1 \in 0 .. n
      OBVIOUS
  <2>3. F[k - 1] \in Seq(R) /\ Len(F[k - 1]) \in Nat
    <3>1. F[k - 1] \in Seq(R)
        BY <2>2
    <3> HIDE DEF R
    <3> QED BY <3>1, LenProperties
  <2>4. CASE s[k] \in those
    <3>1. F[k] = Append(F[k - 1], s[k]) /\ s[k] \in R
        BY <1>1, <1>2, <2>4
    <3> DEFINE m == Len(F[k - 1])
    <3>2. /\ Len(F[k]) = m + 1
          /\ \A j \in 1 .. m + 1 : F[k][j] = IF j = m + 1 THEN s[k] ELSE F[k - 1][j]
      <4> HIDE DEF R
      <4> QED BY <2>3, <3>1, AppendFacts
    <3>3. CASE k = i
        BY <2>3, <3>2, <3>3
    <3>4. CASE k # i
      <4>1. k - 1 >= i
          BY <1>1, <2>1, <3>4
      <4>2. PICK j \in 1 .. m : F[k - 1][j] = s[i]
          BY <1>5, <4>1
      <4>3. j \in 1 .. m + 1 /\ j # m + 1
          BY <2>3
      <4> QED BY <3>2, <4>2, <4>3
    <3> QED BY <3>3, <3>4
  <2>5. CASE s[k] \notin those
    <3>1. F[k] = F[k - 1] /\ k # i
        BY <1>2, <2>5
    <3>2. k - 1 >= i
        BY <1>1, <2>1, <3>1
    <3> QED BY <1>5, <3>1, <3>2
  <2> QED BY <2>4, <2>5
<1>6. \A k \in 0 .. n : k \in T
  <2> HIDE DEF T
  <2> QED BY <1>1, <1>4, <1>5, Climb
<1>7. n \in 0 .. n /\ n >= i
    BY <1>1
<1>8. \E j \in 1 .. Len(F[n]) : F[n][j] = s[i]
    BY <1>6, <1>7
<1>9. DOMAIN F[n] = 1 .. Len(F[n])
  <2>1. F[n] \in Seq(R)
      BY <1>7
  <2> HIDE DEF R
  <2> QED BY <2>1, LenProperties
<1> QED BY <1>2, <1>8, <1>9

LEMMA ChosenFacts ==
    ASSUME NEW S, NEW s \in Seq(S), NEW those
    PROVE  /\ Chosen(s, those) \in Seq(S \cap those)
           /\ (\E i \in DOMAIN s : s[i] \in those) => Chosen(s, those) # <<>>
<1>1. ASSUME NEW i \in DOMAIN s, s[i] \in those PROVE Chosen(s, those) # <<>>
  <2>1. \E j \in DOMAIN Chosen(s, those) : Chosen(s, those)[j] = s[i]
      BY <1>1, ChosenAll
  <2>2. DOMAIN <<>> = {}
      OBVIOUS
  <2> QED BY <2>1, <2>2
<1> QED BY <1>1, ChosenOrder

\* FlattenSeq, one sequence after the other: F[k] is what the first k make together.
Flattens(F, seqs) == F[0] = <<>> /\ \A k \in 1 .. Len(seqs) : F[k] = F[k - 1] \o seqs[k]
LEMMA FlattenIs ==
    ASSUME NEW S, NEW seqs \in Seq(Seq(S))
    PROVE  \E F \in [0 .. Len(seqs) -> Seq(S)] : Flattens(F, seqs) /\ FlattenSeq(seqs) = F[Len(seqs)]
<1> DEFINE n == Len(seqs)
           R == Seq(S)
           Def(f) == [i \in 1 .. n |-> IF i = 1 THEN seqs[i] ELSE f[i - 1] \o seqs[i]]
           step == [p \in (1 .. n) \X R |-> p[2] \o seqs[p[1]]]
<1>1. n \in Nat /\ \A i \in 1 .. n : seqs[i] \in R
    BY EntryFacts
<1>2. <<>> \in R /\ (\A s, t \in R : s \o t \in R) /\ \A t \in R : <<>> \o t = t
    OBVIOUS
<1> HIDE DEF R
<1>3. step \in [(1 .. n) \X R -> R]
    BY <1>1, <1>2
<1>4. PICK F \in [0 .. n -> R] : F[0] = <<>> /\ \A i \in 1 .. n : F[i] = step[<<i, F[i - 1]>>]
  <2>1. \E F \in [0 .. n -> R] : Recurs(F, n, <<>>, step)
    <3> HIDE DEF n, step
    <3> QED BY <1>1, <1>2, <1>3, Recursion
  <2> QED BY <2>1 DEF Recurs
<1>5. ASSUME NEW i \in 1 .. n PROVE F[i] = F[i - 1] \o seqs[i]
  <2>1. i - 1 \in 0 .. n
      BY <1>1
  <2>2. F[i - 1] \in R
      BY <2>1
  <2>3. <<i, F[i - 1]>> \in (1 .. n) \X R
      BY <2>2
  <2> QED BY <1>4, <2>3
<1> DEFINE G == [i \in 1 .. n |-> F[i]]
<1>6. G = Def(G)
  <2>1. ASSUME NEW i \in 1 .. n PROVE F[i] = IF i = 1 THEN seqs[i] ELSE G[i - 1] \o seqs[i]
    <3>1. CASE i = 1
      <4>1. i - 1 = 0
          BY <3>1
      <4>2. F[i] = <<>> \o seqs[i]
        <5>1. F[i] = F[i - 1] \o seqs[i]
            BY <1>5
        <5> QED BY <1>4, <4>1, <5>1
      <4> QED BY <1>1, <1>2, <3>1, <4>2
    <3>2. CASE i # 1
      <4>1. i - 1 \in 1 .. n
          BY <1>1, <3>2
      <4> QED BY <1>5, <3>2, <4>1
    <3> QED BY <3>1, <3>2
  <2> QED BY <2>1
<1> DEFINE f == CHOOSE g : g = Def(g)
<1>7. f = Def(f)
  <2> HIDE DEF Def, G
  <2> QED BY <1>6
<1>8. n # 0 => FlattenSeq(seqs) = f[n]
    BY DEF FlattenSeq
<1> HIDE DEF f
<1> DEFINE T == {k \in 0 .. n : k # 0 => f[k] = F[k]}
<1>9. 0 \in T
    BY <1>1
<1>10. ASSUME NEW k \in 1 .. n, k - 1 \in T PROVE k \in T
  <2>1. f[k] = IF k = 1 THEN seqs[k] ELSE f[k - 1] \o seqs[k]
      BY <1>7
  <2>2. k \in 0 .. n
      BY <1>1
  <2>5. F[k] = F[k - 1] \o seqs[k]
      BY <1>5
  <2>3. CASE k = 1
    <3>1. F[k] = <<>> \o seqs[k]
      <4>1. k - 1 = 0
          BY <2>3
      <4> QED BY <1>4, <2>5, <4>1
    <3> QED BY <1>1, <1>2, <2>1, <2>2, <2>3, <3>1
  <2>4. CASE k # 1
    <3>1. k - 1 # 0
        BY <2>4
    <3> QED BY <1>10, <2>1, <2>2, <2>4, <2>5, <3>1
  <2> QED BY <2>3, <2>4
<1>11. \A k \in 0 .. n : k \in T
  <2> HIDE DEF T
  <2> QED BY <1>1, <1>9, <1>10, Climb
<1>12. FlattenSeq(seqs) = F[n]
  <2>1. CASE n = 0
    <3>1. seqs = <<>>
        BY <2>1
    <3> QED BY <1>4, <2>1, <3>1 DEF FlattenSeq
  <2>2. CASE n # 0
    <3>1. n \in 0 .. n
        BY <1>1
    <3> QED BY <1>8, <1>11, <2>2, <3>1
  <2> QED BY <2>1, <2>2
<1>13. Flattens(F, seqs)
    BY <1>4, <1>5 DEF Flattens
<1> QED BY <1>12, <1>13 DEF R

LEMMA FlattenFacts ==
    ASSUME NEW S, NEW seqs \in Seq(Seq(S))
    PROVE  FlattenSeq(seqs) \in Seq(S)
<1>1. PICK F \in [0 .. Len(seqs) -> Seq(S)] : FlattenSeq(seqs) = F[Len(seqs)]
    BY FlattenIs
<1>2. Len(seqs) \in 0 .. Len(seqs)
    BY LenProperties
<1> QED BY <1>1, <1>2

\* An entry is put in: those before it keep their places, the others move by one.
LEMMA InsertFacts ==
    ASSUME NEW S, NEW s \in Seq(S), NEW i \in 1 .. Len(s) + 1, NEW e \in S
    PROVE  /\ InsertAt(s, i, e) \in Seq(S)
           /\ Len(InsertAt(s, i, e)) = Len(s) + 1
           /\ \A j \in 1 .. Len(s) + 1 :
                  InsertAt(s, i, e)[j] = IF j < i THEN s[j] ELSE IF j = i THEN e ELSE s[j - 1]
           /\ ToSet(InsertAt(s, i, e)) = ToSet(s) \cup {e}
<1> DEFINE n == Len(s)
           a == SubSeq(s, 1, i - 1)
           b == SubSeq(s, i, n)
           t == InsertAt(s, i, e)
<1>1. n \in Nat /\ DOMAIN s = 1 .. n /\ (\A k \in 1 .. n : s[k] \in S) /\ i \in 1 .. n + 1
    BY EntryFacts
<1>2. a \in Seq(S) /\ Len(a) = i - 1 /\ \A j \in 1 .. i - 1 : a[j] = s[j]
  <2>1. 1 \in 1 .. n + 1 /\ i - 1 \in 0 .. n
      BY <1>1
  <2>2. CASE i = 1
      BY <1>1, <2>2
  <2>3. CASE i # 1
      BY <1>1, <2>1, <2>3
  <2> QED BY <2>2, <2>3
<1>3. b \in Seq(S) /\ Len(b) = n + 1 - i /\ \A j \in 1 .. n + 1 - i : b[j] = s[i + j - 1]
    BY <1>1
<1>4. t = (a \o <<e>>) \o b
    BY DEF InsertAt
<1> HIDE DEF a, b, t
<1>5. <<e>> \in Seq(S) /\ Len(<<e>>) = 1 /\ <<e>>[1] = e
    OBVIOUS
<1>6. /\ a \o <<e>> \in Seq(S) /\ Len(a \o <<e>>) = i
      /\ \A j \in 1 .. i : (a \o <<e>>)[j] = IF j < i THEN s[j] ELSE e
  <2>1. /\ a \o <<e>> \in Seq(S) /\ Len(a \o <<e>>) = Len(a) + 1
        /\ \A j \in 1 .. Len(a) + 1 : (a \o <<e>>)[j] = IF j <= Len(a) THEN a[j] ELSE <<e>>[j - Len(a)]
      BY <1>2, <1>5, ConcatProperties
  <2> QED BY <1>1, <1>2, <1>5, <2>1
<1> DEFINE c == a \o <<e>>
<1> HIDE DEF c
<1>7. /\ t \in Seq(S) /\ Len(t) = i + (n + 1 - i)
      /\ \A j \in 1 .. i + (n + 1 - i) : t[j] = IF j <= i THEN c[j] ELSE b[j - i]
    BY <1>3, <1>4, <1>6, ConcatProperties DEF c
<1>8. i + (n + 1 - i) = n + 1
    BY <1>1
<1>9. \A j \in 1 .. n + 1 : t[j] = IF j < i THEN s[j] ELSE IF j = i THEN e ELSE s[j - 1]
  <2> SUFFICES ASSUME NEW j \in 1 .. n + 1
               PROVE  t[j] = IF j < i THEN s[j] ELSE IF j = i THEN e ELSE s[j - 1]
      OBVIOUS
  <2>1. CASE j <= i
    <3>1. t[j] = c[j] /\ j \in 1 .. i
        BY <1>1, <1>7, <1>8, <2>1
    <3> QED BY <1>1, <1>6, <3>1 DEF c
  <2>2. CASE ~(j <= i)
    <3>1. t[j] = b[j - i] /\ j - i \in 1 .. n + 1 - i /\ i + (j - i) - 1 = j - 1
        BY <1>1, <1>7, <1>8, <2>2
    <3>2. b[j - i] = s[i + (j - i) - 1]
        BY <1>3, <3>1
    <3> QED BY <1>1, <2>2, <3>1, <3>2
  <2> QED BY <2>1, <2>2
<1>10. DOMAIN t = 1 .. n + 1
    BY <1>7, <1>8, LenProperties
<1>11. ToSet(t) = ToSet(s) \cup {e}
  <2>1. ASSUME NEW j \in 1 .. n + 1 PROVE t[j] \in ToSet(s) \cup {e}
    <3>1. CASE j < i
        BY <1>1, <1>9, <2>1, <3>1 DEF ToSet
    <3>2. CASE j = i
        BY <1>1, <1>9, <3>2
    <3>3. CASE j > i
      <4>1. j - 1 \in 1 .. n /\ ~(j < i) /\ j # i
          BY <1>1, <3>3
      <4>2. t[j] = s[j - 1]
          BY <1>9, <4>1
      <4> QED BY <1>1, <4>1, <4>2 DEF ToSet
    <3> QED BY <1>1, <3>1, <3>2, <3>3
  <2>2. ASSUME NEW j \in 1 .. n PROVE s[j] \in ToSet(t)
    <3>1. CASE j < i
      <4>1. j \in 1 .. n + 1 /\ t[j] = s[j]
          BY <1>1, <1>9, <3>1
      <4> QED BY <1>10, <4>1 DEF ToSet
    <3>2. CASE ~(j < i)
      <4>1. j + 1 \in 1 .. n + 1 /\ ~(j + 1 < i) /\ j + 1 # i /\ (j + 1) - 1 = j
          BY <1>1, <3>2
      <4>2. t[j + 1] = s[(j + 1) - 1]
          BY <1>9, <4>1
      <4> QED BY <1>10, <4>1, <4>2 DEF ToSet
    <3> QED BY <3>1, <3>2
  <2>3. e \in ToSet(t)
    <3>1. i \in 1 .. n + 1 /\ ~(i < i)
        BY <1>1
    <3>2. t[i] = e
        BY <1>9, <3>1
    <3> QED BY <1>10, <3>1, <3>2 DEF ToSet
  <2> QED BY <1>1, <1>10, <2>1, <2>2, <2>3 DEF ToSet
<1> QED BY <1>7, <1>8, <1>9, <1>11 DEF t

\* Which entries are chosen depends on nothing but which belong to the set.
LEMMA ChosenAlike ==
    ASSUME NEW S, NEW s \in Seq(S), NEW R, NEW t \in Seq(R), NEW A, NEW B,
           Len(s) = Len(t), \A k \in 1 .. Len(s) : s[k] \in A <=> t[k] \in B
    PROVE  /\ Len(Chosen(s, A)) = Len(Chosen(t, B))
           /\ (\A k \in 1 .. Len(s) : s[k] \in A => s[k] = t[k]) => Chosen(s, A) = Chosen(t, B)
<1> DEFINE n == Len(s)
<1>1. n \in Nat
    BY EntryFacts
<1>2. PICK F \in [0 .. n -> Seq(S \cap A)] : Chooses_(F, s, A) /\ Chosen(s, A) = F[n]
    BY ChosenIs
<1>3. PICK G \in [0 .. n -> Seq(R \cap B)] : Chooses_(G, t, B) /\ Chosen(t, B) = G[n]
    BY ChosenIs
<1>4. /\ F[0] = <<>> /\ G[0] = <<>>
      /\ \A k \in 1 .. n : F[k] = IF s[k] \in A THEN Append(F[k - 1], s[k]) ELSE F[k - 1]
      /\ \A k \in 1 .. n : G[k] = IF t[k] \in B THEN Append(G[k - 1], t[k]) ELSE G[k - 1]
    BY <1>2, <1>3 DEF Chooses_
<1>5. \A k \in 1 .. n : s[k] \in S /\ t[k] \in R
    BY EntryFacts
<1> HIDE DEF n
<1>6. \A k \in 1 .. n : k \in 0 .. n /\ k - 1 \in 0 .. n
    BY <1>1
<1>7. 0 \in 0 .. n /\ n \in 0 .. n
    BY <1>1
<1> DEFINE T == {k \in 0 .. n : Len(F[k]) = Len(G[k])}
           E == {k \in 0 .. n : F[k] = G[k]}
<1>8. ASSUME NEW k \in 1 .. n, k - 1 \in T PROVE k \in T
  <2>1. F[k - 1] \in Seq(S \cap A) /\ G[k - 1] \in Seq(R \cap B) /\ Len(F[k - 1]) = Len(G[k - 1])
      BY <1>6, <1>8
  <2>2. CASE s[k] \in A
    <3>1. s[k] \in S \cap A /\ t[k] \in R \cap B
        BY <1>5, <2>2 DEF n
    <3>2. F[k] = Append(F[k - 1], s[k]) /\ G[k] = Append(G[k - 1], t[k])
        BY <1>4, <3>1
    <3>3. Len(F[k]) = Len(F[k - 1]) + 1
        BY <2>1, <3>1, <3>2, AppendFacts
    <3>4. Len(G[k]) = Len(G[k - 1]) + 1
        BY <2>1, <3>1, <3>2, AppendFacts
    <3> QED BY <1>6, <2>1, <3>3, <3>4
  <2>3. CASE s[k] \notin A
    <3>1. t[k] \notin B
        BY <2>3 DEF n
    <3> QED BY <1>4, <1>6, <2>1, <2>3, <3>1
  <2> QED BY <2>2, <2>3
<1>9. \A k \in 0 .. n : k \in T
  <2>1. 0 \in T
      BY <1>4, <1>7
  <2> HIDE DEF T
  <2> QED BY <1>1, <1>8, <2>1, Climb
<1>10. ASSUME \A k \in 1 .. n : s[k] \in A => s[k] = t[k] PROVE F[n] = G[n]
  <2>1. 0 \in E
      BY <1>4, <1>7
  <2>2. ASSUME NEW k \in 1 .. n, k - 1 \in E PROVE k \in E
    <3>1. F[k - 1] = G[k - 1]
        BY <2>2
    <3>2. s[k] \in A <=> t[k] \in B
        BY DEF n
    <3> QED BY <1>4, <1>6, <1>10, <3>1, <3>2
  <2>3. \A k \in 0 .. n : k \in E
    <3> HIDE DEF E
    <3> QED BY <1>1, <2>1, <2>2, Climb
  <2> QED BY <1>7, <2>3
<1> QED BY <1>2, <1>3, <1>7, <1>9, <1>10 DEF n

\* What is put in is chosen as well, if it belongs to the set, and nothing else changes.
LEMMA ChosenInsert ==
    ASSUME NEW S, NEW s \in Seq(S), NEW i \in 1 .. Len(s) + 1, NEW e \in S, NEW A
    PROVE  /\ e \notin A => Chosen(InsertAt(s, i, e), A) = Chosen(s, A)
           /\ e \in A => Len(Chosen(InsertAt(s, i, e), A)) = Len(Chosen(s, A)) + 1
<1> DEFINE n == Len(s)
           t == InsertAt(s, i, e)
<1>1. n \in Nat /\ i \in 1 .. n + 1 /\ \A k \in 1 .. n : s[k] \in S
    BY EntryFacts
<1>2. /\ t \in Seq(S) /\ Len(t) = n + 1
      /\ \A j \in 1 .. n + 1 : t[j] = IF j < i THEN s[j] ELSE IF j = i THEN e ELSE s[j - 1]
    BY InsertFacts
<1>3. PICK F \in [0 .. n -> Seq(S \cap A)] : Chooses_(F, s, A) /\ Chosen(s, A) = F[n]
    BY ChosenIs
<1> HIDE DEF n, t
<1>4. PICK G \in [0 .. n + 1 -> Seq(S \cap A)] : Chooses_(G, t, A) /\ Chosen(t, A) = G[n + 1]
  <2>1. \E G \in [0 .. Len(t) -> Seq(S \cap A)] : Chooses_(G, t, A) /\ Chosen(t, A) = G[Len(t)]
      BY <1>2, ChosenIs
  <2> QED BY <1>2, <2>1
<1>5. /\ F[0] = <<>> /\ G[0] = <<>>
      /\ \A k \in 1 .. n : F[k] = IF s[k] \in A THEN Append(F[k - 1], s[k]) ELSE F[k - 1]
      /\ \A k \in 1 .. n + 1 : G[k] = IF t[k] \in A THEN Append(G[k - 1], t[k]) ELSE G[k - 1]
    BY <1>2, <1>3, <1>4 DEF Chooses_, n
<1> DEFINE More(k) == IF e \in A THEN Len(G[k]) = Len(F[k - 1]) + 1 ELSE G[k] = F[k - 1]
           T == {k \in 0 .. n + 1 : IF k < i THEN G[k] = F[k] ELSE More(k)}
<1>6. 0 \in T
    BY <1>1, <1>5
<1>7. ASSUME NEW k \in 1 .. n + 1, k - 1 \in T PROVE k \in T
  <2>1. k \in 0 .. n + 1 /\ k - 1 \in 0 .. n + 1 /\ k - 1 \in 0 .. n
      BY <1>1
  <2>2. CASE k < i
    <3>1. k \in 1 .. n /\ k - 1 < i
        BY <1>1, <2>2
    <3>2. t[k] = s[k] /\ G[k - 1] = F[k - 1]
        BY <1>2, <1>7, <2>2, <3>1
    <3>3. G[k] = F[k]
        BY <1>5, <3>1, <3>2
    <3> QED BY <2>1, <2>2, <3>3
  <2>3. CASE k = i
    <3>1. k - 1 < i /\ ~(k < i)
        BY <1>1, <2>3
    <3>2. t[k] = e /\ G[k - 1] = F[k - 1]
        BY <1>2, <1>7, <2>3, <3>1
    <3>3. G[k - 1] \in Seq(S \cap A)
        BY <2>1
    <3>4. CASE e \in A
      <4>1. G[k] = Append(F[k - 1], e)
          BY <1>5, <3>2, <3>4
      <4>2. e \in S \cap A /\ F[k - 1] \in Seq(S \cap A)
          BY <2>1, <3>4
      <4>3. Len(G[k]) = Len(F[k - 1]) + 1
          BY <4>1, <4>2, AppendFacts
      <4> QED BY <2>1, <3>1, <3>4, <4>3
    <3>5. CASE e \notin A
      <4>1. G[k] = F[k - 1]
          BY <1>5, <3>2, <3>5
      <4> QED BY <2>1, <3>1, <3>5, <4>1
    <3> QED BY <3>4, <3>5
  <2>4. CASE k > i
    <3>1. k - 1 \in 1 .. n /\ k - 1 \in 1 .. n + 1 /\ ~(k < i) /\ k # i /\ ~(k - 1 < i) /\ (k - 1) - 1 \in 0 .. n
        BY <1>1, <2>4
    <3> DEFINE p == k - 1
    <3>2. t[k] = s[p] /\ More(p)
        BY <1>2, <1>7, <3>1
    <3>3. F[p] = IF s[p] \in A THEN Append(F[p - 1], s[p]) ELSE F[p - 1]
        BY <1>5, <3>1
    <3>4. G[k] = IF s[p] \in A THEN Append(G[p], s[p]) ELSE G[p]
        BY <1>5, <3>2
    <3>5. F[p - 1] \in Seq(S \cap A) /\ G[p] \in Seq(S \cap A) /\ s[p] \in S
        BY <1>1, <2>1, <3>1
    <3>6. ~(k < i) /\ k \in 0 .. n + 1
        BY <2>1, <3>1
    <3> HIDE DEF p
    <3>7. CASE e \notin A
      <4>1. G[p] = F[p - 1]
          BY <3>2, <3>7
      <4>2. G[k] = F[k - 1]
          BY <3>3, <3>4, <4>1 DEF p
      <4> QED BY <3>6, <3>7, <4>2
    <3>8. CASE e \in A
      <4>1. Len(G[p]) = Len(F[p - 1]) + 1
          BY <3>2, <3>8
      <4>2. Len(G[k]) = Len(F[p]) + 1
        <5>1. CASE s[p] \in A
          <6>1. s[p] \in S \cap A
              BY <3>5, <5>1
          <6>2. Len(Append(F[p - 1], s[p])) = Len(F[p - 1]) + 1
              BY <3>5, <6>1, AppendFacts
          <6>3. Len(Append(G[p], s[p])) = Len(G[p]) + 1
              BY <3>5, <6>1, AppendFacts
          <6> QED BY <3>3, <3>4, <4>1, <5>1, <6>2, <6>3
        <5>2. CASE s[p] \notin A
            BY <3>3, <3>4, <4>1, <5>2
        <5> QED BY <5>1, <5>2
      <4>3. Len(G[k]) = Len(F[k - 1]) + 1
          BY <4>2 DEF p
      <4> QED BY <3>6, <3>8, <4>3
    <3> QED BY <3>7, <3>8
  <2> QED BY <1>1, <2>2, <2>3, <2>4
<1>8. \A k \in 0 .. n + 1 : k \in T
  <2>1. n + 1 \in Nat
      BY <1>1
  <2> HIDE DEF T
  <2> QED BY <1>6, <1>7, <2>1, Climb
<1>9. More(n + 1)
  <2>1. n + 1 \in 0 .. n + 1 /\ ~(n + 1 < i)
      BY <1>1
  <2> QED BY <1>8, <2>1
<1>10. (n + 1) - 1 = n
    BY <1>1
<1> QED BY <1>3, <1>4, <1>9, <1>10 DEF t

\* An entry is taken out.
LEMMA TakenOutFacts ==
    ASSUME NEW S, NEW s \in Seq(S), NEW i \in DOMAIN s
    PROVE  /\ RemoveAt(s, i) \in Seq(S)
           /\ \A j \in DOMAIN s : j # i => s[j] \in ToSet(RemoveAt(s, i))
<1> DEFINE n == Len(s)
           a == SubSeq(s, 1, i - 1)
           b == SubSeq(s, i + 1, n)
           t == RemoveAt(s, i)
<1>1. n \in Nat /\ DOMAIN s = 1 .. n /\ i \in 1 .. n /\ \A k \in 1 .. n : s[k] \in S
    BY EntryFacts
<1>2. a \in Seq(S) /\ Len(a) = i - 1 /\ \A j \in 1 .. i - 1 : a[j] = s[j]
    BY <1>1
<1>3. b \in Seq(S) /\ Len(b) = n - i /\ \A j \in 1 .. n - i : b[j] = s[i + j]
  <2>1. CASE i = n
      BY <1>1, <2>1
  <2>2. CASE i # n
      BY <1>1, <2>2
  <2> QED BY <2>1, <2>2
<1>4. t = a \o b
    BY DEF RemoveAt
<1> HIDE DEF a, b, t
<1>5. /\ t \in Seq(S) /\ Len(t) = (i - 1) + (n - i)
      /\ \A j \in 1 .. (i - 1) + (n - i) : t[j] = IF j <= i - 1 THEN a[j] ELSE b[j - (i - 1)]
  <2>1. /\ a \o b \in Seq(S) /\ Len(a \o b) = Len(a) + Len(b)
        /\ \A j \in 1 .. Len(a) + Len(b) : (a \o b)[j] = IF j <= Len(a) THEN a[j] ELSE b[j - Len(a)]
      BY <1>2, <1>3, ConcatProperties
  <2> QED BY <1>2, <1>3, <1>4, <2>1
<1>6. DOMAIN t = 1 .. n - 1 /\ (i - 1) + (n - i) = n - 1
    BY <1>1, <1>5, LenProperties
<1>7. ASSUME NEW j \in 1 .. n, j # i PROVE s[j] \in ToSet(t)
  <2>1. CASE j < i
    <3>1. j \in 1 .. n - 1 /\ j \in 1 .. i - 1 /\ j <= i - 1
        BY <1>1, <2>1
    <3>2. t[j] = s[j]
        BY <1>2, <1>5, <1>6, <3>1
    <3> QED BY <1>6, <3>1, <3>2 DEF ToSet
  <2>2. CASE j > i
    <3> DEFINE k == j - 1
    <3>1. k \in 1 .. n - 1 /\ ~(k <= i - 1) /\ k - (i - 1) \in 1 .. n - i /\ i + (k - (i - 1)) = j
        BY <1>1, <2>2
    <3>2. t[k] = b[k - (i - 1)]
        BY <1>5, <1>6, <3>1
    <3>3. t[k] = s[j]
        BY <1>3, <3>1, <3>2
    <3> QED BY <1>6, <3>1, <3>3 DEF ToSet
  <2> QED BY <1>1, <1>7, <2>1, <2>2
<1> QED BY <1>1, <1>5, <1>7 DEF t

\* How many entries are chosen is a number.
LEMMA ChosenLength ==
    ASSUME NEW S, NEW s \in Seq(S), NEW A
    PROVE  Len(Chosen(s, A)) \in Nat
<1> DEFINE R == S \cap A
<1>1. Chosen(s, A) \in Seq(R)
    BY ChosenFacts
<1> HIDE DEF R
<1> QED BY <1>1, EntryFacts
=============================================================================
