--------------------------- MODULE QuestionsProofs ---------------------------
(***************************************************************************)
(* Questions for every workspace, readings and plans: what is written in   *)
(* the end is what was meant, whatever was asked and whatever disappeared  *)
(* meanwhile.                                                              *)
(*                                                                         *)
(* That is said of the step that writes, and is not inductive: by then the *)
(* candidates come from a question asked long before.  QuestionsInv says   *)
(* what an open question's candidates keep from then on (Meant): each has  *)
(* the row it was read with until that is gone, lacks a column only when   *)
(* it went, holds no sure value that nobody settled; and the places that   *)
(* were as good as the best still rank with the best.                      *)
(***************************************************************************)
EXTENDS Questions, SequenceLemmas, FiniteSetTheorems

----------------------------------------------------------------------------
(* The invariant.                                                          *)

\* A candidate whose values are of their columns' kinds, and a list of such, best first and one of a place.
May(f, x) == IF OfOptions(f) THEN x \in Options ELSE x # Unfit
WellRead(f, v) ==
    /\ IsRead(v)
    /\ v.status = "value" => May(f, v.value)
    /\ v.status = "ambiguous" => \A x \in v.values : May(f, x)
WellPut(c) ==
    /\ IsCandidate(c) /\ c.target \in Targets
    /\ DOMAIN c.fields \subseteq Columns \cup {PageTitle}
    /\ \A f \in DOMAIN c.fields : WellRead(f, c.fields[f])
Distinct(cs) == \A i, j \in DOMAIN cs : cs[i].target = cs[j].target => i = j
Descending(cs) == \A i, j \in DOMAIN cs : i < j => cs[i].conf >= cs[j].conf
WellRanked(cs) ==
    /\ cs \in Seq(Range(cs)) /\ \A c \in Range(cs) : WellPut(c)
    /\ Distinct(cs) /\ Descending(cs)

\* What a candidate owes to the reading it came from.
NothingMissing(c) ==
    c.target \in DOMAIN world /\ Kind[c.target] = "database" =>
        \A f \in Columns \ DOMAIN c.fields : WentFrom(c.target, f)
RowKept(intent, c, of) ==
    intent \in {"update", "append", "rewrite"} /\ c.target \in DOMAIN of \cap DOMAIN world =>
        c.item = of[c.target] \/ (c.item = None /\ of[c.target] \notin world[c.target].items)
AmongTheBest(cs, t) == \E i \in DOMAIN cs : cs[i].target = t /\ cs[1].conf - cs[i].conf < TARGET_MARGIN
Meant(intent, cs, of, sure) ==
    /\ \A c \in Range(cs) : NothingMissing(c) /\ RowKept(intent, c, of)
    /\ cs # <<>> => DOMAIN of # {}
    /\ \A t \in DOMAIN of \cap DOMAIN world : AmongTheBest(cs, t)
    /\ SureIn(cs) \subseteq sure

\* The workspace, the question with its buttons, what was asked before, the open session and the plan.
WorldOK ==
    /\ DOMAIN world \subseteq Targets
    /\ \A t \in DOMAIN world :
           /\ DOMAIN world[t] = {"items", "columns", "options"}
           /\ None \notin world[t].items /\ world[t].columns \subseteq Columns
           /\ DOMAIN world[t].options = {f \in Columns : OfOptions(f)}
           /\ \A f \in DOMAIN world[t].options : world[t].options[f] \subseteq Options
QuestionOK(q, options, cs) ==
    /\ q.type # "clarify" => cs # <<>>
    /\ q.type \in FieldTypes => q.field \in DOMAIN cs[1].fields
    /\ \A o \in options : o.id \in {"pick", "add_new", "confirm"} =>
           /\ q.type # "clarify"
           /\ q.type = "target" => \E c \in Range(cs) : c.target = o.of
           /\ q.type \in {"field_required", "field_ambiguous"} => o.of # None /\ May(q.field, o.of)
AskedOK(q, asked) ==
    /\ asked \in Seq(Range(asked)) /\ IsInjective(asked)
    /\ Len(asked) < MAX_QUESTIONS /\ q \notin Range(asked)
SessionOK ==
    Open => /\ DOMAIN session = {"intent", "conf", "cands", "question", "options", "asked"}
            /\ session.intent # None
            /\ WellRanked(session.cands) /\ Meant(session.intent, session.cands, chosen, settled)
            /\ QuestionOK(session.question, session.options, session.cands)
            /\ AskedOK(session.question, session.asked)
PlanOK(p) ==
    /\ DOMAIN p = {"steps", "field_answers", "asked_field"}
    /\ \A f \in DOMAIN p.field_answers : p.field_answers[f] # None
    /\ p # NoPlan => /\ p.steps \in Seq(Range(p.steps)) \ {<<>>}
                     /\ \A spec \in Range(p.steps) : spec.action # None /\ \A f \in DOMAIN spec.fields : spec.fields[f] # None
QuestionsInv == WorldOK /\ SessionOK /\ PlanOK(plan) /\ texts \in Nat /\ WrittenAsMeant

----------------------------------------------------------------------------
(* Lists of candidates.                                                    *)

\* One list behind another.
LEMMA JoinFacts ==
    ASSUME NEW S, NEW s \in Seq(S), NEW t \in Seq(S)
    PROVE  /\ Len(s) \in Nat /\ Len(t) \in Nat
           /\ DOMAIN s = 1 .. Len(s) /\ DOMAIN t = 1 .. Len(t) /\ DOMAIN (s \o t) = 1 .. Len(s) + Len(t)
           /\ \A i \in DOMAIN s : i \in DOMAIN (s \o t) /\ (s \o t)[i] = s[i]
           /\ \A i \in DOMAIN t : Len(s) + i \in DOMAIN (s \o t) /\ (s \o t)[Len(s) + i] = t[i]
           /\ \A i \in DOMAIN (s \o t) : \/ i \in DOMAIN s /\ (s \o t)[i] = s[i]
                                         \/ i > Len(s) /\ i - Len(s) \in DOMAIN t /\ (s \o t)[i] = t[i - Len(s)]
<1> DEFINE m == Len(s)
           n == Len(t)
           u == s \o t
<1>1. m \in Nat /\ n \in Nat /\ DOMAIN s = 1 .. m /\ DOMAIN t = 1 .. n
    BY LenProperties
<1>2. u \in Seq(S) /\ Len(u) = m + n /\ \A i \in 1 .. m + n : u[i] = IF i <= m THEN s[i] ELSE t[i - m]
    BY ConcatProperties
<1>3. DOMAIN u = 1 .. m + n
    BY <1>2, LenProperties
<1> HIDE DEF m, n, u
<1>4. ASSUME NEW i \in 1 .. m PROVE i \in 1 .. m + n /\ u[i] = s[i]
    BY <1>1, <1>2
<1>5. ASSUME NEW i \in 1 .. n PROVE m + i \in 1 .. m + n /\ u[m + i] = t[i]
  <2>1. m + i \in 1 .. m + n /\ ~(m + i <= m) /\ (m + i) - m = i
      BY <1>1
  <2>2. u[m + i] = t[(m + i) - m]
      BY <1>2, <2>1
  <2> QED BY <2>1, <2>2
<1>6. ASSUME NEW i \in 1 .. m + n
      PROVE  (i \in 1 .. m /\ u[i] = s[i]) \/ (i > m /\ i - m \in 1 .. n /\ u[i] = t[i - m])
  <2>1. CASE i <= m
      BY <1>1, <1>2, <2>1
  <2>2. CASE ~(i <= m)
    <3>1. i > m /\ i - m \in 1 .. n
        BY <1>1, <2>2
    <3> QED BY <1>2, <2>2, <3>1
  <2> QED BY <2>1, <2>2
<1> QED BY <1>1, <1>3, <1>4, <1>5, <1>6 DEF m, n, u

\* A list of distinct places, seen as a set: a place has one candidate.
LEMMA OnePerPlace ==
    ASSUME NEW cs, Distinct(cs), NEW c \in Range(cs), NEW d \in Range(cs), c.target = d.target
    PROVE  c = d
BY DEF Distinct, Range

\* What Chosen leaves of a list of distinct places.
LEMMA ChosenDistinct ==
    ASSUME NEW S, NEW cs \in Seq(S), NEW those, Distinct(cs)
    PROVE  Distinct(Chosen(cs, those))
<1> DEFINE kept == Chosen(cs, those)
<1>1. PICK h \in [DOMAIN kept -> DOMAIN cs] : /\ \A i \in DOMAIN kept : kept[i] = cs[h[i]]
                                              /\ \A i, j \in DOMAIN kept : i < j => h[i] < h[j]
    BY ChosenOrder
<1>2. kept \in Seq(S \cap those) /\ DOMAIN cs \subseteq Nat
    BY ChosenOrder, EntryFacts
<1>3. DOMAIN kept \subseteq Nat
    BY <1>2, EntryFacts
<1> HIDE DEF kept
<1>4. ASSUME NEW i \in DOMAIN kept, NEW j \in DOMAIN kept, kept[i].target = kept[j].target PROVE i = j
  <2>1. h[i] \in DOMAIN cs /\ h[j] \in DOMAIN cs /\ cs[h[i]].target = cs[h[j]].target
      BY <1>1, <1>4
  <2>2. h[i] = h[j] /\ h[i] \in Nat
      BY <1>2, <2>1 DEF Distinct
  <2>3. ~(i < j) /\ ~(j < i)
      BY <1>1, <2>2
  <2>4. i \in Nat /\ j \in Nat
      BY <1>3
  <2> QED BY <2>3, <2>4
<1> QED BY <1>4 DEF Distinct, kept

\* Ranked only puts the candidates in another order, the surest first.
LEMMA RankedFacts ==
    ASSUME NEW cs, cs \in Seq(Range(cs)), \A c \in Range(cs) : c.conf \in 0 .. SURE
    PROVE  /\ Ranked(cs) \in Seq(Range(cs)) /\ Range(Ranked(cs)) = Range(cs)
           /\ Descending(Ranked(cs)) /\ (Distinct(cs) => Distinct(Ranked(cs)))
<1> DEFINE S == Range(cs)
           bucket(k) == Chosen(cs, OfConf(cs, SURE + 1 - k))
           seqs == [k \in 1 .. SURE + 1 |-> bucket(k)]
<1>1. SURE \in Nat /\ SURE + 1 \in Nat
    BY Thresholds
<1>2. ASSUME NEW k \in 1 .. SURE + 1
      PROVE  /\ bucket(k) \in Seq(S)
             /\ \A i \in DOMAIN bucket(k) : bucket(k)[i] \in S /\ bucket(k)[i].conf = SURE + 1 - k
             /\ Distinct(cs) => Distinct(bucket(k))
             /\ \A c \in S : c.conf = SURE + 1 - k => \E j \in DOMAIN bucket(k) : bucket(k)[j] = c
  <2> DEFINE those == OfConf(cs, SURE + 1 - k)
             b == Chosen(cs, those)
  <2>1. b \in Seq(S \cap those)
      BY ChosenOrder
  <2>2. \A i \in DOMAIN b : b[i] \in S \cap those
    <3> HIDE DEF b
    <3> QED BY <2>1, EntryFacts
  <2>3. b \in Seq(S)
    <3> HIDE DEF b
    <3>1. S \cap those \subseteq S
        OBVIOUS
    <3> HIDE DEF S, those
    <3> QED BY <2>1, <3>1
  <2>4. Distinct(cs) => Distinct(b)
      BY ChosenDistinct
  <2>5. ASSUME NEW c \in S, c.conf = SURE + 1 - k PROVE \E j \in DOMAIN b : b[j] = c
    <3>1. PICK i \in DOMAIN cs : cs[i] = c
        BY DEF Range
    <3>2. cs[i] \in those
        BY <2>5, <3>1 DEF OfConf
    <3> HIDE DEF those
    <3> QED BY <3>1, <3>2, ChosenAll
  <2>6. \A i \in DOMAIN b : b[i].conf = SURE + 1 - k
      BY <2>2 DEF OfConf
  <2> QED BY <2>2, <2>3, <2>4, <2>5, <2>6
<1> HIDE DEF bucket
<1>3. seqs \in Seq(Seq(S)) /\ Len(seqs) = SURE + 1 /\ \A k \in 1 .. SURE + 1 : seqs[k] = bucket(k)
    BY <1>1, <1>2
<1>4. Ranked(cs) = FlattenSeq(seqs)
    BY DEF Ranked, bucket
<1> HIDE DEF S, seqs
<1>5. PICK F \in [0 .. SURE + 1 -> Seq(S)] : Flattens(F, seqs) /\ FlattenSeq(seqs) = F[SURE + 1]
    BY <1>3, FlattenIs
<1> DEFINE Upto(k) == /\ \A j \in DOMAIN F[k] : F[k][j] \in S /\ F[k][j].conf >= SURE + 1 - k
                      /\ Descending(F[k]) /\ (Distinct(cs) => Distinct(F[k]))
                      /\ \A c \in S : c.conf >= SURE + 1 - k => \E j \in DOMAIN F[k] : F[k][j] = c
           T == {k \in 0 .. SURE + 1 : Upto(k)}
<1>6. 0 \in T
  <2>1. F[0] = <<>> /\ 0 \in 0 .. SURE + 1
      BY <1>1, <1>5 DEF Flattens
  <2>2. \A c \in S : ~(c.conf >= SURE + 1 - 0)
      BY <1>1 DEF S
  <2> QED BY <2>1, <2>2 DEF Descending, Distinct
<1>7. ASSUME NEW k \in 1 .. SURE + 1, k - 1 \in T PROVE k \in T
  <2> DEFINE A == F[k - 1]
             B == bucket(k)
             n == Len(A)
  <2>1. k - 1 \in 0 .. SURE + 1 /\ Upto(k - 1) /\ k \in 0 .. SURE + 1
      BY <1>7
  <2>2. A \in Seq(S) /\ B \in Seq(S)
      BY <1>2, <2>1
  <2>3. F[k] = A \o B
    <3>1. F[k] = F[k - 1] \o seqs[k]
        BY <1>3, <1>5 DEF Flattens
    <3> QED BY <1>3, <3>1
  <2>4. /\ \A j \in DOMAIN A : A[j] \in S /\ A[j].conf >= SURE + 2 - k
        /\ Descending(A) /\ (Distinct(cs) => Distinct(A))
        /\ \A c \in S : c.conf >= SURE + 2 - k => \E j \in DOMAIN A : A[j] = c
    <3>1. SURE + 1 - (k - 1) = SURE + 2 - k
        BY <1>1
    <3> QED BY <2>1, <3>1
  <2>5. /\ \A i \in DOMAIN B : B[i] \in S /\ B[i].conf = SURE + 1 - k
        /\ Distinct(cs) => Distinct(B)
        /\ \A c \in S : c.conf = SURE + 1 - k => \E j \in DOMAIN B : B[j] = c
      BY <1>2
  <2> HIDE DEF A, B
  <2> DEFINE J == A \o B
  <2>6. /\ n \in Nat /\ DOMAIN A \subseteq Nat /\ DOMAIN B \subseteq Nat /\ DOMAIN J \subseteq Nat
        /\ \A i \in DOMAIN A : i \in DOMAIN J /\ J[i] = A[i]
        /\ \A i \in DOMAIN B : n + i \in DOMAIN J /\ J[n + i] = B[i]
        /\ \A i \in DOMAIN J : \/ i \in DOMAIN A /\ J[i] = A[i]
                               \/ i > n /\ i - n \in DOMAIN B /\ J[i] = B[i - n]
    <3>1. /\ n \in Nat /\ Len(B) \in Nat
          /\ DOMAIN A = 1 .. n /\ DOMAIN B = 1 .. Len(B) /\ DOMAIN J = 1 .. n + Len(B)
        BY <2>2, JoinFacts
    <3> QED BY <2>2, <3>1, JoinFacts
  <2>7. DOMAIN A = 1 .. n
      BY <2>2, EntryFacts
  <2> HIDE DEF J, n
  <2>8. \A c \in S : c.conf \in Nat
      BY DEF S
  <2>9. ASSUME NEW j \in DOMAIN J PROVE J[j] \in S /\ J[j].conf >= SURE + 1 - k
    <3>1. CASE j \in DOMAIN A /\ J[j] = A[j]
      <4>1. A[j] \in S /\ A[j].conf >= SURE + 2 - k /\ A[j].conf \in Nat
          BY <2>4, <2>8, <3>1
      <4> QED BY <1>1, <3>1, <4>1
    <3>2. CASE j > n /\ j - n \in DOMAIN B /\ J[j] = B[j - n]
      <4>1. B[j - n] \in S /\ B[j - n].conf = SURE + 1 - k
          BY <2>5, <3>2
      <4> QED BY <1>1, <3>2, <4>1
    <3> QED BY <2>6, <3>1, <3>2
  <2>10. ASSUME NEW i \in DOMAIN J, NEW j \in DOMAIN J, i < j PROVE J[i].conf >= J[j].conf
    <3>1. CASE i > n /\ i - n \in DOMAIN B /\ J[i] = B[i - n]
      <4>1. j \notin DOMAIN A
        <5>1. i \in Nat /\ j \in Nat
            BY <2>6
        <5> QED BY <2>6, <2>7, <2>10, <3>1, <5>1
      <4>2. j - n \in DOMAIN B /\ J[j] = B[j - n]
          BY <2>6, <4>1
      <4>3. J[i].conf = SURE + 1 - k /\ J[j].conf = SURE + 1 - k
          BY <2>5, <3>1, <4>2
      <4> QED BY <1>1, <4>3
    <3>2. CASE i \in DOMAIN A /\ J[i] = A[i]
      <4>1. CASE j \in DOMAIN A /\ J[j] = A[j]
          BY <2>4, <2>10, <3>2, <4>1 DEF Descending
      <4>2. CASE j > n /\ j - n \in DOMAIN B /\ J[j] = B[j - n]
        <5>1. A[i] \in S /\ A[i].conf >= SURE + 2 - k /\ A[i].conf \in Nat
            BY <2>4, <2>8, <3>2
        <5>2. B[j - n].conf = SURE + 1 - k
            BY <2>5, <4>2
        <5> QED BY <1>1, <3>2, <4>2, <5>1, <5>2
      <4> QED BY <2>6, <4>1, <4>2
    <3> QED BY <2>6, <3>1, <3>2
  <2>11. ASSUME NEW i \in DOMAIN A, NEW j \in DOMAIN B, Distinct(cs), A[i].target = B[j].target PROVE FALSE
    <3>1. A[i] \in Range(cs) /\ B[j] \in Range(cs)
        BY <2>4, <2>5 DEF S
    <3>2. A[i] = B[j]
        BY <2>11, <3>1, OnePerPlace
    <3>3. A[i].conf >= SURE + 2 - k /\ A[i].conf \in Nat /\ B[j].conf = SURE + 1 - k
        BY <2>4, <2>5, <2>8
    <3> QED BY <1>1, <3>2, <3>3
  <2>12. ASSUME NEW i \in DOMAIN J, NEW j \in DOMAIN J, Distinct(cs), J[i].target = J[j].target PROVE i = j
    <3>1. CASE i \in DOMAIN A /\ J[i] = A[i] /\ j \in DOMAIN A /\ J[j] = A[j]
        BY <2>4, <2>12, <3>1 DEF Distinct
    <3>2. CASE i \in DOMAIN A /\ J[i] = A[i] /\ j - n \in DOMAIN B /\ J[j] = B[j - n]
        BY <2>11, <2>12, <3>2
    <3>3. CASE j \in DOMAIN A /\ J[j] = A[j] /\ i - n \in DOMAIN B /\ J[i] = B[i - n]
        BY <2>11, <2>12, <3>3
    <3>4. CASE i - n \in DOMAIN B /\ J[i] = B[i - n] /\ j - n \in DOMAIN B /\ J[j] = B[j - n]
      <4>1. i - n = j - n
          BY <2>5, <2>12, <3>4 DEF Distinct
      <4>2. i \in Nat /\ j \in Nat
          BY <2>6
      <4> QED BY <2>6, <4>1, <4>2
    <3> QED BY <2>6, <3>1, <3>2, <3>3, <3>4
  <2>13. ASSUME NEW c \in S, c.conf >= SURE + 1 - k PROVE \E j \in DOMAIN J : J[j] = c
    <3>1. CASE c.conf >= SURE + 2 - k
      <4>1. PICK j \in DOMAIN A : A[j] = c
          BY <2>4, <3>1
      <4> QED BY <2>6, <4>1
    <3>2. CASE ~(c.conf >= SURE + 2 - k)
      <4>1. c.conf = SURE + 1 - k
          BY <1>1, <2>8, <2>13, <3>2
      <4>2. PICK j \in DOMAIN B : B[j] = c
          BY <2>5, <4>1
      <4> QED BY <2>6, <4>2
    <3> QED BY <3>1, <3>2
  <2>14. Descending(J)
      BY <2>10 DEF Descending
  <2>15. Distinct(cs) => Distinct(J)
      BY <2>12 DEF Distinct
  <2>16. F[k] = J
      BY <2>3 DEF J
  <2> QED BY <2>1, <2>9, <2>13, <2>14, <2>15, <2>16
<1>8. \A k \in 0 .. SURE + 1 : k \in T
  <2> HIDE DEF T
  <2> QED BY <1>1, <1>6, <1>7, Climb
<1>9. Upto(SURE + 1) /\ SURE + 1 \in 0 .. SURE + 1
    BY <1>1, <1>8
<1> DEFINE R == F[SURE + 1]
<1>10. R \in Seq(S) /\ Descending(R) /\ (Distinct(cs) => Distinct(R))
    BY <1>9
<1>11. \A c \in S : \E j \in DOMAIN R : R[j] = c
  <2>1. \A c \in S : c.conf >= SURE + 1 - (SURE + 1)
      BY <1>1 DEF S
  <2> QED BY <1>9, <2>1
<1>12. Range(R) = S
  <2>1. \A j \in DOMAIN R : R[j] \in S
      BY <1>9
  <2> HIDE DEF R
  <2> QED BY <1>11, <2>1 DEF Range
<1> QED BY <1>4, <1>5, <1>10, <1>12 DEF S

\* A list is a list of its own entries.
LEMMA OwnEntries ==
    ASSUME NEW S, NEW s \in Seq(S)
    PROVE  s \in Seq(Range(s)) /\ Range(s) \subseteq S
<1>1. Len(s) \in Nat /\ DOMAIN s = 1 .. Len(s) /\ \A i \in DOMAIN s : s[i] \in S
    BY EntryFacts
<1> DEFINE R == Range(s)
<1>2. \A i \in DOMAIN s : s[i] \in R
    BY DEF Range
<1>3. R \subseteq S
    BY <1>1 DEF Range
<1> HIDE DEF R
<1>4. s \in Seq(R)
    BY <1>1, <1>2
<1> QED BY <1>3, <1>4 DEF R

\* Of each place the best candidate is left, the first of several.
LEMMA BestFacts ==
    ASSUME NEW S, NEW cs \in Seq(S), \A c \in S : c.conf \in Nat
    PROVE  LET best == BestPerTarget(cs)
           IN  best \in Seq(Range(best)) /\ Range(best) \subseteq S /\ Distinct(best)
<1> DEFINE ids == [i \in DOMAIN cs |-> i]
           those == {i \in DOMAIN cs : ~Beaten(cs, i)}
           kept == Chosen(ids, those)
           best == BestPerTarget(cs)
<1>1. Len(cs) \in Nat /\ DOMAIN cs = 1 .. Len(cs) /\ \A i \in DOMAIN cs : cs[i] \in S
    BY EntryFacts
<1>2. ids \in Seq(Nat) /\ DOMAIN ids = DOMAIN cs
    BY <1>1
<1> HIDE DEF ids, those
<1>3. PICK h \in [DOMAIN kept -> DOMAIN ids] : /\ \A i \in DOMAIN kept : kept[i] = ids[h[i]]
                                               /\ \A i, j \in DOMAIN kept : i < j => h[i] < h[j]
    BY <1>2, ChosenOrder
<1>4. kept \in Seq(Nat \cap those)
    BY <1>2, ChosenOrder
<1>5. best = [k \in DOMAIN kept |-> cs[kept[k]]]
    BY DEF BestPerTarget, ids, those
<1> HIDE DEF kept, best
<1>6. Len(kept) \in Nat /\ DOMAIN kept = 1 .. Len(kept) /\ \A k \in DOMAIN kept : kept[k] \in Nat /\ kept[k] \in those
    BY <1>4, EntryFacts
<1>7. \A k \in DOMAIN kept : kept[k] = h[k] /\ kept[k] \in DOMAIN cs
    BY <1>2, <1>3 DEF ids
<1>8. best \in Seq(S) /\ DOMAIN best = DOMAIN kept
    BY <1>1, <1>5, <1>6, <1>7
<1>9. ASSUME NEW k \in DOMAIN kept, NEW l \in DOMAIN kept, k < l, best[k].target = best[l].target PROVE FALSE
  <2> DEFINE a == kept[k]
             b == kept[l]
  <2>1. a < b /\ a \in DOMAIN cs /\ b \in DOMAIN cs /\ cs[a].target = cs[b].target
      BY <1>3, <1>5, <1>7, <1>9
  <2>2. ~Beaten(cs, a) /\ ~Beaten(cs, b)
      BY <1>6 DEF those
  <2>3. cs[a].conf \in Nat /\ cs[b].conf \in Nat
      BY <1>1, <2>1
  <2> HIDE DEF a, b
  <2>4. ~(cs[b].conf > cs[a].conf)
      BY <2>1, <2>2 DEF Beaten
  <2>5. ~(cs[a].conf > cs[b].conf \/ (cs[a].conf = cs[b].conf /\ a < b))
      BY <2>1, <2>2 DEF Beaten
  <2> QED BY <2>1, <2>3, <2>4, <2>5
<1>10. Distinct(best)
  <2> SUFFICES ASSUME NEW k \in DOMAIN best, NEW l \in DOMAIN best, best[k].target = best[l].target PROVE k = l
      BY DEF Distinct
  <2>1. k \in DOMAIN kept /\ l \in DOMAIN kept /\ k \in Nat /\ l \in Nat
      BY <1>6, <1>8
  <2>2. ~(k < l) /\ ~(l < k)
      BY <1>9, <2>1
  <2> QED BY <2>1, <2>2
<1> QED BY <1>8, <1>10, OwnEntries DEF best

----------------------------------------------------------------------------
(* What a reading is after its re-check, and a saved candidate after its.  *)

\* It names only what the workspace has today.
Fresh(c) ==
    /\ c.target \in DOMAIN world /\ DOMAIN c.fields \subseteq Offered(c.target)
    /\ \A f \in DOMAIN c.fields : c.fields[f].status = "value" => Fits(c.target, f, c.fields[f].value)
    /\ c.item \in world[c.target].items \cup {None}

LEMMA OfferedFacts ==
    ASSUME WorldOK, NEW t \in DOMAIN world, NEW f \in Offered(t)
    PROVE  /\ f \in Columns \cup {PageTitle}
           /\ OfOptions(f) => f \in world[t].columns /\ world[t].options[f] \subseteq Options
           /\ \A x : Fits(t, f, x) => May(f, x)
<1>1. ~OfOptions(PageTitle)
    BY DEF OfOptions, TypeOf, OptionTypes, ListTypes
<1>2. CASE Kind[t] = "page"
    BY <1>1, <1>2 DEF Offered, Fits, May
<1>3. CASE Kind[t] # "page"
  <2>1. f \in world[t].columns /\ f \in Columns
      BY <1>3 DEF Offered, WorldOK
  <2>2. OfOptions(f) => world[t].options[f] \subseteq Options
      BY <2>1 DEF WorldOK
  <2> QED BY <2>1, <2>2 DEF Fits, May
<1> QED BY <1>2, <1>3

\* The re-check of one value makes none surer than the model was.
LEMMA FieldReadFacts ==
    ASSUME WorldOK, NEW t \in DOMAIN world, NEW f \in Offered(t), NEW raw, IsRead(raw),
           raw.status = "value" => Fits(t, f, raw.value)
    PROVE  LET v == FieldRead(t, f, raw)
           IN  /\ WellRead(f, v) /\ (v.status = "value" => Fits(t, f, v.value))
               /\ Sure(f, v) => Sure(f, raw) /\ v.value = raw.value
<1> DEFINE v == FieldRead(t, f, raw)
           fit == {x \in raw.values : Fits(t, f, x)}
           half == CHOOSE x \in fit : TRUE
<1>1. \A x : Fits(t, f, x) => May(f, x)
    BY OfferedFacts
<1>2. SURE \in Nat /\ HALF \in Nat /\ HALF < FIELD_MIN /\ HALF < DATE_MIN /\ FIELD_MIN \in Nat /\ DATE_MIN \in Nat
    BY Thresholds
<1>3. CASE v = NotMentioned
    BY <1>2, <1>3 DEF NotMentioned, WellRead, IsRead, Statuses, Sure
<1>4. CASE fit # {} /\ v = Value(half, HALF)
  <2>1. half \in fit
      BY <1>4
  <2>2. half # None /\ Fits(t, f, half)
      BY <2>1 DEF IsRead
  <2> HIDE DEF half, fit, v
  <2>3. v = [status |-> "value", value |-> half, values |-> {}, conf |-> HALF]
      BY <1>4 DEF Value
  <2>4. ~Sure(f, v)
      BY <1>2, <2>3 DEF Sure
  <2> QED BY <1>1, <1>2, <2>2, <2>3, <2>4 DEF WellRead, IsRead, Statuses, v
<1>5. CASE v = Ambiguous(fit)
  <2>1. \A x \in fit : x # None /\ Fits(t, f, x)
      BY DEF IsRead
  <2> HIDE DEF fit, v
  <2>2. v = [status |-> "ambiguous", value |-> None, values |-> fit, conf |-> 0]
      BY <1>5 DEF Ambiguous
  <2>3. ~Sure(f, v)
      BY <2>2 DEF Sure
  <2> QED BY <1>1, <2>1, <2>2, <2>3 DEF WellRead, IsRead, Statuses, v
<1>6. CASE v = raw /\ raw.status # "ambiguous"
    BY <1>1, <1>6 DEF WellRead
<1>7. v = CASE raw.status = "explicit_null" /\ TypeOf(f) = "status" -> NotMentioned
            [] raw.status = "ambiguous" /\ fit = {} -> NotMentioned
            [] raw.status = "ambiguous" /\ Cardinality(fit) = 1 -> Value(half, HALF)
            [] raw.status = "ambiguous" /\ fit # {} /\ Cardinality(fit) # 1 -> Ambiguous(fit)
            [] OTHER -> raw
    BY DEF FieldRead
<1>8. \/ v = NotMentioned \/ (fit # {} /\ v = Value(half, HALF)) \/ v = Ambiguous(fit)
      \/ (v = raw /\ raw.status # "ambiguous")
  <2> HIDE DEF fit, half, v
  <2>1. CASE raw.status = "ambiguous" /\ fit = {}
      BY <1>7, <2>1, FS_EmptySet
  <2>2. CASE raw.status = "ambiguous" /\ fit # {} /\ Cardinality(fit) = 1
      BY <1>7, <2>2
  <2>3. CASE raw.status = "ambiguous" /\ fit # {} /\ Cardinality(fit) # 1
      BY <1>7, <2>3
  <2>4. CASE raw.status = "explicit_null" /\ TypeOf(f) = "status"
      BY <1>7, <2>4
  <2>5. CASE raw.status # "ambiguous" /\ ~(raw.status = "explicit_null" /\ TypeOf(f) = "status")
      BY <1>7, <2>5
  <2> QED BY <2>1, <2>2, <2>3, <2>4, <2>5
<1> QED BY <1>3, <1>4, <1>5, <1>6, <1>8

\* A candidate that passed its re-check: what is not offered today went, and the rest fits.
LEMMA CheckedFacts ==
    ASSUME WorldOK, NEW intent, NEW d, IsCandidate(d), Sound(intent, d)
    PROVE  LET c == Checked(d)
           IN  /\ WellPut(c) /\ Fresh(c) /\ NothingMissing(c)
               /\ c.target = d.target /\ c.conf = d.conf
               /\ \A f \in DOMAIN c.fields : Sure(f, c.fields[f]) =>
                      f \in DOMAIN d.fields /\ Sure(f, d.fields[f]) /\ d.fields[f].value = c.fields[f].value
<1> DEFINE t == d.target
           read(f) == IF f \in DOMAIN d.fields THEN FieldRead(t, f, d.fields[f]) ELSE NotMentioned
           fs == [f \in Offered(t) |-> read(f)]
           c == Checked(d)
<1>1. t \in DOMAIN world /\ t \in Targets
    BY DEF Sound, WorldOK
<1>2. DOMAIN d = {"target", "conf", "item", "items", "content", "fields"} /\ d.conf \in 0 .. SURE
    BY DEF IsCandidate
<1>3. c = [d EXCEPT !.fields = fs]
    BY DEF Checked
<1> HIDE DEF fs, c
<1>4. /\ c.target = t /\ c.conf = d.conf /\ c.item = d.item /\ c.items = d.items /\ c.content = d.content /\ c.fields = fs
      /\ DOMAIN c = {"target", "conf", "item", "items", "content", "fields"}
    BY <1>2, <1>3
<1>5. DOMAIN fs = Offered(t) /\ \A f \in Offered(t) : fs[f] = read(f)
    BY DEF fs
<1>6. ASSUME NEW f \in Offered(t)
      PROVE  /\ WellRead(f, fs[f]) /\ (fs[f].status = "value" => Fits(t, f, fs[f].value))
             /\ Sure(f, fs[f]) => f \in DOMAIN d.fields /\ Sure(f, d.fields[f]) /\ d.fields[f].value = fs[f].value
  <2>1. CASE f \in DOMAIN d.fields
    <3>1. IsRead(d.fields[f]) /\ (d.fields[f].status = "value" => Fits(t, f, d.fields[f].value))
        BY <2>1 DEF IsCandidate, Sound
    <3>2. fs[f] = FieldRead(t, f, d.fields[f])
        BY <1>5, <2>1
    <3> QED BY <1>1, <2>1, <3>1, <3>2, FieldReadFacts
  <2>2. CASE f \notin DOMAIN d.fields
    <3>1. fs[f] = NotMentioned
        BY <1>5, <2>2
    <3>2. SURE \in Nat
        BY Thresholds
    <3> QED BY <3>1, <3>2 DEF NotMentioned, WellRead, IsRead, Statuses, Sure
  <2> QED BY <2>1, <2>2
<1>7. Offered(t) \subseteq Columns \cup {PageTitle}
    BY <1>1, OfferedFacts
<1>8. IsCandidate(c)
  <2>1. \A f \in DOMAIN c.fields : IsRead(c.fields[f])
      BY <1>4, <1>5, <1>6 DEF WellRead
  <2> QED BY <1>2, <1>4, <2>1 DEF IsCandidate
<1>9. WellPut(c)
    BY <1>1, <1>4, <1>5, <1>6, <1>7, <1>8 DEF WellPut
<1>10. Fresh(c)
  <2>1. c.item \in world[t].items \cup {None}
      BY <1>4 DEF Sound
  <2> QED BY <1>1, <1>4, <1>5, <1>6, <2>1 DEF Fresh
<1>11. NothingMissing(c)
  <2> SUFFICES ASSUME Kind[t] = "database", NEW f \in Columns, f \notin Offered(t)
               PROVE  WentFrom(t, f)
      BY <1>4, <1>5 DEF NothingMissing
  <2>1. f \notin world[t].columns \/ (OfOptions(f) /\ world[t].options[f] = {})
      BY DEF Offered
  <2> QED BY <2>1, WorkspaceIs DEF WentFrom
<1> QED BY <1>4, <1>5, <1>6, <1>9, <1>10, <1>11 DEF c

LEMMA SureFacts ==
    ASSUME NEW cs, NEW p
    PROVE  p \in SureIn(cs) <=>
               \E c \in Range(cs) : \E f \in DOMAIN c.fields : Sure(f, c.fields[f]) /\ p = <<f, c.fields[f].value>>
<1>1. ASSUME p \in SureIn(cs)
      PROVE  \E c \in Range(cs) : \E f \in DOMAIN c.fields : Sure(f, c.fields[f]) /\ p = <<f, c.fields[f].value>>
  <2>1. PICK i \in DOMAIN cs :
            p \in {<<f, cs[i].fields[f].value>> : f \in {g \in DOMAIN cs[i].fields : Sure(g, cs[i].fields[g])}}
      BY <1>1 DEF SureIn
  <2>2. PICK f \in DOMAIN cs[i].fields : Sure(f, cs[i].fields[f]) /\ p = <<f, cs[i].fields[f].value>>
      BY <2>1
  <2>3. cs[i] \in Range(cs)
      BY DEF Range
  <2> QED BY <2>2, <2>3
<1>2. ASSUME NEW c \in Range(cs), NEW f \in DOMAIN c.fields, Sure(f, c.fields[f]), p = <<f, c.fields[f].value>>
      PROVE  p \in SureIn(cs)
  <2>1. PICK i \in DOMAIN cs : c = cs[i]
      BY DEF Range
  <2>2. p \in {<<g, cs[i].fields[g].value>> : g \in {h \in DOMAIN cs[i].fields : Sure(h, cs[i].fields[h])}}
      BY <1>2, <2>1
  <2> QED BY <2>2 DEF SureIn
<1> QED BY <1>1, <1>2

\* Validate leaves candidates that hold today, one for each place, the surest first.
LEMMA ValidateFacts ==
    ASSUME WorldOK, NEW intent, NEW raw, raw \in Seq(Range(raw)), \A c \in Range(raw) : IsCandidate(c)
    PROVE  LET cs == Validate(intent, raw)
           IN  /\ WellRanked(cs) /\ \A c \in Range(cs) : Fresh(c) /\ NothingMissing(c)
               /\ SureIn(cs) \subseteq SureIn(raw)
<1> DEFINE S == Range(raw)
           those == {c \in Range(raw) : Sound(intent, c)}
           sound == Chosen(raw, those)
           checked == [i \in DOMAIN sound |-> Checked(sound[i])]
           best == BestPerTarget(checked)
           cs == Validate(intent, raw)
           From(c) == \E d \in Range(raw) : Sound(intent, d) /\ c = Checked(d)
           C == {Checked(d) : d \in those}
<1>1. cs = Ranked(best)
    BY DEF Validate
<1>2. \A c \in C : From(c)
    OBVIOUS
<1>3. \A c : From(c) => /\ WellPut(c) /\ Fresh(c) /\ NothingMissing(c) /\ c.conf \in 0 .. SURE
                        /\ \A f \in DOMAIN c.fields : Sure(f, c.fields[f]) => <<f, c.fields[f].value>> \in SureIn(raw)
  <2> SUFFICES ASSUME NEW d \in Range(raw), Sound(intent, d)
               PROVE  LET c == Checked(d)
                      IN  /\ WellPut(c) /\ Fresh(c) /\ NothingMissing(c) /\ c.conf \in 0 .. SURE
                          /\ \A f \in DOMAIN c.fields : Sure(f, c.fields[f]) => <<f, c.fields[f].value>> \in SureIn(raw)
      OBVIOUS
  <2> DEFINE c == Checked(d)
  <2>1. /\ WellPut(c) /\ Fresh(c) /\ NothingMissing(c)
        /\ \A f \in DOMAIN c.fields : Sure(f, c.fields[f]) =>
               f \in DOMAIN d.fields /\ Sure(f, d.fields[f]) /\ d.fields[f].value = c.fields[f].value
      BY CheckedFacts
  <2> HIDE DEF c
  <2>2. c.conf \in 0 .. SURE
      BY <2>1 DEF WellPut, IsCandidate
  <2>3. ASSUME NEW f \in DOMAIN c.fields, Sure(f, c.fields[f]) PROVE <<f, c.fields[f].value>> \in SureIn(raw)
    <3>1. f \in DOMAIN d.fields /\ Sure(f, d.fields[f]) /\ <<f, c.fields[f].value>> = <<f, d.fields[f].value>>
        BY <2>1, <2>3
    <3> QED BY <3>1, SureFacts
  <2> QED BY <2>1, <2>2, <2>3 DEF c
<1> HIDE DEF From
<1>4. sound \in Seq(S \cap those)
    BY ChosenOrder
<1> HIDE DEF sound, S
<1>5. Len(sound) \in Nat /\ DOMAIN sound = 1 .. Len(sound) /\ \A i \in DOMAIN sound : sound[i] \in those
    BY <1>4, EntryFacts
<1> HIDE DEF those
<1>6. checked \in Seq(C)
    BY <1>5
<1> HIDE DEF checked, C
<1>7. best \in Seq(Range(best)) /\ Range(best) \subseteq C /\ Distinct(best)
  <2>1. \A c \in C : c.conf \in Nat
      BY <1>2, <1>3
  <2> QED BY <1>6, <2>1, BestFacts
<1> HIDE DEF best, cs
<1>8. \A c \in Range(best) : From(c) /\ c.conf \in 0 .. SURE
    BY <1>2, <1>3, <1>7
<1>9. cs \in Seq(Range(best)) /\ Range(cs) = Range(best) /\ Descending(cs) /\ Distinct(cs)
    BY <1>1, <1>7, <1>8, RankedFacts
<1>10. \A c \in Range(cs) : From(c)
    BY <1>8, <1>9
<1>11. WellRanked(cs)
    BY <1>3, <1>9, <1>10 DEF WellRanked
<1>12. SureIn(cs) \subseteq SureIn(raw)
  <2> SUFFICES ASSUME NEW p \in SureIn(cs) PROVE p \in SureIn(raw)
      OBVIOUS
  <2>1. PICK c \in Range(cs) : \E f \in DOMAIN c.fields : Sure(f, c.fields[f]) /\ p = <<f, c.fields[f].value>>
      BY SureFacts
  <2> QED BY <1>3, <1>10, <2>1
<1> QED BY <1>3, <1>10, <1>11, <1>12 DEF cs

\* What is meant is then what the model said: the places it took for as good as the best, the values it was sure of.
LEMMA FirstMeant ==
    ASSUME NEW intent, NEW cs, NEW sure, WellRanked(cs), SureIn(cs) \subseteq sure,
           \A c \in Range(cs) : NothingMissing(c)
    PROVE  Meant(intent, cs, ChosenIn(cs), sure)
<1> DEFINE of == ChosenIn(cs)
<1>1. /\ DOMAIN of = {c.target : c \in Near(cs)}
      /\ \A t \in DOMAIN of : of[t] = CandidateFor(cs, t).item
    BY DEF ChosenIn
<1>2. ASSUME NEW c \in Range(cs) PROVE CandidateFor(cs, c.target) = c
  <2> DEFINE d == CandidateFor(cs, c.target)
  <2>1. d \in Range(cs) /\ d.target = c.target
      BY DEF CandidateFor
  <2> HIDE DEF d
  <2>2. d = c
      BY <2>1, OnePerPlace DEF WellRanked
  <2> QED BY <2>2 DEF d
<1> HIDE DEF of
<1>3. \A c \in Range(cs) : RowKept(intent, c, of)
    BY <1>1, <1>2 DEF RowKept
<1>4. Near(cs) \subseteq Range(cs)
    BY DEF Near
<1>5. ASSUME cs # <<>> PROVE DOMAIN of # {}
  <2>1. 1 \in DOMAIN cs /\ cs[1] \in Range(cs)
    <3>1. 1 \in DOMAIN cs
        BY <1>5, HeadFacts, EntryFacts DEF WellRanked
    <3> QED BY <3>1 DEF Range
  <2>2. cs[1].conf \in Nat
      BY <2>1 DEF WellRanked, WellPut, IsCandidate
  <2>3. cs[1] \in Near(cs)
      BY <2>1, <2>2, Thresholds DEF Near
  <2> QED BY <1>1, <2>3
<1>6. ASSUME NEW t \in DOMAIN of PROVE AmongTheBest(cs, t)
  <2>1. PICK c \in Near(cs) : t = c.target
      BY <1>1
  <2>2. c \in Range(cs) /\ cs[1].conf - c.conf < TARGET_MARGIN
      BY DEF Near
  <2>3. PICK i \in DOMAIN cs : cs[i] = c
      BY <2>2 DEF Range
  <2> QED BY <2>1, <2>2, <2>3 DEF AmongTheBest
<1> QED BY <1>3, <1>5, <1>6 DEF Meant, of

\* A saved candidate in today's workspace: what went from it is what the workspace has lost.
LEMMA RebuiltFacts ==
    ASSUME WorldOK, NEW intent, NEW of, NEW d, WellPut(d), d.target \in DOMAIN world,
           NothingMissing(d), RowKept(intent, d, of)
    PROVE  LET c == Rebuilt(d)
           IN  /\ WellPut(c) /\ Fresh(c) /\ NothingMissing(c) /\ RowKept(intent, c, of)
               /\ c.target = d.target /\ c.conf = d.conf
               /\ \A f \in DOMAIN c.fields : f \in DOMAIN d.fields /\ c.fields[f] = d.fields[f]
<1> DEFINE t == d.target
           c == Rebuilt(d)
           left == {g \in DOMAIN d.fields \cap Offered(t) : Resolves(t, g, d.fields[g])}
           fs == [f \in left |-> d.fields[f]]
           item == IF d.item \in world[t].items THEN d.item ELSE None
           items == d.items \cap world[t].items
<1>1. DOMAIN d = {"target", "conf", "item", "items", "content", "fields"} /\ d.conf \in 0 .. SURE
    BY DEF WellPut, IsCandidate
<1>2. c = [d EXCEPT !.fields = fs, !.item = item, !.items = items]
    BY DEF Rebuilt
<1> HIDE DEF fs, item, items, c
<1>3. /\ c.target = t /\ c.conf = d.conf /\ c.item = item /\ c.fields = fs
      /\ DOMAIN c = {"target", "conf", "item", "items", "content", "fields"}
    BY <1>1, <1>2
<1>4. DOMAIN fs = left /\ \A f \in left : fs[f] = d.fields[f]
    BY DEF fs
<1>5. \A f \in left : f \in DOMAIN d.fields /\ WellRead(f, fs[f])
    BY <1>4 DEF WellPut
<1>6. WellPut(c)
  <2>1. IsCandidate(c)
    <3>1. \A f \in DOMAIN c.fields : IsRead(c.fields[f])
        BY <1>3, <1>4, <1>5 DEF WellRead
    <3> QED BY <1>1, <1>3, <3>1 DEF IsCandidate
  <2> QED BY <1>3, <1>4, <1>5, <2>1 DEF WellPut
<1>7. ASSUME NEW f \in left, d.fields[f].status = "value" PROVE Fits(t, f, d.fields[f].value)
  <2>1. May(f, d.fields[f].value)
      BY <1>4, <1>5, <1>7 DEF WellRead
  <2> QED BY <1>7, <2>1 DEF Fits, May, Resolves
<1>8. Fresh(c)
  <2>1. c.item \in world[t].items \cup {None}
      BY <1>3 DEF item
  <2>2. \A f \in DOMAIN c.fields : c.fields[f].status = "value" => Fits(t, f, c.fields[f].value)
      BY <1>3, <1>4, <1>7
  <2> QED BY <1>3, <1>4, <2>1, <2>2 DEF Fresh
<1>9. NothingMissing(c)
  <2> SUFFICES ASSUME Kind[t] = "database", NEW f \in Columns, f \notin left
               PROVE  WentFrom(t, f)
      BY <1>3, <1>4 DEF NothingMissing
  <2>1. CASE f \notin DOMAIN d.fields
      BY <2>1 DEF NothingMissing
  <2>2. CASE f \notin Offered(t)
    <3>1. f \notin world[t].columns \/ (OfOptions(f) /\ world[t].options[f] = {})
        BY <2>2 DEF Offered
    <3> QED BY <3>1, WorkspaceIs DEF WentFrom
  <2>3. CASE f \in DOMAIN d.fields /\ f \in Offered(t)
    <3> DEFINE v == d.fields[f]
    <3>1. ~Resolves(t, f, v)
        BY <2>3
    <3>2. WellRead(f, v)
        BY <2>3 DEF WellPut
    <3> HIDE DEF v
    <3>3. OfOptions(f) /\ \/ v.status = "value" /\ v.value \notin world[t].options[f]
                          \/ v.status = "ambiguous" /\ ~(v.values \subseteq world[t].options[f])
        BY <3>1 DEF Resolves
    <3>4. world[t].options[f] # Options
        BY <3>2, <3>3 DEF WellRead, May
    <3> QED BY <3>3, <3>4 DEF WentFrom
  <2> QED BY <2>1, <2>2, <2>3
<1>10. RowKept(intent, c, of)
  <2> SUFFICES ASSUME intent \in {"update", "append", "rewrite"}, t \in DOMAIN of
               PROVE  item = of[t] \/ (item = None /\ of[t] \notin world[t].items)
      BY <1>3 DEF RowKept
  <2>1. d.item = of[t] \/ (d.item = None /\ of[t] \notin world[t].items)
      BY DEF RowKept
  <2>2. None \notin world[t].items
      BY DEF WorldOK
  <2> QED BY <2>1, <2>2 DEF item
<1> QED BY <1>3, <1>4, <1>5, <1>6, <1>8, <1>9, <1>10 DEF c

\* A saved list of candidates in today's workspace.
LEMMA ResultFacts ==
    ASSUME WorldOK, NEW s, NEW of, NEW sure, WellRanked(s.cands), Meant(s.intent, s.cands, of, sure)
    PROVE  LET r == ResultFrom(s)
           IN  /\ r.intent = s.intent /\ r.clarify = FALSE
               /\ WellRanked(r.cands) /\ Meant(r.intent, r.cands, of, sure)
               /\ \A c \in Range(r.cands) : Fresh(c)
<1> DEFINE cs == s.cands
           S == Range(cs)
           those == {c \in Range(cs) : c.target \in DOMAIN world}
           there == Chosen(cs, those)
           again == [i \in DOMAIN there |-> Rebuilt(there[i])]
           es == Ranked(again)
           r == ResultFrom(s)
           C == {Rebuilt(d) : d \in those}
           Of(c, d) == /\ WellPut(c) /\ Fresh(c) /\ NothingMissing(c) /\ RowKept(s.intent, c, of)
                       /\ c.target = d.target /\ c.conf = d.conf
                       /\ \A f \in DOMAIN c.fields : f \in DOMAIN d.fields /\ c.fields[f] = d.fields[f]
<1>1. r.intent = s.intent /\ r.clarify = FALSE /\ r.cands = es
    BY DEF ResultFrom
<1>2. cs \in Seq(S) /\ Distinct(cs) /\ Descending(cs) /\ \A c \in S : WellPut(c)
    BY DEF WellRanked
<1>3. /\ \A c \in S : NothingMissing(c) /\ RowKept(s.intent, c, of)
      /\ cs # <<>> => DOMAIN of # {}
      /\ \A t \in DOMAIN of \cap DOMAIN world : AmongTheBest(cs, t)
      /\ SureIn(cs) \subseteq sure
    BY DEF Meant
<1>4. \A d \in those : d \in S /\ Of(Rebuilt(d), d)
  <2> SUFFICES ASSUME NEW d \in those PROVE d \in S /\ Of(Rebuilt(d), d)
      OBVIOUS
  <2>1. d \in S /\ d.target \in DOMAIN world
      OBVIOUS
  <2>2. WellPut(d) /\ NothingMissing(d) /\ RowKept(s.intent, d, of)
      BY <1>2, <1>3, <2>1
  <2> QED BY <2>1, <2>2, RebuiltFacts
<1> HIDE DEF Of
<1>5. there \in Seq(S \cap those) /\ Distinct(there)
    BY <1>2, ChosenOrder, ChosenDistinct
<1>6. \A d \in those : \E j \in DOMAIN there : there[j] = d
  <2> SUFFICES ASSUME NEW d \in those PROVE \E j \in DOMAIN there : there[j] = d
      OBVIOUS
  <2>1. PICK i \in DOMAIN cs : cs[i] = d
      BY DEF Range
  <2>2. cs[i] \in those
      BY <2>1
  <2> HIDE DEF those
  <2> QED BY <1>2, <2>1, <2>2, ChosenAll
<1> HIDE DEF there, S
<1>7. Len(there) \in Nat /\ DOMAIN there = 1 .. Len(there) /\ \A i \in DOMAIN there : there[i] \in those
    BY <1>5, EntryFacts
<1>8. \A c \in C : \E d \in those : c = Rebuilt(d) /\ Of(c, d)
    BY <1>4
<1> HIDE DEF those
<1>9. again \in Seq(C) /\ DOMAIN again = DOMAIN there /\ \A i \in DOMAIN there : again[i] = Rebuilt(there[i])
    BY <1>7
<1> HIDE DEF C, again
<1>10. again \in Seq(Range(again)) /\ Range(again) \subseteq C
    BY <1>9, OwnEntries
<1>11. Distinct(again)
  <2> SUFFICES ASSUME NEW i \in DOMAIN again, NEW j \in DOMAIN again, again[i].target = again[j].target
               PROVE  i = j
      BY DEF Distinct
  <2>1. i \in DOMAIN there /\ j \in DOMAIN there /\ again[i].target = there[i].target /\ again[j].target = there[j].target
      BY <1>4, <1>7, <1>9 DEF Of
  <2> QED BY <1>5, <2>1 DEF Distinct
<1>12. \A c \in Range(again) : c.conf \in 0 .. SURE
    BY <1>8, <1>10 DEF Of, WellPut, IsCandidate
<1>13. es \in Seq(Range(again)) /\ Range(es) = Range(again) /\ Descending(es) /\ Distinct(es)
    BY <1>10, <1>11, <1>12, RankedFacts
<1>14. \A c \in Range(es) : \E d \in S : d \in those /\ Of(c, d)
    BY <1>4, <1>8, <1>10, <1>13
<1>15. \A d \in those : Rebuilt(d) \in Range(es)
  <2> SUFFICES ASSUME NEW d \in those PROVE Rebuilt(d) \in Range(again)
      BY <1>13
  <2>1. PICK j \in DOMAIN there : there[j] = d
      BY <1>6
  <2>2. again[j] = Rebuilt(d) /\ j \in DOMAIN again
      BY <1>9, <2>1
  <2> QED BY <2>2 DEF Range
<1> HIDE DEF es, cs
<1>16. WellRanked(es)
    BY <1>13, <1>14 DEF WellRanked, Of
<1>17. es # <<>> => DOMAIN of # {}
  <2> SUFFICES ASSUME es # <<>> PROVE cs # <<>>
      BY <1>3
  <2>1. 1 \in DOMAIN es /\ es[1] \in Range(es)
    <3>1. 1 \in DOMAIN es
        BY <1>13, HeadFacts, EntryFacts
    <3> QED BY <3>1 DEF Range
  <2>2. PICK d \in S : TRUE
      BY <1>14, <2>1
  <2>3. PICK i \in DOMAIN cs : TRUE
      BY <2>2 DEF S, Range
  <2> QED BY <2>3
<1>18. ASSUME NEW t \in DOMAIN of \cap DOMAIN world PROVE AmongTheBest(es, t)
  <2>1. PICK i \in DOMAIN cs : cs[i].target = t /\ cs[1].conf - cs[i].conf < TARGET_MARGIN
      BY <1>3 DEF AmongTheBest
  <2>2. cs[i] \in S /\ cs[i] \in those
      BY <2>1 DEF those, S, Range, cs
  <2>3. PICK j \in DOMAIN es : es[j] = Rebuilt(cs[i])
      BY <1>15, <2>2 DEF Range
  <2>4. es[j].target = t /\ es[j].conf = cs[i].conf
      BY <1>4, <2>1, <2>2, <2>3 DEF Of
  <2>5. 1 \in DOMAIN es /\ es[1] \in Range(es)
    <3>1. 1 \in DOMAIN es
        BY <1>13, <2>3, EntryFacts
    <3> QED BY <3>1 DEF Range
  <2>6. PICK d \in S : Of(es[1], d)
      BY <1>14, <2>5
  <2>7. PICK k \in DOMAIN cs : cs[k] = d
      BY <2>6 DEF S, Range
  <2>8. 1 \in DOMAIN cs /\ cs[1] \in S /\ k \in Nat /\ (k = 1 \/ 1 < k)
    <3>1. DOMAIN cs = 1 .. Len(cs) /\ Len(cs) \in Nat
        BY <1>2, EntryFacts
    <3>2. 1 \in DOMAIN cs /\ k \in Nat /\ (k = 1 \/ 1 < k)
        BY <2>7, <3>1
    <3> QED BY <3>2 DEF S, Range
  <2>9. \A c \in S : c.conf \in Nat
      BY <1>2 DEF WellPut, IsCandidate
  <2>10. cs[1].conf >= cs[k].conf /\ cs[1].conf \in Nat /\ cs[k].conf \in Nat /\ cs[i].conf \in Nat
    <3>1. cs[1].conf \in Nat /\ cs[k].conf \in Nat /\ cs[i].conf \in Nat
        BY <2>2, <2>6, <2>7, <2>8, <2>9
    <3>2. CASE k = 1
        BY <3>1, <3>2
    <3>3. CASE 1 < k
        BY <1>2, <2>7, <2>8, <3>1, <3>3 DEF Descending
    <3> QED BY <2>8, <3>1, <3>2, <3>3
  <2>11. es[1].conf = cs[k].conf
      BY <2>6, <2>7 DEF Of
  <2>12. es[1].conf - es[j].conf < TARGET_MARGIN
      BY <2>1, <2>4, <2>10, <2>11, Thresholds
  <2> QED BY <2>3, <2>4, <2>12 DEF AmongTheBest
<1>19. SureIn(es) \subseteq sure
  <2> SUFFICES ASSUME NEW p \in SureIn(es) PROVE p \in sure
      OBVIOUS
  <2>1. PICK c \in Range(es) : \E f \in DOMAIN c.fields : Sure(f, c.fields[f]) /\ p = <<f, c.fields[f].value>>
      BY SureFacts
  <2>2. PICK f \in DOMAIN c.fields : Sure(f, c.fields[f]) /\ p = <<f, c.fields[f].value>>
      BY <2>1
  <2>3. PICK d \in S : Of(c, d)
      BY <1>14
  <2>4. f \in DOMAIN d.fields /\ d.fields[f] = c.fields[f]
      BY <2>3 DEF Of
  <2>5. p \in SureIn(cs)
      BY <2>2, <2>4, SureFacts DEF S
  <2> QED BY <1>3, <2>5
<1>20. \A c \in Range(es) : Fresh(c) /\ NothingMissing(c) /\ RowKept(s.intent, c, of)
    BY <1>14 DEF Of
<1>21. Meant(s.intent, es, of, sure)
    BY <1>17, <1>18, <1>19, <1>20 DEF Meant
<1> QED BY <1>1, <1>16, <1>20, <1>21 DEF es

----------------------------------------------------------------------------
(* A reading, dispatched.                                                  *)

\* Nothing is left to ask about a reading that is carried out.
LEMMA ExecutedFacts ==
    ASSUME NEW r, Evaluate(r).kind = "EXECUTE"
    PROVE  /\ ~r.clarify /\ r.cands # <<>> /\ Asks(r) = {}
           /\ ~(r.intent = "update" /\ r.cands[1].item = None /\ r.cands[1].items = {})
<1> DEFINE c == r.cands[1]
           NoRow == r.intent = "update" /\ c.item = None /\ c.items = {}
           NoText == r.intent = "update" /\ c.item # None /\ NothingMentioned(c)
<1>1. CASE r.clarify
    BY <1>1 DEF Evaluate
<1>2. CASE ~r.clarify /\ r.cands = <<>>
    BY <1>2 DEF Evaluate
<1>3. CASE ~r.clarify /\ r.cands # <<>>
  <2>1. Evaluate(r).kind = IF NoRow \/ NoText THEN "REJECT" ELSE IF Asks(r) = {} THEN "EXECUTE" ELSE "CLARIFY"
    <3>1. Evaluate(r) =
              IF NoRow THEN [kind |-> "REJECT", questions |-> {Q("item_not_found")}]
              ELSE IF NoText THEN [kind |-> "REJECT", questions |-> {Q("nothing_to_write")}]
              ELSE [kind |-> IF Asks(r) = {} THEN "EXECUTE" ELSE "CLARIFY", questions |-> Asks(r)]
        BY <1>3 DEF Evaluate
    <3> HIDE DEF NoRow, NoText
    <3>2. CASE NoRow
        BY <3>1, <3>2
    <3>3. CASE ~NoRow /\ NoText
        BY <3>1, <3>3
    <3>4. CASE ~NoRow /\ ~NoText
        BY <3>1, <3>4
    <3> QED BY <3>2, <3>3, <3>4
  <2>2. ~NoRow /\ Asks(r) = {}
    <3> HIDE DEF NoRow, NoText
    <3>1. CASE NoRow \/ NoText
        BY <2>1, <3>1
    <3>2. CASE ~(NoRow \/ NoText)
        BY <2>1, <3>2
    <3> QED BY <3>1, <3>2
  <2> QED BY <1>3, <2>2
<1> QED BY <1>1, <1>2, <1>3

\* A column nothing is asked about is known for sure, or nothing was said about it.
LEMMA UnaskedColumn ==
    ASSUME NEW r, NEW f, IsRead(r.cands[1].fields[f]), AskedAbout(r, f) = {}
    PROVE  LET v == r.cands[1].fields[f]
           IN  /\ v.status # "ambiguous" /\ (v.status \in {"value", "explicit_null"} => Sure(f, v))
               /\ r.intent = "create" /\ f \in Required /\ TypeOf(f) # "checkbox" => v.status = "value"
<1> DEFINE v == r.cands[1].fields[f]
           open == r.intent = "create" /\ f \in Required /\ TypeOf(f) # "checkbox" /\ v.status \in {"not_mentioned", "explicit_null"}
           day == TypeOf(f) = "date"
<1>1. v.status \in {"value", "not_mentioned", "explicit_null", "ambiguous"} /\ v.conf \in Nat
    BY DEF IsRead, Statuses
<1>2. {} = CASE open -> {"field_required"}
             [] v.status = "ambiguous" -> {"field_ambiguous"}
             [] v.status = "value" /\ day /\ v.conf < DATE_MIN -> {"date"}
             [] v.status = "value" /\ ~day /\ v.conf < FIELD_MIN -> {"field_confirm"}
             [] OTHER -> {}
    BY DEF AskedAbout
<1>3. open => v.status \in {"not_mentioned", "explicit_null"}
    OBVIOUS
<1> HIDE DEF v, open, day
<1>4. ~open
    BY <1>2, <1>3
<1>5. v.status # "ambiguous"
    BY <1>2, <1>4
<1>6. v.status = "value" /\ day => ~(v.conf < DATE_MIN)
    BY <1>2, <1>4
<1>7. v.status = "value" /\ ~day => ~(v.conf < FIELD_MIN)
    BY <1>2, <1>4
<1>8. v.status \in {"value", "explicit_null"} => Sure(f, v)
    BY <1>1, <1>6, <1>7, Thresholds DEF Sure, day
<1> QED BY <1>1, <1>4, <1>5, <1>8 DEF open, v

\* What it means that there is nothing to ask.
LEMMA AsksNothing ==
    ASSUME NEW r, Asks(r) = {}
    PROVE  /\ ~LowTarget(r.cands)
           /\ ~(r.intent \in {"update", "append", "rewrite"} /\ r.cands[1].item = None /\ r.cands[1].items # {})
           /\ \A f \in DOMAIN r.cands[1].fields : AskedAbout(r, f) = {}
<1> DEFINE c == r.cands[1]
           place == IF OnlyIntentLow(r) THEN {"intent_confirm"}
                    ELSE IF r.conf < INTENT_MIN \/ LowTarget(r.cands) THEN {"target"} ELSE {}
           row == IF r.intent \in {"update", "append", "rewrite"} /\ c.item = None /\ c.items # {} THEN {"item"} ELSE {}
           body == IF c.content THEN {}
                   ELSE CASE r.intent = "append" -> {"content_required"}
                          [] r.intent = "rewrite" -> {"nothing_to_write"}
                          [] OTHER -> {}
           columns == UNION {{[type |-> type, field |-> f] : type \in AskedAbout(r, f)} : f \in DOMAIN c.fields}
<1>1. Asks(r) = {Q(type) : type \in place \cup row \cup body} \cup columns
    BY DEF Asks
<1>2. place = {} /\ row = {} /\ columns = {}
  <2> HIDE DEF place, row, body, columns
  <2>1. {Q(type) : type \in place \cup row \cup body} = {} /\ columns = {}
      BY <1>1
  <2> QED BY <2>1
<1>3. ~LowTarget(r.cands)
    BY <1>2
<1>4. ~(r.intent \in {"update", "append", "rewrite"} /\ c.item = None /\ c.items # {})
    BY <1>2
<1>5. ASSUME NEW f \in DOMAIN c.fields, NEW type \in AskedAbout(r, f) PROVE FALSE
  <2> DEFINE q == [type |-> type, field |-> f]
  <2>1. q \in {[type |-> x, field |-> f] : x \in AskedAbout(r, f)}
      OBVIOUS
  <2>2. q \in columns
    <3> HIDE DEF q
    <3> QED BY <2>1
  <2> HIDE DEF q, columns
  <2> QED BY <1>2, <2>2
<1> QED BY <1>3, <1>4, <1>5

\* LandsWhereMeant and WritesWhatIsSettled, of given histories.
Lands(k, of) ==
    /\ DOMAIN of # {} /\ DOMAIN of \cap DOMAIN world \subseteq {k.target}
    /\ k.item \in world[k.target].items \cup {None}
    /\ k.intent \in {"update", "append", "rewrite"} /\ k.target \in DOMAIN of =>
           k.item \in {of[k.target], None} /\ (k.item = None => of[k.target] \notin world[k.target].items)
    /\ k.op = "update_item" => k.item # None
Settles(k, sure) ==
    /\ k.writes \subseteq sure
    /\ \A w \in k.writes : w[1] \in world[k.target].columns /\ (w[2] # None => Fits(k.target, w[1], w[2]))
    /\ k.op = "create_item" =>
           \A f \in Required : \/ TypeOf(f) = "checkbox" \/ WentFrom(k.target, f)
                               \/ \E w \in k.writes : (w[1] = f /\ w[2] # None)

LEMMA OpsFacts ==
    ASSUME NEW intent, NEW c, c.target \in Targets, NEW op \in OpsOf(intent, c)
    PROVE  /\ op = "create_item" => intent = "create" /\ Kind[c.target] = "database"
           /\ op = "update_item" => intent = "update"
<1>1. Kind[c.target] \in {"database", "page"}
    BY WorkspaceIs
<1>2. CASE intent = "create" /\ Kind[c.target] = "database"
    BY <1>2 DEF OpsOf
<1>3. CASE intent = "create" /\ Kind[c.target] = "page"
  <2>1. op \in {"create_page", "append_blocks"}
      BY <1>3 DEF OpsOf
  <2> QED BY <2>1
<1>4. CASE intent = "update"
    BY <1>4 DEF OpsOf
<1>5. CASE intent = "append"
    BY <1>5 DEF OpsOf
<1>6. CASE intent = "rewrite"
    BY <1>6 DEF OpsOf
<1>7. CASE intent \notin {"create", "update", "append", "rewrite"}
    BY <1>7 DEF OpsOf
<1> QED BY <1>1, <1>2, <1>3, <1>4, <1>5, <1>6, <1>7

\* What is carried out lands where it was meant, with what is settled.
LEMMA WrittenFacts ==
    ASSUME WorldOK, NEW r, NEW of, NEW sure, NEW op \in OpsOf(r.intent, r.cands[1]),
           WellRanked(r.cands), Meant(r.intent, r.cands, of, sure), \A c \in Range(r.cands) : Fresh(c),
           Evaluate(r).kind = "EXECUTE"
    PROVE  LET k == Command(op, r.intent, r.cands[1]) IN Lands(k, of) /\ Settles(k, sure)
<1> DEFINE cs == r.cands
           c == cs[1]
           t == c.target
           k == Command(op, r.intent, c)
<1>1. cs # <<>> /\ Asks(r) = {} /\ ~(r.intent = "update" /\ c.item = None /\ c.items = {})
    BY ExecutedFacts
<1>2. /\ ~LowTarget(cs) /\ ~(r.intent \in {"update", "append", "rewrite"} /\ c.item = None /\ c.items # {})
      /\ \A f \in DOMAIN c.fields : AskedAbout(r, f) = {}
    BY <1>1, AsksNothing
<1>3. /\ cs \in Seq(Range(cs)) /\ Distinct(cs) /\ Descending(cs) /\ \A d \in Range(cs) : WellPut(d)
    BY DEF WellRanked
<1>4. Len(cs) \in Nat /\ DOMAIN cs = 1 .. Len(cs) /\ 1 \in DOMAIN cs /\ c \in Range(cs)
  <2>1. Len(cs) \in Nat /\ DOMAIN cs = 1 .. Len(cs) /\ 1 \in DOMAIN cs
      BY <1>1, <1>3, HeadFacts, EntryFacts
  <2> QED BY <2>1 DEF Range
<1>5. /\ NothingMissing(c) /\ RowKept(r.intent, c, of) /\ DOMAIN of # {}
      /\ \A u \in DOMAIN of \cap DOMAIN world : AmongTheBest(cs, u)
      /\ SureIn(cs) \subseteq sure
    BY <1>1, <1>4 DEF Meant
<1>6. WellPut(c) /\ Fresh(c) /\ t \in Targets /\ t \in DOMAIN world
    BY <1>3, <1>4 DEF WellPut, Fresh
<1>7. /\ k.op = op /\ k.intent = r.intent /\ k.target = t
      /\ k.item = (IF r.intent \in {"update", "append", "rewrite"} THEN c.item ELSE None)
      /\ k.writes = (IF op \in {"create_item", "update_item"} THEN Writes(c) ELSE {})
    BY DEF Command
<1>8. /\ op = "create_item" => r.intent = "create" /\ Kind[t] = "database"
      /\ op = "update_item" => r.intent = "update"
    BY <1>6, OpsFacts
<1>9. ASSUME NEW u \in DOMAIN of \cap DOMAIN world PROVE u = t
  <2>1. PICK i \in DOMAIN cs : cs[i].target = u /\ cs[1].conf - cs[i].conf < TARGET_MARGIN
      BY <1>5 DEF AmongTheBest
  <2>2. \A j \in DOMAIN cs : cs[j].conf \in Nat
      BY <1>3 DEF Range, WellPut, IsCandidate
  <2>3. CASE i = 1
      BY <2>1, <2>3
  <2>4. CASE i # 1
    <3>1. 2 \in DOMAIN cs /\ Len(cs) > 1 /\ (i = 2 \/ 2 < i)
        BY <1>4, <2>4
    <3>2. cs[2].conf >= cs[i].conf
      <4>1. CASE i = 2
          BY <2>2, <3>1, <4>1
      <4>2. CASE 2 < i
          BY <1>3, <3>1, <4>2 DEF Descending
      <4> QED BY <3>1, <4>1, <4>2
    <3>3. cs[1].conf - cs[2].conf < TARGET_MARGIN
      <4>1. cs[1].conf \in Nat /\ cs[2].conf \in Nat /\ cs[i].conf \in Nat
          BY <1>4, <2>2, <3>1
      <4>2. TARGET_MARGIN \in Nat
          BY Thresholds
      <4> HIDE DEF cs
      <4> QED BY <2>1, <3>2, <4>1, <4>2
    <3> QED BY <1>2, <3>1, <3>3 DEF LowTarget
  <2> QED BY <2>3, <2>4
<1> HIDE DEF k
<1>10. Lands(k, of)
  <2>1. k.item \in world[t].items \cup {None}
      BY <1>6, <1>7 DEF Fresh
  <2>2. ASSUME r.intent \in {"update", "append", "rewrite"}, t \in DOMAIN of
        PROVE  k.item \in {of[t], None} /\ (k.item = None => of[t] \notin world[t].items)
    <3>1. c.item = of[t] \/ (c.item = None /\ of[t] \notin world[t].items)
        BY <1>5, <1>6, <2>2 DEF RowKept
    <3>2. None \notin world[t].items /\ k.item = c.item
        BY <1>6, <1>7, <2>2 DEF WorldOK
    <3> QED BY <3>1, <3>2
  <2>3. op = "update_item" => k.item # None
      BY <1>1, <1>2, <1>7, <1>8
  <2> QED BY <1>5, <1>7, <1>9, <2>1, <2>2, <2>3 DEF Lands
<1>11. ASSUME NEW w \in k.writes
       PROVE  w \in sure /\ w[1] \in world[t].columns /\ (w[2] # None => Fits(t, w[1], w[2]))
  <2>1. w \in Writes(c)
      BY <1>7, <1>11
  <2>2. PICK f \in DOMAIN c.fields \ {PageTitle} :
            c.fields[f].status \in {"value", "explicit_null"} /\ w = <<f, c.fields[f].value>>
      BY <2>1 DEF Writes
  <2>3. IsRead(c.fields[f]) /\ AskedAbout(r, f) = {}
      BY <1>2, <1>6 DEF WellPut, IsCandidate
  <2>4. Sure(f, c.fields[f])
      BY <2>2, <2>3, UnaskedColumn
  <2>5. w \in sure
      BY <1>4, <1>5, <2>2, <2>4, SureFacts
  <2>6. f \in world[t].columns
      BY <1>6 DEF Fresh, Offered
  <2>7. w[2] # None => Fits(t, f, w[2])
      BY <1>6, <2>2, <2>3 DEF Fresh, IsRead
  <2> QED BY <2>2, <2>5, <2>6, <2>7
<1>12. ASSUME op = "create_item", NEW f \in Required
       PROVE  TypeOf(f) = "checkbox" \/ WentFrom(t, f) \/ \E w \in k.writes : (w[1] = f /\ w[2] # None)
  <2>1. f \in Columns /\ f # PageTitle /\ k.writes = Writes(c)
      BY <1>7, <1>12, WorkspaceIs
  <2>2. CASE f \notin DOMAIN c.fields
      BY <1>5, <1>6, <1>8, <1>12, <2>1, <2>2 DEF NothingMissing
  <2>3. CASE f \in DOMAIN c.fields /\ TypeOf(f) # "checkbox"
    <3>1. IsRead(c.fields[f]) /\ AskedAbout(r, f) = {}
        BY <1>2, <1>6, <2>3 DEF WellPut, IsCandidate
    <3>2. c.fields[f].status = "value"
        BY <1>8, <1>12, <2>3, <3>1, UnaskedColumn
    <3>3. c.fields[f].value # None
        BY <3>1, <3>2 DEF IsRead
    <3>4. <<f, c.fields[f].value>> \in Writes(c)
        BY <2>1, <2>3, <3>2 DEF Writes
    <3> DEFINE w == <<f, c.fields[f].value>>
    <3>5. w \in k.writes /\ w[1] = f /\ w[2] # None
        BY <2>1, <3>3, <3>4
    <3> QED BY <3>5
  <2> QED BY <2>2, <2>3
<1>13. Settles(k, sure)
    BY <1>7, <1>11, <1>12 DEF Settles
<1> QED BY <1>10, <1>13 DEF k

\* The buttons under a question that say something about the reading.
LEMMA OptionFacts ==
    ASSUME NEW q, NEW cs, NEW o \in OptionsFor(q, cs), o.id \in {"pick", "add_new", "confirm"}
    PROVE  /\ q.type # "clarify"
           /\ q.type = "target" => \E i \in DOMAIN cs : o.of = cs[i].target
           /\ q.type = "field_required" => OfOptions(q.field) /\ o.of \in world[cs[1].target].options[q.field]
           /\ q.type = "field_ambiguous" => o.of \in cs[1].fields[q.field].values
<1> DEFINE first == {Option("cancel", None), Option("inbox", None)}
           own == CASE q.type = "target" -> {Option("pick", cs[i].target) : i \in DOMAIN cs}
                    [] q.type = "item" -> {Option("pick", i) : i \in cs[1].items}
                    [] q.type = "item_not_found" -> {Option("add_new", None)}
                    [] q.type = "field_required" /\ OfOptions(q.field) ->
                           {Option("pick", x) : x \in world[cs[1].target].options[q.field]}
                    [] q.type = "field_ambiguous" -> {Option("pick", v) : v \in cs[1].fields[q.field].values}
                    [] q.type \in {"intent_confirm", "date", "field_confirm"} -> {Option("confirm", None)}
                    [] OTHER -> {}
           last == IF q.type \in {"target", "intent_confirm", "date", "field_confirm"} THEN {Option("other", None)} ELSE {}
<1>1. o \in first \cup own \cup last
    BY DEF OptionsFor
<1>2. o \notin first /\ o \notin last
    BY DEF Option
<1>3. o \in own
  <2> HIDE DEF first, own, last
  <2> QED BY <1>1, <1>2
<1>4. CASE q.type = "clarify"
    BY <1>3, <1>4
<1>5. CASE q.type = "target"
  <2>1. o \in {Option("pick", cs[i].target) : i \in DOMAIN cs}
      BY <1>3, <1>5
  <2> QED BY <1>5, <2>1 DEF Option
<1>6. CASE q.type = "field_required" /\ ~OfOptions(q.field)
  <2>1. own = {}
      BY <1>6
  <2> HIDE DEF own
  <2> QED BY <1>3, <2>1
<1>7. CASE q.type = "field_required" /\ OfOptions(q.field)
  <2>1. own = {Option("pick", x) : x \in world[cs[1].target].options[q.field]}
      BY <1>7
  <2>2. o \in {Option("pick", x) : x \in world[cs[1].target].options[q.field]}
    <3> HIDE DEF own
    <3> QED BY <1>3, <2>1
  <2> QED BY <1>7, <2>2 DEF Option
<1>8. CASE q.type = "field_ambiguous"
  <2>1. own = {Option("pick", v) : v \in cs[1].fields[q.field].values}
      BY <1>8
  <2>2. o \in {Option("pick", v) : v \in cs[1].fields[q.field].values}
    <3> HIDE DEF own
    <3> QED BY <1>3, <2>1
  <2> QED BY <1>8, <2>2 DEF Option
<1> QED BY <1>4, <1>5, <1>6, <1>7, <1>8

\* What can be asked about a reading.
LEMMA AsksFacts ==
    ASSUME NEW r, NEW q \in Asks(r)
    PROVE  \/ q.type \in {"intent_confirm", "target", "item", "content_required", "nothing_to_write"}
           \/ q.type \in FieldTypes /\ q.field \in DOMAIN r.cands[1].fields /\ q.type \in AskedAbout(r, q.field)
<1> DEFINE c == r.cands[1]
           place == IF OnlyIntentLow(r) THEN {"intent_confirm"}
                    ELSE IF r.conf < INTENT_MIN \/ LowTarget(r.cands) THEN {"target"} ELSE {}
           row == IF r.intent \in {"update", "append", "rewrite"} /\ c.item = None /\ c.items # {} THEN {"item"} ELSE {}
           body == IF c.content THEN {}
                   ELSE CASE r.intent = "append" -> {"content_required"}
                          [] r.intent = "rewrite" -> {"nothing_to_write"}
                          [] OTHER -> {}
           columns == UNION {{[type |-> type, field |-> f] : type \in AskedAbout(r, f)} : f \in DOMAIN c.fields}
<1>1. Asks(r) = {Q(type) : type \in place \cup row \cup body} \cup columns
    BY DEF Asks
<1>2. place \subseteq {"intent_confirm", "target"} /\ row \subseteq {"item"}
    OBVIOUS
<1>3. body \subseteq {"content_required", "nothing_to_write"}
  <2>1. CASE c.content
      BY <2>1
  <2>2. CASE ~c.content /\ r.intent = "append"
      BY <2>2
  <2>3. CASE ~c.content /\ r.intent = "rewrite"
      BY <2>3
  <2>4. CASE ~c.content /\ r.intent \notin {"append", "rewrite"}
      BY <2>4
  <2> QED BY <2>1, <2>2, <2>3, <2>4
<1> HIDE DEF place, row, body
<1>4. CASE q \in {Q(type) : type \in place \cup row \cup body}
  <2>1. PICK type \in place \cup row \cup body : q = Q(type)
      BY <1>4
  <2>2. q.type = type
      BY <2>1 DEF Q
  <2> QED BY <1>2, <1>3, <2>1, <2>2
<1>5. CASE q \in columns
  <2>1. PICK f \in DOMAIN c.fields : q \in {[type |-> x, field |-> f] : x \in AskedAbout(r, f)}
      BY <1>5
  <2>2. PICK type \in AskedAbout(r, f) : q = [type |-> type, field |-> f]
      BY <2>1
  <2>3. q.type = type /\ q.field = f
      BY <2>2
  <2>4. AskedAbout(r, f) \subseteq FieldTypes
    <3> DEFINE v == c.fields[f]
               open == r.intent = "create" /\ f \in Required /\ TypeOf(f) # "checkbox"
                       /\ v.status \in {"not_mentioned", "explicit_null"}
               day == TypeOf(f) = "date"
               asked == AskedAbout(r, f)
    <3>1. asked = CASE open -> {"field_required"}
                    [] v.status = "ambiguous" -> {"field_ambiguous"}
                    [] v.status = "value" /\ day /\ v.conf < DATE_MIN -> {"date"}
                    [] v.status = "value" /\ ~day /\ v.conf < FIELD_MIN -> {"field_confirm"}
                    [] OTHER -> {}
        BY DEF AskedAbout
    <3> HIDE DEF open, v, day, asked
    <3>2. asked \in {{"field_required"}, {"field_ambiguous"}, {"date"}, {"field_confirm"}, {}}
        BY <3>1
    <3> QED BY <3>2 DEF asked, FieldTypes
  <2> QED BY <2>2, <2>3, <2>4
<1> QED BY <1>1, <1>4, <1>5

LEMMA AmbiguousFacts ==
    ASSUME NEW r, NEW f, "field_ambiguous" \in AskedAbout(r, f)
    PROVE  r.cands[1].fields[f].status = "ambiguous"
<1> DEFINE v == r.cands[1].fields[f]
           open == r.intent = "create" /\ f \in Required /\ TypeOf(f) # "checkbox" /\ v.status \in {"not_mentioned", "explicit_null"}
           day == TypeOf(f) = "date"
           asked == AskedAbout(r, f)
<1>1. asked = CASE open -> {"field_required"}
                [] v.status = "ambiguous" -> {"field_ambiguous"}
                [] v.status = "value" /\ day /\ v.conf < DATE_MIN -> {"date"}
                [] v.status = "value" /\ ~day /\ v.conf < FIELD_MIN -> {"field_confirm"}
                [] OTHER -> {}
    BY DEF AskedAbout
<1> HIDE DEF open, v, day, asked
<1>2. v.status # "ambiguous" => asked \in {{"field_required"}, {"date"}, {"field_confirm"}, {}}
    BY <1>1
<1> QED BY <1>2 DEF asked, v

LEMMA EvaluateFacts ==
    ASSUME NEW r, NEW q \in Evaluate(r).questions
    PROVE  \/ q.type = "clarify"
           \/ r.cands # <<>> /\ (q.type \in {"item_not_found", "nothing_to_write"} \/ q \in Asks(r))
<1> DEFINE c == r.cands[1]
           NoRow == r.intent = "update" /\ c.item = None /\ c.items = {}
           NoText == r.intent = "update" /\ c.item # None /\ NothingMentioned(c)
<1>1. CASE r.clarify
  <2>1. Evaluate(r) = [kind |-> "CLARIFY", questions |-> {Q("clarify")}]
      BY <1>1 DEF Evaluate
  <2> QED BY <2>1 DEF Q
<1>2. CASE ~r.clarify /\ r.cands = <<>>
  <2>1. Evaluate(r) = [kind |-> "REJECT", questions |-> {}]
      BY <1>2 DEF Evaluate
  <2> QED BY <2>1
<1>3. CASE ~r.clarify /\ r.cands # <<>>
  <2>1. Evaluate(r) =
            IF NoRow THEN [kind |-> "REJECT", questions |-> {Q("item_not_found")}]
            ELSE IF NoText THEN [kind |-> "REJECT", questions |-> {Q("nothing_to_write")}]
            ELSE [kind |-> IF Asks(r) = {} THEN "EXECUTE" ELSE "CLARIFY", questions |-> Asks(r)]
      BY <1>3 DEF Evaluate
  <2> HIDE DEF NoRow, NoText
  <2>2. Evaluate(r).questions \in {{Q("item_not_found")}, {Q("nothing_to_write")}, Asks(r)}
      BY <2>1
  <2> QED BY <1>3, <2>2 DEF Q
<1> QED BY <1>1, <1>2, <1>3

\* A question belongs to the list it is asked about, and so do the answers on its buttons.
LEMMA QuestionFacts ==
    ASSUME WorldOK, NEW r, NEW q \in Evaluate(r).questions,
           WellRanked(r.cands), \A c \in Range(r.cands) : Fresh(c)
    PROVE  QuestionOK(q, OptionsFor(q, r.cands), r.cands)
<1> DEFINE cs == r.cands
           c == cs[1]
<1>1. \/ q.type = "clarify"
      \/ /\ cs # <<>>
         /\ \/ q.type \in {"item_not_found", "nothing_to_write", "intent_confirm", "target", "item", "content_required"}
            \/ q.type \in FieldTypes /\ q.field \in DOMAIN c.fields /\ q.type \in AskedAbout(r, q.field)
    BY EvaluateFacts, AsksFacts
<1>2. cs # <<>> => 1 \in DOMAIN cs /\ c \in Range(cs) /\ WellPut(c) /\ Fresh(c)
  <2> SUFFICES ASSUME cs # <<>> PROVE 1 \in DOMAIN cs
      BY DEF Range, WellRanked
  <2> QED BY HeadFacts, EntryFacts DEF WellRanked
<1>3. q.type \in FieldTypes => cs # <<>> /\ q.field \in DOMAIN c.fields /\ q.type \in AskedAbout(r, q.field)
    BY <1>1 DEF FieldTypes
<1>4. ASSUME NEW o \in OptionsFor(q, cs), o.id \in {"pick", "add_new", "confirm"}
      PROVE  /\ q.type # "clarify"
             /\ q.type = "target" => \E d \in Range(cs) : d.target = o.of
             /\ q.type \in {"field_required", "field_ambiguous"} => o.of # None /\ May(q.field, o.of)
  <2>1. /\ q.type # "clarify"
        /\ q.type = "target" => \E i \in DOMAIN cs : o.of = cs[i].target
        /\ q.type = "field_required" => OfOptions(q.field) /\ o.of \in world[c.target].options[q.field]
        /\ q.type = "field_ambiguous" => o.of \in c.fields[q.field].values
      BY <1>4, OptionFacts
  <2>2. q.type = "target" => \E d \in Range(cs) : d.target = o.of
      BY <2>1 DEF Range
  <2>3. ASSUME q.type = "field_required" PROVE o.of # None /\ May(q.field, o.of)
    <3>1. q.field \in Offered(c.target) /\ c.target \in DOMAIN world
        BY <1>2, <1>3, <2>3 DEF FieldTypes, Fresh
    <3>2. o.of \in Options
        BY <2>1, <2>3, <3>1, OfferedFacts
    <3> QED BY <2>1, <2>3, <3>2, WorkspaceIs DEF May
  <2>4. ASSUME q.type = "field_ambiguous" PROVE o.of # None /\ May(q.field, o.of)
    <3>1. q.field \in DOMAIN c.fields /\ c.fields[q.field].status = "ambiguous"
        BY <1>3, <2>4, AmbiguousFacts DEF FieldTypes
    <3>2. WellRead(q.field, c.fields[q.field])
        BY <1>2, <1>3, <2>4, <3>1 DEF FieldTypes, WellPut
    <3> QED BY <2>1, <2>4, <3>1, <3>2 DEF WellRead, IsRead
  <2> QED BY <2>1, <2>2, <2>3, <2>4
<1>5. q.type # "clarify" => cs # <<>>
    BY <1>1
<1> QED BY <1>3, <1>4, <1>5 DEF QuestionOK

\* What a plan's next step is read with.
LEMMA NoPlanFacts == PlanOK(NoPlan)
BY DEF PlanOK, NoPlan

LEMMA WithAnswerFacts ==
    ASSUME NEW p, PlanOK(p), NEW writes, \A v, w \in writes : v[1] = w[1] => v[2] = w[2]
    PROVE  PlanOK(WithAnswer(p, writes))
<1>1. CASE ~Remembers(p.asked_field, writes)
    BY <1>1 DEF WithAnswer
<1>2. CASE Remembers(p.asked_field, writes)
  <2> DEFINE a == p.asked_field
             w == CHOOSE x \in writes : x[1] = a
             answers == [f \in DOMAIN p.field_answers \cup {a} |-> IF f = a THEN w[2] ELSE p.field_answers[f]]
             n == WithAnswer(p, writes)
  <2>1. PICK v \in writes : a # None /\ v[1] = a /\ v[2] # None
      BY <1>2 DEF Remembers
  <2>2. w \in writes /\ w[1] = a
      BY <2>1
  <2>3. w[2] # None
      BY <2>1, <2>2
  <2>4. n = [p EXCEPT !.field_answers = answers]
      BY <1>2 DEF WithAnswer
  <2> HIDE DEF w, n
  <2>5. \A f \in DOMAIN answers : answers[f] # None
      BY <2>3 DEF PlanOK
  <2> HIDE DEF answers
  <2>6. DOMAIN n = {"steps", "field_answers", "asked_field"} /\ n.field_answers = answers /\ n.steps = p.steps
      BY <2>4 DEF PlanOK
  <2>7. p # NoPlan
      BY <2>1 DEF NoPlan
  <2>8. PlanOK(n)
      BY <2>5, <2>6, <2>7 DEF PlanOK
  <2> QED BY <2>8 DEF n
<1> QED BY <1>1, <1>2

LEMMA AdvancedFacts ==
    ASSUME NEW p, PlanOK(p)
    PROVE  PlanOK(Advanced(p))
<1>1. CASE Len(p.steps) <= 1
    BY <1>1, NoPlanFacts DEF Advanced
<1>2. CASE ~(Len(p.steps) <= 1)
  <2> DEFINE n == [p EXCEPT !.steps = Tail(p.steps)]
             rest == Tail(p.steps)
  <2>1. p # NoPlan
      BY <1>2 DEF NoPlan
  <2>2. p.steps \in Seq(Range(p.steps)) /\ p.steps # <<>>
      BY <2>1 DEF PlanOK
  <2>3. rest \in Seq(Range(p.steps)) /\ rest # <<>>
    <3> DEFINE s == p.steps
               R == Range(s)
    <3>1. s \in Seq(R) /\ Len(s) \in Nat /\ ~(Len(s) <= 1)
        BY <1>2, <2>2, LenProperties
    <3> HIDE DEF R, s
    <3>2. Tail(s) \in Seq(R) /\ Len(Tail(s)) = Len(s) - 1
        BY <3>1, HeadTailProperties, EmptySeq
    <3>3. Tail(s) # <<>>
        BY <3>1, <3>2
    <3> QED BY <3>2, <3>3 DEF s, R
  <2> HIDE DEF rest
  <2>4. rest \in Seq(Range(rest)) /\ Range(rest) \subseteq Range(p.steps)
      BY <2>3, OwnEntries
  <2>5. DOMAIN n = {"steps", "field_answers", "asked_field"} /\ n.field_answers = p.field_answers /\ n.steps = rest
      BY DEF PlanOK, rest
  <2>6. Advanced(p) = n
      BY <1>2 DEF Advanced
  <2> HIDE DEF n
  <2>7. PlanOK(n)
      BY <2>1, <2>3, <2>4, <2>5 DEF PlanOK
  <2> QED BY <2>6, <2>7
<1> QED BY <1>1, <1>2

LEMMA AskedFieldFacts ==
    ASSUME NEW p, PlanOK(p), NEW f, p # NoPlan \/ f = None
    PROVE  PlanOK([p EXCEPT !.asked_field = f])
<1> DEFINE n == [p EXCEPT !.asked_field = f]
<1>1. DOMAIN n = {"steps", "field_answers", "asked_field"} /\ n.field_answers = p.field_answers /\ n.steps = p.steps
    BY DEF PlanOK
<1>2. CASE p = NoPlan
  <2>1. n = NoPlan
      BY <1>2 DEF NoPlan
  <2> QED BY <2>1, NoPlanFacts
<1>3. CASE p # NoPlan
  <2> HIDE DEF n
  <2>1. PlanOK(n)
      BY <1>1, <1>3 DEF PlanOK
  <2> QED BY <2>1 DEF n
<1> QED BY <1>2, <1>3

\* The property, of what the step just wrote.
LEMMA WrittenThen ==
    ASSUME NEW of, NEW sure, NEW k, world' = world, chosen' = of, settled' = sure, outcome'.command = k,
           Written' => Lands(k, of) /\ Settles(k, sure)
    PROVE  WrittenAsMeant'
<1> SUFFICES ASSUME Written' PROVE (LandsWhereMeant(outcome.command) /\ WritesWhatIsSettled(outcome.command))'
    BY DEF WrittenAsMeant
<1>1. LandsWhereMeant(outcome.command)'
    BY DEF LandsWhereMeant, Lands
<1>2. WritesWhatIsSettled(outcome.command)'
    BY DEF WritesWhatIsSettled, Settles, WentFrom, Fits
<1> QED BY <1>1, <1>2

\* A reading that holds today, carried out, asked about or put aside.
LEMMA Dispatched ==
    ASSUME WorldOK, NEW r, NEW asked, NEW p, NEW of, NEW sure,
           r.intent # None, WellRanked(r.cands), Meant(r.intent, r.cands, of, sure),
           \A c \in Range(r.cands) : Fresh(c),
           asked \in Seq(Range(asked)), IsInjective(asked), PlanOK(p),
           Dispatch(r, asked, p), world' = world, chosen' = of, settled' = sure
    PROVE  SessionOK' /\ PlanOK(plan)' /\ WrittenAsMeant'
<1> DEFINE d == Evaluate(r)
<1>1. ASSUME NEW kind, kind # "written", Ends(kind) PROVE SessionOK' /\ PlanOK(plan)' /\ WrittenAsMeant'
  <2>1. session' = NoSession /\ plan' = NoPlan /\ outcome' = [kind |-> kind, command |-> NoCommand]
      BY <1>1 DEF Ends
  <2>2. SessionOK'
      BY <2>1 DEF SessionOK, Open
  <2>3. WrittenAsMeant'
      BY <1>1, <2>1 DEF WrittenAsMeant, Written
  <2> QED BY <2>1, <2>2, <2>3, NoPlanFacts
<1>2. ASSUME d.kind = "EXECUTE", Execute(r, p) PROVE SessionOK' /\ PlanOK(plan)' /\ WrittenAsMeant'
  <2>1. PICK op \in OpsOf(r.intent, r.cands[1]) :
            LET k == Command(op, r.intent, r.cands[1])
            IN  /\ session' = NoSession
                /\ plan' = Advanced(WithAnswer(p, k.writes))
                /\ outcome' = [kind |-> "written", command |-> k]
      BY <1>2 DEF Execute
  <2> DEFINE k == Command(op, r.intent, r.cands[1])
  <2>2. Lands(k, of) /\ Settles(k, sure)
      BY <1>2, WrittenFacts
  <2>3. \A v, w \in k.writes : v[1] = w[1] => v[2] = w[2]
    <3> SUFFICES ASSUME NEW v \in k.writes, NEW w \in k.writes, v[1] = w[1] PROVE v[2] = w[2]
        OBVIOUS
    <3>1. v \in Writes(r.cands[1]) /\ w \in Writes(r.cands[1])
      <4>1. k.writes = IF op \in {"create_item", "update_item"} THEN Writes(r.cands[1]) ELSE {}
          BY DEF Command
      <4> HIDE DEF k
      <4> QED BY <4>1
    <3> QED BY <3>1 DEF Writes
  <2>4. session' = NoSession /\ plan' = Advanced(WithAnswer(p, k.writes)) /\ outcome'.command = k
      BY <2>1
  <2> HIDE DEF k
  <2>5. SessionOK'
      BY <2>4 DEF SessionOK, Open
  <2>6. PlanOK(plan)'
      BY <2>3, <2>4, WithAnswerFacts, AdvancedFacts
  <2>7. WrittenAsMeant'
      BY <2>2, <2>4, WrittenThen
  <2> QED BY <2>5, <2>6, <2>7
<1>3. ASSUME Len(asked) < MAX_QUESTIONS, Ask(r, asked, d.questions, p)
      PROVE  SessionOK' /\ PlanOK(plan)' /\ WrittenAsMeant'
  <2>1. PICK q \in First(Unasked(d.questions, asked)) :
            /\ session' = [intent |-> r.intent, conf |-> r.conf, cands |-> r.cands, question |-> q,
                           options |-> OptionsFor(q, r.cands), asked |-> asked]
            /\ plan' = [p EXCEPT !.asked_field = None]
            /\ outcome' = [kind |-> "asked", command |-> NoCommand]
      BY <1>3 DEF Ask
  <2>2. q \in d.questions /\ q \notin Range(asked)
      BY DEF First, Unasked
  <2>3. QuestionOK(q, OptionsFor(q, r.cands), r.cands)
      BY <2>2, QuestionFacts
  <2>4. /\ session'.intent = r.intent /\ session'.cands = r.cands /\ session'.question = q
        /\ session'.options = OptionsFor(q, r.cands) /\ session'.asked = asked
        /\ DOMAIN session' = {"intent", "conf", "cands", "question", "options", "asked"}
      BY <2>1
  <2>5. AskedOK(session.question, session.asked)'
      BY <1>3, <2>2, <2>4 DEF AskedOK
  <2>6. Meant(session.intent, session.cands, chosen, settled)'
      BY <2>4 DEF Meant, NothingMissing, RowKept, WentFrom
  <2>7. WellRanked(session.cands)' /\ QuestionOK(session.question, session.options, session.cands)'
      BY <2>3, <2>4
  <2>8. SessionOK'
      BY <2>4, <2>5, <2>6, <2>7 DEF SessionOK
  <2>9. PlanOK(plan)'
      BY <2>1, AskedFieldFacts
  <2>10. WrittenAsMeant'
      BY <2>1 DEF WrittenAsMeant, Written
  <2> QED BY <2>8, <2>9, <2>10
<1>4. \/ d.kind = "EXECUTE" /\ (Execute(r, p) \/ Ends("inbox"))
      \/ Len(asked) < MAX_QUESTIONS /\ Ask(r, asked, d.questions, p)
      \/ Ends("inbox")
    BY DEF Dispatch
<1> QED BY <1>1, <1>2, <1>3, <1>4

----------------------------------------------------------------------------
(* An answer.                                                              *)

\* Another best candidate for the same place, as sure as the one before.
LEMMA FirstChanged ==
    ASSUME NEW cs, WellRanked(cs), cs # <<>>, NEW d, WellPut(d), d.target = cs[1].target, d.conf = cs[1].conf
    PROVE  LET es == [cs EXCEPT ![1] = d]
           IN  /\ WellRanked(es) /\ es # <<>>
               /\ \A c \in Range(es) : c = d \/ (c \in Range(cs) /\ c.target # d.target)
               /\ \A t : AmongTheBest(cs, t) => AmongTheBest(es, t)
<1> DEFINE S == Range(cs) \cup {d}
           es == [cs EXCEPT ![1] = d]
<1>1. /\ cs \in Seq(Range(cs)) /\ Len(cs) \in Nat /\ DOMAIN cs = 1 .. Len(cs) /\ 1 \in DOMAIN cs
      /\ \A i \in DOMAIN cs : cs[i] \in Range(cs) /\ WellPut(cs[i])
  <2>1. cs \in Seq(Range(cs)) /\ Len(cs) \in Nat /\ DOMAIN cs = 1 .. Len(cs) /\ 1 \in DOMAIN cs
      BY HeadFacts, EntryFacts DEF WellRanked
  <2> QED BY <2>1 DEF WellRanked, Range
<1>2. cs \in Seq(S) /\ d \in S
  <2> DEFINE R == Range(cs)
  <2>1. R \subseteq S /\ cs \in Seq(R) /\ d \in S
      BY <1>1
  <2> HIDE DEF R, S
  <2> QED BY <2>1
<1> HIDE DEF S
<1>3. es \in Seq(S) /\ DOMAIN es = DOMAIN cs /\ es[1] = d /\ \A j \in DOMAIN cs : j # 1 => es[j] = cs[j]
    BY <1>1, <1>2, ChangeFacts
<1> HIDE DEF es
<1>4. es \in Seq(Range(es))
    BY <1>3, OwnEntries
<1>5. \A j \in DOMAIN es : es[j].target = cs[j].target /\ es[j].conf = cs[j].conf /\ WellPut(es[j])
    BY <1>1, <1>3
<1>6. Distinct(es) /\ Descending(es)
    BY <1>3, <1>5 DEF WellRanked, Distinct, Descending
<1>7. WellRanked(es)
    BY <1>4, <1>5, <1>6 DEF WellRanked, Range
<1>8. \A c \in Range(es) : c = d \/ (c \in Range(cs) /\ c.target # d.target)
  <2> SUFFICES ASSUME NEW j \in DOMAIN es, j # 1 PROVE es[j] \in Range(cs) /\ es[j].target # d.target
      BY <1>3 DEF Range
  <2>1. es[j] = cs[j] /\ cs[j] \in Range(cs)
      BY <1>1, <1>3
  <2>2. cs[j].target # cs[1].target
      BY <1>1, <1>3 DEF WellRanked, Distinct
  <2> QED BY <2>1, <2>2
<1>9. \A t : AmongTheBest(cs, t) => AmongTheBest(es, t)
    BY <1>1, <1>3, <1>5 DEF AmongTheBest
<1>10. es # <<>>
    BY <1>1, <1>3
<1> QED BY <1>7, <1>8, <1>9, <1>10 DEF es

LEMMA MeantAfter ==
    ASSUME NEW cs, NEW d, NEW intent, NEW of, NEW sure, NEW intent2, NEW of2, NEW sure2,
           WellRanked(cs), cs # <<>>, WellPut(d), d.target = cs[1].target, d.conf = cs[1].conf,
           Meant(intent, cs, of, sure), sure \subseteq sure2, DOMAIN of2 # {},
           DOMAIN d.fields = DOMAIN cs[1].fields, RowKept(intent2, d, of2),
           \A c \in Range(cs) : c.target # d.target => RowKept(intent2, c, of2),
           \A t \in DOMAIN of2 \cap DOMAIN world : AmongTheBest(cs, t),
           \A f \in DOMAIN d.fields : Sure(f, d.fields[f]) => <<f, d.fields[f].value>> \in sure2
    PROVE  LET es == [cs EXCEPT ![1] = d] IN WellRanked(es) /\ Meant(intent2, es, of2, sure2)
<1> DEFINE es == [cs EXCEPT ![1] = d]
<1>1. /\ WellRanked(es) /\ es # <<>>
      /\ \A c \in Range(es) : c = d \/ (c \in Range(cs) /\ c.target # d.target)
      /\ \A t : AmongTheBest(cs, t) => AmongTheBest(es, t)
    BY FirstChanged
<1> HIDE DEF es
<1>2. cs[1] \in Range(cs)
  <2>1. 1 \in DOMAIN cs
      BY HeadFacts, EntryFacts DEF WellRanked
  <2> QED BY <2>1 DEF Range
<1>3. NothingMissing(d)
    BY <1>2 DEF Meant, NothingMissing
<1>4. \A c \in Range(es) : NothingMissing(c) /\ RowKept(intent2, c, of2)
    BY <1>1, <1>3 DEF Meant
<1>5. SureIn(es) \subseteq sure2
  <2> SUFFICES ASSUME NEW p \in SureIn(es) PROVE p \in sure2
      OBVIOUS
  <2>1. PICK c \in Range(es) : \E f \in DOMAIN c.fields : Sure(f, c.fields[f]) /\ p = <<f, c.fields[f].value>>
      BY SureFacts
  <2>2. CASE c = d
      BY <2>1, <2>2
  <2>3. CASE c \in Range(cs)
    <3>1. p \in SureIn(cs)
        BY <2>1, <2>3, SureFacts
    <3> QED BY <3>1 DEF Meant
  <2> QED BY <1>1, <2>2, <2>3
<1>6. Meant(intent2, es, of2, sure2)
    BY <1>1, <1>4, <1>5 DEF Meant
<1> QED BY <1>1, <1>6 DEF es

\* A column of a candidate, filled in.
LEMMA WithFieldFacts ==
    ASSUME NEW c, WellPut(c), NEW f, NEW v, WellRead(f, v)
    PROVE  LET d == WithField(c, f, v)
           IN  /\ WellPut(d) /\ d.target = c.target /\ d.conf = c.conf /\ d.item = c.item
               /\ DOMAIN d.fields = DOMAIN c.fields
               /\ \A g \in DOMAIN d.fields : d.fields[g] = IF g = f THEN v ELSE c.fields[g]
<1>1. CASE f \notin DOMAIN c.fields
    BY <1>1 DEF WithField
<1>2. CASE f \in DOMAIN c.fields
  <2> DEFINE d == WithField(c, f, v)
             fs == [c.fields EXCEPT ![f] = v]
  <2>1. d = [c EXCEPT !.fields = fs]
      BY <1>2 DEF WithField
  <2>2. DOMAIN fs = DOMAIN c.fields /\ \A g \in DOMAIN fs : fs[g] = IF g = f THEN v ELSE c.fields[g]
      BY <1>2
  <2> HIDE DEF fs, d
  <2>3. DOMAIN c = {"target", "conf", "item", "items", "content", "fields"} /\ c.conf \in 0 .. SURE
      BY DEF WellPut, IsCandidate
  <2>4. /\ d.target = c.target /\ d.conf = c.conf /\ d.item = c.item /\ d.fields = fs
        /\ DOMAIN d = {"target", "conf", "item", "items", "content", "fields"}
      BY <2>1, <2>3
  <2>5. \A g \in DOMAIN fs : WellRead(g, fs[g])
      BY <2>2 DEF WellPut
  <2>6. \A g \in DOMAIN fs : IsRead(fs[g])
      BY <2>5 DEF WellRead
  <2>7. WellPut(d)
      BY <2>2, <2>3, <2>4, <2>5, <2>6 DEF WellPut, IsCandidate
  <2> QED BY <2>2, <2>4, <2>7 DEF d
<1> QED BY <1>1, <1>2

\* What the button adds to the histories.
ChosenAfter(s, o, of) ==
    CASE s.question.type = "target" -> [t \in {o.of} |-> CandidateFor(s.cands, t).item]
      [] s.question.type = "item" -> [t \in {s.cands[1].target} |-> o.of]
      [] OTHER -> of
SettledBy(s, o) ==
    LET q == s.question
        c == s.cands[1]
    IN  CASE q.type \in {"field_required", "field_ambiguous"} -> {<<q.field, o.of>>}
          [] q.type \in {"date", "field_confirm"} -> {<<q.field, c.fields[q.field].value>>}
          [] q.type = "item_not_found" -> {<<TitleColumn(c.target), ItemText>>}
          [] OTHER -> {}

\* The picked place becomes the only one.
LEMMA PlacePicked ==
    ASSUME NEW cs, NEW t, NEW intent, NEW of, NEW sure, WellRanked(cs), Meant(intent, cs, of, sure),
           \E c \in Range(cs) : c.target = t
    PROVE  LET es == <<[CandidateFor(cs, t) EXCEPT !.conf = SURE]>>
           IN  WellRanked(es) /\ Meant(intent, es, [u \in {t} |-> CandidateFor(cs, u).item], sure)
<1> DEFINE c == CandidateFor(cs, t)
           d == [c EXCEPT !.conf = SURE]
           es == <<d>>
           of2 == [u \in {t} |-> CandidateFor(cs, u).item]
<1>1. c \in Range(cs) /\ c.target = t
    BY DEF CandidateFor
<1>2. DOMAIN of2 = {t} /\ of2[t] = c.item
    OBVIOUS
<1> HIDE DEF c, of2
<1>3. WellPut(c) /\ NothingMissing(c)
    BY <1>1 DEF WellRanked, Meant
<1>4. SURE \in 0 .. SURE
    BY Thresholds
<1>5. DOMAIN c = {"target", "conf", "item", "items", "content", "fields"}
    BY <1>3 DEF WellPut, IsCandidate
<1>6. /\ d.target = t /\ d.conf = SURE /\ d.item = c.item /\ d.fields = c.fields
      /\ DOMAIN d = {"target", "conf", "item", "items", "content", "fields"}
    BY <1>1, <1>5
<1> HIDE DEF d
<1>7. WellPut(d)
    BY <1>1, <1>3, <1>4, <1>6 DEF WellPut, IsCandidate
<1>8. NothingMissing(d)
    BY <1>1, <1>3, <1>6 DEF NothingMissing
<1>9. RowKept(intent, d, of2)
    BY <1>2, <1>6 DEF RowKept
<1>10. DOMAIN es = {1} /\ es[1] = d /\ es \in Seq({d}) /\ Range(es) = {d} /\ es # <<>>
  <2>1. DOMAIN es = {1} /\ es[1] = d /\ es \in Seq({d}) /\ es # <<>>
      OBVIOUS
  <2> HIDE DEF es
  <2> QED BY <2>1 DEF Range
<1> HIDE DEF es
<1>11. WellRanked(es)
    BY <1>7, <1>10 DEF WellRanked, Distinct, Descending
<1>12. AmongTheBest(es, t)
  <2>1. es[1].conf - es[1].conf < TARGET_MARGIN
      BY <1>4, <1>6, <1>10, Thresholds
  <2> QED BY <1>6, <1>10, <2>1 DEF AmongTheBest
<1>13. SureIn(es) \subseteq sure
  <2> SUFFICES ASSUME NEW p \in SureIn(es) PROVE p \in sure
      OBVIOUS
  <2>1. p \in SureIn(cs)
      BY <1>1, <1>6, <1>10, SureFacts
  <2> QED BY <2>1 DEF Meant
<1>14. Meant(intent, es, of2, sure)
    BY <1>2, <1>8, <1>9, <1>10, <1>12, <1>13 DEF Meant
<1> QED BY <1>11, <1>14 DEF es, d, c, of2

\* What an answer makes of the best candidate.
LEMMA FirstAnswered ==
    ASSUME NEW s, NEW o \in s.options, NEW of, NEW sure, s.cands # <<>>,
           WellRanked(s.cands), Meant(s.intent, s.cands, of, sure),
           QuestionOK(s.question, s.options, s.cands), o.id \in {"pick", "add_new", "confirm"}
    PROVE  LET c == s.cands[1]
               d == AnsweredFirst(c, s.question, o)
           IN  /\ WellPut(d) /\ d.target = c.target /\ d.conf = c.conf /\ DOMAIN d.fields = DOMAIN c.fields
               /\ \A f \in DOMAIN d.fields : Sure(f, d.fields[f]) => <<f, d.fields[f].value>> \in sure \cup SettledBy(s, o)
               /\ s.question.type \notin {"item", "item_not_found"} => d.item = c.item
               /\ s.question.type = "item" => d.item = o.of
<1> DEFINE q == s.question
           cs == s.cands
           c == cs[1]
           d == AnsweredFirst(c, q, o)
           more == SettledBy(s, o)
           Good(e) == /\ WellPut(e) /\ e.target = c.target /\ e.conf = c.conf /\ DOMAIN e.fields = DOMAIN c.fields
                      /\ \A f \in DOMAIN e.fields : Sure(f, e.fields[f]) => <<f, e.fields[f].value>> \in sure \cup more
<1>1. c \in Range(cs)
  <2>1. 1 \in DOMAIN cs
      BY HeadFacts, EntryFacts DEF WellRanked
  <2> QED BY <2>1 DEF Range
<1>2. WellPut(c) /\ DOMAIN c = {"target", "conf", "item", "items", "content", "fields"}
    BY <1>1 DEF WellRanked, WellPut, IsCandidate
<1>3. \A f \in DOMAIN c.fields : Sure(f, c.fields[f]) => <<f, c.fields[f].value>> \in sure
    BY <1>1, SureFacts DEF Meant
<1>4. SURE \in Nat
    BY Thresholds
<1> HIDE DEF c, d, more, cs
<1>5. ASSUME NEW e, DOMAIN e = DOMAIN c, e.fields = c.fields, e.target = c.target, e.conf = c.conf
      PROVE  Good(e)
  <2>1. WellPut(e)
      BY <1>2, <1>5 DEF WellPut, IsCandidate
  <2> QED BY <1>3, <1>5, <2>1
<1>6. ASSUME NEW f, NEW v, f \in DOMAIN c.fields => WellRead(f, v), <<f, v.value>> \in more
      PROVE  Good(WithField(c, f, v)) /\ WithField(c, f, v).item = c.item
  <2> DEFINE e == WithField(c, f, v)
  <2>1. CASE f \notin DOMAIN c.fields
    <3>1. e = c
        BY <2>1 DEF WithField
    <3>2. Good(c)
        BY <1>5
    <3> HIDE DEF e, Good
    <3> QED BY <3>1, <3>2 DEF e
  <2>2. CASE f \in DOMAIN c.fields
    <3>1. /\ WellPut(e) /\ e.target = c.target /\ e.conf = c.conf /\ e.item = c.item
          /\ DOMAIN e.fields = DOMAIN c.fields
          /\ \A g \in DOMAIN e.fields : e.fields[g] = IF g = f THEN v ELSE c.fields[g]
        BY <1>2, <1>6, <2>2, WithFieldFacts
    <3> HIDE DEF e
    <3>2. ASSUME NEW g \in DOMAIN e.fields, Sure(g, e.fields[g]) PROVE <<g, e.fields[g].value>> \in sure \cup more
      <4>1. CASE g = f
          BY <1>6, <3>1, <4>1
      <4>2. CASE g # f
          BY <1>3, <3>1, <3>2, <4>2
      <4> QED BY <4>1, <4>2
    <3>3. Good(e)
        BY <3>1, <3>2
    <3> QED BY <3>1, <3>3 DEF e
  <2> QED BY <2>1, <2>2
<1>7. CASE q.type = "item"
  <2>1. d = [c EXCEPT !.item = o.of]
      BY <1>7 DEF AnsweredFirst, d
  <2>2. /\ DOMAIN d = DOMAIN c /\ d.fields = c.fields /\ d.target = c.target /\ d.conf = c.conf /\ d.item = o.of
      BY <1>2, <2>1
  <2> QED BY <1>5, <1>7, <2>2 DEF d, c, more, cs
<1>8. CASE q.type = "item_not_found"
  <2> DEFINE f == TitleColumn(c.target)
             v == Value(ItemText, SURE)
             e == WithField(c, f, v)
  <2>1. d = [e EXCEPT !.item = None]
      BY <1>8 DEF AnsweredFirst, d
  <2>2. <<f, v.value>> \in more
    <3>1. more = {<<f, ItemText>>}
        BY <1>8 DEF SettledBy, more, c, cs
    <3> QED BY <3>1 DEF Value
  <2>3. f \in DOMAIN c.fields => WellRead(f, v)
    <3> SUFFICES ASSUME f \in DOMAIN c.fields PROVE WellRead(f, v)
        OBVIOUS
    <3>1. f # None
        BY <1>2, WorkspaceIs DEF WellPut, None, PageTitle
    <3>2. TypeOf(f) = "title"
        BY <3>1 DEF TitleColumn
    <3>3. May(f, ItemText)
        BY <3>2 DEF May, OfOptions, OptionTypes, ListTypes, ItemText, Unfit
    <3>4. v = [status |-> "value", value |-> ItemText, values |-> {}, conf |-> SURE]
        BY DEF Value
    <3> HIDE DEF f, v
    <3> QED BY <1>4, <3>3, <3>4 DEF WellRead, IsRead, Statuses, ItemText, None
  <2>4. Good(e)
      BY <1>6, <2>2, <2>3
  <2> HIDE DEF e
  <2>5. DOMAIN e = {"target", "conf", "item", "items", "content", "fields"}
      BY <2>4 DEF WellPut, IsCandidate
  <2>6. DOMAIN d = DOMAIN e /\ d.fields = e.fields /\ d.target = e.target /\ d.conf = e.conf
      BY <2>1, <2>5
  <2>7. WellPut(d)
      BY <2>4, <2>6 DEF WellPut, IsCandidate
  <2>8. Good(d)
      BY <2>4, <2>6, <2>7
  <2> QED BY <1>8, <2>8 DEF d, c, more, cs
<1>9. CASE q.type \in {"field_required", "field_ambiguous"}
  <2> DEFINE f == q.field
             v == Value(o.of, SURE)
  <2>1. d = WithField(c, f, v)
      BY <1>9 DEF AnsweredFirst, d
  <2>2. <<f, v.value>> \in more
    <3>1. more = {<<f, o.of>>}
        BY <1>9 DEF SettledBy, more
    <3> QED BY <3>1 DEF Value
  <2>3. WellRead(f, v)
    <3>1. o.of # None /\ May(f, o.of)
        BY <1>9 DEF QuestionOK
    <3>2. v = [status |-> "value", value |-> o.of, values |-> {}, conf |-> SURE]
        BY DEF Value
    <3> HIDE DEF f, v
    <3> QED BY <1>4, <3>1, <3>2 DEF WellRead, IsRead, Statuses
  <2>4. Good(d) /\ d.item = c.item
    <3> HIDE DEF Good
    <3> QED BY <1>6, <2>1, <2>2, <2>3
  <2> QED BY <1>9, <2>4 DEF d, c, more, cs
<1>10. CASE q.type \in {"date", "field_confirm"}
  <2> DEFINE f == q.field
             v == [c.fields[f] EXCEPT !.conf = SURE]
  <2>1. f \in DOMAIN c.fields
      BY <1>10 DEF QuestionOK, FieldTypes, c, cs
  <2>2. d = WithField(c, f, v)
    <3>1. d = [c EXCEPT !.fields[q.field].conf = SURE]
        BY <1>10 DEF AnsweredFirst, d
    <3> QED BY <2>1, <3>1 DEF WithField
  <2>3. WellRead(f, c.fields[f])
      BY <1>2, <2>1 DEF WellPut
  <2>4. /\ DOMAIN v = {"status", "value", "values", "conf"} /\ v.conf = SURE
        /\ v.status = c.fields[f].status /\ v.value = c.fields[f].value /\ v.values = c.fields[f].values
      BY <2>3 DEF WellRead, IsRead
  <2>5. <<f, v.value>> \in more
    <3>1. more = {<<f, c.fields[f].value>>}
        BY <1>10 DEF SettledBy, more, c, cs
    <3> QED BY <2>4, <3>1
  <2> HIDE DEF v, f
  <2>6. WellRead(f, v)
      BY <1>4, <2>3, <2>4 DEF WellRead, IsRead
  <2>7. Good(d) /\ d.item = c.item
    <3> HIDE DEF Good
    <3> QED BY <1>6, <2>2, <2>5, <2>6
  <2> QED BY <1>10, <2>7 DEF d, c, more, cs
<1>11. CASE q.type \notin {"item", "item_not_found", "field_required", "field_ambiguous", "date", "field_confirm"}
  <2>1. d = c
      BY <1>11 DEF AnsweredFirst, d
  <2>2. Good(c)
      BY <1>5
  <2> QED BY <1>11, <2>1, <2>2 DEF d, c, more, cs
<1> QED BY <1>7, <1>8, <1>9, <1>10, <1>11

\* The answered session means what the session meant, and what the button said.
LEMMA AnsweredFacts ==
    ASSUME NEW s, NEW o \in s.options, NEW of, NEW sure,
           DOMAIN s = {"intent", "conf", "cands", "question", "options", "asked"}, s.intent # None,
           WellRanked(s.cands), Meant(s.intent, s.cands, of, sure),
           QuestionOK(s.question, s.options, s.cands), o.id \in {"pick", "add_new", "confirm"}
    PROVE  LET n == Answered(s, o)
           IN  /\ n.intent # None /\ n.asked = Append(s.asked, s.question)
               /\ WellRanked(n.cands) /\ Meant(n.intent, n.cands, ChosenAfter(s, o, of), sure \cup SettledBy(s, o))
<1> DEFINE q == s.question
           cs == s.cands
           c == cs[1]
           d == AnsweredFirst(c, q, o)
           es == [cs EXCEPT ![1] = d]
           n == Answered(s, o)
           sure2 == sure \cup SettledBy(s, o)
           of2 == ChosenAfter(s, o, of)
<1>1. /\ n.intent = (IF q.type = "item_not_found" THEN "create" ELSE s.intent)
      /\ n.cands = (IF q.type = "target" THEN <<[CandidateFor(cs, o.of) EXCEPT !.conf = SURE]>> ELSE es)
      /\ n.asked = Append(s.asked, q)
  <2> DEFINE asked2 == Append(s.asked, q)
             intent2 == IF q.type = "item_not_found" THEN "create" ELSE s.intent
             conf2 == IF q.type = "intent_confirm" THEN SURE ELSE s.conf
             cands2 == IF q.type = "target" THEN <<[CandidateFor(cs, o.of) EXCEPT !.conf = SURE]>> ELSE es
  <2>1. n = [s EXCEPT !.asked = asked2, !.intent = intent2, !.conf = conf2, !.cands = cands2]
      BY Zenon DEF Answered
  <2> HIDE DEF asked2, intent2, conf2, cands2, n
  <2>2. n.intent = intent2 /\ n.cands = cands2 /\ n.asked = asked2
      BY <2>1
  <2> QED BY <2>2 DEF asked2, intent2, cands2
<1>2. cs # <<>> /\ q.type # "clarify"
    BY DEF QuestionOK
<1>3. n.intent # None
    BY <1>1 DEF None
<1> HIDE DEF n
<1>4. CASE q.type = "target"
  <2>1. of2 = [u \in {o.of} |-> CandidateFor(cs, u).item]
      BY <1>4 DEF ChosenAfter
  <2>2. sure2 = sure
    <3>1. SettledBy(s, o) = {}
        BY <1>4 DEF SettledBy
    <3> QED BY <3>1
  <2>3. \E x \in Range(cs) : x.target = o.of
      BY <1>4 DEF QuestionOK
  <2>4. WellRanked(n.cands) /\ Meant(s.intent, n.cands, of2, sure)
    <3> DEFINE one == <<[CandidateFor(cs, o.of) EXCEPT !.conf = SURE]>>
               rows == [u \in {o.of} |-> CandidateFor(cs, u).item]
    <3>1. LET e == <<[CandidateFor(cs, o.of) EXCEPT !.conf = SURE]>>
          IN  WellRanked(e) /\ Meant(s.intent, e, [u \in {o.of} |-> CandidateFor(cs, u).item], sure)
        BY <2>3, PlacePicked
    <3>2. WellRanked(one) /\ Meant(s.intent, one, rows, sure)
        BY <3>1
    <3>3. n.cands = one
        BY <1>1, <1>4
    <3>4. of2 = rows
        BY <2>1
    <3> HIDE DEF one, rows, of2
    <3> QED BY <3>2, <3>3, <3>4
  <2>5. n.intent = s.intent
      BY <1>1, <1>4
  <2> QED BY <1>1, <1>3, <2>2, <2>4, <2>5 DEF n
<1>5. CASE q.type # "target"
  <2>1. /\ WellPut(d) /\ d.target = c.target /\ d.conf = c.conf /\ DOMAIN d.fields = DOMAIN c.fields
        /\ \A f \in DOMAIN d.fields : Sure(f, d.fields[f]) => <<f, d.fields[f].value>> \in sure2
        /\ q.type \notin {"item", "item_not_found"} => d.item = c.item
        /\ q.type = "item" => d.item = o.of
      BY <1>2, FirstAnswered
  <2>2. /\ 1 \in DOMAIN cs /\ c \in Range(cs) /\ c.conf \in Nat
    <3>1. 1 \in DOMAIN cs
        BY <1>2, HeadFacts, EntryFacts DEF WellRanked
    <3>2. c \in Range(cs)
        BY <3>1 DEF Range
    <3> QED BY <3>1, <3>2 DEF WellRanked, WellPut, IsCandidate
  <2>3. RowKept(s.intent, c, of) /\ DOMAIN of # {} /\ \A t \in DOMAIN of \cap DOMAIN world : AmongTheBest(cs, t)
      BY <1>2, <2>2 DEF Meant
  <2>4. /\ q.type = "item" => of2 = [t \in {c.target} |-> o.of]
        /\ q.type # "item" => of2 = of
      BY <1>5 DEF ChosenAfter
  <2>5. \A x \in Range(cs) : RowKept(s.intent, x, of)
      BY DEF Meant
  <2> HIDE DEF d, of2, sure2
  <2>6. DOMAIN of2 # {} /\ \A t \in DOMAIN of2 \cap DOMAIN world : AmongTheBest(cs, t)
    <3>1. CASE q.type = "item"
      <4>1. DOMAIN of2 = {c.target}
          BY <2>4, <3>1
      <4>2. AmongTheBest(cs, c.target)
          BY <2>2, Thresholds DEF AmongTheBest
      <4> QED BY <4>1, <4>2
    <3>2. CASE q.type # "item"
        BY <2>3, <2>4, <3>2
    <3> QED BY <3>1, <3>2
  <2>7. RowKept(n.intent, d, of2)
    <3>1. CASE q.type = "item"
      <4>1. of2[c.target] = o.of /\ d.item = o.of /\ d.target = c.target
          BY <2>1, <2>4, <3>1
      <4> QED BY <4>1 DEF RowKept
    <3>2. CASE q.type = "item_not_found"
        BY <1>1, <3>2 DEF RowKept
    <3>3. CASE q.type \notin {"item", "item_not_found"}
        BY <1>1, <2>1, <2>3, <2>4, <3>3 DEF RowKept
    <3> QED BY <3>1, <3>2, <3>3
  <2>8. ASSUME NEW x \in Range(cs), x.target # d.target PROVE RowKept(n.intent, x, of2)
    <3>1. CASE q.type = "item"
      <4>1. x.target \notin DOMAIN of2
          BY <2>1, <2>4, <2>8, <3>1
      <4> QED BY <4>1 DEF RowKept
    <3>2. CASE q.type = "item_not_found"
        BY <1>1, <3>2 DEF RowKept
    <3>3. CASE q.type \notin {"item", "item_not_found"}
        BY <1>1, <2>4, <2>5, <3>3 DEF RowKept
    <3> QED BY <3>1, <3>2, <3>3
  <2>9. sure \subseteq sure2
      BY DEF sure2
  <2>10. WellRanked(es) /\ Meant(n.intent, es, of2, sure2)
    <3> HIDE DEF es
    <3>1. LET e == [cs EXCEPT ![1] = d] IN WellRanked(e) /\ Meant(n.intent, e, of2, sure2)
        BY <1>2, <2>1, <2>6, <2>7, <2>8, <2>9, MeantAfter
    <3> QED BY <3>1 DEF es
  <2> QED BY <1>1, <1>3, <1>5, <2>10 DEF n, sure2, of2
<1> QED BY <1>4, <1>5

----------------------------------------------------------------------------
(* The steps.                                                              *)

\* Nothing comes back to the workspace.
Shrinks ==
    /\ DOMAIN world' \subseteq DOMAIN world
    /\ \A t \in DOMAIN world' :
           /\ world'[t].items \subseteq world[t].items /\ world'[t].columns \subseteq world[t].columns
           /\ \A f \in Columns : OfOptions(f) => world'[t].options[f] \subseteq world[t].options[f]

\* The open question stays as good as it was when the workspace shrinks and the histories are added to.
LEMMA SessionStays ==
    ASSUME WorldOK, SessionOK, Shrinks, session' = session, chosen' = chosen, settled \subseteq settled'
    PROVE  SessionOK'
<1> SUFFICES ASSUME Open' PROVE SessionOK'
    BY DEF SessionOK
<1>1. Open
    BY DEF Open
<1>2. PICK s : s = session
    OBVIOUS
<1>3. PICK of : of = chosen
    OBVIOUS
<1>4. PICK sure : sure = settled
    OBVIOUS
<1>5. /\ DOMAIN s = {"intent", "conf", "cands", "question", "options", "asked"}
      /\ s.intent # None
      /\ WellRanked(s.cands) /\ Meant(s.intent, s.cands, of, sure)
      /\ QuestionOK(s.question, s.options, s.cands)
      /\ AskedOK(s.question, s.asked)
    BY <1>1, <1>2, <1>3, <1>4 DEF SessionOK
<1>6. ASSUME NEW c, NothingMissing(c) PROVE NothingMissing(c)'
  <2> SUFFICES ASSUME c.target \in DOMAIN world', Kind[c.target] = "database", NEW f \in Columns \ DOMAIN c.fields
               PROVE  WentFrom(c.target, f)'
      BY DEF NothingMissing
  <2>1. c.target \in DOMAIN world /\ WentFrom(c.target, f)
      BY <1>6 DEF Shrinks, NothingMissing
  <2>2. CASE f \notin world[c.target].columns
      BY <2>2 DEF Shrinks, WentFrom
  <2>3. CASE OfOptions(f) /\ world[c.target].options[f] # Options
    <3>1. world[c.target].options[f] \subseteq Options
        BY <2>1, <2>3 DEF WorldOK
    <3>2. world'[c.target].options[f] \subseteq world[c.target].options[f]
        BY <2>3 DEF Shrinks
    <3>3. world'[c.target].options[f] # Options
        BY <2>3, <3>1, <3>2
    <3> QED BY <2>3, <3>3 DEF WentFrom
  <2> QED BY <2>1, <2>2, <2>3 DEF WentFrom
<1>7. ASSUME NEW c, RowKept(s.intent, c, of) PROVE RowKept(s.intent, c, of)'
    BY <1>7 DEF RowKept, Shrinks
<1>8. Meant(s.intent, s.cands, of, sure)'
  <2>1. \A c \in Range(s.cands) : NothingMissing(c)' /\ RowKept(s.intent, c, of)'
      BY <1>5, <1>6, <1>7 DEF Meant
  <2>2. \A t \in DOMAIN of \cap DOMAIN world' : AmongTheBest(s.cands, t)
      BY <1>5 DEF Meant, Shrinks
  <2> QED BY <1>5, <2>1, <2>2 DEF Meant
<1>9. \A c \in Range(s.cands) : NothingMissing(c)' /\ RowKept(s.intent, c, of)'
    BY <1>8 DEF Meant
<1>10. SureIn(s.cands) \subseteq settled'
    BY <1>4, <1>5 DEF Meant
<1>11. Meant(session.intent, session.cands, chosen, settled)'
  <2>1. session' = s /\ chosen' = of
      BY <1>2, <1>3
  <2>2. \A c \in Range(s.cands) : NothingMissing(c)' /\ RowKept(s.intent, c, of)'
      BY <1>9
  <2>3. s.cands # <<>> => DOMAIN of # {}
      BY <1>5 DEF Meant
  <2>4. \A t \in DOMAIN of \cap DOMAIN world' : AmongTheBest(s.cands, t)
      BY <1>8 DEF Meant
  <2> QED BY <1>10, <2>1, <2>2, <2>3, <2>4 DEF Meant, RowKept, NothingMissing
<1> QED BY <1>2, <1>5, <1>11 DEF SessionOK

\* A workspace that stands still is still a workspace.
LEMMA WorldStays ==
    ASSUME WorldOK, world' = world
    PROVE  WorldOK' /\ Shrinks
<1>1. WorldOK'
    BY DEF WorldOK
<1>2. Shrinks
    BY DEF Shrinks
<1> QED BY <1>1, <1>2

\* The first question of a message, or of a plan's step.
LEMMA ReadingFacts ==
    ASSUME QuestionsInv, NEW reading, IsReading(reading), NEW asked, NEW p, NEW sure,
           asked \in Seq(Range(asked)), IsInjective(asked), PlanOK(p), SureIn(reading.cands) \subseteq sure,
           world' = world, settled' = sure,
           LET cs == Validate(reading.intent, reading.cands)
           IN  Dispatch([reading EXCEPT !.cands = cs], asked, p) /\ chosen' = ChosenIn(cs)
    PROVE  SessionOK' /\ PlanOK(plan)' /\ WrittenAsMeant'
<1>1. PICK cs : cs = Validate(reading.intent, reading.cands)
    OBVIOUS
<1> DEFINE r == [reading EXCEPT !.cands = cs]
<1>2. /\ DOMAIN reading = {"intent", "conf", "clarify", "cands"} /\ reading.intent # None
      /\ reading.cands \in Seq(Range(reading.cands)) /\ \A c \in Range(reading.cands) : IsCandidate(c)
    BY DEF IsReading
<1>3. /\ WellRanked(cs) /\ SureIn(cs) \subseteq sure
      /\ \A c \in Range(cs) : Fresh(c) /\ NothingMissing(c)
  <2>1. LET es == Validate(reading.intent, reading.cands)
        IN  /\ WellRanked(es) /\ \A c \in Range(es) : Fresh(c) /\ NothingMissing(c)
            /\ SureIn(es) \subseteq SureIn(reading.cands)
      BY <1>2, ValidateFacts DEF QuestionsInv
  <2> QED BY <1>1, <2>1
<1>4. PICK of : of = ChosenIn(cs)
    OBVIOUS
<1>5. Meant(reading.intent, cs, of, sure)
    BY <1>3, <1>4, FirstMeant
<1>6. r.intent = reading.intent /\ r.cands = cs
    BY <1>2
<1>7. Dispatch(r, asked, p) /\ chosen' = of
    BY <1>1, <1>4
<1>8. WorldOK
    BY DEF QuestionsInv
<1> HIDE DEF r
<1> QED BY <1>2, <1>3, <1>5, <1>6, <1>7, <1>8, Dispatched

LEMMA StartsWell == QuestionsInit => QuestionsInv
<1> SUFFICES ASSUME QuestionsInit PROVE QuestionsInv
    OBVIOUS
<1>1. WorldOK
  <2> DEFINE Row(t) == [items |-> StartItems[t],
                        columns |-> IF Kind[t] = "database" THEN Columns ELSE {},
                        options |-> [f \in {c \in Columns : OfOptions(c)} |-> Options]]
  <2>1. world = [t \in Targets |-> Row(t)]
      BY DEF QuestionsInit
  <2>2. \A t \in Targets : /\ DOMAIN Row(t) = {"items", "columns", "options"}
                           /\ None \notin Row(t).items /\ Row(t).columns \subseteq Columns
                           /\ DOMAIN Row(t).options = {f \in Columns : OfOptions(f)}
                           /\ \A f \in DOMAIN Row(t).options : Row(t).options[f] \subseteq Options
      BY WorkspaceIs
  <2> HIDE DEF Row
  <2> QED BY <2>1, <2>2 DEF WorldOK
<1>2. SessionOK
    BY DEF QuestionsInit, SessionOK, Open
<1>3. PlanOK(plan)
    BY NoPlanFacts DEF QuestionsInit
<1>4. WrittenAsMeant
  <2>1. outcome.kind = "none"
      BY DEF QuestionsInit
  <2> QED BY <2>1 DEF WrittenAsMeant, Written
<1>5. texts \in Nat
    BY DEF QuestionsInit
<1> QED BY <1>1, <1>2, <1>3, <1>4, <1>5 DEF QuestionsInv

\* What the questions answered so far are.
LEMMA AskedSoFar ==
    ASSUME SessionOK
    PROVE  LET asked == IF Open THEN session.asked ELSE <<>> IN asked \in Seq(Range(asked)) /\ IsInjective(asked)
<1>1. CASE Open
    BY <1>1 DEF SessionOK, AskedOK
<1>2. CASE ~Open
  <2>1. <<>> \in Seq(Range(<<>>)) /\ IsInjective(<<>>)
      BY DEF IsInjective
  <2> QED BY <1>2, <2>1
<1> QED BY <1>1, <1>2

LEMMA MessageStep == QuestionsInv /\ Message => QuestionsInv'
<1> SUFFICES ASSUME QuestionsInv, Message PROVE QuestionsInv'
    OBVIOUS
<1>1. WorldOK /\ SessionOK /\ PlanOK(plan) /\ texts \in Nat
    BY DEF QuestionsInv
<1>2. texts < Len(Readings) /\ texts' = texts + 1 /\ world' = world
    BY DEF Message
<1>3. PICK reading \in Readings[texts + 1] :
          LET cs == Validate(reading.intent, reading.cands) IN
          /\ Dispatch([reading EXCEPT !.cands = cs], IF Open THEN session.asked ELSE <<>>,
                      IF Open /\ plan # NoPlan THEN [plan EXCEPT !.asked_field = session.question.field] ELSE NoPlan)
          /\ chosen' = ChosenIn(cs)
          /\ settled' = (IF plan = NoPlan THEN {} ELSE settled) \cup SureIn(reading.cands)
    BY DEF Message
<1>4. IsReading(reading)
  <2>1. texts + 1 \in 1 .. Len(Readings)
      BY <1>1, <1>2, ReadingsAre
  <2> QED BY <2>1, ReadingsAre
<1>5. PICK asked : asked = IF Open THEN session.asked ELSE <<>>
    OBVIOUS
<1>6. asked \in Seq(Range(asked)) /\ IsInjective(asked)
  <2>1. LET a == IF Open THEN session.asked ELSE <<>> IN a \in Seq(Range(a)) /\ IsInjective(a)
      BY <1>1, AskedSoFar
  <2> QED BY <1>5, <2>1
<1>7. PICK p : p = IF Open /\ plan # NoPlan THEN [plan EXCEPT !.asked_field = session.question.field] ELSE NoPlan
    OBVIOUS
<1>8. PlanOK(p)
  <2>1. PICK b : b = plan
      OBVIOUS
  <2>2. PICK f : f = session.question.field
      OBVIOUS
  <2>3. CASE Open /\ plan # NoPlan
    <3>1. PlanOK(b) /\ b # NoPlan
        BY <1>1, <2>1, <2>3
    <3>2. PlanOK([b EXCEPT !.asked_field = f])
        BY <3>1, AskedFieldFacts
    <3> QED BY <1>7, <2>1, <2>2, <2>3, <3>2
  <2>4. CASE ~(Open /\ plan # NoPlan)
      BY <1>7, <2>4, NoPlanFacts
  <2> QED BY <2>3, <2>4
<1>9. PICK sure : sure = settled'
    OBVIOUS
<1>10. SureIn(reading.cands) \subseteq sure
    BY <1>3, <1>9
<1>11. LET cs == Validate(reading.intent, reading.cands)
       IN  Dispatch([reading EXCEPT !.cands = cs], asked, p) /\ chosen' = ChosenIn(cs)
    BY <1>3, <1>5, <1>7
<1>12. PICK r : r = reading
    OBVIOUS
<1>13. SessionOK' /\ PlanOK(plan)' /\ WrittenAsMeant'
    BY <1>2, <1>4, <1>6, <1>8, <1>9, <1>10, <1>11, ReadingFacts
<1>14. WorldOK'
    BY <1>1, <1>2, WorldStays
<1> QED BY <1>1, <1>2, <1>13, <1>14 DEF QuestionsInv

LEMMA GoalStep == QuestionsInv /\ Goal => QuestionsInv'
<1> SUFFICES ASSUME QuestionsInv, Goal PROVE QuestionsInv'
    OBVIOUS
<1>1. WorldOK /\ SessionOK /\ texts \in Nat
    BY DEF QuestionsInv
<1>2. ~Open /\ session' = session /\ texts' = texts + 1 /\ world' = world /\ outcome'.kind = "none"
    BY DEF Goal
<1>3. PICK steps \in Plans : plan' = [NoPlan EXCEPT !.steps = steps]
    BY DEF Goal
<1>4. PlanOK([NoPlan EXCEPT !.steps = steps])
  <2> DEFINE n == [NoPlan EXCEPT !.steps = steps]
  <2>1. /\ DOMAIN n = {"steps", "field_answers", "asked_field"} /\ n.steps = steps
        /\ n.field_answers = <<>>
      BY DEF NoPlan
  <2> HIDE DEF n
  <2>2. PlanOK(n)
      BY <2>1, PlansAre DEF PlanOK
  <2> QED BY <2>2 DEF n
<1>5. SessionOK'
    BY <1>2 DEF SessionOK, Open
<1>6. WrittenAsMeant'
    BY <1>2 DEF WrittenAsMeant, Written
<1>7. WorldOK'
    BY <1>1, <1>2, WorldStays
<1> QED BY <1>1, <1>2, <1>3, <1>4, <1>5, <1>6, <1>7 DEF QuestionsInv

\* What a plan's step says of itself is a reading like the model's.
LEMMA StepRead ==
    ASSUME NEW spec, NEW answers, spec.action # None,
           \A f \in DOMAIN spec.fields : spec.fields[f] # None, \A f \in DOMAIN answers : answers[f] # None
    PROVE  IsReading(StepReading(spec, answers))
<1> DEFINE t == spec.target
           Said(f) == CASE f \in DOMAIN spec.fields -> Value(spec.fields[f], SURE)
                        [] f \notin DOMAIN spec.fields /\ f \in DOMAIN answers /\ Fits(t, f, answers[f]) ->
                               Value(answers[f], SURE)
                        [] OTHER -> NotMentioned
           fs == [f \in Offered(t) |-> Said(f)]
           item == IF spec.action = "update" THEN spec.item ELSE None
           c == [target |-> t, conf |-> SURE, item |-> item, items |-> {}, content |-> spec.action = "append", fields |-> fs]
           r == StepReading(spec, answers)
<1>1. r = [intent |-> spec.action, conf |-> SURE, clarify |-> FALSE, cands |-> <<c>>]
    BY DEF StepReading
<1>2. SURE \in Nat
    BY Thresholds
<1>3. ASSUME NEW v, v # None PROVE IsRead(Value(v, SURE))
    BY <1>2, <1>3 DEF IsRead, Value, Statuses
<1>4. IsRead(NotMentioned)
    BY <1>2 DEF IsRead, NotMentioned, Statuses
<1>5. ASSUME NEW f \in Offered(t) PROVE IsRead(Said(f))
  <2>1. CASE f \in DOMAIN spec.fields
      BY <1>3, <2>1
  <2>2. CASE f \notin DOMAIN spec.fields /\ f \in DOMAIN answers /\ Fits(t, f, answers[f])
      BY <1>3, <2>2
  <2>3. CASE f \notin DOMAIN spec.fields /\ ~(f \in DOMAIN answers /\ Fits(t, f, answers[f]))
      BY <1>4, <2>3
  <2> QED BY <2>1, <2>2, <2>3
<1> HIDE DEF Said
<1>6. DOMAIN fs = Offered(t) /\ \A f \in DOMAIN fs : IsRead(fs[f])
    BY <1>5
<1> HIDE DEF fs, item
<1>7. IsCandidate(c)
    BY <1>2, <1>6 DEF IsCandidate
<1> HIDE DEF c
<1>8. <<c>> \in Seq(Range(<<c>>)) /\ Range(<<c>>) = {c}
  <2>1. DOMAIN <<c>> = {1} /\ <<c>>[1] = c /\ <<c>> \in Seq({c})
      OBVIOUS
  <2>2. Range(<<c>>) = {c}
      BY <2>1 DEF Range
  <2> QED BY <2>1, <2>2
<1>9. /\ DOMAIN r = {"intent", "conf", "clarify", "cands"} /\ r.intent = spec.action /\ r.cands = <<c>>
    BY <1>1
<1> HIDE DEF r
<1>10. IsReading(r)
    BY <1>7, <1>8, <1>9 DEF IsReading
<1> QED BY <1>10 DEF r

LEMMA PlanStepStep == QuestionsInv /\ PlanStep => QuestionsInv'
<1> SUFFICES ASSUME QuestionsInv, PlanStep PROVE QuestionsInv'
    OBVIOUS
<1>1. WorldOK /\ SessionOK /\ PlanOK(plan) /\ texts \in Nat
    BY DEF QuestionsInv
<1>2. plan # NoPlan /\ texts' = texts /\ world' = world
    BY DEF PlanStep
<1>3. PICK spec : spec = Head(plan.steps)
    OBVIOUS
<1>4. WorldOK'
    BY <1>1, <1>2, WorldStays
<1>5. ASSUME NEW reading \in IF Spelled(spec) THEN {StepReading(spec, plan.field_answers)}
                             ELSE {r \in Readings[Len(Readings)] : ~WrongPlace(spec, r)},
             LET cs == Validate(reading.intent, reading.cands) IN
             /\ Dispatch([reading EXCEPT !.cands = cs], <<>>, plan)
             /\ chosen' = ChosenIn(cs)
             /\ settled' = settled \cup SureIn(reading.cands)
      PROVE  QuestionsInv'
  <2>1. PICK p : p = plan
      OBVIOUS
  <2>2. PICK sure : sure = settled'
      OBVIOUS
  <2>3. PICK rd : rd = reading
      OBVIOUS
  <2>4. IsReading(rd)
    <3>1. CASE Spelled(spec)
      <4>1. rd = StepReading(spec, p.field_answers)
          BY <1>5, <2>1, <2>3, <3>1
      <4>2. p.steps \in Seq(Range(p.steps)) /\ p.steps # <<>>
          BY <1>1, <1>2, <2>1 DEF PlanOK
      <4>3. spec \in Range(p.steps)
        <5>1. Head(p.steps) = p.steps[1] /\ 1 \in DOMAIN p.steps
            BY <4>2, HeadFacts, EntryFacts
        <5> QED BY <1>3, <2>1, <5>1 DEF Range
      <4>4. /\ spec.action # None /\ \A f \in DOMAIN spec.fields : spec.fields[f] # None
            /\ \A f \in DOMAIN p.field_answers : p.field_answers[f] # None
          BY <1>1, <1>2, <2>1, <4>3 DEF PlanOK
      <4> QED BY <4>1, <4>4, StepRead
    <3>2. CASE ~Spelled(spec)
      <4>1. rd \in Readings[Len(Readings)]
          BY <1>5, <2>3, <3>2
      <4>2. Len(Readings) \in 1 .. Len(Readings)
          BY ReadingsAre
      <4> QED BY <4>1, <4>2, ReadingsAre
    <3> QED BY <3>1, <3>2
  <2>5. <<>> \in Seq(Range(<<>>)) /\ IsInjective(<<>>)
      BY DEF IsInjective
  <2>6. SureIn(rd.cands) \subseteq sure
      BY <1>5, <2>2, <2>3
  <2>7. LET cs == Validate(rd.intent, rd.cands)
        IN  Dispatch([rd EXCEPT !.cands = cs], <<>>, p) /\ chosen' = ChosenIn(cs)
      BY <1>5, <2>1, <2>3
  <2>8. PlanOK(p)
      BY <1>1, <2>1
  <2>9. SessionOK' /\ PlanOK(plan)' /\ WrittenAsMeant'
      BY <1>2, <2>2, <2>4, <2>5, <2>6, <2>7, <2>8, ReadingFacts
  <2> QED BY <1>1, <1>2, <1>4, <2>9 DEF QuestionsInv
<1>6. ASSUME Ends("failed") PROVE QuestionsInv'
  <2>1. session' = NoSession /\ plan' = NoPlan /\ outcome'.kind = "failed"
      BY <1>6 DEF Ends
  <2>2. SessionOK' /\ PlanOK(plan)' /\ WrittenAsMeant'
      BY <2>1, NoPlanFacts DEF SessionOK, Open, WrittenAsMeant, Written
  <2> QED BY <1>1, <1>2, <1>4, <2>2 DEF QuestionsInv
<1> QED BY <1>3, <1>5, <1>6 DEF PlanStep

LEMMA ChoosesKeeps ==
    ASSUME QuestionsInv, Open, NEW o \in session.options, o.id \in {"pick", "add_new", "confirm"}, Chooses(o), world' = world
    PROVE  SessionOK' /\ PlanOK(plan)' /\ WrittenAsMeant'
<1>1. WorldOK /\ SessionOK /\ PlanOK(plan)
    BY DEF QuestionsInv
<1>2. PICK s : s = session
    OBVIOUS
<1>3. PICK of : of = chosen
    OBVIOUS
<1>4. PICK sure : sure = settled
    OBVIOUS
<1>5. /\ DOMAIN s = {"intent", "conf", "cands", "question", "options", "asked"}
      /\ s.intent # None
      /\ WellRanked(s.cands) /\ Meant(s.intent, s.cands, of, sure)
      /\ QuestionOK(s.question, s.options, s.cands)
      /\ AskedOK(s.question, s.asked)
      /\ o \in s.options
    BY <1>1, <1>2, <1>3, <1>4 DEF SessionOK
<1>6. /\ chosen' = ChosenAfter(s, o, of)
      /\ settled' = sure \cup SettledBy(s, o)
  <2>1. chosen' = ChosenAfter(s, o, of)
      BY <1>2, <1>3 DEF Chooses, ChosenAfter
  <2>2. settled' = sure \cup SettledBy(s, o)
      BY <1>2, <1>4 DEF Chooses, SettledBy
  <2> QED BY <2>1, <2>2
<1>7. CASE Stumbles(session, o)
  <2>1. outcome'.kind = "failed" /\ session' = session /\ plan' = plan
      BY <1>7 DEF Chooses
  <2>2. s.question.type = "field_required"
      BY <1>2, <1>7 DEF Stumbles
  <2>3. chosen' = chosen
      BY <1>3, <1>6, <2>2 DEF ChosenAfter
  <2>4. settled \subseteq settled'
      BY <1>4, <1>6
  <2>5. SessionOK'
      BY <1>1, <2>1, <2>3, <2>4, WorldStays, SessionStays
  <2>6. WrittenAsMeant'
      BY <2>1 DEF WrittenAsMeant, Written
  <2> QED BY <1>1, <2>1, <2>5, <2>6
<1>8. CASE ~Stumbles(session, o)
  <2>1. PICK p : p = IF plan = NoPlan THEN NoPlan ELSE [plan EXCEPT !.asked_field = session.question.field]
      OBVIOUS
  <2>2. PlanOK(p)
    <3>1. PICK b : b = plan
        OBVIOUS
    <3>2. CASE plan # NoPlan
      <4>1. PlanOK(b) /\ b # NoPlan
          BY <1>1, <3>1, <3>2
      <4>2. PlanOK([b EXCEPT !.asked_field = s.question.field])
          BY <4>1, AskedFieldFacts
      <4> QED BY <1>2, <2>1, <3>1, <3>2, <4>2
    <3>3. CASE plan = NoPlan
        BY <2>1, <3>3, NoPlanFacts
    <3> QED BY <3>2, <3>3
  <2>3. PICK n : n = Answered(s, o)
      OBVIOUS
  <2>4. PICK of2 : of2 = ChosenAfter(s, o, of)
      OBVIOUS
  <2>5. PICK sure2 : sure2 = sure \cup SettledBy(s, o)
      OBVIOUS
  <2>6. /\ n.intent # None /\ n.asked = Append(s.asked, s.question)
        /\ WellRanked(n.cands) /\ Meant(n.intent, n.cands, of2, sure2)
    <3>1. LET m == Answered(s, o)
          IN  /\ m.intent # None /\ m.asked = Append(s.asked, s.question)
              /\ WellRanked(m.cands) /\ Meant(m.intent, m.cands, ChosenAfter(s, o, of), sure \cup SettledBy(s, o))
        BY <1>5, AnsweredFacts
    <3> QED BY <2>3, <2>4, <2>5, <3>1
  <2>7. PICK r : r = ResultFrom(n)
      OBVIOUS
  <2>8. /\ r.intent = n.intent
        /\ WellRanked(r.cands) /\ Meant(r.intent, r.cands, of2, sure2)
        /\ \A c \in Range(r.cands) : Fresh(c)
    <3>1. LET m == ResultFrom(n)
          IN  /\ m.intent = n.intent /\ m.clarify = FALSE
              /\ WellRanked(m.cands) /\ Meant(m.intent, m.cands, of2, sure2)
              /\ \A c \in Range(m.cands) : Fresh(c)
        BY <1>1, <2>6, ResultFacts
    <3> QED BY <2>7, <3>1
  <2>9. n.asked \in Seq(Range(n.asked)) /\ IsInjective(n.asked)
    <3> DEFINE a == s.asked
               q == s.question
               b == Append(a, q)
               S == Range(a) \cup {q}
    <3>1. a \in Seq(Range(a)) /\ IsInjective(a) /\ q \notin Range(a)
        BY <1>5 DEF AskedOK
    <3>2. a \in Seq(S) /\ q \in S
      <4> DEFINE R == Range(a)
      <4>1. R \subseteq S /\ a \in Seq(R) /\ q \in S
          BY <3>1
      <4> HIDE DEF R, S
      <4> QED BY <4>1
    <3> HIDE DEF a, q, S
    <3>3. /\ b \in Seq(S) /\ Len(a) \in Nat /\ DOMAIN a = 1 .. Len(a) /\ DOMAIN b = 1 .. Len(a) + 1
          /\ \A i \in DOMAIN a : b[i] = a[i] /\ a[i] \in Range(a)
          /\ b[Len(a) + 1] = q
      <4>1. Len(a) \in Nat /\ DOMAIN a = 1 .. Len(a) /\ b \in Seq(S) /\ Len(b) = Len(a) + 1
          BY <3>2, AppendProperties, LenProperties
      <4>2. DOMAIN b = 1 .. Len(a) + 1
          BY <4>1, LenProperties
      <4>3. (\A i \in 1 .. Len(a) : b[i] = a[i]) /\ b[Len(a) + 1] = q
          BY <3>2, <4>1, AppendProperties
      <4>4. \A i \in DOMAIN a : a[i] \in Range(a)
          BY DEF Range
      <4> QED BY <4>1, <4>2, <4>3, <4>4
    <3> HIDE DEF b
    <3>4. IsInjective(b)
      <4> SUFFICES ASSUME NEW i \in DOMAIN b, NEW j \in DOMAIN b, b[i] = b[j] PROVE i = j
          BY DEF IsInjective
      <4>1. i \in DOMAIN a \/ i = Len(a) + 1
          BY <3>3
      <4>2. j \in DOMAIN a \/ j = Len(a) + 1
          BY <3>3
      <4>3. \A k, l \in DOMAIN a : a[k] = a[l] => k = l
          BY <3>1 DEF IsInjective
      <4> QED BY <3>1, <3>3, <4>1, <4>2, <4>3
    <3>5. b \in Seq(Range(b))
        BY <3>3, OwnEntries
    <3>6. n.asked = b
        BY <2>6 DEF a, q, b
    <3> QED BY <3>4, <3>5, <3>6
  <2>10. Dispatch(r, n.asked, p)
    <3>1. Dispatch(ResultFrom(Answered(session, o)), Answered(session, o).asked,
                   IF plan = NoPlan THEN NoPlan ELSE [plan EXCEPT !.asked_field = session.question.field])
        BY <1>8 DEF Chooses
    <3>2. r = ResultFrom(Answered(s, o)) /\ n = Answered(s, o)
        BY <2>3, <2>7
    <3> QED BY <1>2, <2>1, <3>1, <3>2
  <2>11. chosen' = of2 /\ settled' = sure2
      BY <1>6, <2>4, <2>5
  <2>12. r.intent # None
      BY <2>6, <2>8
  <2> QED BY <1>1, <2>2, <2>8, <2>9, <2>10, <2>11, <2>12, Dispatched
<1> QED BY <1>7, <1>8

LEMMA PressStep == QuestionsInv /\ Press => QuestionsInv'
<1> SUFFICES ASSUME QuestionsInv, Press PROVE QuestionsInv'
    OBVIOUS
<1>1. WorldOK /\ SessionOK /\ PlanOK(plan) /\ texts \in Nat
    BY DEF QuestionsInv
<1>2. Open /\ world' = world /\ texts' = texts
    BY DEF Press
<1>3. WorldOK' /\ Shrinks
    BY <1>1, <1>2, WorldStays
<1>4. CASE Leave
  <2>1. session' = NoSession /\ plan' = NoPlan /\ outcome'.kind = "cancelled"
      BY <1>4 DEF Leave, Ends
  <2>2. SessionOK' /\ PlanOK(plan)' /\ WrittenAsMeant'
      BY <2>1, NoPlanFacts DEF SessionOK, Open, WrittenAsMeant, Written
  <2> QED BY <1>1, <1>2, <1>3, <2>2 DEF QuestionsInv
<1>5. CASE InTheirOwnWords
  <2>1. /\ session' = session /\ plan' = plan /\ chosen' = chosen /\ settled' = settled
        /\ outcome'.kind = "waiting"
      BY <1>5 DEF InTheirOwnWords
  <2>2. SessionOK'
      BY <1>1, <1>3, <2>1, SessionStays
  <2>3. PlanOK(plan)' /\ WrittenAsMeant'
      BY <1>1, <2>1 DEF WrittenAsMeant, Written
  <2> QED BY <1>1, <1>2, <1>3, <2>2, <2>3 DEF QuestionsInv
<1>6. ASSUME NEW o \in session.options, o.id \in {"pick", "add_new", "confirm"}, Chooses(o) PROVE QuestionsInv'
  <2>1. SessionOK' /\ PlanOK(plan)' /\ WrittenAsMeant'
      BY <1>2, <1>6, ChoosesKeeps
  <2> QED BY <1>1, <1>2, <1>3, <2>1 DEF QuestionsInv
<1> QED BY <1>4, <1>5, <1>6 DEF Press

\* One target with less in it.
LEMMA LessInIt ==
    ASSUME WorldOK, NEW t \in DOMAIN world, NEW row, world' = [world EXCEPT ![t] = row],
           DOMAIN row = {"items", "columns", "options"},
           row.items \subseteq world[t].items, row.columns \subseteq world[t].columns,
           DOMAIN row.options = DOMAIN world[t].options,
           \A f \in DOMAIN row.options : row.options[f] \subseteq world[t].options[f]
    PROVE  WorldOK' /\ Shrinks
<1>1. DOMAIN world' = DOMAIN world /\ \A u \in DOMAIN world : world'[u] = IF u = t THEN row ELSE world[u]
    OBVIOUS
<1>2. Shrinks
    BY <1>1 DEF Shrinks, WorldOK
<1>3. ASSUME NEW u \in DOMAIN world
      PROVE  /\ DOMAIN world'[u] = {"items", "columns", "options"}
             /\ None \notin world'[u].items /\ world'[u].columns \subseteq Columns
             /\ DOMAIN world'[u].options = {f \in Columns : OfOptions(f)}
             /\ \A f \in DOMAIN world'[u].options : world'[u].options[f] \subseteq Options
  <2>1. CASE u = t
    <3>1. /\ DOMAIN world[t] = {"items", "columns", "options"}
          /\ None \notin world[t].items /\ world[t].columns \subseteq Columns
          /\ DOMAIN world[t].options = {f \in Columns : OfOptions(f)}
          /\ \A f \in DOMAIN world[t].options : world[t].options[f] \subseteq Options
        BY DEF WorldOK
    <3>2. world'[u] = row
        BY <1>1, <2>1
    <3> QED BY <3>1, <3>2
  <2>2. CASE u # t
    <3>1. world'[u] = world[u]
        BY <1>1, <2>2
    <3> QED BY <3>1 DEF WorldOK
  <2> QED BY <2>1, <2>2
<1>4. WorldOK'
    BY <1>1, <1>3 DEF WorldOK
<1> QED BY <1>2, <1>4

LEMMA DisappearsStep == QuestionsInv /\ Disappears => QuestionsInv'
<1> SUFFICES ASSUME QuestionsInv, Disappears PROVE QuestionsInv'
    OBVIOUS
<1>1. WorldOK /\ SessionOK /\ PlanOK(plan) /\ texts \in Nat
    BY DEF QuestionsInv
<1>2. /\ session' = session /\ plan' = plan /\ texts' = texts /\ chosen' = chosen /\ settled' = settled
      /\ outcome'.kind = "none"
    BY DEF Disappears
<1>3. PICK t \in DOMAIN world :
          \/ world' = [u \in DOMAIN world \ {t} |-> world[u]]
          \/ \E i \in world[t].items : world' = [world EXCEPT ![t].items = @ \ {i}]
          \/ \E f \in {g \in world[t].columns : TypeOf(g) # "title"} : world' = [world EXCEPT ![t].columns = @ \ {f}]
          \/ \E f \in {g \in world[t].columns : OfOptions(g)} : \E v \in world[t].options[f] :
                 world' = [world EXCEPT ![t].options[f] = @ \ {v}]
    BY DEF Disappears
<1>4. /\ DOMAIN world[t] = {"items", "columns", "options"} /\ world[t].columns \subseteq Columns
      /\ DOMAIN world[t].options = {f \in Columns : OfOptions(f)}
    BY <1>1 DEF WorldOK
<1>5. ASSUME world' = [u \in DOMAIN world \ {t} |-> world[u]] PROVE WorldOK' /\ Shrinks
  <2>1. DOMAIN world' \subseteq DOMAIN world /\ \A u \in DOMAIN world' : world'[u] = world[u]
      BY <1>5
  <2> QED BY <1>1, <2>1 DEF WorldOK, Shrinks
<1>6. ASSUME NEW i, world' = [world EXCEPT ![t].items = @ \ {i}] PROVE WorldOK' /\ Shrinks
  <2>1. PICK row : row = [world[t] EXCEPT !.items = world[t].items \ {i}]
      OBVIOUS
  <2>2. /\ DOMAIN row = {"items", "columns", "options"} /\ row.items = world[t].items \ {i}
        /\ row.columns = world[t].columns /\ row.options = world[t].options
      BY <1>4, <2>1
  <2>3. world' = [world EXCEPT ![t] = row]
      BY <1>6, <2>1
  <2> QED BY <1>1, <2>2, <2>3, LessInIt
<1>7. ASSUME NEW f, world' = [world EXCEPT ![t].columns = @ \ {f}] PROVE WorldOK' /\ Shrinks
  <2>1. PICK row : row = [world[t] EXCEPT !.columns = world[t].columns \ {f}]
      OBVIOUS
  <2>2. /\ DOMAIN row = {"items", "columns", "options"} /\ row.items = world[t].items
        /\ row.columns = world[t].columns \ {f} /\ row.options = world[t].options
      BY <1>4, <2>1
  <2>3. world' = [world EXCEPT ![t] = row]
      BY <1>7, <2>1
  <2> QED BY <1>1, <2>2, <2>3, LessInIt
<1>8. ASSUME NEW f \in {g \in world[t].columns : OfOptions(g)}, NEW v, world' = [world EXCEPT ![t].options[f] = @ \ {v}]
      PROVE  WorldOK' /\ Shrinks
  <2>1. PICK options : options = [world[t].options EXCEPT ![f] = world[t].options[f] \ {v}]
      OBVIOUS
  <2>2. /\ DOMAIN options = DOMAIN world[t].options
        /\ \A g \in DOMAIN options : options[g] \subseteq world[t].options[g]
      BY <2>1
  <2>3. PICK row : row = [world[t] EXCEPT !.options = options]
      OBVIOUS
  <2>4. /\ DOMAIN row = {"items", "columns", "options"} /\ row.items = world[t].items
        /\ row.columns = world[t].columns /\ row.options = options
      BY <1>4, <2>3
  <2>5. world' = [world EXCEPT ![t] = row]
      BY <1>8, <2>1, <2>3
  <2> QED BY <1>1, <2>2, <2>4, <2>5, LessInIt
<1>9. WorldOK' /\ Shrinks
    BY <1>3, <1>5, <1>6, <1>7, <1>8
<1>10. SessionOK'
    BY <1>1, <1>2, <1>9, SessionStays
<1>11. PlanOK(plan)' /\ WrittenAsMeant'
    BY <1>1, <1>2 DEF WrittenAsMeant, Written
<1> QED BY <1>1, <1>2, <1>9, <1>10, <1>11 DEF QuestionsInv

----------------------------------------------------------------------------
(* The theorems.                                                           *)

\* However messages, plans and buttons follow each other, and whatever disappears from the workspace meanwhile:
\* the open question's candidates are ranked, one of a kind and as they were meant, and what is written is.
THEOREM QuestionsInvariance == QuestionsSpec => []QuestionsInv
<1>1. QuestionsInit => QuestionsInv
    BY StartsWell
<1>2. QuestionsInv /\ [QuestionsNext]_questionVars => QuestionsInv'
  <2> SUFFICES ASSUME QuestionsInv, [QuestionsNext]_questionVars PROVE QuestionsInv'
      OBVIOUS
  <2>1. CASE Message
      BY <2>1, MessageStep
  <2>2. CASE Goal
      BY <2>2, GoalStep
  <2>3. CASE PlanStep
      BY <2>3, PlanStepStep
  <2>4. CASE Press
      BY <2>4, PressStep
  <2>5. CASE Disappears
      BY <2>5, DisappearsStep
  <2>6. CASE UNCHANGED questionVars
    <3>1. /\ world' = world /\ session' = session /\ plan' = plan /\ outcome' = outcome /\ texts' = texts
          /\ chosen' = chosen /\ settled' = settled
        BY <2>6 DEF questionVars
    <3>2. WorldOK /\ SessionOK /\ PlanOK(plan) /\ texts \in Nat /\ WrittenAsMeant
        BY DEF QuestionsInv
    <3>3. WorldOK' /\ Shrinks
        BY <3>1, <3>2, WorldStays
    <3>4. SessionOK'
        BY <3>1, <3>2, <3>3, SessionStays
    <3>5. WrittenAsMeant'
      <4>1. SUFFICES ASSUME Written' PROVE (LandsWhereMeant(outcome.command) /\ WritesWhatIsSettled(outcome.command))'
          BY DEF WrittenAsMeant
      <4>2. LandsWhereMeant(outcome.command) /\ WritesWhatIsSettled(outcome.command)
          BY <3>1, <3>2, <4>1 DEF WrittenAsMeant, Written
      <4>3. LandsWhereMeant(outcome.command)'
          BY <3>1, <4>2 DEF LandsWhereMeant
      <4>4. WritesWhatIsSettled(outcome.command)'
          BY <3>1, <4>2 DEF WritesWhatIsSettled, WentFrom, Fits
      <4> QED BY <4>3, <4>4
    <3> QED BY <3>1, <3>2, <3>3, <3>4, <3>5 DEF QuestionsInv
  <2> QED BY <2>1, <2>2, <2>3, <2>4, <2>5, <2>6 DEF QuestionsNext
<1> QED BY <1>1, <1>2, PTL DEF QuestionsSpec

\* The column asked about is the best candidate's, no question is answered by a button twice, and the budget
\* of questions holds (policy.py, evaluate; orchestrator.py's max_questions).
THEOREM QuestionsTypeCorrect == QuestionsSpec => []QuestionsTypeOK
<1>1. QuestionsInv => QuestionsTypeOK
    BY DEF QuestionsInv, WorldOK, SessionOK, QuestionOK, AskedOK, QuestionsTypeOK
<1> QED BY <1>1, QuestionsInvariance, PTL

\* A write goes to the place and the row that the user picked or the model preferred, writes nothing that nobody
\* was sure of or that has gone, and leaves no required column of a new row empty (resolver.py, policy.py).
THEOREM WhatIsWrittenIsMeant == QuestionsSpec => []WrittenAsMeant
<1>1. QuestionsInv => WrittenAsMeant
    BY DEF QuestionsInv
<1> QED BY <1>1, QuestionsInvariance, PTL
=============================================================================
