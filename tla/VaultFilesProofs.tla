-------------------------- MODULE VaultFilesProofs --------------------------
(***************************************************************************)
(* The vault's files for every set of turns, of pages and of names, and    *)
(* every bound: their types, that nothing that was in the vault is lost    *)
(* but what a writer overwrote unread or an update replaced as a section,  *)
(* that what a turn wrote is within reach of its Undo, and that its Undo   *)
(* is exact.                                                               *)
(*                                                                         *)
(* The three properties follow one idea each.  A text on its way to a file *)
(* leaves out only lines that are in the trash or that somebody wants gone *)
(* (Accounted).  A turn's words are only where the turn has been, however  *)
(* many reads, rewrites and links carry them about (Reached).  The oldest  *)
(* undo of a note holds the text the turn found there (Remembered).        *)
(***************************************************************************)
EXTENDS VaultFiles, SequenceLemmas, TLAPS

Maybe(S) == {<<>>} \cup {<<x>> : x \in S}

Kinds == {"line", "note", "append", "update", "rewrite"}
ActRec == [kind : Kinds, note : Paths, word : Line, body : SUBSET Line]
PlanRec == [path : Paths, previous : Maybe(Text), new : Text, seen : SUBSET Line]
UndoRec == [path : Paths, previous : Maybe(Text)]

\* A turn before it writes, while it writes, and while it takes back.
Early == {"idle", "indexing", "filing"}
Writing == {"writing", "opened", "spilled"}
Undoing == {"undoing", "restoring", "respilled"}
Putting == {"opened", "spilled"}
Restoring == {"restoring", "respilled"}
JobPcs == Early \cup Writing \cup Undoing \cup {"done", "undone", "dead"}

JobRec ==
    [pc : JobPcs, listed : SUBSET Paths, acts : Seq(ActRec), asked : Nat, plan : PlanRec,
     undos : Seq(UndoRec), left : Nat, refused : BOOLEAN, wished : BOOLEAN]
LinkRec ==
    [pc : {"idle", "asking", "spilled"}, todo : Seq(Paths), seen : Text, new : Text]

Shaped ==
    /\ DOMAIN files \subseteq Paths /\ \A p \in DOMAIN files : files[p] \in Text
    /\ spill \in [Paths -> Maybe(PlanRec)]
    /\ trash \in [Paths -> Seq(Text)]
    /\ index \subseteq Paths
    /\ job \in [Turns -> JobRec]
    /\ link \in [Turns -> LinkRec]
    /\ \A t \in Turns : link[t].pc # "idle" => link[t].todo # <<>>
    /\ DOMAIN before = Turns
    /\ \A t \in Turns : DOMAIN before[t] \subseteq Paths
    /\ \A t \in Turns : \A p \in DOMAIN before[t] : before[t][p] \in Maybe(Text)
    /\ foreign \in [Turns -> SUBSET Paths]

\* What a turn keeps, by where it stands.
Fits(t, j, opened) ==
    /\ \A i \in DOMAIN j.acts :
           /\ j.acts[i].word \in OwnWords(t)
           /\ j.acts[i].kind \notin {"line", "note"} => j.acts[i].note \in Notes
    /\ \A i \in DOMAIN j.undos : j.undos[i].path \in opened
    /\ Len(j.acts) + Len(j.undos) <= MaxActions
    /\ j.pc \in Putting => Len(j.acts) + Len(j.undos) + 1 <= MaxActions
    /\ j.pc \in Early => j.acts = <<>> /\ j.undos = <<>> /\ opened = {}
    /\ j.pc \in Putting => j.plan.path \in opened
    /\ j.pc \in Undoing => j.wished /\ j.left <= Len(j.undos)
    /\ j.pc \in Restoring =>
           /\ j.left + 1 \in DOMAIN j.undos
           /\ j.plan.path = j.undos[j.left + 1].path
           /\ j.undos[j.left + 1].previous = <<j.plan.new>>
           /\ j.plan.seen = OwnWords(t)

Ordered ==
    /\ \A t \in Turns : Fits(t, job[t], DOMAIN before[t])
    /\ \A t \in Turns : job[t].pc \in Early \cup Writing => link[t].todo = <<>>

----------------------------------------------------------------------------
(* Texts and plans. *)

LEMMA TextFacts ==
    /\ Blank \in Text /\ Blank.lines = {}
    /\ \A w \in Line : Of(w) \in Text /\ Of(w).lines = {w}
    /\ \A text \in Text : \A w \in Line :
           With(text, w) \in Text /\ With(text, w).lines = text.lines \cup {w}
    /\ \A text \in Text : \A lines \in SUBSET Line :
           \A section \in SUBSET text.lines :
               /\ Replaced(text, section, lines) \in Text
               /\ Replaced(text, section, lines).lines = (text.lines \ section) \cup lines
<1>1. Blank \in Text /\ Blank.lines = {}
    BY DEF Blank, Text
<1>2. \A w \in Line : Of(w) \in Text /\ Of(w).lines = {w}
    BY DEF Of, Blank, Text
<1>3. \A text \in Text : \A w \in Line :
           With(text, w) \in Text /\ With(text, w).lines = text.lines \cup {w}
    BY DEF With, Text
<1>4. \A text \in Text : \A lines \in SUBSET Line :
           \A section \in SUBSET text.lines :
               /\ Replaced(text, section, lines) \in Text
               /\ Replaced(text, section, lines).lines = (text.lines \ section) \cup lines
    BY DEF Replaced, Text
<1> QED BY <1>1, <1>2, <1>3, <1>4

LEMMA MaybeFacts ==
    ASSUME NEW m \in Maybe(Text)
    PROVE  /\ OrBlank(m) \in Text
           /\ m # <<>> => m[1] \in Text /\ OrBlank(m) = m[1] /\ m = <<m[1]>>
           /\ m = <<>> => OrBlank(m) = Blank
BY TextFacts DEF Maybe, OrBlank

LEMMA ReadFacts ==
    ASSUME Shaped, NEW p
    PROVE  /\ Read(p) \in Maybe(Text)
           /\ OrBlank(Read(p)) \in Text
           /\ p \in DOMAIN files => Read(p) = <<files[p]>> /\ OrBlank(Read(p)) = files[p]
           /\ p \notin DOMAIN files => Read(p) = <<>> /\ OrBlank(Read(p)) = Blank
<1>1. p \in DOMAIN files => Read(p) = <<files[p]>> /\ files[p] \in Text
    BY DEF Read, Shaped
<1>2. p \notin DOMAIN files => Read(p) = <<>>
    BY DEF Read
<1>3. Read(p) \in Maybe(Text)
    BY <1>1, <1>2 DEF Maybe
<1> QED BY <1>1, <1>2, <1>3, MaybeFacts DEF OrBlank

LEMMA PlanFacts ==
    ASSUME NEW p \in Paths, NEW previous \in Maybe(Text), NEW new \in Text, NEW seen \in SUBSET Line
    PROVE  /\ Plan(p, previous, new, seen) \in PlanRec
           /\ Plan(p, previous, new, seen).path = p
           /\ Plan(p, previous, new, seen).previous = previous
           /\ Plan(p, previous, new, seen).new = new
           /\ Plan(p, previous, new, seen).seen = seen
BY DEF Plan, PlanRec

LEMMA NothingPlanned ==
    /\ NoPlan \in PlanRec /\ NoPlan.path = Inbox /\ NoPlan.previous = <<>>
    /\ NoPlan.new = Blank /\ NoPlan.seen = {}
<1>1. Inbox \in Paths /\ <<>> \in Maybe(Text)
    BY PathsDiffer DEF Paths, Maybe
<1> QED BY <1>1, TextFacts, PlanFacts DEF NoPlan

\* One more entry over a function.
LEMMA PutFacts ==
    ASSUME NEW p, NEW x, NEW f
    PROVE  /\ DOMAIN Put(p, x, f) = DOMAIN f \cup {p}
           /\ Put(p, x, f)[p] = x
           /\ \A q \in DOMAIN f : q # p => Put(p, x, f)[q] = f[q]
BY DEF Put

\* A name that is free is a note's, and the index does not have it.
LEMMA FreeNames ==
    ASSUME Free # {}
    PROVE  FreeName \in Notes /\ FreeName \in Paths /\ FreeName \notin index
<1>1. PICK i \in Free : FreeName = Names[i]
    BY DEF FreeName
<1> QED BY <1>1 DEF Free, Notes, Paths

\* What a write knows of the text it will replace, and what it makes of it.
Wise(act, o) ==
    /\ o \in PlanRec
    /\ \/ o.seen \subseteq o.new.lines
       \/ /\ act.kind = "rewrite" /\ o.path = act.note
          /\ o.previous # <<>> /\ o.previous[1].lines = o.seen
    /\ act.kind = "rewrite" /\ o.path = act.note => o.previous # <<>>
    /\ \/ OrBlank(o.previous) = OrBlank(Read(o.path))
       \/ o.previous = <<>> /\ o.path \notin index
    /\ \A w \in o.new.lines :
           \/ w \in LinesOf(Read(o.path)) \/ w = act.word
           \/ o.path = act.note /\ w \in act.body

LEMMA OutcomesAre ==
    ASSUME Shaped, NEW act \in ActRec, NameLeft(act),
           act.kind \notin {"line", "note"} => act.note \in Notes, NEW o \in Outcomes(act)
    PROVE  Wise(act, o)
<1> DEFINE text == OrBlank(Read(act.note))
<1>1. /\ act.kind \in Kinds /\ act.note \in Paths /\ act.word \in Line /\ act.body \in SUBSET Line
      /\ Inbox \in Paths /\ Inbox \notin Notes
    BY PathsDiffer DEF ActRec, Paths
<1>2. ASSUME NEW p \in Paths, o = AddTo(p, act.word), act.kind = "rewrite" => p # act.note
      PROVE  Wise(act, o)
    <2> DEFINE new == With(OrBlank(Read(p)), act.word)
    <2>1. new \in Text /\ new.lines = LinesOf(Read(p)) \cup {act.word} /\ LinesOf(Read(p)) \in SUBSET Line
        BY <1>1, ReadFacts, TextFacts DEF LinesOf, Text
    <2> HIDE DEF new
    <2>2. /\ o \in PlanRec /\ o.path = p /\ o.previous = Read(p) /\ o.new = new
          /\ o.seen = LinesOf(Read(p))
        BY <1>2, <2>1, ReadFacts, PlanFacts DEF AddTo, new
    <2> QED BY <1>2, <2>1, <2>2 DEF Wise
<1>3. ASSUME NEW new \in Text, NEW seen \in SUBSET text.lines,
             o = Plan(act.note, <<text>>, new, seen),
             (act.kind = "rewrite" /\ seen = text.lines) \/ seen \subseteq new.lines,
             \A w \in new.lines : w \in text.lines \/ w = act.word \/ w \in act.body
      PROVE  Wise(act, o)
    <2>1. text \in Text /\ text.lines \in SUBSET Line
        BY ReadFacts DEF Text
    <2>2. <<text>> \in Maybe(Text) /\ OrBlank(<<text>>) = text /\ <<text>> # <<>> /\ <<text>>[1] = text
        BY <2>1 DEF Maybe, OrBlank
    <2>3. /\ o \in PlanRec /\ o.path = act.note /\ o.previous = <<text>> /\ o.new = new
          /\ o.seen = seen
        BY <1>1, <1>3, <2>1, <2>2, PlanFacts
    <2>4. LinesOf(Read(act.note)) = text.lines
        BY DEF LinesOf
    <2> HIDE DEF text
    <2> QED BY <1>3, <2>2, <2>3, <2>4 DEF Wise, text
<1>4. CASE act.kind = "line"
    <2>1. o = AddTo(act.note, act.word)
        BY <1>4 DEF Outcomes
    <2> QED BY <1>1, <1>2, <1>4, <2>1
<1>5. ASSUME act.kind = "note"
      PROVE  Wise(act, o)
    <2>1. o = NewNote(FreeName, act.word)
        BY <1>5 DEF Outcomes
    <2>2. FreeName \in Paths /\ FreeName \notin index
        BY <1>5, FreeNames DEF NameLeft
    <2>3. /\ Of(act.word) \in Text /\ Of(act.word).lines = {act.word} /\ <<>> \in Maybe(Text)
          /\ {} \in SUBSET Line
        BY <1>1, TextFacts DEF Maybe
    <2>4. /\ o \in PlanRec /\ o.path = FreeName /\ o.previous = <<>> /\ o.new = Of(act.word)
          /\ o.seen = {}
        BY <2>1, <2>2, <2>3, PlanFacts DEF NewNote
    <2> QED BY <1>5, <2>2, <2>3, <2>4 DEF Wise
<1>6. ASSUME act.kind \notin {"line", "note"}
      PROVE  Wise(act, o)
    <2>1. act.note \in Notes /\ act.note # Inbox
        BY <1>1, <1>6
    <2>2. CASE act.note \notin index
        <3>1. o = AddTo(Inbox, act.word)
            BY <1>6, <2>2 DEF Outcomes
        <3> QED BY <1>1, <1>2, <2>1, <3>1
    <2>3. CASE act.note \in index /\ act.kind = "append"
        <3>1. o = Plan(act.note, <<text>>, With(text, act.word), text.lines)
            BY <2>3 DEF Outcomes
        <3>2. With(text, act.word) \in Text /\ With(text, act.word).lines = text.lines \cup {act.word}
            BY <1>1, ReadFacts, TextFacts
        <3> QED BY <1>3, <3>1, <3>2
    <2>4. ASSUME o = AddTo(Inbox, act.word)
          PROVE  Wise(act, o)
        BY <1>1, <1>2, <2>1, <2>4
    <2>5. \A section \in Sections(act.note) : section \in SUBSET text.lines
        BY ReadFacts DEF Sections
    <2>6. CASE act.note \in index /\ act.kind = "update"
        <3>1. CASE o = Plan(act.note, <<text>>, [text EXCEPT !.done = ~ @], text.lines)
            <4> DEFINE new == [text EXCEPT !.done = ~ @]
            <4>1. new \in Text /\ new.lines = text.lines
                BY ReadFacts DEF Text
            <4>2. o = Plan(act.note, <<text>>, new, text.lines)
                BY <3>1
            <4> HIDE DEF new
            <4> QED BY <1>3, <4>1, <4>2
        <3>2. ASSUME NEW section \in Sections(act.note),
                     o = Plan(act.note, <<text>>, Replaced(text, section, {act.word}), text.lines \ section)
              PROVE  Wise(act, o)
            <4> DEFINE words == {act.word}
                       new == Replaced(text, section, words)
            <4>1. text \in Text /\ section \in SUBSET text.lines /\ words \in SUBSET Line
                BY <1>1, <2>5, <3>2, ReadFacts
            <4>2. new \in Text /\ new.lines = (text.lines \ section) \cup words
                <5> HIDE DEF text, words
                <5> QED BY <4>1, TextFacts
            <4>3. o = Plan(act.note, <<text>>, new, text.lines \ section)
                BY <3>2
            <4> HIDE DEF new
            <4> QED BY <1>3, <4>2, <4>3
        <3>3. o \in Updated(act, text) \cup {AddTo(Inbox, act.word)}
            BY <2>6 DEF Outcomes
        <3> HIDE DEF text
        <3> QED BY <2>4, <3>1, <3>2, <3>3 DEF Updated
    <2>7. CASE act.note \in index /\ act.kind = "rewrite"
        <3>1. ASSUME NEW section \in SUBSET text.lines,
                     o = Plan(act.note, <<text>>, Replaced(text, section, act.body), text.lines)
              PROVE  Wise(act, o)
            <4> DEFINE new == Replaced(text, section, act.body)
            <4>1. text \in Text /\ act.body \in SUBSET Line
                BY <1>1, ReadFacts
            <4>2. new \in Text /\ new.lines = (text.lines \ section) \cup act.body
                <5> HIDE DEF text
                <5> QED BY <3>1, <4>1, TextFacts
            <4>3. o = Plan(act.note, <<text>>, new, text.lines)
                BY <3>1
            <4> HIDE DEF new
            <4> QED BY <1>3, <2>7, <4>2, <4>3
        <3>2. o \in Rewritten(act, text) \cup {AddTo(Inbox, act.word)}
            BY <2>7 DEF Outcomes
        <3> HIDE DEF text
        <3> QED BY <2>4, <2>5, <3>1, <3>2 DEF Rewritten
    <2> QED BY <1>1, <1>6, <2>2, <2>3, <2>6, <2>7 DEF Kinds
<1> QED BY <1>4, <1>5, <1>6

----------------------------------------------------------------------------
(* What a turn's steps leave of its record. *)

LEMMA PcFacts ==
    /\ JobPcs = {"idle", "indexing", "filing", "writing", "opened", "spilled", "undoing", "restoring",
                 "respilled", "done", "undone", "dead"}
    /\ Early = {"idle", "indexing", "filing"}
    /\ Putting = {"opened", "spilled"}
    /\ Undoing = {"undoing", "restoring", "respilled"}
    /\ Restoring = {"restoring", "respilled"}
BY DEF JobPcs, Early, Writing, Undoing, Putting, Restoring

\* Room for one more where one is less.
LEMMA RoomFacts ==
    ASSUME NEW a \in Nat, NEW b \in Nat, NEW c \in Nat, NEW m \in Nat, a = b - 1, b + c <= m
    PROVE  a + c <= m /\ a + c + 1 <= m
OBVIOUS

LEMMA PartFacts ==
    ASSUME NEW a \in Nat, NEW b \in Nat, NEW m \in Nat, a + b <= m
    PROVE  a + 0 <= m
OBVIOUS

LEMMA MoveFacts ==
    ASSUME NEW a \in Nat, NEW b \in Nat, NEW c, NEW m \in Nat, c = b + 1, a + b + 1 <= m
    PROVE  a + c <= m
OBVIOUS

\* One entry less, and the others in their order.
LEMMA LessActs ==
    ASSUME NEW S, NEW s \in Seq(S), s # <<>>
    PROVE  /\ Head(s) \in S /\ Tail(s) \in Seq(S) /\ Len(Tail(s)) = Len(s) - 1
           /\ \A i \in DOMAIN Tail(s) : \E j \in DOMAIN s : Tail(s)[i] = s[j]
           /\ 1 \in DOMAIN s /\ Head(s) = s[1]
<1>1. Len(s) \in Nat \ {0} /\ DOMAIN s = 1 .. Len(s)
    BY EntryFacts, HeadFacts
<1>2. /\ Head(s) \in S /\ Tail(s) \in Seq(S) /\ Len(Tail(s)) = Len(s) - 1
      /\ \A i \in 1 .. Len(Tail(s)) : Tail(s)[i] = s[i + 1]
    BY HeadTailProperties, EmptySeq, LenProperties
<1>3. DOMAIN Tail(s) = 1 .. Len(s) - 1
    BY <1>2, LenProperties
<1>4. \A i \in DOMAIN Tail(s) : i + 1 \in DOMAIN s /\ Tail(s)[i] = s[i + 1]
    BY <1>1, <1>2, <1>3
<1>5. 1 \in DOMAIN s /\ Head(s) = s[1]
    BY <1>1, HeadFacts
<1> QED BY <1>2, <1>4, <1>5

LEMMA DroppedActs ==
    ASSUME NEW S, NEW s \in Seq(S), NEW k \in DOMAIN s
    PROVE  /\ SubSeq(s, 1, k - 1) \o SubSeq(s, k + 1, Len(s)) \in Seq(S)
           /\ Len(SubSeq(s, 1, k - 1) \o SubSeq(s, k + 1, Len(s))) = Len(s) - 1
           /\ \A i \in DOMAIN (SubSeq(s, 1, k - 1) \o SubSeq(s, k + 1, Len(s))) :
                \E j \in DOMAIN s : (SubSeq(s, 1, k - 1) \o SubSeq(s, k + 1, Len(s)))[i] = s[j]
<1> DEFINE a == SubSeq(s, 1, k - 1)
           b == SubSeq(s, k + 1, Len(s))
<1>1. Len(s) \in Nat /\ DOMAIN s = 1 .. Len(s) /\ k \in 1 .. Len(s)
    BY EntryFacts
<1>2. a \in Seq(S) /\ Len(a) = k - 1 /\ \A i \in 1 .. k - 1 : a[i] = s[i]
    <2>1. /\ SubSeq(s, 1, k - 1) \in Seq(S)
          /\ Len(SubSeq(s, 1, k - 1)) = IF 1 <= k - 1 THEN k - 1 - 1 + 1 ELSE 0
          /\ \A i \in 1 .. k - 1 - 1 + 1 : SubSeq(s, 1, k - 1)[i] = s[1 + i - 1]
        BY <1>1, SubSeqProperties
    <2>2. k - 1 - 1 + 1 = k - 1 /\ (IF 1 <= k - 1 THEN k - 1 - 1 + 1 ELSE 0) = k - 1
          /\ \A i \in 1 .. k - 1 : 1 + i - 1 = i
        BY <1>1
    <2> QED BY <2>1, <2>2
<1>3. b \in Seq(S) /\ Len(b) = Len(s) - k /\ \A i \in 1 .. Len(s) - k : b[i] = s[k + i]
    <2>1. /\ SubSeq(s, k + 1, Len(s)) \in Seq(S)
          /\ Len(SubSeq(s, k + 1, Len(s))) = IF k + 1 <= Len(s) THEN Len(s) - (k + 1) + 1 ELSE 0
          /\ \A i \in 1 .. Len(s) - (k + 1) + 1 : SubSeq(s, k + 1, Len(s))[i] = s[(k + 1) + i - 1]
        BY <1>1, SubSeqProperties
    <2>2. /\ Len(s) - (k + 1) + 1 = Len(s) - k
          /\ (IF k + 1 <= Len(s) THEN Len(s) - (k + 1) + 1 ELSE 0) = Len(s) - k
          /\ \A i \in 1 .. Len(s) - k : (k + 1) + i - 1 = k + i
        BY <1>1
    <2> QED BY <2>1, <2>2
<1> HIDE DEF a, b
<1>4. /\ a \o b \in Seq(S) /\ Len(a \o b) = Len(a) + Len(b)
      /\ \A i \in 1 .. Len(a) + Len(b) : (a \o b)[i] = IF i <= Len(a) THEN a[i] ELSE b[i - Len(a)]
    BY <1>2, <1>3, ConcatProperties
<1>5. /\ Len(a) + Len(b) = Len(s) - 1
      /\ Len(a \o b) = Len(s) - 1 /\ DOMAIN (a \o b) = 1 .. Len(s) - 1
    <2>1. Len(a) + Len(b) = Len(s) - 1
        BY <1>1, <1>2, <1>3
    <2> QED BY <1>4, <2>1, LenProperties
<1>6. ASSUME NEW i \in DOMAIN (a \o b)
      PROVE  \E j \in DOMAIN s : (a \o b)[i] = s[j]
    <2>0. i \in 1 .. Len(s) - 1 /\ i \in Nat
        BY <1>5
    <2>1. CASE i <= k - 1
        <3>1. i \in 1 .. k - 1 /\ i \in DOMAIN s
            BY <1>1, <2>0, <2>1
        <3>2. (a \o b)[i] = a[i]
            BY <1>2, <1>4, <1>5, <2>0, <2>1
        <3> QED BY <1>2, <3>1, <3>2
    <2>2. CASE ~ i <= k - 1
        <3> DEFINE j == i - (k - 1)
        <3>1. j \in 1 .. Len(s) - k /\ k + j \in DOMAIN s
            BY <1>1, <2>0, <2>2
        <3>2. (a \o b)[i] = b[j]
            BY <1>2, <1>4, <1>5, <2>0, <2>2
        <3> HIDE DEF j
        <3>3. (a \o b)[i] = s[k + j]
            BY <1>3, <3>1, <3>2
        <3> QED BY <3>1, <3>3
    <2> QED BY <2>1, <2>2
<1> QED BY <1>4, <1>5, <1>6 DEF a, b

\* All the same but where the turn stands and what it has to do.
Alike(j, n) ==
    /\ n.plan = j.plan /\ n.undos = j.undos /\ n.left = j.left
    /\ n.refused = j.refused /\ n.wished = j.wished

\* A step of the turn: its record stays in shape, and nobody else's changes.
Moves(t) ==
    \E n \in JobRec : job' = [job EXCEPT ![t] = n] /\ Fits(t, n, DOMAIN before'[t])

\* A step of a turn that has written nothing yet.
LEMMA EarlyMoves ==
    ASSUME Shaped, Ordered, NEW t \in Turns, Begin(t) \/ Index(t) \/ NothingFiled(t)
    PROVE  Moves(t)
<1> USE DEF Moves
<1>0. job[t] \in JobRec /\ Fits(t, job[t], DOMAIN before[t]) /\ DOMAIN files \in SUBSET Paths
    BY DEF Shaped, Ordered
<1>1. CASE Begin(t)
    <2> DEFINE n == [job[t] EXCEPT !.pc = "indexing", !.listed = DOMAIN files]
    <2>1. n \in JobRec
        BY <1>0, PcFacts DEF JobRec
    <2>2. job' = [job EXCEPT ![t] = n] /\ before' = before
        BY <1>1 DEF Begin, history
    <2>3. Fits(t, n, DOMAIN before[t])
        BY <1>0, <1>1, PcFacts DEF Begin, Fits, JobRec
    <2> QED BY <2>1, <2>2, <2>3
<1>2. CASE Index(t)
    <2> DEFINE n == [job[t] EXCEPT !.pc = "filing", !.listed = {}]
    <2>1. n \in JobRec
        BY <1>0, PcFacts DEF JobRec
    <2>2. job' = [job EXCEPT ![t] = n] /\ before' = before
        BY <1>2 DEF Index, history
    <2>3. Fits(t, n, DOMAIN before[t])
        BY <1>0, <1>2, PcFacts DEF Index, Fits, JobRec
    <2> QED BY <2>1, <2>2, <2>3
<1>3. CASE NothingFiled(t)
    <2> DEFINE n == [job[t] EXCEPT !.pc = "done"]
    <2>1. n \in JobRec
        BY <1>0, PcFacts DEF JobRec
    <2>2. job' = [job EXCEPT ![t] = n] /\ before' = before
        BY <1>3 DEF NothingFiled, history
    <2>3. Fits(t, n, DOMAIN before[t])
        BY <1>0, <1>3, PcFacts DEF NothingFiled, Fits, JobRec
    <2> QED BY <2>1, <2>2, <2>3
<1> QED BY <1>1, <1>2, <1>3

LEMMA FileMoves == ASSUME Shaped, Ordered, NEW t \in Turns, File(t) PROVE Moves(t)
<1>0. job[t] \in JobRec /\ Fits(t, job[t], DOMAIN before[t])
    BY DEF Shaped, Ordered
<1>1. PICK m \in Filings : \E acts \in [1 .. m -> UNION {Checked(<<t, k>>) : k \in 1 .. m}] :
        /\ \A k \in 1 .. m : acts[k].word = <<t, k>>
        /\ job' = [job EXCEPT ![t].pc = "writing", ![t].acts = acts, ![t].asked = m]
    BY DEF File
<1>2. PICK acts \in [1 .. m -> UNION {Checked(<<t, k>>) : k \in 1 .. m}] :
        /\ \A k \in 1 .. m : acts[k].word = <<t, k>>
        /\ job' = [job EXCEPT ![t].pc = "writing", ![t].acts = acts, ![t].asked = m]
    BY <1>1
<1>3. m \in Nat /\ m <= MaxActions /\ MaxActions \in Nat
    <2>1. m \in 1 .. MaxActions
        BY Zenon DEF Filings
    <2> QED BY <2>1, Bounds
<1>4. ASSUME NEW i \in 1 .. m
      PROVE  /\ acts[i] \in ActRec /\ acts[i].word \in OwnWords(t)
             /\ acts[i].kind \notin {"line", "note"} => acts[i].note \in Notes
    <2>1. <<t, i>> \in OwnWords(t) /\ <<t, i>> \in Line
        BY <1>3 DEF OwnWords, Line
    <2>2. PICK k \in 1 .. m : acts[i] \in Checked(<<t, k>>)
        BY <1>2
    <2>3. <<t, k>> \in Line
        BY <1>3 DEF Line
    <2>4. /\ acts[i] \in ActRec
          /\ acts[i].kind \notin {"line", "note"} => acts[i].note \in Notes
        BY <2>2, <2>3, PathsDiffer DEF Checked, Act, ActRec, Kinds, Paths
    <2> QED BY <1>2, <2>1, <2>4
<1>5. acts \in Seq(ActRec) /\ Len(acts) = m /\ DOMAIN acts = 1 .. m
    <2>1. acts \in [1 .. m -> ActRec]
        BY <1>2, <1>4
    <2> QED BY <1>3, <2>1, SeqDef
<1> DEFINE n == [job[t] EXCEPT !.pc = "writing", !.acts = acts, !.asked = m]
<1>6. n \in JobRec
    BY <1>0, <1>3, <1>5, PcFacts DEF JobRec
<1>7. job' = [job EXCEPT ![t] = n] /\ before' = before
    BY <1>2 DEF File, history
<1>8. n.pc = "writing" /\ n.acts = acts /\ n.undos = <<>>
    BY <1>0, PcFacts DEF File, Fits, JobRec
<1> HIDE DEF n
<1>9. Fits(t, n, DOMAIN before[t])
    BY <1>3, <1>4, <1>5, <1>8, PcFacts DEF Fits
<1> QED BY <1>6, <1>7, <1>9 DEF Moves

LEMMA PrepareMoves == ASSUME Shaped, Ordered, NEW t \in Turns, Prepare(t) PROVE Moves(t)
<1> DEFINE acts == job[t].acts
<1>0. job[t] \in JobRec /\ Fits(t, job[t], DOMAIN before[t])
    BY DEF Shaped, Ordered
<1>1. acts \in Seq(ActRec) /\ Len(acts) \in Nat /\ DOMAIN acts = 1 .. Len(acts)
      /\ Len(job[t].undos) \in Nat
    BY <1>0, EntryFacts DEF JobRec
<1>2. PICK i \in Unprepared(t) :
        \/ /\ acts[i].note \in index \cap DOMAIN files
           /\ \E keep \in {files[acts[i].note].lines, {}} :
                  job' = [job EXCEPT ![t].acts[i].body = keep \cup {acts[i].word}]
        \/ job' = [job EXCEPT ![t].acts = SubSeq(@, 1, i - 1) \o SubSeq(@, i + 1, Len(@))]
    BY DEF Prepare
<1>3. i \in DOMAIN acts /\ acts[i] \in ActRec /\ before' = before /\ job[t].pc = "writing"
    BY <1>1, <1>2, EntryFacts DEF Unprepared, Prepare, history
<1>4. MaxActions \in Nat
    BY Bounds
<1>5. ASSUME NEW keep \in {files[acts[i].note].lines, {}}, acts[i].note \in DOMAIN files,
             job' = [job EXCEPT ![t].acts[i].body = keep \cup {acts[i].word}]
      PROVE  Moves(t)
    <2> DEFINE e == [acts[i] EXCEPT !.body = keep \cup {acts[i].word}]
               new == [acts EXCEPT ![i] = e]
               n == [job[t] EXCEPT !.acts = new]
    <2>1. keep \cup {acts[i].word} \in SUBSET Line
        BY <1>3, <1>5 DEF Shaped, Text, ActRec
    <2>2. e \in ActRec /\ e.word = acts[i].word /\ e.kind = acts[i].kind /\ e.note = acts[i].note
        BY <1>3, <2>1 DEF ActRec
    <2>3. job' = [job EXCEPT ![t] = n]
        BY <1>0, <1>1, <1>5
    <2> HIDE DEF e
    <2>4. /\ new \in Seq(ActRec) /\ DOMAIN new = DOMAIN acts /\ new[i] = e
          /\ \A j \in DOMAIN acts : j # i => new[j] = acts[j]
        BY <1>1, <1>3, <2>2, ChangeFacts
    <2>5. Len(new) = Len(acts)
        BY <1>1, <2>4, LenProperties
    <2> HIDE DEF new
    <2>6. n \in JobRec
        BY <1>0, <2>4 DEF JobRec
    <2>7. n.pc = "writing" /\ n.acts = new /\ n.undos = job[t].undos
        BY <1>0, <1>3 DEF JobRec
    <2> HIDE DEF n
    <2>8. Fits(t, n, DOMAIN before[t])
        <3>1. \A j \in DOMAIN new :
                /\ new[j].word \in OwnWords(t)
                /\ new[j].kind \notin {"line", "note"} => new[j].note \in Notes
            BY <1>0, <1>3, <2>2, <2>4 DEF Fits
        <3>2. Len(acts) + Len(job[t].undos) <= MaxActions
            BY <1>0 DEF Fits
        <3>3. \A k \in DOMAIN job[t].undos : job[t].undos[k].path \in DOMAIN before[t]
            BY <1>0 DEF Fits
        <3> QED BY <2>5, <2>7, <3>1, <3>2, <3>3, PcFacts DEF Fits
    <2> QED BY <1>3, <2>3, <2>6, <2>8 DEF Moves
<1>6. ASSUME job' = [job EXCEPT ![t].acts = SubSeq(@, 1, i - 1) \o SubSeq(@, i + 1, Len(@))]
      PROVE  Moves(t)
    <2> DEFINE new == SubSeq(acts, 1, i - 1) \o SubSeq(acts, i + 1, Len(acts))
               n == [job[t] EXCEPT !.acts = new]
    <2>1. job' = [job EXCEPT ![t] = n]
        BY <1>6
    <2>2. /\ new \in Seq(ActRec) /\ Len(new) = Len(acts) - 1
          /\ \A k \in DOMAIN new : \E j \in DOMAIN acts : new[k] = acts[j]
        BY <1>1, <1>3, DroppedActs
    <2> HIDE DEF new
    <2>3. n \in JobRec
        BY <1>0, <2>2 DEF JobRec
    <2>4. n.pc = "writing" /\ n.acts = new /\ n.undos = job[t].undos
        BY <1>0, <1>3 DEF JobRec
    <2> HIDE DEF n
    <2>5. Fits(t, n, DOMAIN before[t])
        <3>1. \A j \in DOMAIN new :
                /\ new[j].word \in OwnWords(t)
                /\ new[j].kind \notin {"line", "note"} => new[j].note \in Notes
            BY <1>0, <2>2 DEF Fits
        <3>2. Len(acts) + Len(job[t].undos) <= MaxActions
            BY <1>0 DEF Fits
        <3>3. Len(new) + Len(job[t].undos) <= MaxActions
            <4>1. Len(new) \in Nat
                BY <2>2, EntryFacts
            <4> QED BY <2>2, <3>2, <4>1, <1>1, <1>4, RoomFacts
        <3>4. \A k \in DOMAIN job[t].undos : job[t].undos[k].path \in DOMAIN before[t]
            BY <1>0 DEF Fits
        <3> QED BY <2>4, <3>1, <3>3, <3>4, PcFacts DEF Fits
    <2> QED BY <1>3, <2>1, <2>3, <2>5 DEF Moves
<1> QED BY <1>2, <1>5, <1>6

\* What is opened: the first act, its plan, and the note as the turn has met it.
Opening(t) ==
    LET act == Head(job[t].acts)
        o == job'[t].plan
    IN  /\ act \in ActRec /\ act.word \in OwnWords(t)
        /\ act.kind \notin {"line", "note"} => act.note \in Notes
        /\ Wise(act, o)
        /\ job' = [job EXCEPT ![t] = [job[t] EXCEPT !.pc = "opened", !.acts = Tail(job[t].acts),
                                                    !.plan = o]]
        /\ trash' = Copied(act, o)
        /\ before'[t] = IF o.path \in DOMAIN before[t] THEN before[t]
                        ELSE Put(o.path, Read(o.path), before[t])
        /\ DOMAIN before'[t] = DOMAIN before[t] \cup {o.path}
        /\ \A u \in Turns \ {t} : before'[u] = before[u]
        /\ DOMAIN before' = Turns
        /\ foreign' = [foreign EXCEPT ![t] = IF o.path \in DOMAIN files \ index
                                             THEN foreign[t] \cup {o.path} ELSE foreign[t]]

LEMMA OpenIs ==
    ASSUME Shaped, Ordered, NEW t \in Turns, Open(t)
    PROVE  Opening(t)
<1> DEFINE act == Head(job[t].acts)
           o == job'[t].plan
<1>0. job[t] \in JobRec /\ Fits(t, job[t], DOMAIN before[t]) /\ DOMAIN before = Turns
      /\ foreign \in [Turns -> SUBSET Paths]
    BY DEF Shaped, Ordered
<1>1. job[t].acts \in Seq(ActRec) /\ job[t].acts # <<>>
    BY <1>0 DEF Open, JobRec
<1>2. act \in ActRec /\ 1 \in DOMAIN job[t].acts /\ act = job[t].acts[1]
    BY <1>1, LessActs
<1>3. act.word \in OwnWords(t) /\ (act.kind \notin {"line", "note"} => act.note \in Notes)
    BY <1>0, <1>2 DEF Fits
<1>4. NameLeft(act)
    BY DEF Open
<1>5. PICK plan \in Outcomes(act) :
           /\ job' = [job EXCEPT ![t].pc = "opened", ![t].acts = Tail(@), ![t].plan = plan]
           /\ trash' = Copied(act, plan)
           /\ before' = [before EXCEPT ![t] =
                  IF plan.path \in DOMAIN @ THEN @ ELSE Put(plan.path, Read(plan.path), @)]
           /\ foreign' = [foreign EXCEPT ![t] =
                  IF plan.path \in DOMAIN files \ index THEN @ \cup {plan.path} ELSE @]
    BY DEF Open
<1>o. o = plan
    BY <1>0, <1>5 DEF JobRec, Shaped
<1>w. Wise(act, o)
    BY <1>2, <1>3, <1>4, <1>5, <1>o, OutcomesAre
<1>6. /\ job' = [job EXCEPT ![t].pc = "opened", ![t].acts = Tail(@), ![t].plan = o]
      /\ trash' = Copied(act, o)
      /\ before' = [before EXCEPT ![t] =
             IF o.path \in DOMAIN @ THEN @ ELSE Put(o.path, Read(o.path), @)]
      /\ foreign' = [foreign EXCEPT ![t] =
             IF o.path \in DOMAIN files \ index THEN @ \cup {o.path} ELSE @]
    BY <1>5, <1>o
<1> HIDE DEF act, o
<1>7. before'[t] = IF o.path \in DOMAIN before[t] THEN before[t]
                   ELSE Put(o.path, Read(o.path), before[t])
    BY <1>0, <1>6
<1>8. DOMAIN before'[t] = DOMAIN before[t] \cup {o.path}
    <2>1. CASE o.path \in DOMAIN before[t]
        <3>1. before'[t] = before[t]
            BY <1>7, <2>1
        <3>2. DOMAIN before[t] = DOMAIN before[t] \cup {o.path}
            BY <2>1
        <3> QED BY <3>1, <3>2
    <2>2. CASE o.path \notin DOMAIN before[t]
        <3>1. before'[t] = Put(o.path, Read(o.path), before[t])
            BY <1>7, <2>2
        <3>2. DOMAIN Put(o.path, Read(o.path), before[t]) = DOMAIN before[t] \cup {o.path}
            BY DEF Put
        <3> QED BY <3>1, <3>2
    <2> QED BY <2>1, <2>2
<1>9. job' = [job EXCEPT ![t] = [job[t] EXCEPT !.pc = "opened", !.acts = Tail(job[t].acts),
                                               !.plan = o]]
    BY <1>6
<1>10. /\ \A u \in Turns \ {t} : before'[u] = before[u]
       /\ DOMAIN before' = Turns
       /\ foreign' = [foreign EXCEPT ![t] = IF o.path \in DOMAIN files \ index
                                            THEN foreign[t] \cup {o.path} ELSE foreign[t]]
    BY <1>0, <1>6
<1> QED BY <1>2, <1>3, <1>w, <1>6, <1>7, <1>8, <1>9, <1>10 DEF Opening, act, o

LEMMA OpenMoves == ASSUME Shaped, Ordered, NEW t \in Turns, Open(t) PROVE Moves(t)
<1> DEFINE o == job'[t].plan
           new == Tail(job[t].acts)
           n == [job[t] EXCEPT !.pc = "opened", !.acts = new, !.plan = o]
<1>0. job[t] \in JobRec /\ Fits(t, job[t], DOMAIN before[t]) /\ job[t].pc = "writing"
    BY DEF Shaped, Ordered, Open
<1>1. job[t].acts \in Seq(ActRec) /\ job[t].acts # <<>>
      /\ Len(job[t].acts) \in Nat /\ Len(job[t].undos) \in Nat
    BY <1>0, EntryFacts DEF Open, JobRec
<1>2. /\ new \in Seq(ActRec) /\ Len(new) = Len(job[t].acts) - 1
      /\ \A i \in DOMAIN new : \E j \in DOMAIN job[t].acts : new[i] = job[t].acts[j]
    BY <1>1, LessActs
<1>3. job' = [job EXCEPT ![t] = n] /\ DOMAIN before'[t] = DOMAIN before[t] \cup {o.path}
    BY OpenIs DEF Opening
<1>4. o \in PlanRec
    BY OpenIs DEF Opening, Wise
<1> HIDE DEF o, new
<1>5. n \in JobRec
    BY <1>0, <1>2, <1>4, PcFacts DEF JobRec
<1>6. n.pc = "opened" /\ n.acts = new /\ n.undos = job[t].undos /\ n.plan = o
    BY <1>0 DEF JobRec
<1> HIDE DEF n
<1>7. Fits(t, n, DOMAIN before'[t])
    <2>1. \A j \in DOMAIN new :
            /\ new[j].word \in OwnWords(t)
            /\ new[j].kind \notin {"line", "note"} => new[j].note \in Notes
        BY <1>0, <1>2 DEF Fits
    <2>2. Len(job[t].acts) + Len(job[t].undos) <= MaxActions
        BY <1>0 DEF Fits
    <2>3. /\ Len(new) + Len(job[t].undos) + 1 <= MaxActions
          /\ Len(new) + Len(job[t].undos) <= MaxActions
        <3>1. MaxActions \in Nat
            BY Bounds
        <3>2. Len(new) \in Nat
            BY <1>2, EntryFacts
        <3>3. Len(new) = Len(job[t].acts) - 1 /\ Len(job[t].acts) \in Nat /\ Len(job[t].undos) \in Nat
            BY <1>1, <1>2
        <3> QED BY <2>2, <3>1, <3>2, <3>3, RoomFacts
    <2>4. \A k \in DOMAIN job[t].undos : job[t].undos[k].path \in DOMAIN before'[t]
        BY <1>0, <1>3 DEF Fits
    <2> QED BY <1>3, <1>6, <2>1, <2>3, <2>4, PcFacts DEF Fits
<1> QED BY <1>3, <1>5, <1>7 DEF Moves

LEMMA SpillMoves ==
    ASSUME Shaped, Ordered, NEW t \in Turns, Spill(t)
    PROVE  /\ Moves(t)
           /\ job'[t].pc = (IF job[t].pc = "opened" THEN "spilled" ELSE "respilled")
           /\ job'[t].acts = job[t].acts /\ Alike(job[t], job'[t])
<1> DEFINE pc == IF job[t].pc = "opened" THEN "spilled" ELSE "respilled"
           n == [job[t] EXCEPT !.pc = pc]
<1>0. job[t] \in JobRec /\ Fits(t, job[t], DOMAIN before[t]) /\ DOMAIN job = Turns
    BY DEF Shaped, Ordered
<1>1. job' = [job EXCEPT ![t] = n] /\ before' = before /\ job[t].pc \in {"opened", "restoring"}
    BY DEF Spill
<1>2. /\ pc \in JobPcs /\ pc \notin Early
      /\ pc \in Putting <=> job[t].pc \in Putting
      /\ pc \in Undoing <=> job[t].pc \in Undoing
      /\ pc \in Restoring <=> job[t].pc \in Restoring
    BY <1>1, PcFacts
<1> HIDE DEF pc
<1>3. n \in JobRec /\ n.pc = pc /\ n.acts = job[t].acts /\ Alike(job[t], n)
    BY <1>0, <1>2 DEF JobRec, Alike
<1> HIDE DEF n
<1>4. Fits(t, n, DOMAIN before[t])
    BY <1>0, <1>2, <1>3 DEF Fits, Alike
<1>5. job'[t] = n
    BY <1>0, <1>1
<1> QED BY <1>1, <1>3, <1>4, <1>5 DEF Moves, pc

LEMMA LandMoves ==
    ASSUME Shaped, Ordered, NEW t \in Turns, Land(t)
    PROVE  /\ Moves(t)
           /\ job'[t].pc = "writing" /\ job'[t].acts = job[t].acts /\ job'[t].plan = NoPlan
           /\ job'[t].undos = Append(job[t].undos, [path |-> job[t].plan.path,
                                                    previous |-> job[t].plan.previous])
           /\ [path |-> job[t].plan.path, previous |-> job[t].plan.previous] \in UndoRec
           /\ job'[t].left = job[t].left /\ job'[t].refused = job[t].refused
           /\ job'[t].wished = job[t].wished
<1> DEFINE e == [path |-> job[t].plan.path, previous |-> job[t].plan.previous]
           new == Append(job[t].undos, e)
           n == [job[t] EXCEPT !.pc = "writing", !.plan = NoPlan, !.undos = new]
<1>0. job[t] \in JobRec /\ Fits(t, job[t], DOMAIN before[t]) /\ DOMAIN job = Turns
    BY DEF Shaped, Ordered
<1>1. job' = [job EXCEPT ![t] = n] /\ before' = before /\ job[t].pc = "spilled"
    BY DEF Land
<1>2. e \in UndoRec /\ e.path = job[t].plan.path
    BY <1>0 DEF JobRec, PlanRec, UndoRec
<1>3. job[t].undos \in Seq(UndoRec) /\ Len(job[t].undos) \in Nat /\ Len(job[t].acts) \in Nat
    BY <1>0, EntryFacts DEF JobRec
<1> HIDE DEF e
<1>4. /\ new \in Seq(UndoRec) /\ DOMAIN new = DOMAIN job[t].undos \cup {Len(job[t].undos) + 1}
      /\ new[Len(job[t].undos) + 1] = e
      /\ \A j \in DOMAIN job[t].undos : new[j] = job[t].undos[j]
    BY <1>2, <1>3, GrowthFacts
<1>5. Len(new) = Len(job[t].undos) + 1
    BY <1>2, <1>3, AppendFacts
<1>6. new = Append(job[t].undos, e)
    OBVIOUS
<1> HIDE DEF new
<1>7. /\ n \in JobRec /\ n.pc = "writing" /\ n.acts = job[t].acts /\ n.plan = NoPlan
      /\ n.undos = new /\ n.left = job[t].left /\ n.refused = job[t].refused
      /\ n.wished = job[t].wished
    BY <1>0, <1>4, NothingPlanned, PcFacts DEF JobRec
<1> HIDE DEF n
<1>8. Fits(t, n, DOMAIN before[t])
    <2>1. \A i \in DOMAIN new : new[i].path \in DOMAIN before[t]
        BY <1>0, <1>1, <1>2, <1>4, PcFacts DEF Fits
    <2>2. Len(job[t].acts) + Len(job[t].undos) + 1 <= MaxActions
        BY <1>0, <1>1, PcFacts DEF Fits
    <2>3. Len(job[t].acts) + Len(new) <= MaxActions
        <3>1. MaxActions \in Nat
            BY Bounds
        <3> QED BY <1>3, <1>5, <2>2, <3>1, MoveFacts
    <2> QED BY <1>0, <1>7, <2>1, <2>3, PcFacts DEF Fits
<1>9. job'[t] = n
    BY <1>0, <1>1
<1> QED BY <1>1, <1>2, <1>6, <1>7, <1>8, <1>9 DEF Moves, e

\* The end of a turn that failed, and of one that was taken back.
LEMMA EndMoves ==
    ASSUME Shaped, Ordered, NEW t \in Turns, Refused(t) \/ UndoRefused(t) \/ Undone(t)
    PROVE  /\ Moves(t)
           /\ Refused(t) => job'[t].acts = <<>>
           /\ ~ Refused(t) => job'[t].acts = job[t].acts
           /\ job'[t].undos = <<>> /\ job'[t].plan \in {job[t].plan, NoPlan}
           /\ job'[t].pc \in {"done", "undone"} /\ job'[t].wished = job[t].wished
           /\ job'[t].refused \/ (Undone(t) /\ job'[t].pc = "undone" /\ job'[t].refused = job[t].refused)
<1>0. /\ job[t] \in JobRec /\ Fits(t, job[t], DOMAIN before[t]) /\ DOMAIN job = Turns
      /\ <<>> \in Seq(ActRec) /\ <<>> \in Seq(UndoRec)
    BY DEF Shaped, Ordered
<1>1. MaxActions \in Nat /\ Len(job[t].acts) \in Nat /\ Len(job[t].undos) \in Nat
    BY <1>0, Bounds, EntryFacts DEF JobRec
<1>2. CASE Refused(t)
    <2> DEFINE n == [job[t] EXCEPT !.pc = "done", !.plan = NoPlan, !.acts = <<>>, !.undos = <<>>,
                                   !.refused = TRUE]
    <2>1. job' = [job EXCEPT ![t] = n] /\ before' = before
        BY <1>2 DEF Refused, history
    <2>2. /\ n \in JobRec /\ n.pc = "done" /\ n.plan = NoPlan /\ n.acts = <<>> /\ n.undos = <<>>
          /\ n.refused /\ n.wished = job[t].wished
        BY <1>0, NothingPlanned, PcFacts DEF JobRec
    <2> HIDE DEF n
    <2>3. Fits(t, n, DOMAIN before[t])
        <3>1. Len(<<>>) + Len(<<>>) <= MaxActions /\ DOMAIN (<<>>) = {}
            BY <1>1
        <3> QED BY <2>2, <3>1, PcFacts DEF Fits
    <2>4. job'[t] = n
        BY <1>0, <2>1
    <2>5. Moves(t)
        BY <2>1, <2>2, <2>3 DEF Moves
    <2>6. /\ job'[t].acts = <<>> /\ job'[t].undos = <<>> /\ job'[t].plan = NoPlan
          /\ job'[t].pc = "done" /\ job'[t].wished = job[t].wished
        BY <2>2, <2>4
    <2>7. job'[t].refused
        BY <2>2, <2>4
    <2> QED BY <1>2, <2>5, <2>6, <2>7
<1>3. ASSUME UndoRefused(t) \/ Undone(t)
      PROVE  /\ Moves(t)
             /\ job'[t].undos = <<>> /\ job'[t].plan \in {job[t].plan, NoPlan}
             /\ job'[t].acts = job[t].acts
             /\ job'[t].pc = "undone" /\ job'[t].wished = job[t].wished
             /\ job'[t].refused \/ (Undone(t) /\ job'[t].refused = job[t].refused)
             /\ ~ Refused(t)
    <2>1. PICK n \in JobRec : /\ job' = [job EXCEPT ![t] = n] /\ before' = before
                              /\ n.plan \in {job[t].plan, NoPlan}
                              /\ n.acts = job[t].acts /\ n.undos = <<>> /\ n.pc = "undone"
                              /\ n.wished = job[t].wished
                              /\ n.refused \/ (Undone(t) /\ n.refused = job[t].refused)
        <3>1. CASE UndoRefused(t)
            <4> DEFINE n == [job[t] EXCEPT !.pc = "undone", !.plan = NoPlan, !.undos = <<>>,
                                           !.left = 0, !.refused = TRUE]
            <4>1. job' = [job EXCEPT ![t] = n] /\ before' = before
                BY <3>1 DEF UndoRefused, history
            <4>2. /\ n \in JobRec /\ n.pc = "undone" /\ n.plan = NoPlan /\ n.acts = job[t].acts
                  /\ n.undos = <<>> /\ n.refused /\ n.wished = job[t].wished
                BY <1>0, NothingPlanned, PcFacts DEF JobRec
            <4> HIDE DEF n
            <4> QED BY <4>1, <4>2
        <3>2. CASE Undone(t)
            <4> DEFINE n == [job[t] EXCEPT !.pc = "undone", !.undos = <<>>]
            <4>1. job' = [job EXCEPT ![t] = n] /\ before' = before
                BY <3>2 DEF Undone, history
            <4>2. /\ n \in JobRec /\ n.pc = "undone" /\ n.plan = job[t].plan /\ n.acts = job[t].acts
                  /\ n.undos = <<>> /\ n.refused = job[t].refused /\ n.wished = job[t].wished
                BY <1>0, PcFacts DEF JobRec
            <4> HIDE DEF n
            <4> QED BY <3>2, <4>1, <4>2
        <3> QED BY <1>3, <3>1, <3>2
    <2>2. Fits(t, n, DOMAIN before[t])
        <3>1. Len(job[t].acts) + Len(<<>>) <= MaxActions /\ DOMAIN (<<>>) = {}
            <4>1. Len(job[t].acts) + Len(job[t].undos) <= MaxActions
                BY <1>0 DEF Fits
            <4>2. Len(job[t].acts) + 0 <= MaxActions
                BY <1>1, <4>1, PartFacts
            <4>3. Len(<<>>) = 0 /\ DOMAIN (<<>>) = {}
                OBVIOUS
            <4> QED BY <4>2, <4>3
        <3> QED BY <1>0, <2>1, <3>1, PcFacts DEF Fits
    <2>3. job'[t] = n
        BY <1>0, <2>1
    <2>4. ~ Refused(t)
        BY <1>3 DEF UndoRefused, Undone, Refused
    <2> QED BY <2>1, <2>2, <2>3, <2>4 DEF Moves
<1> QED BY <1>2, <1>3

LEMMA WrittenMoves ==
    ASSUME Shaped, Ordered, NEW t \in Turns, Written(t)
    PROVE  /\ Moves(t)
           /\ job'[t].pc = "done" /\ job'[t].acts = <<>> /\ Alike(job[t], job'[t])
           /\ job[t].acts = <<>>
<1> DEFINE n == [job[t] EXCEPT !.pc = "done"]
<1>0. job[t] \in JobRec /\ Fits(t, job[t], DOMAIN before[t]) /\ DOMAIN job = Turns
    BY DEF Shaped, Ordered
<1>1. job' = [job EXCEPT ![t] = n] /\ before' = before /\ job[t].acts = <<>>
    BY DEF Written, history
<1>2. n \in JobRec /\ n.pc = "done" /\ n.acts = job[t].acts /\ Alike(job[t], n)
    BY <1>0, PcFacts DEF JobRec, Alike
<1> HIDE DEF n
<1>3. Fits(t, n, DOMAIN before[t])
    BY <1>0, <1>2, PcFacts DEF Fits, Alike
<1>4. job'[t] = n
    BY <1>0, <1>1
<1> QED BY <1>1, <1>2, <1>3, <1>4 DEF Moves

LEMMA UndoMoves ==
    ASSUME Shaped, Ordered, NEW t \in Turns, Undo(t)
    PROVE  /\ Moves(t)
           /\ job'[t].pc = "undoing" /\ job'[t].acts = job[t].acts /\ job'[t].plan = job[t].plan
           /\ job'[t].undos = job[t].undos /\ job'[t].left = Len(job[t].undos)
           /\ job'[t].refused = job[t].refused /\ job'[t].wished
<1> DEFINE n == [job[t] EXCEPT !.pc = "undoing", !.left = Len(job[t].undos), !.wished = TRUE]
<1>0. job[t] \in JobRec /\ Fits(t, job[t], DOMAIN before[t]) /\ DOMAIN job = Turns
    BY DEF Shaped, Ordered
<1>1. job' = [job EXCEPT ![t] = n] /\ before' = before
    BY DEF Undo, history
<1>2. Len(job[t].undos) \in Nat
    BY <1>0, EntryFacts DEF JobRec
<1>3. /\ n \in JobRec /\ n.pc = "undoing" /\ n.acts = job[t].acts /\ n.plan = job[t].plan
      /\ n.undos = job[t].undos /\ n.left = Len(job[t].undos) /\ n.refused = job[t].refused
      /\ n.wished
    BY <1>0, <1>2, PcFacts DEF JobRec
<1> HIDE DEF n
<1>4. Fits(t, n, DOMAIN before[t])
    <2>1. n.left <= Len(n.undos)
        BY <1>2, <1>3
    <2>2. Len(n.acts) + Len(n.undos) <= MaxActions
        BY <1>0, <1>3 DEF Fits
    <2>3. /\ \A i \in DOMAIN n.acts : /\ n.acts[i].word \in OwnWords(t)
                                      /\ n.acts[i].kind \notin {"line", "note"} => n.acts[i].note \in Notes
          /\ \A i \in DOMAIN n.undos : n.undos[i].path \in DOMAIN before[t]
        BY <1>0, <1>3 DEF Fits
    <2>4. n.pc \in Undoing /\ n.pc \notin Early \cup Putting \cup Restoring /\ n.wished
        BY <1>3, PcFacts
    <2> HIDE DEF n
    <2> QED BY <2>1, <2>2, <2>3, <2>4 DEF Fits
<1>5. job'[t] = n
    BY <1>0, <1>1
<1> QED BY <1>1, <1>3, <1>4, <1>5 DEF Moves

LEMMA BinMoves ==
    ASSUME Shaped, Ordered, NEW t \in Turns, Bin(t)
    PROVE  /\ Moves(t)
           /\ job[t].left \in DOMAIN job[t].undos /\ job[t].left \in Nat
           /\ job'[t].pc = "undoing" /\ job'[t].acts = job[t].acts /\ job'[t].plan = job[t].plan
           /\ job'[t].undos = job[t].undos /\ job'[t].left = job[t].left - 1
           /\ job'[t].refused = job[t].refused /\ job'[t].wished = job[t].wished
<1> DEFINE n == [job[t] EXCEPT !.left = job[t].left - 1]
<1>0. job[t] \in JobRec /\ Fits(t, job[t], DOMAIN before[t]) /\ DOMAIN job = Turns
    BY DEF Shaped, Ordered
<1>1. job' = [job EXCEPT ![t] = n] /\ before' = before /\ job[t].pc = "undoing" /\ job[t].left > 0
    BY DEF Bin
<1>2. /\ Len(job[t].undos) \in Nat /\ DOMAIN job[t].undos = 1 .. Len(job[t].undos)
      /\ job[t].left \in Nat /\ job[t].left <= Len(job[t].undos)
    BY <1>0, <1>1, EntryFacts, PcFacts DEF JobRec, Fits
<1>3. job[t].left - 1 \in Nat /\ job[t].left - 1 <= Len(job[t].undos)
      /\ job[t].left \in DOMAIN job[t].undos
    BY <1>1, <1>2
<1>4. /\ n \in JobRec /\ n.pc = "undoing" /\ n.acts = job[t].acts /\ n.plan = job[t].plan
      /\ n.undos = job[t].undos /\ n.left = job[t].left - 1 /\ n.refused = job[t].refused
      /\ n.wished = job[t].wished
    BY <1>0, <1>1, <1>3 DEF JobRec
<1> HIDE DEF n
<1>5. Fits(t, n, DOMAIN before[t])
    <2>1. n.left <= Len(n.undos)
        BY <1>3, <1>4
    <2>2. Len(n.acts) + Len(n.undos) <= MaxActions
        BY <1>0, <1>4 DEF Fits
    <2>3. /\ \A i \in DOMAIN n.acts : /\ n.acts[i].word \in OwnWords(t)
                                      /\ n.acts[i].kind \notin {"line", "note"} => n.acts[i].note \in Notes
          /\ \A i \in DOMAIN n.undos : n.undos[i].path \in DOMAIN before[t]
        BY <1>0, <1>4 DEF Fits
    <2>4. n.pc \notin Early \cup Putting \cup Restoring
        BY <1>4, PcFacts
    <2>5. n.wished
        BY <1>0, <1>1, <1>4, PcFacts DEF Fits
    <2> QED BY <2>1, <2>2, <2>3, <2>4, <2>5 DEF Fits
<1>6. job'[t] = n
    BY <1>0, <1>1
<1> QED BY <1>1, <1>2, <1>3, <1>4, <1>5, <1>6 DEF Moves

LEMMA RestoreMoves ==
    ASSUME Shaped, Ordered, NEW t \in Turns, Restore(t)
    PROVE  /\ Moves(t)
           /\ job[t].pc = "undoing"
           /\ job[t].left \in DOMAIN job[t].undos /\ job[t].left \in Nat
           /\ job'[t].pc = "restoring" /\ job'[t].acts = job[t].acts
           /\ job'[t].plan \in PlanRec /\ job'[t].plan.seen = OwnWords(t)
           /\ job'[t].plan.path = job[t].undos[job[t].left].path
           /\ job'[t].plan.previous = <<>>
           /\ job[t].undos[job[t].left].previous = <<job'[t].plan.new>>
           /\ job'[t].undos = job[t].undos /\ job'[t].left = job[t].left - 1
           /\ job'[t].refused = job[t].refused /\ job'[t].wished = job[t].wished
<1> DEFINE u == job[t].undos[job[t].left]
           plan == Plan(u.path, <<>>, u.previous[1], OwnWords(t))
           n == [job[t] EXCEPT !.pc = "restoring", !.left = job[t].left - 1, !.plan = plan]
<1>0. job[t] \in JobRec /\ Fits(t, job[t], DOMAIN before[t]) /\ DOMAIN job = Turns
    BY DEF Shaped, Ordered
<1>1. /\ job' = [job EXCEPT ![t] = n] /\ before' = before /\ job[t].pc = "undoing"
      /\ job[t].left > 0 /\ u.previous # <<>>
    BY DEF Restore, history, Latest
<1>2. /\ Len(job[t].undos) \in Nat /\ DOMAIN job[t].undos = 1 .. Len(job[t].undos)
      /\ job[t].left \in Nat /\ job[t].left <= Len(job[t].undos)
    BY <1>0, <1>1, EntryFacts, PcFacts DEF JobRec, Fits
<1>3. job[t].left - 1 \in Nat /\ job[t].left - 1 <= Len(job[t].undos)
      /\ job[t].left \in DOMAIN job[t].undos /\ (job[t].left - 1) + 1 = job[t].left
    BY <1>1, <1>2
<1>4. u \in UndoRec
    BY <1>0, <1>3, EntryFacts DEF JobRec
<1>5. u.path \in Paths /\ u.previous[1] \in Text /\ u.previous = <<u.previous[1]>>
    BY <1>1, <1>4, MaybeFacts DEF UndoRec
<1>6. OwnWords(t) \in SUBSET Line /\ <<>> \in Maybe(Text)
    BY DEF OwnWords, Line, Maybe
<1>7. /\ plan \in PlanRec /\ plan.path = u.path /\ plan.previous = <<>> /\ plan.new = u.previous[1]
      /\ plan.seen = OwnWords(t)
    BY <1>5, <1>6, PlanFacts
<1> HIDE DEF u, plan
<1>8. /\ n \in JobRec /\ n.pc = "restoring" /\ n.acts = job[t].acts /\ n.plan = plan
      /\ n.undos = job[t].undos /\ n.left = job[t].left - 1 /\ n.refused = job[t].refused
      /\ n.wished = job[t].wished
    BY <1>0, <1>3, <1>7, PcFacts DEF JobRec
<1> HIDE DEF n
<1>9. Fits(t, n, DOMAIN before[t])
    <2>1. n.left <= Len(n.undos)
        BY <1>3, <1>8
    <2>2. Len(n.acts) + Len(n.undos) <= MaxActions
        BY <1>0, <1>8 DEF Fits
    <2>3. /\ \A i \in DOMAIN n.acts : /\ n.acts[i].word \in OwnWords(t)
                                      /\ n.acts[i].kind \notin {"line", "note"} => n.acts[i].note \in Notes
          /\ \A i \in DOMAIN n.undos : n.undos[i].path \in DOMAIN before[t]
        BY <1>0, <1>8 DEF Fits
    <2>4. n.pc \notin Early \cup Putting
        BY <1>8, PcFacts
    <2>5. n.wished
        BY <1>0, <1>1, <1>8, PcFacts DEF Fits
    <2>6. n.left + 1 = job[t].left
        BY <1>3, <1>8
    <2>7. /\ n.left + 1 \in DOMAIN n.undos
          /\ n.plan.path = n.undos[n.left + 1].path
          /\ n.undos[n.left + 1].previous = <<n.plan.new>>
          /\ n.plan.seen = OwnWords(t)
        BY <1>3, <1>5, <1>7, <1>8, <2>6 DEF u
    <2> QED BY <2>1, <2>2, <2>3, <2>4, <2>5, <2>7 DEF Fits
<1>10. job'[t] = n
    BY <1>0, <1>1
<1>11. Moves(t)
    BY <1>1, <1>8, <1>9 DEF Moves
<1> QED BY <1>1, <1>2, <1>3, <1>5, <1>7, <1>8, <1>10, <1>11 DEF u

LEMMA RelandMoves ==
    ASSUME Shaped, Ordered, NEW t \in Turns, Reland(t)
    PROVE  /\ Moves(t)
           /\ job[t].pc = "respilled" /\ job[t].left + 1 \in DOMAIN job[t].undos /\ job[t].left \in Nat
           /\ job[t].plan.path = job[t].undos[job[t].left + 1].path
           /\ job[t].undos[job[t].left + 1].previous = <<job[t].plan.new>>
           /\ job'[t].pc = "undoing" /\ job'[t].acts = job[t].acts /\ job'[t].plan = NoPlan
           /\ job'[t].undos = job[t].undos /\ job'[t].left = job[t].left
           /\ job'[t].refused = job[t].refused /\ job'[t].wished = job[t].wished
<1> DEFINE n == [job[t] EXCEPT !.pc = "undoing", !.plan = NoPlan]
<1>0. job[t] \in JobRec /\ Fits(t, job[t], DOMAIN before[t]) /\ DOMAIN job = Turns
    BY DEF Shaped, Ordered
<1>1. job' = [job EXCEPT ![t] = n] /\ before' = before /\ job[t].pc = "respilled"
    BY DEF Reland
<1>2. /\ n \in JobRec /\ n.pc = "undoing" /\ n.acts = job[t].acts /\ n.plan = NoPlan
      /\ n.undos = job[t].undos /\ n.left = job[t].left /\ n.refused = job[t].refused
      /\ n.wished = job[t].wished
    BY <1>0, NothingPlanned, PcFacts DEF JobRec
<1> HIDE DEF n
<1>3. Fits(t, n, DOMAIN before[t])
    BY <1>0, <1>1, <1>2, PcFacts DEF Fits
<1>4. job'[t] = n
    BY <1>0, <1>1
<1>5. /\ job[t].left + 1 \in DOMAIN job[t].undos
      /\ job[t].plan.path = job[t].undos[job[t].left + 1].path
      /\ job[t].undos[job[t].left + 1].previous = <<job[t].plan.new>>
    BY <1>0, <1>1, PcFacts DEF Fits
<1>6. job[t].left \in Nat
    BY <1>0 DEF JobRec
<1> QED BY <1>1, <1>2, <1>3, <1>4, <1>5, <1>6 DEF Moves

\* What the steps before the first write leave of it.
LEMMA EarlyFields ==
    ASSUME Shaped, Ordered, NEW t \in Turns, Begin(t) \/ Index(t) \/ NothingFiled(t)
    PROVE  /\ job[t].pc \in Early /\ job'[t].pc \in Early \cup {"done"}
           /\ job'[t].acts = job[t].acts /\ Alike(job[t], job'[t])
<1>1. job[t] \in JobRec /\ DOMAIN job = Turns
    BY DEF Shaped
<1>2. CASE Begin(t)
    BY <1>1, <1>2, PcFacts DEF Begin, Alike, JobRec
<1>3. CASE Index(t)
    BY <1>1, <1>3, PcFacts DEF Index, Alike, JobRec
<1>4. CASE NothingFiled(t)
    BY <1>1, <1>4, PcFacts DEF NothingFiled, Alike, JobRec
<1> QED BY <1>2, <1>3, <1>4

LEMMA FileFields ==
    ASSUME Shaped, Ordered, NEW t \in Turns, File(t)
    PROVE  /\ job[t].pc \in Early /\ job'[t].pc = "writing" /\ Alike(job[t], job'[t])
           /\ \A i \in DOMAIN job'[t].acts : job'[t].acts[i].body = {}
<1>0. job[t] \in JobRec /\ DOMAIN job = Turns
    BY DEF Shaped
<1>1. PICK m \in Filings : \E acts \in [1 .. m -> UNION {Checked(<<t, k>>) : k \in 1 .. m}] :
        job' = [job EXCEPT ![t].pc = "writing", ![t].acts = acts, ![t].asked = m]
    BY DEF File
<1>2. PICK acts \in [1 .. m -> UNION {Checked(<<t, k>>) : k \in 1 .. m}] :
        job' = [job EXCEPT ![t].pc = "writing", ![t].acts = acts, ![t].asked = m]
    BY <1>1
<1>3. \A i \in 1 .. m : acts[i].body = {}
    <2> SUFFICES ASSUME NEW i \in 1 .. m PROVE acts[i].body = {}
        OBVIOUS
    <2>1. PICK k \in 1 .. m : acts[i] \in Checked(<<t, k>>)
        BY <1>2
    <2> QED BY <2>1 DEF Checked, Act
<1>4. job'[t].acts = acts /\ job'[t].pc = "writing" /\ Alike(job[t], job'[t])
    BY <1>0, <1>2 DEF Alike, JobRec
<1>5. job[t].pc \in Early
    BY PcFacts DEF File
<1> QED BY <1>2, <1>3, <1>4, <1>5

LEMMA PrepareFields ==
    ASSUME Shaped, Ordered, NEW t \in Turns, Prepare(t)
    PROVE  /\ job[t].pc = "writing" /\ job'[t].pc = "writing" /\ Alike(job[t], job'[t])
           /\ \A k \in DOMAIN job'[t].acts :
                \/ \E j \in DOMAIN job[t].acts : job'[t].acts[k] = job[t].acts[j]
                \/ /\ job'[t].acts[k].note \in DOMAIN files
                   /\ job'[t].acts[k].body \subseteq
                          files[job'[t].acts[k].note].lines \cup {job'[t].acts[k].word}
<1> DEFINE acts == job[t].acts
<1>0. job[t] \in JobRec /\ DOMAIN job = Turns /\ job[t].pc = "writing"
    BY DEF Shaped, Prepare
<1>1. acts \in Seq(ActRec)
    BY <1>0 DEF JobRec
<1>2. PICK i \in Unprepared(t) :
        \/ /\ acts[i].note \in index \cap DOMAIN files
           /\ \E keep \in {files[acts[i].note].lines, {}} :
                  job' = [job EXCEPT ![t].acts[i].body = keep \cup {acts[i].word}]
        \/ job' = [job EXCEPT ![t].acts = SubSeq(@, 1, i - 1) \o SubSeq(@, i + 1, Len(@))]
    BY DEF Prepare
<1>3. i \in DOMAIN acts /\ acts[i] \in ActRec
    BY <1>1, <1>2, EntryFacts DEF Unprepared
<1>4. ASSUME NEW keep \in {files[acts[i].note].lines, {}}, acts[i].note \in DOMAIN files,
             job' = [job EXCEPT ![t].acts[i].body = keep \cup {acts[i].word}]
      PROVE  /\ job'[t].pc = "writing" /\ Alike(job[t], job'[t])
             /\ \A k \in DOMAIN job'[t].acts :
                  \/ \E j \in DOMAIN acts : job'[t].acts[k] = acts[j]
                  \/ /\ job'[t].acts[k].note \in DOMAIN files
                     /\ job'[t].acts[k].body \subseteq
                            files[job'[t].acts[k].note].lines \cup {job'[t].acts[k].word}
    <2> DEFINE e == [acts[i] EXCEPT !.body = keep \cup {acts[i].word}]
               new == [acts EXCEPT ![i] = e]
               n == [job[t] EXCEPT !.acts = new]
    <2>1. /\ e.note = acts[i].note /\ e.word = acts[i].word /\ e.body = keep \cup {acts[i].word}
        BY <1>3 DEF ActRec
    <2>2. job' = [job EXCEPT ![t] = n]
        BY <1>0, <1>1, <1>4
    <2> HIDE DEF e
    <2>3. DOMAIN new = DOMAIN acts /\ new[i] = e /\ \A k \in DOMAIN acts : k # i => new[k] = acts[k]
        BY <1>1, <1>3
    <2> HIDE DEF new
    <2>4. n.acts = new /\ n.pc = "writing" /\ Alike(job[t], n)
        BY <1>0 DEF JobRec, Alike
    <2> HIDE DEF n
    <2>5. job'[t] = n
        BY <1>0, <2>2
    <2>6. e.note \in DOMAIN files /\ e.body \subseteq files[e.note].lines \cup {e.word}
        BY <1>4, <2>1
    <2>7. ASSUME NEW k \in DOMAIN new
          PROVE  \/ \E j \in DOMAIN acts : new[k] = acts[j]
                 \/ new[k].note \in DOMAIN files /\ new[k].body \subseteq files[new[k].note].lines \cup {new[k].word}
        <3>1. CASE k = i
            BY <2>3, <2>6, <3>1
        <3>2. CASE k # i
            BY <2>3, <3>2
        <3> QED BY <3>1, <3>2
    <2> QED BY <2>4, <2>5, <2>7
<1>5. ASSUME job' = [job EXCEPT ![t].acts = SubSeq(@, 1, i - 1) \o SubSeq(@, i + 1, Len(@))]
      PROVE  /\ job'[t].pc = "writing" /\ Alike(job[t], job'[t])
             /\ \A k \in DOMAIN job'[t].acts : \E j \in DOMAIN acts : job'[t].acts[k] = acts[j]
    <2> DEFINE new == SubSeq(acts, 1, i - 1) \o SubSeq(acts, i + 1, Len(acts))
    <2>1. \A k \in DOMAIN new : \E j \in DOMAIN acts : new[k] = acts[j]
        BY <1>1, <1>3, DroppedActs
    <2>2. job' = [job EXCEPT ![t].acts = new]
        BY <1>5
    <2> HIDE DEF new
    <2>3. job'[t].acts = new /\ job'[t].pc = "writing" /\ Alike(job[t], job'[t])
        BY <1>0, <2>2 DEF JobRec, Alike
    <2> QED BY <2>1, <2>3
<1> QED BY <1>0, <1>2, <1>4, <1>5

LEMMA OpenFields ==
    ASSUME Shaped, Ordered, NEW t \in Turns, Open(t)
    PROVE  LET act == Head(job[t].acts)
               o == job'[t].plan
           IN  /\ job[t].pc = "writing" /\ job'[t].pc = "opened" /\ job'[t].plan = o
               /\ job'[t].undos = job[t].undos /\ job'[t].left = job[t].left
               /\ job'[t].refused = job[t].refused /\ job'[t].wished = job[t].wished
               /\ \A i \in DOMAIN job'[t].acts :
                      \E j \in DOMAIN job[t].acts : job'[t].acts[i] = job[t].acts[j]
               /\ \E j \in DOMAIN job[t].acts : act = job[t].acts[j]
<1> DEFINE act == Head(job[t].acts)
           o == job'[t].plan
           new == Tail(job[t].acts)
<1>0. job[t] \in JobRec /\ DOMAIN job = Turns
    BY DEF Shaped
<1>1. job[t].acts \in Seq(ActRec) /\ job[t].acts # <<>> /\ job[t].pc = "writing"
    BY <1>0 DEF Open, JobRec
<1>2. /\ \A i \in DOMAIN new : \E j \in DOMAIN job[t].acts : new[i] = job[t].acts[j]
      /\ \E j \in DOMAIN job[t].acts : act = job[t].acts[j]
    BY <1>1, LessActs
<1>3. job' = [job EXCEPT ![t] = [job[t] EXCEPT !.pc = "opened", !.acts = new, !.plan = o]]
    BY OpenIs DEF Opening
<1> HIDE DEF act, o, new
<1>4. /\ job'[t].pc = "opened" /\ job'[t].plan = o /\ job'[t].acts = new
      /\ job'[t].undos = job[t].undos /\ job'[t].left = job[t].left
      /\ job'[t].refused = job[t].refused /\ job'[t].wished = job[t].wished
    BY <1>0, <1>3 DEF JobRec
<1> QED BY <1>1, <1>2, <1>4 DEF act, o

----------------------------------------------------------------------------
(* What the steps do to the vault. *)

LEMMA LandedFacts ==
    ASSUME Shaped, NEW p \in Paths, spill[p] # <<>>, Landed(p)
    PROVE  /\ spill[p][1] \in PlanRec /\ spill[p] = <<spill[p][1]>>
           /\ DOMAIN files' = DOMAIN files \cup {p} /\ files'[p] = spill[p][1].new
           /\ \A q \in DOMAIN files : q # p => files'[q] = files[q]
           /\ spill' = [spill EXCEPT ![p] = <<>>]
           /\ index' = index \cup {p}
<1>1. spill[p] \in Maybe(PlanRec)
    BY DEF Shaped
<1>2. spill[p][1] \in PlanRec /\ spill[p] = <<spill[p][1]>>
    BY <1>1 DEF Maybe
<1>3. files' = Put(p, spill[p][1].new, files)
    BY DEF Landed
<1>4. /\ DOMAIN files' = DOMAIN files \cup {p} /\ files'[p] = spill[p][1].new
      /\ \A q \in DOMAIN files : q # p => files'[q] = files[q]
    BY <1>3 DEF Put
<1> QED BY <1>2, <1>4 DEF Landed

LEMMA MeddleFacts ==
    ASSUME Shaped, NEW whose, NEW p \in Paths, Meddles(whose, p)
    PROVE  /\ foreign' \in [Turns -> SUBSET Paths]
           /\ \A u \in Turns :
                /\ foreign[u] \subseteq foreign'[u]
                /\ u \notin whose /\ p \in DOMAIN before[u] => p \in foreign'[u]
                /\ u \in whose => foreign'[u] = foreign[u]
<1>1. foreign' = [u \in Turns |-> IF u \notin whose /\ p \in DOMAIN before[u]
                                  THEN foreign[u] \cup {p} ELSE foreign[u]]
    BY DEF Meddles
<1>2. foreign \in [Turns -> SUBSET Paths]
    BY DEF Shaped
<1>3. ASSUME NEW u \in Turns
      PROVE  /\ foreign[u] \in SUBSET Paths /\ foreign[u] \cup {p} \in SUBSET Paths
             /\ foreign'[u] \in SUBSET Paths
             /\ foreign[u] \subseteq foreign'[u]
             /\ u \notin whose /\ p \in DOMAIN before[u] => p \in foreign'[u]
             /\ u \in whose => foreign'[u] = foreign[u]
    <2>1. foreign[u] \in SUBSET Paths /\ foreign[u] \cup {p} \in SUBSET Paths
        BY <1>2
    <2>2. CASE u \notin whose /\ p \in DOMAIN before[u]
        <3>1. foreign'[u] = foreign[u] \cup {p}
            BY <1>1, <2>2
        <3> QED BY <2>1, <2>2, <3>1
    <2>3. CASE ~ (u \notin whose /\ p \in DOMAIN before[u])
        <3>1. foreign'[u] = foreign[u]
            BY <1>1, <2>3
        <3> QED BY <2>1, <2>3, <3>1
    <2> QED BY <2>2, <2>3
<1>4. foreign' \in [Turns -> SUBSET Paths]
    <2>1. \A u \in Turns : foreign'[u] \in SUBSET Paths
        BY <1>3
    <2>2. foreign' = [u \in Turns |-> foreign'[u]]
        BY <1>1
    <2> QED BY <2>1, <2>2
<1> QED BY <1>3, <1>4

VaultShaped ==
    /\ DOMAIN files \subseteq Paths /\ \A p \in DOMAIN files : files[p] \in Text
    /\ spill \in [Paths -> Maybe(PlanRec)]
    /\ trash \in [Paths -> Seq(Text)]
    /\ index \subseteq Paths
LinksShaped ==
    /\ link \in [Turns -> LinkRec]
    /\ \A t \in Turns : link[t].pc # "idle" => link[t].todo # <<>>
PastShaped ==
    /\ DOMAIN before = Turns
    /\ \A t \in Turns : DOMAIN before[t] \subseteq Paths
    /\ \A t \in Turns : \A p \in DOMAIN before[t] : before[t][p] \in Maybe(Text)
    /\ foreign \in [Turns -> SUBSET Paths]

\* A turn's plan goes to a path, whoever moves it there.
LEMMA PlannedPath ==
    ASSUME Shaped, NEW t \in Turns
    PROVE  job[t].plan \in PlanRec /\ job[t].plan.path \in Paths
BY DEF Shaped, JobRec, PlanRec

LEMMA LinkedPath ==
    ASSUME Shaped, NEW t \in Turns, link[t].todo # <<>>
    PROVE  Head(link[t].todo) \in Paths /\ Tail(link[t].todo) \in Seq(Paths)
<1>1. link[t].todo \in Seq(Paths)
    BY DEF Shaped, LinkRec
<1> QED BY <1>1, LessActs

\* What lands is a text.
LEMMA LandedShapes ==
    ASSUME Shaped, NEW p \in Paths, spill[p] # <<>>, Landed(p), trash' = trash
    PROVE  VaultShaped'
<1>1. spill[p][1] \in PlanRec /\ DOMAIN files' = DOMAIN files \cup {p}
      /\ files'[p] = spill[p][1].new /\ (\A q \in DOMAIN files : q # p => files'[q] = files[q])
      /\ spill' = [spill EXCEPT ![p] = <<>>] /\ index' = index \cup {p}
    BY LandedFacts
<1>2. DOMAIN files' \subseteq Paths /\ \A q \in DOMAIN files' : files'[q] \in Text
    <2>1. spill[p][1].new \in Text
        BY <1>1 DEF PlanRec
    <2>2. DOMAIN files \subseteq Paths /\ \A q \in DOMAIN files : files[q] \in Text
        BY DEF Shaped
    <2>3. ASSUME NEW q \in DOMAIN files'
          PROVE  files'[q] \in Text
        <3>1. CASE q = p
            BY <1>1, <2>1, <3>1
        <3>2. CASE q # p
            BY <1>1, <2>2, <3>2
        <3> QED BY <3>1, <3>2
    <2> QED BY <1>1, <2>2, <2>3
<1>3. spill' \in [Paths -> Maybe(PlanRec)]
    <2>1. spill \in [Paths -> Maybe(PlanRec)] /\ <<>> \in Maybe(PlanRec)
        BY DEF Shaped, Maybe
    <2> QED BY <1>1, <2>1
<1>4. index' \subseteq Paths /\ trash' \in [Paths -> Seq(Text)]
    BY <1>1 DEF Shaped
<1> QED BY <1>2, <1>3, <1>4 DEF VaultShaped

\* What is added to the trash.
LEMMA TrashedFacts ==
    ASSUME Shaped, NEW p \in Paths, NEW text \in Text
    PROVE  /\ Trashed(p, text) \in [Paths -> Seq(Text)]
           /\ \A q \in Paths : \A i \in DOMAIN trash[q] :
                i \in DOMAIN Trashed(p, text)[q] /\ Trashed(p, text)[q][i] = trash[q][i]
           /\ \A w \in text.lines : \E i \in DOMAIN Trashed(p, text)[p] :
                w \in Trashed(p, text)[p][i].lines
<1>1. trash \in [Paths -> Seq(Text)] /\ trash[p] \in Seq(Text)
    BY DEF Shaped
<1>2. CASE text.lines = {}
    <2>1. Trashed(p, text) = trash
        BY <1>1, <1>2 DEF Trashed
    <2> QED BY <1>1, <1>2, <2>1
<1>3. CASE text.lines # {}
    <2> DEFINE new == Append(trash[p], text)
    <2>1. Trashed(p, text) = [trash EXCEPT ![p] = new]
        BY <1>1, <1>3 DEF Trashed
    <2>2. /\ new \in Seq(Text) /\ DOMAIN new = DOMAIN trash[p] \cup {Len(trash[p]) + 1}
          /\ new[Len(trash[p]) + 1] = text /\ \A i \in DOMAIN trash[p] : new[i] = trash[p][i]
        BY <1>1, GrowthFacts
    <2> HIDE DEF new
    <2>3. Trashed(p, text)[p] = new /\ \A q \in Paths : q # p => Trashed(p, text)[q] = trash[q]
        BY <1>1, <2>1
    <2>4. Trashed(p, text) \in [Paths -> Seq(Text)]
        BY <1>1, <2>1, <2>2
    <2>5. ASSUME NEW q \in Paths, NEW i \in DOMAIN trash[q]
          PROVE  i \in DOMAIN Trashed(p, text)[q] /\ Trashed(p, text)[q][i] = trash[q][i]
        <3>1. CASE q = p
            BY <2>2, <2>3, <3>1
        <3>2. CASE q # p
            BY <2>3, <3>2
        <3> QED BY <3>1, <3>2
    <2>6. \A w \in text.lines : \E i \in DOMAIN Trashed(p, text)[p] : w \in Trashed(p, text)[p][i].lines
        BY <2>2, <2>3
    <2> QED BY <2>4, <2>5, <2>6
<1> QED BY <1>2, <1>3

\* Some step of turn t's own task.
Works(t) ==
    \/ Begin(t) \/ Index(t) \/ NothingFiled(t) \/ File(t) \/ Prepare(t)
    \/ Open(t) \/ Spill(t) \/ Land(t) \/ Refused(t) \/ Written(t)
    \/ Undo(t) \/ Bin(t) \/ Restore(t) \/ Reland(t) \/ UndoRefused(t) \/ Undone(t)
\* And of the linking behind its reply.
Links(t) == LinkRead(t) \/ LinkNothing(t) \/ LinkSpill(t) \/ LinkLand(t)

LEMMA StepCases ==
    ASSUME Next
    PROVE  \/ \E t \in Turns : Works(t) \/ Links(t)
           \/ \E p \in Typed : Type(p)
           \/ Crash
BY Zenon DEF Next, Works, Links

LEMMA WorkMoves == ASSUME Shaped, Ordered, NEW t \in Turns, Works(t) PROVE Moves(t)
<1>1. CASE Begin(t) \/ Index(t) \/ NothingFiled(t)
    BY <1>1, EarlyMoves
<1>2. CASE File(t)
    BY <1>2, FileMoves
<1>3. CASE Prepare(t)
    BY <1>3, PrepareMoves
<1>4. CASE Open(t)
    BY <1>4, OpenMoves
<1>5. CASE Spill(t)
    BY <1>5, SpillMoves
<1>6. CASE Land(t)
    BY <1>6, LandMoves
<1>7. CASE Refused(t) \/ UndoRefused(t) \/ Undone(t)
    BY <1>7, EndMoves
<1>8. CASE Written(t)
    BY <1>8, WrittenMoves
<1>9. CASE Undo(t)
    BY <1>9, UndoMoves
<1>10. CASE Bin(t)
    BY <1>10, BinMoves
<1>11. CASE Restore(t)
    BY <1>11, RestoreMoves
<1>12. CASE Reland(t)
    BY <1>12, RelandMoves
<1> QED BY <1>1, <1>2, <1>3, <1>4, <1>5, <1>6, <1>7, <1>8, <1>9, <1>10, <1>11, <1>12 DEF Works

\* What a turn's own step does to the records of all.
LEMMA MovesFacts ==
    ASSUME Shaped, NEW t \in Turns, Moves(t)
    PROVE  /\ job' \in [Turns -> JobRec]
           /\ \A u \in Turns : u # t => job'[u] = job[u]
           /\ Fits(t, job'[t], DOMAIN before'[t])
<1>1. job \in [Turns -> JobRec]
    BY DEF Shaped
<1>2. PICK n \in JobRec : job' = [job EXCEPT ![t] = n] /\ Fits(t, n, DOMAIN before'[t])
    BY DEF Moves
<1>3. job'[t] = n
    BY <1>1, <1>2
<1> QED BY <1>1, <1>2, <1>3

\* Only opening a file adds to what a turn remembers.
LEMMA WorkPast ==
    ASSUME Shaped, Ordered, NEW t \in Turns, Works(t)
    PROVE  /\ \A u \in Turns : u # t => before'[u] = before[u]
           /\ ~ Open(t) => before' = before
           /\ DOMAIN before' = Turns
           /\ DOMAIN before'[t] \subseteq Paths
           /\ \A p \in DOMAIN before'[t] : before'[t][p] \in Maybe(Text)
<1>0. /\ DOMAIN before = Turns /\ DOMAIN before[t] \subseteq Paths
      /\ \A p \in DOMAIN before[t] : before[t][p] \in Maybe(Text)
    BY DEF Shaped
<1>1. CASE Open(t)
    <2> DEFINE o == job'[t].plan
    <2>1. o \in PlanRec
        BY <1>1, OpenIs DEF Opening, Wise
    <2>2. /\ before'[t] = IF o.path \in DOMAIN before[t] THEN before[t]
                          ELSE Put(o.path, Read(o.path), before[t])
          /\ DOMAIN before'[t] = DOMAIN before[t] \cup {o.path}
          /\ \A u \in Turns \ {t} : before'[u] = before[u]
          /\ DOMAIN before' = Turns
        BY <1>1, OpenIs DEF Opening
    <2> HIDE DEF o
    <2>3. o.path \in Paths /\ Read(o.path) \in Maybe(Text)
        BY <2>1, ReadFacts DEF PlanRec
    <2>4. ASSUME NEW p \in DOMAIN before'[t]
          PROVE  before'[t][p] \in Maybe(Text)
        <3>1. CASE o.path \in DOMAIN before[t]
            <4>1. before'[t] = before[t] /\ p \in DOMAIN before[t]
                BY <2>2, <3>1
            <4> QED BY <1>0, <4>1
        <3>2. CASE o.path \notin DOMAIN before[t]
            <4>1. before'[t] = Put(o.path, Read(o.path), before[t])
                BY <2>2, <3>2
            <4>2. before'[t][p] = IF p = o.path THEN Read(o.path) ELSE before[t][p]
                BY <2>2, <4>1 DEF Put
            <4> QED BY <1>0, <2>2, <2>3, <4>2
        <3> QED BY <3>1, <3>2
    <2> QED BY <1>0, <1>1, <2>2, <2>3, <2>4
<1>2. CASE ~ Open(t)
    <2>1. before' = before
        BY <1>2 DEF Works, Begin, Index, NothingFiled, File, Prepare, Spill, Land, Refused, Written,
                    Undo, Bin, Restore, Reland, UndoRefused, Undone, history
    <2> QED BY <1>0, <1>2, <2>1
<1> QED BY <1>1, <1>2

LEMMA WorkVault ==
    ASSUME Shaped, Ordered, NEW t \in Turns, Works(t)
    PROVE  VaultShaped' /\ foreign' \in [Turns -> SUBSET Paths]
<1>0. /\ VaultShaped /\ foreign \in [Turns -> SUBSET Paths] /\ DOMAIN files \subseteq Paths
      /\ job[t].plan \in PlanRec /\ job[t].plan.path \in Paths
    BY PlannedPath DEF Shaped, VaultShaped
<1>1. CASE Begin(t) \/ NothingFiled(t) \/ File(t) \/ Prepare(t) \/ Refused(t) \/ Written(t)
           \/ Undo(t) \/ Restore(t) \/ UndoRefused(t) \/ Undone(t)
    <2>1. files' = files /\ spill' = spill /\ trash' = trash /\ index' = index /\ foreign' = foreign
        BY <1>1 DEF Begin, NothingFiled, File, Prepare, Refused, Written, Undo, Restore, UndoRefused,
                    Undone, disk, history
    <2> QED BY <1>0, <2>1 DEF VaultShaped
<1>2. CASE Index(t)
    <2>1. files' = files /\ spill' = spill /\ trash' = trash /\ foreign' = foreign
          /\ index' \subseteq index \cup DOMAIN files
        BY <1>2 DEF Index, disk, history
    <2> QED BY <1>0, <2>1 DEF VaultShaped
<1>3. CASE Open(t)
    <2> DEFINE act == Head(job[t].acts)
               o == job'[t].plan
    <2>1. /\ Wise(act, o) /\ trash' = Copied(act, o)
          /\ foreign' = [foreign EXCEPT ![t] = IF o.path \in DOMAIN files \ index
                                               THEN foreign[t] \cup {o.path} ELSE foreign[t]]
        BY <1>3, OpenIs DEF Opening
    <2>2. files' = files /\ spill' = spill /\ index' = index
        BY <1>3 DEF Open
    <2> HIDE DEF act, o
    <2>3. o.path \in Paths /\ o.previous \in Maybe(Text)
        BY <2>1 DEF Wise, PlanRec
    <2>4. trash' \in [Paths -> Seq(Text)]
        <3>1. CASE act.kind = "rewrite" /\ o.path = act.note
            <4>1. o.previous[1] \in Text
                BY <2>1, <2>3, <3>1, MaybeFacts DEF Wise
            <4>2. trash' = Trashed(o.path, o.previous[1])
                BY <2>1, <3>1 DEF Copied
            <4> QED BY <2>3, <4>1, <4>2, TrashedFacts
        <3>2. CASE ~ (act.kind = "rewrite" /\ o.path = act.note)
            <4>1. trash' = trash
                BY <2>1, <3>2 DEF Copied
            <4> QED BY <4>1 DEF Shaped
        <3> QED BY <3>1, <3>2
    <2>5. foreign' \in [Turns -> SUBSET Paths]
        BY <1>0, <2>1, <2>3
    <2> QED BY <1>0, <2>2, <2>4, <2>5 DEF VaultShaped
<1>4. CASE Spill(t)
    <2>1. /\ files' = files /\ trash' = trash /\ index' = index
          /\ spill' = [spill EXCEPT ![job[t].plan.path] = <<job[t].plan>>]
          /\ Meddles({t}, job[t].plan.path)
        BY <1>4 DEF Spill
    <2>2. <<job[t].plan>> \in Maybe(PlanRec)
        BY <1>0 DEF Maybe
    <2>3. spill' \in [Paths -> Maybe(PlanRec)]
        BY <1>0, <2>1, <2>2 DEF VaultShaped
    <2> QED BY <1>0, <2>1, <2>3, MeddleFacts DEF VaultShaped
<1>5. CASE Land(t) \/ Reland(t)
    <2>1. /\ spill[job[t].plan.path] # <<>> /\ Landed(job[t].plan.path) /\ trash' = trash
          /\ Meddles({t}, job[t].plan.path)
        BY <1>5 DEF Land, Reland
    <2> QED BY <1>0, <2>1, LandedShapes, MeddleFacts
<1>6. CASE Bin(t)
    <2> DEFINE p == Latest(t).path
    <2>1. /\ trash' = IF p \in DOMAIN files THEN Trashed(p, files[p]) ELSE trash
          /\ files' = [q \in DOMAIN files \ {p} |-> files[q]]
          /\ index' = index \ {p} /\ spill' = spill
          /\ Meddles({t}, p)
        BY <1>6 DEF Bin
    <2>2. p \in Paths
        <3>1. job[t].left \in DOMAIN job[t].undos /\ job[t].undos \in Seq(UndoRec)
            BY <1>6, BinMoves DEF Shaped, JobRec
        <3>2. job[t].undos[job[t].left] \in UndoRec
            BY <3>1, EntryFacts
        <3> QED BY <3>2 DEF Latest, UndoRec
    <2> HIDE DEF p
    <2>3. trash' \in [Paths -> Seq(Text)]
        <3>1. CASE p \in DOMAIN files
            <4>1. trash' = Trashed(p, files[p]) /\ files[p] \in Text
                BY <2>1, <3>1 DEF Shaped
            <4> QED BY <2>2, <4>1, TrashedFacts
        <3>2. CASE p \notin DOMAIN files
            BY <1>0, <2>1, <3>2 DEF VaultShaped
        <3> QED BY <3>1, <3>2
    <2>4. DOMAIN files' \subseteq Paths /\ \A q \in DOMAIN files' : files'[q] \in Text
        BY <1>0, <2>1 DEF VaultShaped
    <2>5. foreign' \in [Turns -> SUBSET Paths]
        BY <2>1, <2>2, MeddleFacts
    <2> QED BY <1>0, <2>1, <2>3, <2>4, <2>5 DEF VaultShaped
<1> QED BY <1>1, <1>2, <1>3, <1>4, <1>5, <1>6 DEF Works

LEMMA WorkLinks ==
    ASSUME Shaped, Ordered, NEW t \in Turns, Works(t)
    PROVE  /\ LinksShaped'
           /\ \A u \in Turns : job'[u].pc \in Early \cup Writing => link'[u].todo = <<>>
           /\ \A u \in Turns : link'[u].pc = link[u].pc /\ link'[u].seen = link[u].seen
           /\ ~ Written(t) => link' = link
<1>0. /\ link \in [Turns -> LinkRec] /\ job[t] \in JobRec
      /\ \A u \in Turns : link[u].pc # "idle" => link[u].todo # <<>>
      /\ \A u \in Turns : job[u].pc \in Early \cup Writing => link[u].todo = <<>>
    BY DEF Shaped, Ordered
<1>m. /\ \A u \in Turns : u # t => job'[u] = job[u]
    BY WorkMoves, MovesFacts
<1>1. CASE Written(t)
    <2>1. PICK todo \in {<<>>, [i \in DOMAIN job[t].undos |-> job[t].undos[i].path]} :
            link' = [link EXCEPT ![t].todo = todo]
        BY <1>1 DEF Written
    <2>2. todo \in Seq(Paths)
        <3>1. job[t].undos \in Seq(UndoRec)
            BY <1>0 DEF JobRec
        <3>2. /\ DOMAIN job[t].undos = 1 .. Len(job[t].undos) /\ Len(job[t].undos) \in Nat
              /\ \A i \in DOMAIN job[t].undos : job[t].undos[i] \in UndoRec
            BY <3>1, EntryFacts
        <3>3. \A i \in DOMAIN job[t].undos : job[t].undos[i].path \in Paths
            BY <3>2 DEF UndoRec
        <3>4. CASE todo = <<>>
            BY <3>4
        <3>5. CASE todo = [i \in DOMAIN job[t].undos |-> job[t].undos[i].path]
            <4> DEFINE m == Len(job[t].undos)
            <4>1. todo = [i \in 1 .. m |-> job[t].undos[i].path] /\ m \in Nat
                BY <3>2, <3>5
            <4>2. \A i \in 1 .. m : job[t].undos[i].path \in Paths
                BY <3>2, <3>3
            <4> HIDE DEF m
            <4>3. todo \in [1 .. m -> Paths]
                BY <4>1, <4>2
            <4> QED BY <4>1, <4>3, SeqDef
        <3> QED BY <2>1, <3>4, <3>5
    <2>3. link' = [link EXCEPT ![t] = [link[t] EXCEPT !.todo = todo]]
        BY <2>1
    <2> DEFINE l == [link[t] EXCEPT !.todo = todo]
    <2>4. l \in LinkRec /\ l.pc = link[t].pc /\ l.seen = link[t].seen
        BY <1>0, <2>2 DEF LinkRec
    <2> HIDE DEF l
    <2>5. link' \in [Turns -> LinkRec] /\ link'[t] = l /\ \A u \in Turns : u # t => link'[u] = link[u]
        BY <1>0, <2>3, <2>4 DEF l
    <2>6. link[t].pc = "idle"
        <3>1. job[t].pc = "writing"
            BY <1>1 DEF Written
        <3> QED BY <1>0, <3>1, PcFacts DEF Writing
    <2>7. job'[t].pc = "done"
        BY <1>1, WrittenMoves
    <2>8. \A u \in Turns : link'[u].pc # "idle" => link'[u].todo # <<>>
        <3> SUFFICES ASSUME NEW u \in Turns, link'[u].pc # "idle" PROVE link'[u].todo # <<>>
            OBVIOUS
        <3>1. u # t
            BY <2>4, <2>5, <2>6
        <3> QED BY <1>0, <2>5, <3>1
    <2>9. \A u \in Turns : job'[u].pc \in Early \cup Writing => link'[u].todo = <<>>
        <3> SUFFICES ASSUME NEW u \in Turns, job'[u].pc \in Early \cup Writing PROVE link'[u].todo = <<>>
            OBVIOUS
        <3>1. u # t
            BY <2>7, PcFacts DEF Writing
        <3> QED BY <1>0, <1>m, <2>5, <3>1
    <2>10. \A u \in Turns : link'[u].pc = link[u].pc /\ link'[u].seen = link[u].seen
        BY <2>4, <2>5
    <2> QED BY <1>1, <2>5, <2>8, <2>9, <2>10 DEF LinksShaped
<1>2. CASE ~ Written(t)
    <2>1. link' = link
        BY <1>2 DEF Works, Begin, Index, NothingFiled, File, Prepare, Open, Spill, Land, Refused,
                    Undo, Bin, Restore, Reland, UndoRefused, Undone
    <2>2. job'[t].pc \in Early \cup Writing => job[t].pc \in Early \cup Writing
        <3>1. CASE Begin(t) \/ Index(t) \/ NothingFiled(t)
            BY <3>1, EarlyFields
        <3>2. CASE File(t)
            BY <3>2, FileFields
        <3>3. CASE Prepare(t) \/ Open(t)
            BY <3>3, PrepareFields, OpenFields DEF Writing
        <3>4. CASE Spill(t)
            <4>1. job[t].pc \in {"opened", "restoring"}
                BY <3>4 DEF Spill
            <4> QED BY <3>4, <4>1, SpillMoves, PcFacts DEF Writing
        <3>5. CASE Land(t)
            BY <3>5 DEF Land, Writing
        <3>6. CASE Refused(t) \/ UndoRefused(t) \/ Undone(t)
            BY <3>6, EndMoves, PcFacts DEF Writing
        <3>7. CASE Undo(t) \/ Bin(t) \/ Restore(t) \/ Reland(t)
            BY <3>7, UndoMoves, BinMoves, RestoreMoves, RelandMoves, PcFacts DEF Writing
        <3> QED BY <1>2, <3>1, <3>2, <3>3, <3>4, <3>5, <3>6, <3>7 DEF Works
    <2>3. \A u \in Turns : job'[u].pc \in Early \cup Writing => link[u].todo = <<>>
        BY <1>0, <1>m, <2>2
    <2> QED BY <1>0, <1>2, <2>1, <2>3 DEF LinksShaped
<1> QED BY <1>1, <1>2

\* What the linking does: never to the turns' records, nor to what they remember.
LEMMA LinkWorks ==
    ASSUME Shaped, Ordered, NEW t \in Turns, Links(t)
    PROVE  /\ job' = job /\ before' = before /\ trash' = trash
           /\ VaultShaped' /\ LinksShaped' /\ foreign' \in [Turns -> SUBSET Paths]
           /\ \A u \in Turns : u # t => link'[u] = link[u]
           /\ link[t].todo = <<>> => link'[t].todo = <<>>
<1>0. /\ link \in [Turns -> LinkRec] /\ VaultShaped /\ foreign \in [Turns -> SUBSET Paths]
      /\ \A u \in Turns : link[u].pc # "idle" => link[u].todo # <<>>
      /\ link[t] \in LinkRec
    BY DEF Shaped, VaultShaped
<1>t. link[t].todo # <<>>
    <2>1. CASE LinkRead(t)
        BY <2>1 DEF LinkRead
    <2>2. CASE LinkNothing(t) \/ LinkSpill(t) \/ LinkLand(t)
        <3>1. link[t].pc # "idle"
            BY <2>2 DEF LinkNothing, LinkSpill, LinkLand
        <3> QED BY <1>0, <3>1
    <2> QED BY <2>1, <2>2 DEF Links
<1>p. Head(link[t].todo) \in Paths /\ Tail(link[t].todo) \in Seq(Paths)
    BY <1>t, LinkedPath
<1>n. LinkNext(t) \in LinkRec /\ LinkNext(t).pc = "idle"
    BY <1>p, TextFacts DEF LinkNext, Unlinked, LinkRec
<1>j. job' = job /\ before' = before /\ trash' = trash
    BY DEF Links, LinkRead, LinkNothing, LinkSpill, LinkLand, disk, history
<1>1. ASSUME NEW l \in LinkRec, link' = [link EXCEPT ![t] = l], l.pc # "idle" => l.todo # <<>>
      PROVE  LinksShaped' /\ \A u \in Turns : u # t => link'[u] = link[u]
    <2>1. link' \in [Turns -> LinkRec] /\ link'[t] = l /\ \A u \in Turns : u # t => link'[u] = link[u]
        BY <1>0, <1>1
    <2>2. ASSUME NEW u \in Turns, link'[u].pc # "idle"
          PROVE  link'[u].todo # <<>>
        <3>1. CASE u = t
            BY <1>1, <2>1, <2>2, <3>1
        <3>2. CASE u # t
            BY <1>0, <2>1, <2>2, <3>2
        <3> QED BY <3>1, <3>2
    <2> QED BY <2>1, <2>2 DEF LinksShaped
<1>2. LinksShaped' /\ \A u \in Turns : u # t => link'[u] = link[u]
    <2>1. CASE LinkRead(t)
        <3> DEFINE p == Head(link[t].todo)
        <3>1. CASE p \in DOMAIN files \ Skipped
            <4> DEFINE l == [link[t] EXCEPT !.pc = "asking", !.seen = files[p]]
            <4>1. link' = [link EXCEPT ![t] = l]
                BY <2>1, <3>1 DEF LinkRead
            <4>2. files[p] \in Text
                BY <3>1 DEF Shaped
            <4>3. l \in LinkRec /\ l.todo # <<>>
                BY <1>0, <1>t, <4>2 DEF LinkRec
            <4> HIDE DEF l
            <4> QED BY <1>1, <4>1, <4>3
        <3>2. CASE p \notin DOMAIN files \ Skipped
            <4> DEFINE l == [link[t] EXCEPT !.todo = Tail(link[t].todo)]
            <4>1. link' = [link EXCEPT ![t] = l]
                BY <2>1, <3>2 DEF LinkRead
            <4>2. l \in LinkRec /\ l.pc = "idle"
                BY <1>0, <1>p, <2>1 DEF LinkRec, LinkRead
            <4> HIDE DEF l
            <4> QED BY <1>1, <4>1, <4>2
        <3> QED BY <3>1, <3>2
    <2>2. CASE LinkNothing(t) \/ LinkLand(t)
        <3>1. link' = [link EXCEPT ![t] = LinkNext(t)]
            BY <2>2 DEF LinkNothing, LinkLand
        <3> QED BY <1>1, <1>n, <3>1
    <2>3. CASE LinkSpill(t)
        <3> DEFINE new == [link[t].seen EXCEPT !.linked = link[t].seen.lines]
                   l == [link[t] EXCEPT !.pc = "spilled", !.new = new]
        <3>1. link' = [link EXCEPT ![t] = l]
            BY <2>3 DEF LinkSpill
        <3>2. new \in Text
            BY <1>0 DEF LinkRec, Text
        <3> HIDE DEF new
        <3>3. l \in LinkRec /\ l.todo # <<>>
            BY <1>0, <1>t, <3>2 DEF LinkRec
        <3> HIDE DEF l
        <3> QED BY <1>1, <3>1, <3>3
    <2> QED BY <2>1, <2>2, <2>3 DEF Links
<1>3. VaultShaped' /\ foreign' \in [Turns -> SUBSET Paths]
    <2> DEFINE p == Head(link[t].todo)
    <2>1. CASE LinkRead(t) \/ LinkNothing(t)
        <3>1. files' = files /\ spill' = spill /\ index' = index /\ foreign' = foreign
            BY <2>1 DEF LinkRead, LinkNothing, disk, history
        <3> QED BY <1>0, <1>j, <3>1 DEF VaultShaped
    <2>2. CASE LinkSpill(t)
        <3> DEFINE new == [link[t].seen EXCEPT !.linked = link[t].seen.lines]
                   plan == Plan(p, <<>>, new, link[t].seen.lines)
        <3>1. /\ files' = files /\ index' = index /\ spill' = [spill EXCEPT ![p] = <<plan>>]
              /\ Meddles(Owners(t), p)
            BY <2>2 DEF LinkSpill
        <3>2. new \in Text /\ link[t].seen.lines \in SUBSET Line /\ <<>> \in Maybe(Text)
            BY <1>0 DEF LinkRec, Text, Maybe
        <3>3. plan \in PlanRec
            BY <1>p, <3>2, PlanFacts
        <3> HIDE DEF plan
        <3>4. <<plan>> \in Maybe(PlanRec)
            BY <3>3 DEF Maybe
        <3>5. spill' \in [Paths -> Maybe(PlanRec)]
            BY <1>0, <1>p, <3>1, <3>4 DEF VaultShaped
        <3> QED BY <1>0, <1>j, <1>p, <3>1, <3>5, MeddleFacts DEF VaultShaped
    <2>3. CASE LinkLand(t) /\ spill[p] = <<>>
        <3>1. files' = files /\ spill' = spill /\ index' = index /\ foreign' = foreign
            BY <2>3 DEF LinkLand
        <3> QED BY <1>0, <1>j, <3>1 DEF VaultShaped
    <2>4. CASE LinkLand(t) /\ spill[p] # <<>>
        <3>1. Landed(p) /\ Meddles(Owners(t), p)
            BY <2>4 DEF LinkLand
        <3> QED BY <1>j, <1>p, <2>4, <3>1, LandedShapes, MeddleFacts
    <2> QED BY <2>1, <2>2, <2>3, <2>4 DEF Links
<1> QED BY <1>t, <1>j, <1>2, <1>3

\* What the user's typing does.
LEMMA TypeWorks ==
    ASSUME Shaped, NEW p \in Typed, Type(p)
    PROVE  /\ job' = job /\ before' = before /\ trash' = trash /\ link' = link /\ spill' = spill
           /\ unseen' = unseen /\ index' = index
           /\ p \in Paths /\ DOMAIN files' = DOMAIN files \cup {p}
           /\ files'[p].lines = LinesOf(Read(p)) \cup {Hand}
           /\ \A q \in DOMAIN files : q # p => files'[q] = files[q]
           /\ VaultShaped' /\ foreign' \in [Turns -> SUBSET Paths]
           /\ \A u \in Turns : /\ foreign[u] \subseteq foreign'[u]
                               /\ p \in DOMAIN before[u] => p \in foreign'[u]
           /\ written' = written \cup {Hand}
<1>0. VaultShaped /\ foreign \in [Turns -> SUBSET Paths] /\ p \in Paths /\ Hand \in Line
    BY TypedArePaths DEF Shaped, VaultShaped, Line
<1>1. /\ job' = job /\ before' = before /\ trash' = trash /\ link' = link /\ spill' = spill
      /\ unseen' = unseen /\ index' = index /\ written' = written \cup {Hand}
      /\ files' = Put(p, With(OrBlank(Read(p)), Hand), files)
      /\ foreign' = [u \in Turns |-> IF p \in DOMAIN before[u] THEN foreign[u] \cup {p} ELSE foreign[u]]
    BY DEF Type
<1> DEFINE new == With(OrBlank(Read(p)), Hand)
<1>2. new \in Text /\ new.lines = LinesOf(Read(p)) \cup {Hand}
    BY <1>0, ReadFacts, TextFacts DEF LinesOf
<1> HIDE DEF new
<1>3. /\ DOMAIN files' = DOMAIN files \cup {p} /\ files'[p] = new
      /\ \A q \in DOMAIN files : q # p => files'[q] = files[q]
    BY <1>1 DEF Put, new
<1>4. DOMAIN files' \subseteq Paths /\ \A q \in DOMAIN files' : files'[q] \in Text
    <2> SUFFICES ASSUME NEW q \in DOMAIN files' PROVE q \in Paths /\ files'[q] \in Text
        OBVIOUS
    <2>1. CASE q = p
        BY <1>0, <1>2, <1>3, <2>1
    <2>2. CASE q # p
        BY <1>0, <1>3, <2>2 DEF VaultShaped
    <2> QED BY <2>1, <2>2
<1>5. ASSUME NEW u \in Turns
      PROVE  /\ foreign'[u] \in SUBSET Paths /\ foreign[u] \subseteq foreign'[u]
             /\ p \in DOMAIN before[u] => p \in foreign'[u]
    <2>1. CASE p \in DOMAIN before[u]
        <3>1. foreign'[u] = foreign[u] \cup {p}
            BY <1>1, <2>1
        <3> QED BY <1>0, <2>1, <3>1
    <2>2. CASE p \notin DOMAIN before[u]
        <3>1. foreign'[u] = foreign[u]
            BY <1>1, <2>2
        <3> QED BY <1>0, <2>2, <3>1
    <2> QED BY <2>1, <2>2
<1>6. foreign' \in [Turns -> SUBSET Paths]
    <2>1. foreign' = [u \in Turns |-> foreign'[u]]
        BY <1>1
    <2>2. \A u \in Turns : foreign'[u] \in SUBSET Paths
        BY <1>5
    <2> QED BY <2>1, <2>2
<1>7. VaultShaped'
    BY <1>0, <1>1, <1>4 DEF VaultShaped
<1> QED BY <1>0, <1>1, <1>2, <1>3, <1>5, <1>6, <1>7

\* What a crash leaves: a turn as it was, a turn that is done again with its undos, or a dead one.
LEMMA CrashWorks ==
    ASSUME Shaped, Ordered, Crash
    PROVE  /\ files' = files /\ spill' = spill /\ trash' = trash /\ before' = before
           /\ foreign' = foreign /\ unseen' = unseen /\ written' = written
           /\ index' = {} /\ link' = [t \in Turns |-> Unlinked]
           /\ job' \in [Turns -> JobRec]
           /\ \A t \in Turns :
                /\ Fits(t, job'[t], DOMAIN before[t])
                /\ \/ job'[t] = job[t]
                   \/ /\ job'[t].pc = "done" /\ job'[t].acts = job[t].acts
                      /\ job'[t].undos = job[t].undos /\ job'[t].plan = NoPlan
                      /\ job'[t].refused = job[t].refused /\ job'[t].wished = job[t].wished
                      /\ job[t].wished /\ Busy(t)
                   \/ /\ job'[t].pc = "dead" /\ job'[t].acts = <<>> /\ job'[t].undos = <<>>
                      /\ job'[t].plan = NoPlan /\ ~ job[t].wished /\ ~ job'[t].refused
                      /\ ~ job'[t].wished
<1>1. /\ files' = files /\ spill' = spill /\ trash' = trash /\ before' = before
      /\ foreign' = foreign /\ unseen' = unseen /\ written' = written
      /\ index' = {} /\ link' = [t \in Turns |-> Unlinked]
      /\ job' = [t \in Turns |->
             IF job[t].wished /\ Busy(t) THEN [job[t] EXCEPT !.pc = "done", !.left = 0, !.plan = NoPlan]
             ELSE IF Busy(t) THEN [Idle EXCEPT !.pc = "dead", !.asked = job[t].asked]
             ELSE job[t]]
    BY DEF Crash, disk, history
<1>2. ASSUME NEW t \in Turns
      PROVE  /\ job'[t] \in JobRec
             /\ Fits(t, job'[t], DOMAIN before[t])
             /\ \/ job'[t] = job[t]
                \/ /\ job'[t].pc = "done" /\ job'[t].acts = job[t].acts
                   /\ job'[t].undos = job[t].undos /\ job'[t].plan = NoPlan
                   /\ job'[t].refused = job[t].refused /\ job'[t].wished = job[t].wished
                   /\ job[t].wished /\ Busy(t)
                \/ /\ job'[t].pc = "dead" /\ job'[t].acts = <<>> /\ job'[t].undos = <<>>
                   /\ job'[t].plan = NoPlan /\ ~ job[t].wished /\ ~ job'[t].refused
                   /\ ~ job'[t].wished
    <2>0. job[t] \in JobRec /\ Fits(t, job[t], DOMAIN before[t])
        BY DEF Shaped, Ordered
    <2>1. CASE ~ Busy(t)
        <3>1. job'[t] = job[t]
            BY <1>1, <2>1
        <3> QED BY <2>0, <3>1
    <2>2. CASE Busy(t) /\ job[t].wished
        <3> DEFINE n == [job[t] EXCEPT !.pc = "done", !.left = 0, !.plan = NoPlan]
        <3>1. job'[t] = n
            BY <1>1, <2>2
        <3>2. n \in JobRec
            BY <2>0, NothingPlanned, PcFacts DEF JobRec
        <3>3. /\ n.pc = "done" /\ n.acts = job[t].acts /\ n.undos = job[t].undos /\ n.plan = NoPlan
              /\ n.wished = job[t].wished
            BY <2>0 DEF JobRec
        <3>4. n.refused = job[t].refused
            BY <2>0 DEF JobRec
        <3> HIDE DEF n
        <3>5. Fits(t, n, DOMAIN before[t])
            BY <2>0, <3>3, PcFacts DEF Fits
        <3> QED BY <2>2, <3>1, <3>2, <3>3, <3>4, <3>5
    <2>3. CASE Busy(t) /\ ~ job[t].wished
        <3> DEFINE n == [Idle EXCEPT !.pc = "dead", !.asked = job[t].asked]
        <3>1. job'[t] = n
            BY <1>1, <2>3
        <3>2. job[t].asked \in Nat /\ <<>> \in Seq(ActRec) /\ <<>> \in Seq(UndoRec) /\ 0 \in Nat
              /\ {} \in SUBSET Paths
            BY <2>0 DEF JobRec
        <3>3. n \in JobRec
            BY <3>2, NothingPlanned, PcFacts DEF JobRec, Idle
        <3>4. /\ n.pc = "dead" /\ n.acts = <<>> /\ n.undos = <<>> /\ n.plan = NoPlan
              /\ ~ n.wished /\ ~ n.refused
            BY DEF Idle
        <3> HIDE DEF n
        <3>5. Fits(t, n, DOMAIN before[t])
            <4>1. Len(<<>>) + Len(<<>>) <= MaxActions /\ DOMAIN (<<>>) = {}
                BY Bounds
            <4> QED BY <3>4, <4>1, PcFacts DEF Fits
        <3> QED BY <2>3, <3>1, <3>3, <3>4, <3>5
    <2> QED BY <2>1, <2>2, <2>3
<1>3. job' \in [Turns -> JobRec]
    <2>1. job' = [t \in Turns |-> job'[t]]
        BY <1>1
    <2>2. \A t \in Turns : job'[t] \in JobRec
        BY <1>2
    <2> QED BY <2>1, <2>2
<1> QED BY <1>1, <1>2, <1>3

LEMMA StartShapes == ASSUME Init PROVE Shaped /\ Ordered
<1>1. /\ <<>> \in Seq(ActRec) /\ <<>> \in Seq(UndoRec) /\ <<>> \in Seq(Text) /\ <<>> \in Seq(Paths)
      /\ <<>> \in Maybe(PlanRec) /\ Old \in Line
    BY DEF Maybe, Line
<1>2. Idle \in JobRec
    BY <1>1, NothingPlanned, PcFacts DEF Idle, JobRec
<1>3. Unlinked \in LinkRec /\ Unlinked.pc = "idle" /\ Unlinked.todo = <<>>
    BY <1>1, TextFacts DEF Unlinked, LinkRec
<1>4. 1 \in DOMAIN Names => Names[1] \in Paths
    BY DEF Paths, Notes
<1>5. /\ DOMAIN files \subseteq Paths /\ \A p \in DOMAIN files : files[p] \in Text
    BY <1>1, <1>4, NamesAreThere, TextFacts DEF Init
<1>6. /\ spill \in [Paths -> Maybe(PlanRec)] /\ trash \in [Paths -> Seq(Text)] /\ index \subseteq Paths
      /\ job \in [Turns -> JobRec] /\ link \in [Turns -> LinkRec]
      /\ foreign \in [Turns -> SUBSET Paths]
    BY <1>1, <1>2, <1>3 DEF Init
<1>7. /\ DOMAIN before = Turns /\ \A t \in Turns : DOMAIN before[t] = {}
      /\ \A t \in Turns : link[t].pc = "idle" /\ link[t].todo = <<>>
    BY <1>3 DEF Init
<1>8. \A t \in Turns : Fits(t, job[t], DOMAIN before[t])
    <2> SUFFICES ASSUME NEW t \in Turns PROVE Fits(t, job[t], DOMAIN before[t])
        OBVIOUS
    <2>1. job[t].pc = "idle" /\ job[t].acts = <<>> /\ job[t].undos = <<>>
        BY DEF Init, Idle
    <2>2. Len(<<>>) + Len(<<>>) <= MaxActions /\ DOMAIN (<<>>) = {}
        BY Bounds
    <2> QED BY <1>7, <2>1, <2>2, PcFacts DEF Fits
<1> QED BY <1>5, <1>6, <1>7, <1>8 DEF Shaped, Ordered

LEMMA StepShapes == ASSUME Shaped, Ordered, [Next]_vars PROVE Shaped' /\ Ordered'
<1>0. PastShaped /\ (\A u \in Turns : Fits(u, job[u], DOMAIN before[u]))
      /\ (\A u \in Turns : job[u].pc \in Early \cup Writing => link[u].todo = <<>>)
      /\ job \in [Turns -> JobRec] /\ LinksShaped
    BY DEF Shaped, Ordered, PastShaped, LinksShaped
<1>1. ASSUME NEW t \in Turns, Works(t)
      PROVE  Shaped' /\ Ordered'
    <2>1. VaultShaped' /\ foreign' \in [Turns -> SUBSET Paths]
        BY <1>1, WorkVault
    <2>2. LinksShaped' /\ \A u \in Turns : job'[u].pc \in Early \cup Writing => link'[u].todo = <<>>
        BY <1>1, WorkLinks
    <2>3. /\ job' \in [Turns -> JobRec] /\ \A u \in Turns : u # t => job'[u] = job[u]
          /\ Fits(t, job'[t], DOMAIN before'[t])
        BY <1>1, WorkMoves, MovesFacts
    <2>4. /\ \A u \in Turns : u # t => before'[u] = before[u]
          /\ DOMAIN before' = Turns
          /\ DOMAIN before'[t] \subseteq Paths
          /\ \A p \in DOMAIN before'[t] : before'[t][p] \in Maybe(Text)
        BY <1>1, WorkPast
    <2>5. PastShaped'
        BY <1>0, <2>1, <2>4 DEF PastShaped
    <2>6. \A u \in Turns : Fits(u, job'[u], DOMAIN before'[u])
        <3> SUFFICES ASSUME NEW u \in Turns PROVE Fits(u, job'[u], DOMAIN before'[u])
            OBVIOUS
        <3>1. CASE u = t
            BY <2>3, <3>1
        <3>2. CASE u # t
            BY <1>0, <2>3, <2>4, <3>2
        <3> QED BY <3>1, <3>2
    <2> QED BY <2>1, <2>2, <2>3, <2>5, <2>6
            DEF Shaped, Ordered, VaultShaped, LinksShaped, PastShaped
<1>2. ASSUME NEW t \in Turns, Links(t)
      PROVE  Shaped' /\ Ordered'
    <2>1. /\ job' = job /\ before' = before
          /\ VaultShaped' /\ LinksShaped' /\ foreign' \in [Turns -> SUBSET Paths]
          /\ \A u \in Turns : u # t => link'[u] = link[u]
          /\ link[t].todo = <<>> => link'[t].todo = <<>>
        BY <1>2, LinkWorks
    <2>2. \A u \in Turns : link[u].todo = <<>> => link'[u].todo = <<>>
        BY <2>1
    <2>3. PastShaped'
        BY <1>0, <2>1 DEF PastShaped
    <2> QED BY <1>0, <2>1, <2>2, <2>3 DEF Shaped, Ordered, VaultShaped, LinksShaped, PastShaped
<1>3. ASSUME NEW p \in Typed, Type(p)
      PROVE  Shaped' /\ Ordered'
    <2>1. /\ job' = job /\ before' = before /\ link' = link
          /\ VaultShaped' /\ foreign' \in [Turns -> SUBSET Paths]
        BY <1>3, TypeWorks
    <2>2. PastShaped'
        BY <1>0, <2>1 DEF PastShaped
    <2> QED BY <1>0, <2>1, <2>2 DEF Shaped, Ordered, VaultShaped, LinksShaped, PastShaped
<1>4. CASE Crash
    <2>1. /\ files' = files /\ spill' = spill /\ trash' = trash /\ before' = before
          /\ foreign' = foreign /\ index' = {} /\ link' = [t \in Turns |-> Unlinked]
          /\ job' \in [Turns -> JobRec] /\ \A t \in Turns : Fits(t, job'[t], DOMAIN before[t])
        BY <1>4, CrashWorks
    <2>2. Unlinked \in LinkRec /\ Unlinked.pc = "idle" /\ Unlinked.todo = <<>>
        <3>1. <<>> \in Seq(Paths)
            OBVIOUS
        <3> QED BY <3>1, TextFacts DEF Unlinked, LinkRec
    <2>3. LinksShaped' /\ \A u \in Turns : link'[u].todo = <<>>
        BY <2>1, <2>2 DEF LinksShaped
    <2>4. VaultShaped' /\ PastShaped'
        BY <1>0, <2>1 DEF PastShaped, VaultShaped, Shaped
    <2> QED BY <1>0, <2>1, <2>3, <2>4 DEF Shaped, Ordered, VaultShaped, LinksShaped, PastShaped
<1>5. CASE UNCHANGED vars
    BY <1>5 DEF vars, Shaped, Ordered
<1> QED BY <1>1, <1>2, <1>3, <1>4, <1>5, StepCases

----------------------------------------------------------------------------
(* Nothing is lost. *)

\* In the trash for good, or wanted gone.
Safe(w) ==
    \/ \E p \in Paths : \E i \in DOMAIN trash[p] : w \in trash[p][i].lines
    \/ \E u \in Turns : job[u].wished /\ w \in OwnWords(u)
InFiles(w) == \E p \in DOMAIN files : w \in files[p].lines

\* A text on its way to a file leaves out no line its author knew of, unless that line is safe.
Accounted ==
    /\ \A p \in Paths : spill[p] # <<>> =>
           \A w \in spill[p][1].seen \ spill[p][1].new.lines : Safe(w)
    /\ \A t \in Turns : \A w \in job[t].plan.seen \ job[t].plan.new.lines : Safe(w)
    /\ \A w \in written : InFiles(w) \/ Safe(w) \/ w \in unseen

LEMMA SafeStays ==
    ASSUME NEW w, Safe(w),
           \A p \in Paths : \A i \in DOMAIN trash[p] : i \in DOMAIN trash'[p] /\ trash'[p][i] = trash[p][i],
           \A u \in Turns : job[u].wished => job'[u].wished
    PROVE  Safe(w)'
BY DEF Safe

\* What every step must show.
LEMMA AccountKept ==
    ASSUME Accounted,
           \A w : Safe(w) => Safe(w)',
           \A p \in Paths : \/ spill'[p] = spill[p] \/ spill'[p] = <<>>
                            \/ \A w \in spill'[p][1].seen \ spill'[p][1].new.lines : Safe(w)',
           \A t \in Turns : \/ job'[t].plan = job[t].plan
                            \/ \A w \in job'[t].plan.seen \ job'[t].plan.new.lines : Safe(w)',
           \A w \in written' : w \in written \/ InFiles(w)' \/ w \in unseen',
           unseen \subseteq unseen',
           \A w : InFiles(w) => InFiles(w)' \/ Safe(w)' \/ w \in unseen'
    PROVE  Accounted'
<1>1. ASSUME NEW p \in Paths, spill'[p] # <<>>, NEW w \in spill'[p][1].seen \ spill'[p][1].new.lines
      PROVE  Safe(w)'
    BY <1>1 DEF Accounted
<1>2. ASSUME NEW t \in Turns, NEW w \in job'[t].plan.seen \ job'[t].plan.new.lines
      PROVE  Safe(w)'
    BY <1>2 DEF Accounted
<1>3. ASSUME NEW w \in written'
      PROVE  InFiles(w)' \/ Safe(w)' \/ w \in unseen'
    <2>1. CASE w \in written
        BY <2>1 DEF Accounted
    <2>2. CASE w \notin written
        BY <1>3, <2>2
    <2> QED BY <2>1, <2>2
<1> QED BY <1>1, <1>2, <1>3 DEF Accounted

\* What lands over a file: its lines stay, were known to the writer, or are noted as unseen.
LEMMA LandedKeeps ==
    ASSUME Shaped, Accounted, NEW p \in Paths, spill[p] # <<>>, Landed(p), NEW new, Overwritten(p, new),
           \A w : Safe(w) => Safe(w)'
    PROVE  /\ unseen \subseteq unseen'
           /\ \A w : InFiles(w) => InFiles(w)' \/ Safe(w)' \/ w \in unseen'
           /\ \A w \in new.lines : InFiles(w)' \/ w \in unseen'
           /\ \A q \in Paths : spill'[q] = spill[q] \/ spill'[q] = <<>>
<1>1. /\ spill[p][1] \in PlanRec
      /\ DOMAIN files' = DOMAIN files \cup {p} /\ files'[p] = spill[p][1].new
      /\ \A q \in DOMAIN files : q # p => files'[q] = files[q]
      /\ spill' = [spill EXCEPT ![p] = <<>>]
    BY LandedFacts
<1>2. unseen' = unseen \cup (((LinesOf(Read(p)) \ spill[p][1].seen) \cup new.lines)
                                 \ spill[p][1].new.lines)
    BY DEF Overwritten
<1>3. \A w \in spill[p][1].new.lines : InFiles(w)'
    BY <1>1 DEF InFiles
<1>4. \A w \in spill[p][1].seen \ spill[p][1].new.lines : Safe(w)'
    BY DEF Accounted
<1>5. ASSUME NEW w, InFiles(w)
      PROVE  InFiles(w)' \/ Safe(w)' \/ w \in unseen'
    <2>1. PICK q \in DOMAIN files : w \in files[q].lines
        BY <1>5 DEF InFiles
    <2>2. CASE q # p
        BY <1>1, <2>1, <2>2 DEF InFiles
    <2>3. CASE q = p
        <3>1. w \in LinesOf(Read(p))
            BY <2>1, <2>3, ReadFacts DEF LinesOf
        <3> QED BY <1>2, <1>3, <1>4, <3>1
    <2> QED BY <2>2, <2>3
<1>6. \A w \in new.lines : InFiles(w)' \/ w \in unseen'
    BY <1>2, <1>3
<1>7. \A q \in Paths : spill'[q] = spill[q] \/ spill'[q] = <<>>
    BY <1>1 DEF Shaped
<1> QED BY <1>2, <1>5, <1>6, <1>7

\* A turn's wish stands.
LEMMA WishStays ==
    ASSUME Shaped, Ordered, NEW t \in Turns, Works(t), job[t].wished
    PROVE  job'[t].wished
<1>1. CASE Begin(t) \/ Index(t) \/ NothingFiled(t)
    BY <1>1, EarlyFields DEF Alike
<1>2. CASE File(t) \/ Prepare(t)
    BY <1>2, FileFields, PrepareFields DEF Alike
<1>3. CASE Open(t)
    BY <1>3, OpenFields
<1>4. CASE Spill(t) \/ Written(t)
    BY <1>4, SpillMoves, WrittenMoves DEF Alike
<1>5. CASE Refused(t) \/ UndoRefused(t) \/ Undone(t)
    BY <1>5, EndMoves
<1>6. CASE Land(t) \/ Undo(t) \/ Bin(t) \/ Restore(t) \/ Reland(t)
    BY <1>6, LandMoves, UndoMoves, BinMoves, RestoreMoves, RelandMoves
<1> QED BY <1>1, <1>2, <1>3, <1>4, <1>5, <1>6 DEF Works

\* What is copied before a rewrite.
LEMMA CopiedFacts ==
    ASSUME Shaped, NEW act, NEW o, Wise(act, o)
    PROVE  /\ \A q \in Paths : \A i \in DOMAIN trash[q] :
                i \in DOMAIN Copied(act, o)[q] /\ Copied(act, o)[q][i] = trash[q][i]
           /\ \A w \in o.seen \ o.new.lines : \E i \in DOMAIN Copied(act, o)[o.path] :
                w \in Copied(act, o)[o.path][i].lines
           /\ o \in PlanRec /\ o.path \in Paths
<1>1. o \in PlanRec /\ o.path \in Paths /\ o.previous \in Maybe(Text)
    BY DEF Wise, PlanRec
<1>2. CASE act.kind = "rewrite" /\ o.path = act.note
    <2> DEFINE p == o.path
               text == o.previous[1]
               new == Trashed(p, text)
    <2>1. text \in Text /\ Copied(act, o) = new /\ p \in Paths
        BY <1>1, <1>2, MaybeFacts DEF Wise, Copied
    <2>2. \A w \in o.seen \ o.new.lines : w \in text.lines
        BY DEF Wise
    <2> HIDE DEF p, text
    <2>3. /\ \A q \in Paths : \A i \in DOMAIN trash[q] : i \in DOMAIN new[q] /\ new[q][i] = trash[q][i]
          /\ \A w \in text.lines : \E i \in DOMAIN new[p] : w \in new[p][i].lines
        BY <2>1, TrashedFacts
    <2> HIDE DEF new
    <2>4. \A w \in o.seen \ o.new.lines : \E i \in DOMAIN new[p] : w \in new[p][i].lines
        BY <2>2, <2>3
    <2>5. p = o.path
        BY DEF p
    <2> QED BY <1>1, <2>1, <2>3, <2>4, <2>5
<1>3. CASE ~ (act.kind = "rewrite" /\ o.path = act.note)
    <2>1. Copied(act, o) = trash
        BY <1>3 DEF Copied
    <2>2. o.seen \subseteq o.new.lines
        BY <1>3 DEF Wise
    <2> QED BY <1>1, <2>1, <2>2
<1> QED BY <1>2, <1>3

LEMMA SafeGrows ==
    ASSUME Shaped, Ordered, Next, NEW w, Safe(w)
    PROVE  Safe(w)'
<1>1. ASSUME NEW t \in Turns, Works(t)
      PROVE  Safe(w)'
    <2>1. \A u \in Turns : job[u].wished => job'[u].wished
        <3> SUFFICES ASSUME NEW u \in Turns, job[u].wished PROVE job'[u].wished
            OBVIOUS
        <3>1. CASE u = t
            BY <1>1, <3>1, WishStays
        <3>2. CASE u # t
            <4>1. job'[u] = job[u]
                BY <1>1, <3>2, WorkMoves, MovesFacts
            <4> QED BY <4>1
        <3> QED BY <3>1, <3>2
    <2>2. \A p \in Paths : \A i \in DOMAIN trash[p] : i \in DOMAIN trash'[p] /\ trash'[p][i] = trash[p][i]
        <3>1. CASE Open(t)
            <4>1. Wise(Head(job[t].acts), job'[t].plan)
                  /\ trash' = Copied(Head(job[t].acts), job'[t].plan)
                BY <3>1, OpenIs DEF Opening
            <4> QED BY <4>1, CopiedFacts
        <3>2. CASE Bin(t)
            <4> DEFINE p == Latest(t).path
            <4>1. trash' = IF p \in DOMAIN files THEN Trashed(p, files[p]) ELSE trash
                BY <3>2 DEF Bin
            <4>2. CASE p \in DOMAIN files
                <5>1. trash' = Trashed(p, files[p]) /\ files[p] \in Text /\ p \in Paths
                    BY <4>1, <4>2 DEF Shaped
                <5> HIDE DEF p
                <5> QED BY <5>1, TrashedFacts
            <4>3. CASE p \notin DOMAIN files
                BY <4>1, <4>3
            <4> QED BY <4>2, <4>3
        <3>3. CASE ~ Open(t) /\ ~ Bin(t)
            <4>1. trash' = trash
                BY <1>1, <3>3 DEF Works, Begin, Index, NothingFiled, File, Prepare, Spill, Land, Refused,
                                  Written, Undo, Restore, Reland, UndoRefused, Undone, disk
            <4> QED BY <4>1
        <3> QED BY <3>1, <3>2, <3>3
    <2> QED BY <2>1, <2>2, SafeStays
<1>2. ASSUME NEW t \in Turns, Links(t)
      PROVE  Safe(w)'
    <2>1. job' = job /\ trash' = trash
        BY <1>2, LinkWorks
    <2> QED BY <2>1 DEF Safe
<1>3. ASSUME NEW p \in Typed, Type(p)
      PROVE  Safe(w)'
    <2>1. job' = job /\ trash' = trash
        BY <1>3, TypeWorks
    <2> QED BY <2>1 DEF Safe
<1>4. CASE Crash
    <2>1. trash' = trash /\ \A u \in Turns : job[u].wished => job'[u].wished
        BY <1>4, CrashWorks
    <2> QED BY <2>1, SafeStays
<1> QED BY <1>1, <1>2, <1>3, <1>4, StepCases

LEMMA StepAccounts == ASSUME Shaped, Ordered, Accounted, [Next]_vars PROVE Accounted'
<1>0. ASSUME UNCHANGED vars
      PROVE  Accounted'
    BY <1>0 DEF vars, Accounted, Safe, InFiles
<1> SUFFICES ASSUME Next PROVE Accounted'
    BY <1>0
<1>s. \A w : Safe(w) => Safe(w)'
    BY SafeGrows
<1>1. ASSUME NEW t \in Turns, Works(t)
      PROVE  Accounted'
    <2>0. \A u \in Turns : u # t => job'[u] = job[u]
        BY <1>1, WorkMoves, MovesFacts
    <2>1. CASE Begin(t) \/ Index(t) \/ NothingFiled(t) \/ File(t) \/ Prepare(t) \/ Refused(t)
               \/ Written(t) \/ Undo(t) \/ UndoRefused(t) \/ Undone(t)
        <3>1. files' = files /\ spill' = spill /\ unseen' = unseen /\ written' = written
            BY <2>1 DEF Begin, Index, NothingFiled, File, Prepare, Refused, Written, Undo, UndoRefused,
                        Undone, disk, history
        <3>2. job'[t].plan \in {job[t].plan, NoPlan}
            <4>1. CASE Begin(t) \/ Index(t) \/ NothingFiled(t) \/ File(t) \/ Prepare(t)
                BY <4>1, EarlyFields, FileFields, PrepareFields DEF Alike
            <4>2. CASE Written(t) \/ Undo(t)
                BY <4>2, WrittenMoves, UndoMoves DEF Alike
            <4>3. CASE Refused(t) \/ UndoRefused(t) \/ Undone(t)
                BY <4>3, EndMoves
            <4> QED BY <2>1, <4>1, <4>2, <4>3
        <3>3. \A u \in Turns : \/ job'[u].plan = job[u].plan
                               \/ \A w \in job'[u].plan.seen \ job'[u].plan.new.lines : Safe(w)'
            BY <2>0, <3>2, NothingPlanned
        <3>4. \A w : InFiles(w) => InFiles(w)'
            BY <3>1 DEF InFiles
        <3> QED BY <1>s, <3>1, <3>3, <3>4, AccountKept
    <2>2. CASE Open(t)
        <3> DEFINE act == Head(job[t].acts)
                   o == job'[t].plan
        <3>1. files' = files /\ spill' = spill /\ unseen' = unseen /\ written' = written
            BY <2>2 DEF Open
        <3>2. Wise(act, o) /\ trash' = Copied(act, o)
            BY <2>2, OpenIs DEF Opening
        <3>3. job'[t].plan = o
            BY <2>2, OpenFields
        <3> HIDE DEF act, o
        <3>4. \A w \in o.seen \ o.new.lines : Safe(w)'
            BY <3>2, CopiedFacts DEF Safe
        <3>5. \A u \in Turns : \/ job'[u].plan = job[u].plan
                               \/ \A w \in job'[u].plan.seen \ job'[u].plan.new.lines : Safe(w)'
            BY <2>0, <3>3, <3>4
        <3>6. \A w : InFiles(w) => InFiles(w)'
            BY <3>1 DEF InFiles
        <3> QED BY <1>s, <3>1, <3>5, <3>6, AccountKept
    <2>3. CASE Restore(t)
        <3>1. files' = files /\ spill' = spill /\ unseen' = unseen /\ written' = written
            BY <2>3 DEF Restore, disk, history
        <3>2. job'[t].plan.seen = OwnWords(t) /\ job'[t].wished
            <4>1. job[t].wished
                BY <2>3, RestoreMoves, PcFacts DEF Ordered, Fits
            <4> QED BY <2>3, <4>1, RestoreMoves
        <3>3. \A w \in job'[t].plan.seen \ job'[t].plan.new.lines : Safe(w)'
            BY <3>2 DEF Safe
        <3>4. \A u \in Turns : \/ job'[u].plan = job[u].plan
                               \/ \A w \in job'[u].plan.seen \ job'[u].plan.new.lines : Safe(w)'
            BY <2>0, <3>3
        <3>5. \A w : InFiles(w) => InFiles(w)'
            BY <3>1 DEF InFiles
        <3> QED BY <1>s, <3>1, <3>4, <3>5, AccountKept
    <2>4. CASE Spill(t)
        <3>1. /\ files' = files /\ unseen' = unseen /\ written' = written
              /\ spill' = [spill EXCEPT ![job[t].plan.path] = <<job[t].plan>>]
            BY <2>4 DEF Spill
        <3>2. \A u \in Turns : job'[u].plan = job[u].plan
            BY <2>0, <2>4, SpillMoves DEF Alike
        <3>3. \A w \in job[t].plan.seen \ job[t].plan.new.lines : Safe(w)'
            BY <1>s DEF Accounted
        <3>4. \A p \in Paths : \/ spill'[p] = spill[p] \/ spill'[p] = <<>>
                               \/ \A w \in spill'[p][1].seen \ spill'[p][1].new.lines : Safe(w)'
            <4> SUFFICES ASSUME NEW p \in Paths
                         PROVE  \/ spill'[p] = spill[p]
                                \/ \A w \in spill'[p][1].seen \ spill'[p][1].new.lines : Safe(w)'
                OBVIOUS
            <4>1. spill \in [Paths -> Maybe(PlanRec)]
                BY DEF Shaped
            <4>2. CASE p = job[t].plan.path
                <5>1. spill'[p] = <<job[t].plan>>
                    BY <3>1, <4>1, <4>2
                <5>2. spill'[p][1] = job[t].plan
                    BY <5>1
                <5> QED BY <3>3, <5>2
            <4>3. CASE p # job[t].plan.path
                BY <3>1, <4>1, <4>3
            <4> QED BY <4>2, <4>3
        <3>5. \A w : InFiles(w) => InFiles(w)'
            BY <3>1 DEF InFiles
        <3> QED BY <1>s, <3>1, <3>2, <3>4, <3>5, AccountKept
    <2>5. CASE Land(t) \/ Reland(t)
        <3> DEFINE p == job[t].plan.path
        <3>1. /\ spill[p] # <<>> /\ Landed(p) /\ Overwritten(p, job[t].plan.new)
              /\ written' \subseteq written \cup job[t].plan.new.lines
            BY <2>5 DEF Land, Reland
        <3>2. p \in Paths
            BY PlannedPath
        <3> HIDE DEF p
        <3>3. /\ unseen \subseteq unseen'
              /\ \A w : InFiles(w) => InFiles(w)' \/ Safe(w)' \/ w \in unseen'
              /\ \A w \in job[t].plan.new.lines : InFiles(w)' \/ w \in unseen'
              /\ \A q \in Paths : spill'[q] = spill[q] \/ spill'[q] = <<>>
            BY <1>s, <3>1, <3>2, LandedKeeps
        <3>4. job'[t].plan = NoPlan
            BY <2>5, LandMoves, RelandMoves
        <3>5. \A u \in Turns : \/ job'[u].plan = job[u].plan
                               \/ \A w \in job'[u].plan.seen \ job'[u].plan.new.lines : Safe(w)'
            BY <2>0, <3>4, NothingPlanned
        <3>6. \A w \in written' : w \in written \/ InFiles(w)' \/ w \in unseen'
            BY <3>1, <3>3
        <3> QED BY <1>s, <3>3, <3>5, <3>6, AccountKept
    <2>6. CASE Bin(t)
        <3> DEFINE p == Latest(t).path
        <3>1. /\ trash' = IF p \in DOMAIN files THEN Trashed(p, files[p]) ELSE trash
              /\ files' = [q \in DOMAIN files \ {p} |-> files[q]]
              /\ spill' = spill /\ unseen' = unseen /\ written' = written
            BY <2>6 DEF Bin
        <3> HIDE DEF p
        <3>2. \A u \in Turns : job'[u].plan = job[u].plan
            BY <2>0, <2>6, BinMoves
        <3>3. ASSUME NEW w, InFiles(w)
              PROVE  InFiles(w)' \/ Safe(w)'
            <4>1. PICK q \in DOMAIN files : w \in files[q].lines
                BY <3>3 DEF InFiles
            <4>2. CASE q = p
                <5>1. trash' = Trashed(p, files[p]) /\ files[p] \in Text /\ p \in Paths
                    BY <3>1, <4>2 DEF Shaped
                <5>2. \E i \in DOMAIN trash'[p] : w \in trash'[p][i].lines
                    BY <4>1, <4>2, <5>1, TrashedFacts
                <5> QED BY <5>1, <5>2 DEF Safe
            <4>3. CASE q # p
                BY <3>1, <4>1, <4>3 DEF InFiles
            <4> QED BY <4>2, <4>3
        <3> QED BY <1>s, <3>1, <3>2, <3>3, AccountKept
    <2> QED BY <1>1, <2>1, <2>2, <2>3, <2>4, <2>5, <2>6 DEF Works
<1>2. ASSUME NEW t \in Turns, Links(t)
      PROVE  Accounted'
    <2> DEFINE p == Head(link[t].todo)
    <2>0. job' = job /\ trash' = trash
        BY <1>2, LinkWorks
    <2>p. link[t].pc # "idle" => p \in Paths
        BY LinkedPath DEF Shaped
    <2>1. CASE LinkRead(t) \/ LinkNothing(t)
        <3>1. files' = files /\ spill' = spill /\ unseen' = unseen /\ written' = written
            BY <2>1 DEF LinkRead, LinkNothing, disk, history
        <3> QED BY <2>0, <3>1 DEF Accounted, Safe, InFiles
    <2>2. CASE LinkSpill(t)
        <3> DEFINE new == [link[t].seen EXCEPT !.linked = link[t].seen.lines]
                   plan == Plan(p, <<>>, new, link[t].seen.lines)
        <3>1. /\ files' = files /\ unseen' = unseen /\ written' = written
              /\ spill' = [spill EXCEPT ![p] = <<plan>>] /\ link[t].pc = "asking"
            BY <2>2 DEF LinkSpill
        <3>2. link[t].seen \in Text
            BY DEF Shaped, LinkRec
        <3>3. new.lines = link[t].seen.lines
            BY <3>2 DEF Text
        <3>4. plan.seen = link[t].seen.lines /\ plan.new.lines = link[t].seen.lines
            BY <3>3 DEF Plan
        <3> HIDE DEF plan, p
        <3>5. \A q \in Paths : \/ spill'[q] = spill[q]
                               \/ \A w \in spill'[q][1].seen \ spill'[q][1].new.lines : Safe(w)'
            <4> SUFFICES ASSUME NEW q \in Paths, q = p
                         PROVE  \A w \in spill'[q][1].seen \ spill'[q][1].new.lines : Safe(w)'
                BY <3>1 DEF Shaped
            <4>1. spill'[q] = <<plan>>
                BY <3>1 DEF Shaped
            <4>2. spill'[q][1] = plan
                BY <4>1
            <4> QED BY <3>4, <4>2
        <3>6. \A w : InFiles(w) => InFiles(w)'
            BY <3>1 DEF InFiles
        <3> QED BY <1>s, <2>0, <3>1, <3>5, <3>6, AccountKept
    <2>3. CASE LinkLand(t) /\ spill[p] = <<>>
        <3>1. files' = files /\ spill' = spill /\ unseen' = unseen /\ written' = written
            BY <2>3 DEF LinkLand
        <3> QED BY <2>0, <3>1 DEF Accounted, Safe, InFiles
    <2>4. CASE LinkLand(t) /\ spill[p] # <<>>
        <3>1. Landed(p) /\ Overwritten(p, link[t].new) /\ written' = written /\ p \in Paths
            BY <2>4, <2>p DEF LinkLand
        <3> HIDE DEF p
        <3>2. /\ unseen \subseteq unseen'
              /\ \A w : InFiles(w) => InFiles(w)' \/ Safe(w)' \/ w \in unseen'
              /\ \A q \in Paths : spill'[q] = spill[q] \/ spill'[q] = <<>>
            BY <1>s, <2>4, <3>1, LandedKeeps
        <3> QED BY <1>s, <2>0, <3>1, <3>2, AccountKept
    <2> QED BY <1>2, <2>1, <2>2, <2>3, <2>4 DEF Links
<1>3. ASSUME NEW p \in Typed, Type(p)
      PROVE  Accounted'
    <2>1. /\ job' = job /\ spill' = spill /\ unseen' = unseen /\ written' = written \cup {Hand}
          /\ DOMAIN files' = DOMAIN files \cup {p}
          /\ files'[p].lines = LinesOf(Read(p)) \cup {Hand}
          /\ \A q \in DOMAIN files : q # p => files'[q] = files[q]
        BY <1>3, TypeWorks
    <2>2. ASSUME NEW w, InFiles(w)
          PROVE  InFiles(w)'
        <3>1. PICK q \in DOMAIN files : w \in files[q].lines
            BY <2>2 DEF InFiles
        <3>2. CASE q = p
            <4>1. w \in LinesOf(Read(p))
                BY <3>1, <3>2, ReadFacts DEF LinesOf
            <4> QED BY <2>1, <4>1 DEF InFiles
        <3>3. CASE q # p
            BY <2>1, <3>1, <3>3 DEF InFiles
        <3> QED BY <3>2, <3>3
    <2>3. InFiles(Hand)'
        BY <2>1 DEF InFiles
    <2>4. \A w \in written' : w \in written \/ InFiles(w)'
        BY <2>1, <2>3
    <2> QED BY <1>s, <2>1, <2>2, <2>4, AccountKept
<1>4. CASE Crash
    <2>1. files' = files /\ spill' = spill /\ unseen' = unseen /\ written' = written
        BY <1>4, CrashWorks
    <2>2. \A u \in Turns : job'[u].plan = job[u].plan \/ job'[u].plan = NoPlan
        BY <1>4, CrashWorks
    <2>3. \A u \in Turns : \/ job'[u].plan = job[u].plan
                           \/ \A w \in job'[u].plan.seen \ job'[u].plan.new.lines : Safe(w)'
        BY <2>2, NothingPlanned
    <2>4. \A w : InFiles(w) => InFiles(w)'
        BY <2>1 DEF InFiles
    <2> QED BY <1>s, <2>1, <2>3, <2>4, AccountKept
<1> QED BY <1>1, <1>2, <1>3, <1>4, StepCases

----------------------------------------------------------------------------
(* What a turn put into the vault is within its reach. *)

\* Where a turn's record, and its linking, hold a word that may yet get into the file p.
JobHolds(j, p, w) ==
    \/ /\ j.plan.path = p
       /\ w \in j.plan.new.lines \/ w \in LinesOf(j.plan.previous)
    \/ \E i \in DOMAIN j.undos : j.undos[i].path = p /\ w \in LinesOf(j.undos[i].previous)
    \/ \E i \in DOMAIN j.acts : /\ j.acts[i].note = p /\ w # j.acts[i].word
                                /\ w \in j.acts[i].body
LinkHolds(l, p, w) == l.pc # "idle" /\ Head(l.todo) = p /\ w \in l.seen.lines

HeldAt(p, w) ==
    \/ p \in DOMAIN files /\ w \in files[p].lines
    \/ spill[p] # <<>> /\ w \in spill[p][1].new.lines
    \/ \E u \in Turns : JobHolds(job[u], p, w)
    \/ \E u \in Turns : LinkHolds(link[u], p, w)

\* A turn that has not failed, was not asked to take anything back, and may write yet or has written.
Owing(t) == /\ job[t].pc \in Early \cup Writing \cup {"done"}
            /\ ~ job[t].refused /\ ~ job[t].wished
\* What its Undo will reach.
Reaches(j, p) ==
    \/ \E i \in DOMAIN j.undos : j.undos[i].path = p
    \/ j.pc \in Putting /\ j.plan.path = p

Reached ==
    \A t \in Turns : Owing(t) =>
        \A p \in Paths : \A w \in OwnWords(t) : HeldAt(p, w) => Reaches(job[t], p)

LEMMA ReachGrows ==
    ASSUME Shaped, Ordered, [Next]_vars, NEW t \in Turns, Owing(t)'
    PROVE  Owing(t) /\ \A p \in Paths : Reaches(job[t], p) => Reaches(job'[t], p)
<1>0. ASSUME job'[t] = job[t]
      PROVE  Owing(t) /\ \A p \in Paths : Reaches(job[t], p) => Reaches(job'[t], p)
    BY <1>0 DEF Owing
<1>1. ASSUME NEW u \in Turns, Works(u)
      PROVE  Owing(t) /\ \A p \in Paths : Reaches(job[t], p) => Reaches(job'[t], p)
    <2>0. CASE u # t
        <3>1. job'[t] = job[t]
            BY <1>1, <2>0, WorkMoves, MovesFacts
        <3> QED BY <1>0, <3>1
    <2> SUFFICES ASSUME u = t
                 PROVE  Owing(t) /\ \A p \in Paths : Reaches(job[t], p) => Reaches(job'[t], p)
        BY <2>0
    <2>1. CASE Begin(t) \/ Index(t) \/ NothingFiled(t) \/ File(t) \/ Prepare(t) \/ Written(t)
        <3>1. /\ Alike(job[t], job'[t]) /\ job[t].pc \in Early \cup {"writing"}
            <4>1. CASE Begin(t) \/ Index(t) \/ NothingFiled(t)
                BY <4>1, EarlyFields
            <4>2. CASE File(t) \/ Prepare(t)
                BY <4>2, FileFields, PrepareFields
            <4>3. CASE Written(t)
                BY <4>3, WrittenMoves DEF Written
            <4> QED BY <2>1, <4>1, <4>2, <4>3
        <3>2. job[t].pc \notin Putting /\ job[t].pc \in Early \cup Writing
            BY <3>1, PcFacts DEF Writing
        <3> QED BY <3>1, <3>2 DEF Alike, Owing, Reaches
    <2>2. CASE Open(t)
        <3>1. /\ job[t].pc = "writing" /\ job'[t].undos = job[t].undos
              /\ job'[t].refused = job[t].refused /\ job'[t].wished = job[t].wished
            BY <2>2, OpenFields
        <3>2. job[t].pc \notin Putting /\ job[t].pc \in Early \cup Writing
            BY <3>1, PcFacts DEF Writing
        <3> QED BY <3>1, <3>2 DEF Owing, Reaches
    <2>3. CASE Spill(t)
        <3>1. /\ Alike(job[t], job'[t]) /\ job[t].pc \in {"opened", "restoring"}
              /\ job'[t].pc = IF job[t].pc = "opened" THEN "spilled" ELSE "respilled"
            BY <2>3, SpillMoves DEF Spill
        <3>2. job[t].pc = "opened" /\ job'[t].pc = "spilled"
            <4>1. job'[t].pc # "respilled"
                BY PcFacts DEF Owing, Writing
            <4> QED BY <3>1, <4>1
        <3>3. job[t].pc \in Putting /\ job'[t].pc \in Putting /\ job[t].pc \in Early \cup Writing
            BY <3>2, PcFacts DEF Writing
        <3> QED BY <3>1, <3>3 DEF Alike, Owing, Reaches
    <2>4. CASE Land(t)
        <3> DEFINE e == [path |-> job[t].plan.path, previous |-> job[t].plan.previous]
        <3>1. /\ job'[t].undos = Append(job[t].undos, e) /\ e \in UndoRec
              /\ job'[t].refused = job[t].refused /\ job'[t].wished = job[t].wished
            BY <2>4, LandMoves
        <3>2. job[t].undos \in Seq(UndoRec) /\ e.path = job[t].plan.path
            BY DEF Shaped, JobRec
        <3> HIDE DEF e
        <3>3. /\ DOMAIN job'[t].undos = DOMAIN job[t].undos \cup {Len(job[t].undos) + 1}
              /\ job'[t].undos[Len(job[t].undos) + 1] = e
              /\ \A i \in DOMAIN job[t].undos : job'[t].undos[i] = job[t].undos[i]
            BY <3>1, <3>2, GrowthFacts
        <3>4. job[t].pc \in Early \cup Writing
            BY <2>4 DEF Land, Writing
        <3>5. Owing(t)
            BY <3>1, <3>4 DEF Owing
        <3>6. \A p \in Paths : Reaches(job[t], p) => Reaches(job'[t], p)
            BY <3>2, <3>3 DEF Reaches
        <3> QED BY <3>5, <3>6
    <2>5. CASE Refused(t) \/ UndoRefused(t) \/ Undone(t)
        <3>1. job'[t].refused \/ job'[t].pc = "undone"
            BY <2>5, EndMoves
        <3>2. "undone" \notin Early \cup Writing \cup {"done"}
            BY PcFacts DEF Writing
        <3> QED BY <3>1, <3>2 DEF Owing
    <2>6. CASE Undo(t) \/ Bin(t) \/ Restore(t) \/ Reland(t)
        <3>1. job'[t].pc \in Undoing
            BY <2>6, UndoMoves, BinMoves, RestoreMoves, RelandMoves, PcFacts
        <3>2. job'[t].pc \notin Early \cup Writing \cup {"done"}
            BY <3>1, PcFacts DEF Writing
        <3> QED BY <3>2 DEF Owing
    <2> QED BY <1>1, <2>1, <2>2, <2>3, <2>4, <2>5, <2>6 DEF Works
<1>2. ASSUME NEW u \in Turns, Links(u)
      PROVE  job'[t] = job[t]
    BY <1>2, LinkWorks
<1>3. ASSUME NEW p \in Typed, Type(p)
      PROVE  job'[t] = job[t]
    BY <1>3, TypeWorks
<1>4. CASE Crash
    <2>1. job'[t] = job[t] \/ job'[t].wished \/ job'[t].pc = "dead"
        BY <1>4, CrashWorks
    <2>2. "dead" \notin Early \cup Writing \cup {"done"}
        BY PcFacts DEF Writing
    <2> QED BY <1>0, <2>1, <2>2 DEF Owing
<1>5. CASE UNCHANGED vars
    BY <1>0, <1>5 DEF vars
<1> QED BY <1>0, <1>1, <1>2, <1>3, <1>4, <1>5, StepCases

\* What every step must show.
LEMMA ReachKept ==
    ASSUME Shaped, Ordered, Reached, [Next]_vars,
           \A p \in Paths : \A w : p \in DOMAIN files' /\ w \in files'[p].lines => HeldAt(p, w) \/ w = Hand,
           \A p \in Paths : \A w : spill'[p] # <<>> /\ w \in spill'[p][1].new.lines => HeldAt(p, w),
           \A u \in Turns : \A p \in Paths : \A w : JobHolds(job'[u], p, w) =>
                HeldAt(p, w) \/ (w \in OwnWords(u) /\ Reaches(job'[u], p)),
           \A u \in Turns : \A p \in Paths : \A w : LinkHolds(link'[u], p, w) => HeldAt(p, w)
    PROVE  Reached'
<1> SUFFICES ASSUME NEW t \in Turns, Owing(t)', NEW p \in Paths, NEW w \in OwnWords(t), HeldAt(p, w)'
             PROVE  Reaches(job'[t], p)
    BY DEF Reached
<1>1. w # Hand
    <2>1. w \in Turns \X (1 .. MaxActions)
        BY DEF OwnWords
    <2> QED BY <2>1, LinesDiffer
<1>2. ASSUME HeldAt(p, w)
      PROVE  Reaches(job'[t], p)
    BY <1>2, ReachGrows DEF Reached
<1>3. ASSUME NEW u \in Turns, w \in OwnWords(u), Reaches(job'[u], p)
      PROVE  Reaches(job'[t], p)
    <2>1. u = t
        BY <1>3 DEF OwnWords
    <2> QED BY <1>3, <2>1
<1>4. \/ p \in DOMAIN files' /\ w \in files'[p].lines
      \/ spill'[p] # <<>> /\ w \in spill'[p][1].new.lines
      \/ \E u \in Turns : JobHolds(job'[u], p, w)
      \/ \E u \in Turns : LinkHolds(link'[u], p, w)
    BY DEF HeldAt
<1> QED BY <1>1, <1>2, <1>3, <1>4

\* A record that keeps its undos and loses no more than acts and a plan.
LEMMA HoldsLess ==
    ASSUME NEW j, NEW n, n.plan \in {j.plan, NoPlan},
           n.undos = j.undos \/ n.undos = <<>>,
           \A i \in DOMAIN n.acts : \/ \E k \in DOMAIN j.acts : n.acts[i] = j.acts[k]
                                    \/ n.acts[i].body \subseteq {n.acts[i].word},
           NEW p, NEW w, JobHolds(n, p, w)
    PROVE  JobHolds(j, p, w)
<1>1. ASSUME n.plan.path = p, w \in n.plan.new.lines \/ w \in LinesOf(n.plan.previous)
      PROVE  JobHolds(j, p, w)
    <2>1. NoPlan.new.lines = {} /\ LinesOf(NoPlan.previous) = {}
        BY NothingPlanned, TextFacts DEF LinesOf, OrBlank
    <2>2. n.plan = j.plan
        BY <1>1, <2>1
    <2> QED BY <1>1, <2>2 DEF JobHolds
<1>2. ASSUME NEW i \in DOMAIN n.undos, n.undos[i].path = p, w \in LinesOf(n.undos[i].previous)
      PROVE  JobHolds(j, p, w)
    <2>1. n.undos = j.undos
        <3>1. DOMAIN (<<>>) = {}
            OBVIOUS
        <3> QED BY <1>2, <3>1
    <2> QED BY <1>2, <2>1 DEF JobHolds
<1>3. ASSUME NEW i \in DOMAIN n.acts, n.acts[i].note = p, w # n.acts[i].word, w \in n.acts[i].body
      PROVE  JobHolds(j, p, w)
    <2>1. PICK k \in DOMAIN j.acts : n.acts[i] = j.acts[k]
        BY <1>3
    <2> QED BY <1>3, <2>1 DEF JobHolds
<1> QED BY <1>1, <1>2, <1>3 DEF JobHolds

\* A turn's own step: the words its record holds were held, or are its own and within its reach.
LEMMA WorkHolds ==
    ASSUME Shaped, Ordered, NEW t \in Turns, Works(t), NEW p \in Paths, NEW w, JobHolds(job'[t], p, w)
    PROVE  HeldAt(p, w) \/ (w \in OwnWords(t) /\ Reaches(job'[t], p))
<1>h. JobHolds(job[t], p, w) => HeldAt(p, w)
    BY DEF HeldAt
<1>f. p \in DOMAIN files /\ w \in files[p].lines => HeldAt(p, w)
    BY DEF HeldAt
<1>r. w \in LinesOf(Read(p)) => HeldAt(p, w)
    <2>1. CASE p \in DOMAIN files
        BY <1>f, <2>1, ReadFacts DEF LinesOf
    <2>2. CASE p \notin DOMAIN files
        BY <2>2, ReadFacts, TextFacts DEF LinesOf
    <2> QED BY <2>1, <2>2
<1>1. CASE Begin(t) \/ Index(t) \/ NothingFiled(t) \/ File(t)
           \/ Refused(t) \/ Written(t) \/ Undo(t) \/ UndoRefused(t) \/ Undone(t) \/ Bin(t) \/ Spill(t)
           \/ Reland(t)
    <2>1. /\ job'[t].plan \in {job[t].plan, NoPlan}
          /\ job'[t].undos = job[t].undos \/ job'[t].undos = <<>>
          /\ job'[t].acts = job[t].acts \/ \A i \in DOMAIN job'[t].acts : job'[t].acts[i].body = {}
        <3>1. CASE Begin(t) \/ Index(t) \/ NothingFiled(t)
            BY <3>1, EarlyFields DEF Alike
        <3>2. CASE File(t)
            BY <3>2, FileFields DEF Alike
        <3>3. CASE Refused(t) \/ UndoRefused(t) \/ Undone(t)
            <4>1. DOMAIN (<<>>) = {}
                OBVIOUS
            <4> QED BY <3>3, <4>1, EndMoves
        <3>4. CASE Written(t)
            BY <3>4, WrittenMoves DEF Alike
        <3>5. CASE Spill(t)
            BY <3>5, SpillMoves DEF Alike
        <3>6. CASE Undo(t) \/ Bin(t) \/ Reland(t)
            BY <3>6, UndoMoves, BinMoves, RelandMoves
        <3> QED BY <1>1, <3>1, <3>2, <3>3, <3>4, <3>5, <3>6
    <2>2. \A i \in DOMAIN job'[t].acts : \/ \E k \in DOMAIN job[t].acts : job'[t].acts[i] = job[t].acts[k]
                                         \/ job'[t].acts[i].body \subseteq {job'[t].acts[i].word}
        BY <2>1
    <2> DEFINE j == job[t]
               n == job'[t]
    <2>3. /\ n.plan \in {j.plan, NoPlan} /\ (n.undos = j.undos \/ n.undos = <<>>)
          /\ \A i \in DOMAIN n.acts : \/ \E k \in DOMAIN j.acts : n.acts[i] = j.acts[k]
                                      \/ n.acts[i].body \subseteq {n.acts[i].word}
          /\ JobHolds(n, p, w)
        BY <2>1, <2>2
    <2>4. JobHolds(j, p, w) => HeldAt(p, w)
        BY <1>h
    <2> HIDE DEF j, n
    <2>5. JobHolds(j, p, w)
        BY <2>3, HoldsLess
    <2> QED BY <2>4, <2>5
<1>2. CASE Prepare(t)
    <2>1. /\ Alike(job[t], job'[t])
          /\ \A k \in DOMAIN job'[t].acts :
                \/ \E j \in DOMAIN job[t].acts : job'[t].acts[k] = job[t].acts[j]
                \/ /\ job'[t].acts[k].note \in DOMAIN files
                   /\ job'[t].acts[k].body \subseteq
                          files[job'[t].acts[k].note].lines \cup {job'[t].acts[k].word}
        BY <1>2, PrepareFields
    <2>2. ASSUME NEW k \in DOMAIN job'[t].acts, job'[t].acts[k].note = p, w # job'[t].acts[k].word,
                 w \in job'[t].acts[k].body
          PROVE  HeldAt(p, w)
        <3>1. CASE \E j \in DOMAIN job[t].acts : job'[t].acts[k] = job[t].acts[j]
            BY <1>h, <2>2, <3>1 DEF JobHolds
        <3>2. CASE /\ job'[t].acts[k].note \in DOMAIN files
                   /\ job'[t].acts[k].body \subseteq
                          files[job'[t].acts[k].note].lines \cup {job'[t].acts[k].word}
            BY <1>f, <2>2, <3>2
        <3> QED BY <2>1, <3>1, <3>2
    <2>3. job'[t].plan = job[t].plan /\ job'[t].undos = job[t].undos
        BY <2>1 DEF Alike
    <2>4. (\E k \in DOMAIN job'[t].acts : /\ job'[t].acts[k].note = p /\ w # job'[t].acts[k].word
                                          /\ w \in job'[t].acts[k].body) => HeldAt(p, w)
        BY <2>2
    <2> QED BY <1>h, <2>3, <2>4 DEF JobHolds
<1>3. CASE Open(t)
    <2> DEFINE act == Head(job[t].acts)
               o == job'[t].plan
    <2>1. Wise(act, o) /\ act.word \in OwnWords(t)
        BY <1>3, OpenIs DEF Opening
    <2>2. /\ job'[t].pc = "opened" /\ job'[t].plan = o /\ job'[t].undos = job[t].undos
          /\ \A i \in DOMAIN job'[t].acts :
                 \E j \in DOMAIN job[t].acts : job'[t].acts[i] = job[t].acts[j]
          /\ \E j \in DOMAIN job[t].acts : act = job[t].acts[j]
        BY <1>3, OpenFields
    <2> HIDE DEF act, o
    <2>3. ASSUME o.path = p, w \in o.new.lines
          PROVE  HeldAt(p, w) \/ (w \in OwnWords(t) /\ Reaches(job'[t], p))
        <3>1. CASE w = act.word
            <4>1. Reaches(job'[t], p)
                BY <2>2, <2>3, PcFacts DEF Reaches
            <4> QED BY <2>1, <3>1, <4>1
        <3>2. CASE w \in LinesOf(Read(p))
            BY <1>r, <3>2
        <3>3. CASE w # act.word /\ o.path = act.note /\ w \in act.body
            <4>1. JobHolds(job[t], p, w)
                BY <2>2, <2>3, <3>3 DEF JobHolds
            <4> QED BY <1>h, <4>1
        <3> QED BY <2>1, <2>3, <3>1, <3>2, <3>3 DEF Wise
    <2>4. ASSUME o.path = p, w \in LinesOf(o.previous)
          PROVE  HeldAt(p, w)
        <3>1. CASE OrBlank(o.previous) = OrBlank(Read(p))
            BY <1>r, <2>4, <3>1 DEF LinesOf
        <3>2. CASE o.previous = <<>>
            <4>1. LinesOf(o.previous) = {}
                BY <3>2, TextFacts DEF LinesOf, OrBlank
            <4> QED BY <2>4, <4>1
        <3> QED BY <2>1, <2>4, <3>1, <3>2 DEF Wise
    <2>5. ASSUME NEW k \in DOMAIN job'[t].acts, job'[t].acts[k].note = p, w # job'[t].acts[k].word,
                 w \in job'[t].acts[k].body
          PROVE  HeldAt(p, w)
        BY <1>h, <2>2, <2>5 DEF JobHolds
    <2>6. ASSUME NEW i \in DOMAIN job'[t].undos, job'[t].undos[i].path = p,
                 w \in LinesOf(job'[t].undos[i].previous)
          PROVE  HeldAt(p, w)
        BY <1>h, <2>2, <2>6 DEF JobHolds
    <2>7. job'[t].plan.path = o.path /\ job'[t].plan.new = o.new /\ job'[t].plan.previous = o.previous
        BY <2>2
    <2> QED BY <2>3, <2>4, <2>5, <2>6, <2>7 DEF JobHolds
<1>4. CASE Land(t)
    <2> DEFINE e == [path |-> job[t].plan.path, previous |-> job[t].plan.previous]
    <2>1. /\ job'[t].acts = job[t].acts /\ job'[t].plan = NoPlan
          /\ job'[t].undos = Append(job[t].undos, e) /\ e \in UndoRec
        BY <1>4, LandMoves
    <2>2. job[t].undos \in Seq(UndoRec) /\ e.path = job[t].plan.path /\ e.previous = job[t].plan.previous
        BY DEF Shaped, JobRec
    <2> HIDE DEF e
    <2>3. /\ DOMAIN job'[t].undos = DOMAIN job[t].undos \cup {Len(job[t].undos) + 1}
          /\ job'[t].undos[Len(job[t].undos) + 1] = e
          /\ \A i \in DOMAIN job[t].undos : job'[t].undos[i] = job[t].undos[i]
        BY <2>1, <2>2, GrowthFacts
    <2>4. ASSUME NEW i \in DOMAIN job'[t].undos, job'[t].undos[i].path = p,
                 w \in LinesOf(job'[t].undos[i].previous)
          PROVE  HeldAt(p, w)
        <3>1. CASE i \in DOMAIN job[t].undos
            BY <1>h, <2>3, <2>4, <3>1 DEF JobHolds
        <3>2. CASE i \notin DOMAIN job[t].undos
            <4>1. job'[t].undos[i] = e
                BY <2>3, <3>2
            <4>2. JobHolds(job[t], p, w)
                BY <2>2, <2>4, <4>1 DEF JobHolds
            <4> QED BY <1>h, <4>2
        <3> QED BY <3>1, <3>2
    <2>5. NoPlan.new.lines = {} /\ LinesOf(NoPlan.previous) = {}
        BY NothingPlanned, TextFacts DEF LinesOf, OrBlank
    <2>6. (\E i \in DOMAIN job'[t].undos : /\ job'[t].undos[i].path = p
                                           /\ w \in LinesOf(job'[t].undos[i].previous)) => HeldAt(p, w)
        BY <2>4
    <2> QED BY <1>h, <2>1, <2>5, <2>6 DEF JobHolds
<1>5. CASE Restore(t)
    <2>1. /\ job[t].left \in DOMAIN job[t].undos
          /\ job'[t].acts = job[t].acts /\ job'[t].undos = job[t].undos
          /\ job'[t].plan.path = job[t].undos[job[t].left].path
          /\ job'[t].plan.previous = <<>>
          /\ job[t].undos[job[t].left].previous = <<job'[t].plan.new>>
        BY <1>5, RestoreMoves
    <2>2. LinesOf(job'[t].plan.previous) = {}
        BY <2>1, TextFacts DEF LinesOf, OrBlank
    <2>3. LinesOf(job[t].undos[job[t].left].previous) = job'[t].plan.new.lines
        <3>1. OrBlank(<<job'[t].plan.new>>) = job'[t].plan.new
            BY DEF OrBlank
        <3> QED BY <2>1, <3>1 DEF LinesOf
    <2>4. ASSUME job'[t].plan.path = p, w \in job'[t].plan.new.lines
          PROVE  JobHolds(job[t], p, w)
        BY <2>1, <2>3, <2>4 DEF JobHolds
    <2> QED BY <1>h, <2>1, <2>2, <2>4 DEF JobHolds
<1> QED BY <1>1, <1>2, <1>3, <1>4, <1>5 DEF Works

\* A text that lands was in the .tmp.
LEMMA LandedHolds ==
    ASSUME Shaped, NEW q \in Paths, spill[q] # <<>>, Landed(q)
    PROVE  /\ \A p \in Paths : \A w : p \in DOMAIN files' /\ w \in files'[p].lines => HeldAt(p, w)
           /\ \A p \in Paths : \A w : spill'[p] # <<>> /\ w \in spill'[p][1].new.lines => HeldAt(p, w)
<1>1. /\ DOMAIN files' = DOMAIN files \cup {q} /\ files'[q] = spill[q][1].new
      /\ \A p \in DOMAIN files : p # q => files'[p] = files[p]
      /\ spill' = [spill EXCEPT ![q] = <<>>]
    BY LandedFacts
<1>2. ASSUME NEW p \in Paths, NEW w, p \in DOMAIN files', w \in files'[p].lines
      PROVE  HeldAt(p, w)
    <2>1. CASE p = q
        BY <1>1, <1>2, <2>1 DEF HeldAt
    <2>2. CASE p # q
        BY <1>1, <1>2, <2>2 DEF HeldAt
    <2> QED BY <2>1, <2>2
<1>3. ASSUME NEW p \in Paths, NEW w, spill'[p] # <<>>, w \in spill'[p][1].new.lines
      PROVE  HeldAt(p, w)
    <2>1. spill'[p] = spill[p]
        BY <1>1, <1>3 DEF Shaped
    <2> QED BY <1>3, <2>1 DEF HeldAt
<1> QED BY <1>2, <1>3

LEMMA WorkFiles ==
    ASSUME Shaped, Ordered, NEW t \in Turns, Works(t)
    PROVE  /\ \A p \in Paths : \A w : p \in DOMAIN files' /\ w \in files'[p].lines => HeldAt(p, w)
           /\ \A p \in Paths : \A w : spill'[p] # <<>> /\ w \in spill'[p][1].new.lines => HeldAt(p, w)
<1>1. CASE Land(t) \/ Reland(t)
    <2>1. spill[job[t].plan.path] # <<>> /\ Landed(job[t].plan.path) /\ job[t].plan.path \in Paths
        BY <1>1, PlannedPath DEF Land, Reland
    <2> QED BY <2>1, LandedHolds
<1>2. CASE Spill(t)
    <2>1. files' = files /\ spill' = [spill EXCEPT ![job[t].plan.path] = <<job[t].plan>>]
        BY <1>2 DEF Spill
    <2>2. ASSUME NEW p \in Paths, NEW w, spill'[p] # <<>>, w \in spill'[p][1].new.lines
          PROVE  HeldAt(p, w)
        <3>1. CASE p = job[t].plan.path
            <4>1. spill'[p] = <<job[t].plan>>
                BY <2>1, <3>1 DEF Shaped
            <4>2. w \in job[t].plan.new.lines
                BY <2>2, <4>1
            <4>3. JobHolds(job[t], p, w)
                BY <3>1, <4>2 DEF JobHolds
            <4> QED BY <4>3 DEF HeldAt
        <3>2. CASE p # job[t].plan.path
            <4>1. spill'[p] = spill[p]
                BY <2>1, <3>2 DEF Shaped
            <4> QED BY <2>2, <4>1 DEF HeldAt
        <3> QED BY <3>1, <3>2
    <2>3. \A p \in Paths : \A w : p \in DOMAIN files' /\ w \in files'[p].lines => HeldAt(p, w)
        BY <2>1 DEF HeldAt
    <2> QED BY <2>2, <2>3
<1>3. CASE Bin(t)
    <2>1. spill' = spill /\ files' = [q \in DOMAIN files \ {Latest(t).path} |-> files[q]]
        BY <1>3 DEF Bin
    <2>2. \A p \in Paths : \A w : p \in DOMAIN files' /\ w \in files'[p].lines => HeldAt(p, w)
        BY <2>1 DEF HeldAt
    <2>3. \A p \in Paths : \A w : spill'[p] # <<>> /\ w \in spill'[p][1].new.lines => HeldAt(p, w)
        BY <2>1 DEF HeldAt
    <2> QED BY <2>2, <2>3
<1>4. CASE ~ (Land(t) \/ Reland(t) \/ Spill(t) \/ Bin(t))
    <2>1. files' = files /\ spill' = spill
        BY <1>4 DEF Works, Begin, Index, NothingFiled, File, Prepare, Open, Refused, Written, Undo,
                    Restore, UndoRefused, Undone, disk
    <2> QED BY <2>1 DEF HeldAt
<1> QED BY <1>1, <1>2, <1>3, <1>4

LEMMA LinkHeld ==
    ASSUME Shaped, Ordered, NEW t \in Turns, Links(t)
    PROVE  /\ \A p \in Paths : \A w : p \in DOMAIN files' /\ w \in files'[p].lines => HeldAt(p, w)
           /\ \A p \in Paths : \A w : spill'[p] # <<>> /\ w \in spill'[p][1].new.lines => HeldAt(p, w)
           /\ \A u \in Turns : \A p \in Paths : \A w : LinkHolds(link'[u], p, w) => HeldAt(p, w)
<1> DEFINE q == Head(link[t].todo)
<1>0. \A u \in Turns : u # t => link'[u] = link[u]
    BY LinkWorks
<1>n. ASSUME NEW p, NEW w
      PROVE  ~ LinkHolds(LinkNext(t), p, w)
    BY DEF LinkHolds, LinkNext, Unlinked
<1>l. link \in [Turns -> LinkRec] /\ link[t] \in LinkRec
    BY DEF Shaped
<1>u. ASSUME \A p \in Paths : \A w : LinkHolds(link'[t], p, w) => HeldAt(p, w)
      PROVE  \A u \in Turns : \A p \in Paths : \A w : LinkHolds(link'[u], p, w) => HeldAt(p, w)
    <2> SUFFICES ASSUME NEW u \in Turns, NEW p \in Paths, NEW w, LinkHolds(link'[u], p, w)
                 PROVE  HeldAt(p, w)
        OBVIOUS
    <2>1. CASE u = t
        BY <1>u, <2>1
    <2>2. CASE u # t
        BY <1>0, <2>2 DEF HeldAt
    <2> QED BY <2>1, <2>2
<1>1. CASE LinkRead(t) \/ LinkNothing(t)
    <2>1. files' = files /\ spill' = spill
        BY <1>1 DEF LinkRead, LinkNothing, disk
    <2>2. ASSUME NEW p \in Paths, NEW w, LinkHolds(link'[t], p, w)
          PROVE  HeldAt(p, w)
        <3>1. CASE LinkNothing(t)
            <4>1. link'[t] = LinkNext(t)
                BY <1>l, <3>1 DEF LinkNothing
            <4> QED BY <1>n, <2>2, <4>1
        <3>2. CASE LinkRead(t) /\ q \in DOMAIN files \ Skipped
            <4>1. link' = [link EXCEPT ![t].pc = "asking", ![t].seen = files[q]]
                BY <3>2 DEF LinkRead
            <4>2. link'[t].todo = link[t].todo /\ link'[t].seen = files[q]
                BY <1>l, <4>1 DEF LinkRec
            <4>3. q = p /\ w \in files[q].lines
                BY <2>2, <4>2 DEF LinkHolds
            <4> QED BY <3>2, <4>3 DEF HeldAt
        <3>3. CASE LinkRead(t) /\ q \notin DOMAIN files \ Skipped
            <4>1. link' = [link EXCEPT ![t].todo = Tail(@)] /\ link[t].pc = "idle"
                BY <3>3 DEF LinkRead
            <4>2. link'[t].pc = "idle"
                BY <1>l, <4>1 DEF LinkRec
            <4> QED BY <2>2, <4>2 DEF LinkHolds
        <3> QED BY <1>1, <3>1, <3>2, <3>3
    <2>3. \A p \in Paths : \A w : LinkHolds(link'[t], p, w) => HeldAt(p, w)
        BY <2>2
    <2> QED BY <1>u, <2>1, <2>3 DEF HeldAt
<1>2. CASE LinkSpill(t)
    <2> DEFINE new == [link[t].seen EXCEPT !.linked = link[t].seen.lines]
               plan == Plan(q, <<>>, new, link[t].seen.lines)
    <2>1. /\ files' = files /\ spill' = [spill EXCEPT ![q] = <<plan>>] /\ link[t].pc = "asking"
          /\ link' = [link EXCEPT ![t].pc = "spilled", ![t].new = new]
        BY <1>2 DEF LinkSpill
    <2>2. new.lines = link[t].seen.lines
        BY <1>l DEF LinkRec, Text
    <2>3. plan.new.lines = link[t].seen.lines
        BY <2>2 DEF Plan
    <2> HIDE DEF plan
    <2>4. link'[t].todo = link[t].todo /\ link'[t].seen = link[t].seen
        BY <1>l, <2>1 DEF LinkRec
    <2>5. ASSUME NEW p \in Paths, NEW w, q = p, w \in link[t].seen.lines
          PROVE  HeldAt(p, w)
        <3>1. LinkHolds(link[t], p, w)
            BY <2>1, <2>5 DEF LinkHolds
        <3> QED BY <3>1 DEF HeldAt
    <2>6. ASSUME NEW p \in Paths, NEW w, spill'[p] # <<>>, w \in spill'[p][1].new.lines
          PROVE  HeldAt(p, w)
        <3>1. CASE p = q
            <4>1. spill'[p] = <<plan>>
                BY <2>1, <3>1 DEF Shaped
            <4>2. w \in link[t].seen.lines
                BY <2>3, <2>6, <4>1
            <4> QED BY <2>5, <3>1, <4>2
        <3>2. CASE p # q
            <4>1. spill'[p] = spill[p]
                BY <2>1, <3>2 DEF Shaped
            <4> QED BY <2>6, <4>1 DEF HeldAt
        <3> QED BY <3>1, <3>2
    <2>7. \A p \in Paths : \A w : LinkHolds(link'[t], p, w) => HeldAt(p, w)
        BY <2>4, <2>5 DEF LinkHolds
    <2>8. \A p \in Paths : \A w : p \in DOMAIN files' /\ w \in files'[p].lines => HeldAt(p, w)
        BY <2>1 DEF HeldAt
    <2> QED BY <1>u, <2>6, <2>7, <2>8
<1>3. CASE LinkLand(t)
    <2>1. link'[t] = LinkNext(t) /\ q \in Paths
        <3>1. link' = [link EXCEPT ![t] = LinkNext(t)] /\ link[t].pc # "idle"
            BY <1>3 DEF LinkLand
        <3> QED BY <1>l, <3>1, LinkedPath DEF Shaped
    <2>2. \A u \in Turns : \A p \in Paths : \A w : LinkHolds(link'[u], p, w) => HeldAt(p, w)
        BY <1>u, <1>n, <2>1
    <2>3. CASE spill[q] = <<>>
        <3>1. files' = files /\ spill' = spill
            BY <1>3, <2>3 DEF LinkLand
        <3> QED BY <2>2, <3>1 DEF HeldAt
    <2>4. CASE spill[q] # <<>>
        <3>1. Landed(q)
            BY <1>3, <2>4 DEF LinkLand
        <3> QED BY <2>1, <2>2, <2>4, <3>1, LandedHolds
    <2> QED BY <2>3, <2>4
<1> QED BY <1>1, <1>2, <1>3 DEF Links

LEMMA StepReaches == ASSUME Shaped, Ordered, Reached, [Next]_vars PROVE Reached'
<1>1. ASSUME NEW t \in Turns, Works(t)
      PROVE  Reached'
    <2>1. /\ \A p \in Paths : \A w : p \in DOMAIN files' /\ w \in files'[p].lines => HeldAt(p, w)
          /\ \A p \in Paths : \A w : spill'[p] # <<>> /\ w \in spill'[p][1].new.lines => HeldAt(p, w)
        BY <1>1, WorkFiles
    <2>2. ASSUME NEW u \in Turns, NEW p \in Paths, NEW w, JobHolds(job'[u], p, w)
          PROVE  HeldAt(p, w) \/ (w \in OwnWords(u) /\ Reaches(job'[u], p))
        <3>1. CASE u = t
            BY <1>1, <2>2, <3>1, WorkHolds
        <3>2. CASE u # t
            <4>1. job'[u] = job[u]
                BY <1>1, <3>2, WorkMoves, MovesFacts
            <4> QED BY <2>2, <4>1 DEF HeldAt
        <3> QED BY <3>1, <3>2
    <2>3. ASSUME NEW u \in Turns, NEW p \in Paths, NEW w, LinkHolds(link'[u], p, w)
          PROVE  HeldAt(p, w)
        <3>1. LinkHolds(link[u], p, w)
            <4>1. CASE Written(t) /\ u = t
                <5>1. job[t].pc = "writing" /\ link'[t].pc = link[t].pc
                    BY <1>1, <4>1, WorkLinks DEF Written
                <5>2. link[t].todo = <<>>
                    BY <5>1 DEF Ordered, Writing
                <5>3. link[t].pc = "idle"
                    BY <5>2 DEF Shaped
                <5> QED BY <2>3, <4>1, <5>1, <5>3 DEF LinkHolds
            <4>2. CASE ~ Written(t)
                <5>1. link' = link
                    BY <1>1, <4>2, WorkLinks
                <5> QED BY <2>3, <5>1
            <4>3. CASE Written(t) /\ u # t
                <5>1. link'[u] = link[u]
                    BY <4>3 DEF Written, Shaped
                <5> QED BY <2>3, <5>1
            <4> QED BY <4>1, <4>2, <4>3
        <3> QED BY <3>1 DEF HeldAt
    <2>4. Next
        BY <1>1 DEF Next, Works
    <2> QED BY <2>1, <2>2, <2>3, <2>4, ReachKept
<1>2. ASSUME NEW t \in Turns, Links(t)
      PROVE  Reached'
    <2>1. job' = job
        BY <1>2, LinkWorks
    <2>2. /\ \A p \in Paths : \A w : p \in DOMAIN files' /\ w \in files'[p].lines => HeldAt(p, w)
          /\ \A p \in Paths : \A w : spill'[p] # <<>> /\ w \in spill'[p][1].new.lines => HeldAt(p, w)
          /\ \A u \in Turns : \A p \in Paths : \A w : LinkHolds(link'[u], p, w) => HeldAt(p, w)
        BY <1>2, LinkHeld
    <2>3. \A u \in Turns : \A p \in Paths : \A w : JobHolds(job'[u], p, w) => HeldAt(p, w)
        BY <2>1 DEF HeldAt
    <2>4. Next
        BY <1>2 DEF Next, Links
    <2> QED BY <2>2, <2>3, <2>4, ReachKept
<1>3. ASSUME NEW q \in Typed, Type(q)
      PROVE  Reached'
    <2>1. /\ job' = job /\ link' = link /\ spill' = spill
          /\ DOMAIN files' = DOMAIN files \cup {q}
          /\ files'[q].lines = LinesOf(Read(q)) \cup {Hand}
          /\ \A p \in DOMAIN files : p # q => files'[p] = files[p]
        BY <1>3, TypeWorks
    <2>2. ASSUME NEW p \in Paths, NEW w, p \in DOMAIN files', w \in files'[p].lines
          PROVE  HeldAt(p, w) \/ w = Hand
        <3>1. CASE p = q
            <4>1. CASE w \in LinesOf(Read(q))
                <5>1. CASE q \in DOMAIN files
                    BY <3>1, <4>1, <5>1, ReadFacts DEF LinesOf, HeldAt
                <5>2. CASE q \notin DOMAIN files
                    BY <4>1, <5>2, ReadFacts, TextFacts DEF LinesOf
                <5> QED BY <5>1, <5>2
            <4> QED BY <2>1, <2>2, <3>1, <4>1
        <3>2. CASE p # q
            BY <2>1, <2>2, <3>2 DEF HeldAt
        <3> QED BY <3>1, <3>2
    <2>3. /\ \A p \in Paths : \A w : spill'[p] # <<>> /\ w \in spill'[p][1].new.lines => HeldAt(p, w)
          /\ \A u \in Turns : \A p \in Paths : \A w : LinkHolds(link'[u], p, w) => HeldAt(p, w)
          /\ \A u \in Turns : \A p \in Paths : \A w : JobHolds(job'[u], p, w) => HeldAt(p, w)
        BY <2>1 DEF HeldAt
    <2>4. Next
        BY <1>3 DEF Next
    <2> QED BY <2>2, <2>3, <2>4, ReachKept
<1>4. CASE Crash
    <2>1. files' = files /\ spill' = spill /\ link' = [t \in Turns |-> Unlinked]
        BY <1>4, CrashWorks
    <2>2. ASSUME NEW u \in Turns, NEW p \in Paths, NEW w, JobHolds(job'[u], p, w)
          PROVE  HeldAt(p, w)
        <3> DEFINE j == job[u]
                   n == job'[u]
        <3>1. /\ n.plan \in {j.plan, NoPlan} /\ (n.undos = j.undos \/ n.undos = <<>>)
              /\ n.acts = j.acts \/ n.acts = <<>>
            BY <1>4, CrashWorks
        <3>2. JobHolds(n, p, w) /\ (JobHolds(j, p, w) => HeldAt(p, w))
            BY <2>2 DEF HeldAt
        <3> HIDE DEF j, n
        <3>3. \A i \in DOMAIN n.acts : \/ \E k \in DOMAIN j.acts : n.acts[i] = j.acts[k]
                                       \/ n.acts[i].body \subseteq {n.acts[i].word}
            <4>1. DOMAIN (<<>>) = {}
                OBVIOUS
            <4> QED BY <3>1, <4>1
        <3>4. JobHolds(j, p, w)
            BY <3>1, <3>2, <3>3, HoldsLess
        <3> QED BY <3>2, <3>4
    <2>3. \A u \in Turns : \A p \in Paths : \A w : ~ LinkHolds(link'[u], p, w)
        BY <2>1 DEF LinkHolds, Unlinked
    <2>4. Next
        BY <1>4 DEF Next
    <2>5. /\ \A p \in Paths : \A w : p \in DOMAIN files' /\ w \in files'[p].lines => HeldAt(p, w)
          /\ \A p \in Paths : \A w : spill'[p] # <<>> /\ w \in spill'[p][1].new.lines => HeldAt(p, w)
        BY <2>1 DEF HeldAt
    <2> QED BY <2>2, <2>3, <2>4, <2>5, ReachKept
<1>5. CASE UNCHANGED vars
    BY <1>5 DEF vars, Reached, HeldAt, Owing
<1> QED BY <1>1, <1>2, <1>3, <1>4, <1>5, StepCases

----------------------------------------------------------------------------
(* An Undo is exact. *)

First(undos, p, i) ==
    /\ i \in DOMAIN undos /\ undos[i].path = p
    /\ \A k \in DOMAIN undos : k < i => undos[k].path # p
\* The turn's i-th write has been taken back.
Behind(j, i) ==
    \/ j.pc = "undoing" /\ i > j.left
    \/ j.pc \in Restoring /\ i > j.left + 1

\* The oldest undo of the path p, or the write that is under way, holds `then`; when the write has
\* been taken back, that is what is in the file now.
Recalls(j, p, then, now) ==
    \/ \E i \in DOMAIN j.undos : /\ First(j.undos, p, i)
                                 /\ OrBlank(j.undos[i].previous) = then
                                 /\ Behind(j, i) => now = then
    \/ /\ j.pc \in Putting /\ j.plan.path = p
       /\ \A i \in DOMAIN j.undos : j.undos[i].path # p
       /\ OrBlank(j.plan.previous) = then

Now(p) == OrBlank(Read(p))
Then(t, p) == OrBlank(before[t][p])

Faithful(t) ==
    ~ job[t].refused => \A p \in DOMAIN before[t] \ foreign[t] :
        /\ job[t].pc \in Writing \cup Undoing \cup {"done"} => Recalls(job[t], p, Then(t, p), Now(p))
        /\ job[t].pc = "respilled" /\ p = job[t].plan.path /\ spill[p] # <<>> =>
               spill[p] = <<job[t].plan>>
        /\ job[t].pc = "undone" => Now(p) = Then(t, p)

Remembered == \A t \in Turns : Faithful(t)

\* A turn that does nothing: its files stay as they are, or it learns that they are meddled with.
LEMMA Untouched ==
    ASSUME NEW t \in Turns, Faithful(t), job'[t] = job[t], before'[t] = before[t],
           foreign[t] \subseteq foreign'[t],
           job[t].pc \in Undoing \cup {"undone"} =>
               \A p \in DOMAIN before[t] \ foreign'[t] :
                   Now(p)' = Now(p) /\ (spill'[p] = spill[p] \/ spill'[p] = <<>>)
    PROVE  Faithful(t)'
<1> SUFFICES ASSUME ~ job[t].refused, NEW p \in DOMAIN before[t] \ foreign'[t]
             PROVE  /\ job[t].pc \in Writing \cup Undoing \cup {"done"} =>
                           Recalls(job[t], p, Then(t, p), Now(p)')
                    /\ job[t].pc = "respilled" /\ p = job[t].plan.path /\ spill'[p] # <<>> =>
                           spill'[p] = <<job[t].plan>>
                    /\ job[t].pc = "undone" => Now(p)' = Then(t, p)
    BY DEF Faithful, Then
<1>1. /\ job[t].pc \in Writing \cup Undoing \cup {"done"} => Recalls(job[t], p, Then(t, p), Now(p))
      /\ job[t].pc = "respilled" /\ p = job[t].plan.path /\ spill[p] # <<>> =>
             spill[p] = <<job[t].plan>>
      /\ job[t].pc = "undone" => Now(p) = Then(t, p)
    BY DEF Faithful
<1>2. CASE job[t].pc \in Undoing \cup {"undone"}
    <2>1. Now(p)' = Now(p) /\ (spill'[p] = spill[p] \/ spill'[p] = <<>>)
        BY <1>2
    <2> QED BY <1>1, <2>1
<1>3. CASE job[t].pc \notin Undoing \cup {"undone"}
    <2>1. job[t].pc # "respilled" /\ job[t].pc # "undone" /\ job[t].pc \notin Restoring
          /\ job[t].pc # "undoing"
        BY <1>3, PcFacts
    <2>2. \A i : ~ Behind(job[t], i)
        BY <2>1 DEF Behind
    <2>3. Recalls(job[t], p, Then(t, p), Now(p)) => Recalls(job[t], p, Then(t, p), Now(p)')
        BY <2>2 DEF Recalls
    <2> QED BY <1>1, <2>1, <2>3
<1> QED BY <1>2, <1>3

\* What lands changes no other file.
LEMMA LandedElse ==
    ASSUME Shaped, NEW q \in Paths, spill[q] # <<>>, Landed(q)
    PROVE  /\ \A p \in Paths : p # q => Now(p)' = Now(p)
           /\ \A p \in Paths : p = q => Now(p)' = spill[q][1].new
           /\ \A p \in Paths : spill'[p] = spill[p] \/ spill'[p] = <<>>
<1>1. /\ DOMAIN files' = DOMAIN files \cup {q} /\ files'[q] = spill[q][1].new
      /\ \A p \in DOMAIN files : p # q => files'[p] = files[p]
      /\ spill' = [spill EXCEPT ![q] = <<>>]
    BY LandedFacts
<1>2. ASSUME NEW p \in Paths, p # q
      PROVE  Now(p)' = Now(p)
    <2>1. Read(p)' = Read(p)
        BY <1>1, <1>2 DEF Read
    <2> QED BY <2>1 DEF Now
<1>3. ASSUME NEW p \in Paths, p = q
      PROVE  Now(p)' = spill[q][1].new
    BY <1>1, <1>3 DEF Now, OrBlank, Read
<1>4. \A p \in Paths : spill'[p] = spill[p] \/ spill'[p] = <<>>
    BY <1>1 DEF Shaped
<1> QED BY <1>2, <1>3, <1>4

\* What a step of turn t means to another turn's files.
LEMMA WorkElse ==
    ASSUME Shaped, Ordered, NEW t \in Turns, Works(t), NEW u \in Turns, u # t
    PROVE  /\ foreign[u] \subseteq foreign'[u]
           /\ \A p \in DOMAIN before[u] \ foreign'[u] :
                  Now(p)' = Now(p) /\ (spill'[p] = spill[p] \/ spill'[p] = <<>>)
<1>0. DOMAIN before[u] \subseteq Paths /\ job[t].plan.path \in Paths
    BY PlannedPath DEF Shaped
<1>1. CASE Land(t) \/ Reland(t)
    <2> DEFINE q == job[t].plan.path
    <2>1. spill[q] # <<>> /\ Landed(q) /\ Meddles({t}, q)
        BY <1>1 DEF Land, Reland
    <2> HIDE DEF q
    <2>2. q \in Paths
        BY <1>0 DEF q
    <2>3. foreign[u] \subseteq foreign'[u] /\ (q \in DOMAIN before[u] => q \in foreign'[u])
        BY <2>1, <2>2, MeddleFacts
    <2> QED BY <1>0, <2>1, <2>2, <2>3, LandedElse
<1>2. CASE Spill(t)
    <2> DEFINE q == job[t].plan.path
    <2>1. /\ files' = files /\ spill' = [spill EXCEPT ![q] = <<job[t].plan>>]
          /\ Meddles({t}, q)
        BY <1>2 DEF Spill
    <2> HIDE DEF q
    <2>2. q \in Paths
        BY <1>0 DEF q
    <2>3. foreign[u] \subseteq foreign'[u] /\ (q \in DOMAIN before[u] => q \in foreign'[u])
        BY <2>1, <2>2, MeddleFacts
    <2>4. \A p \in Paths : Now(p)' = Now(p) /\ (p # q => spill'[p] = spill[p])
        BY <2>1 DEF Now, Read, Shaped
    <2> QED BY <1>0, <2>3, <2>4
<1>3. CASE Bin(t)
    <2> DEFINE q == Latest(t).path
    <2>1. /\ spill' = spill /\ files' = [p \in DOMAIN files \ {q} |-> files[p]]
          /\ Meddles({t}, q)
        BY <1>3 DEF Bin
    <2>2. q \in Paths
        <3>1. job[t].left \in DOMAIN job[t].undos /\ job[t].undos \in Seq(UndoRec)
            BY <1>3, BinMoves DEF Shaped, JobRec
        <3>2. job[t].undos[job[t].left] \in UndoRec
            BY <3>1, EntryFacts
        <3> QED BY <3>2 DEF Latest, UndoRec
    <2> HIDE DEF q
    <2>3. foreign[u] \subseteq foreign'[u] /\ (q \in DOMAIN before[u] => q \in foreign'[u])
        BY <2>1, <2>2, MeddleFacts
    <2>4. \A p \in Paths : p # q => Now(p)' = Now(p)
        BY <2>1 DEF Now, Read
    <2> QED BY <1>0, <2>1, <2>3, <2>4
<1>4. CASE ~ (Land(t) \/ Reland(t) \/ Spill(t) \/ Bin(t))
    <2>1. files' = files /\ spill' = spill
        BY <1>4 DEF Works, Begin, Index, NothingFiled, File, Prepare, Open, Refused, Written, Undo,
                    Restore, UndoRefused, Undone, disk
    <2>2. foreign'[u] = foreign[u]
        <3>1. CASE Open(t)
            <4>1. \E x : foreign' = [foreign EXCEPT ![t] = x]
                BY <3>1, OpenIs DEF Opening
            <4> QED BY <4>1 DEF Shaped
        <3>2. CASE ~ Open(t)
            BY <1>4, <3>2 DEF Works, Begin, Index, NothingFiled, File, Prepare, Refused, Written, Undo,
                              Restore, UndoRefused, Undone, history
        <3> QED BY <3>1, <3>2
    <2> QED BY <2>1, <2>2 DEF Now, Read
<1> QED BY <1>1, <1>2, <1>3, <1>4

\* The same undos, all of them done, or none taken back yet.
LEMMA RecallsOn ==
    ASSUME NEW j, NEW n, NEW p, NEW then, NEW now, NEW later, Recalls(j, p, then, now),
           n.undos = j.undos, j.pc \notin Putting, \A i \in DOMAIN n.undos : ~ Behind(n, i)
    PROVE  Recalls(n, p, then, later)
BY DEF Recalls, First

\* The steps of a turn before its Undo.
LEMMA WritesRecall ==
    ASSUME Shaped, Ordered, NEW t \in Turns, Faithful(t),
           \/ Begin(t) \/ Index(t) \/ NothingFiled(t) \/ File(t) \/ Prepare(t) \/ Open(t)
           \/ Spill(t) /\ job[t].pc = "opened"
           \/ Land(t) \/ Written(t)
    PROVE  Faithful(t)'
<1>w. /\ job[t].pc \in Early => DOMAIN before[t] = {}
      /\ job[t] \in JobRec
    BY DEF Shaped, Ordered, Fits
<1>1. CASE Begin(t) \/ Index(t) \/ NothingFiled(t) \/ File(t)
    <2>1. before' = before /\ job[t].pc \in Early
        BY <1>1, EarlyFields, FileFields DEF Begin, Index, NothingFiled, File, history
    <2>2. DOMAIN before'[t] = {}
        BY <1>w, <2>1
    <2> QED BY <2>2 DEF Faithful
<1> SUFFICES ASSUME Prepare(t) \/ Open(t) \/ (Spill(t) /\ job[t].pc = "opened") \/ Land(t) \/ Written(t),
                    ~ job'[t].refused, NEW p \in DOMAIN before'[t] \ foreign'[t]
             PROVE  Recalls(job'[t], p, Then(t, p)', Now(p)')
    <2>0. CASE Begin(t) \/ Index(t) \/ NothingFiled(t) \/ File(t)
        BY <1>1, <2>0
    <2> SUFFICES ASSUME Prepare(t) \/ Open(t) \/ (Spill(t) /\ job[t].pc = "opened") \/ Land(t)
                            \/ Written(t)
                 PROVE  Faithful(t)'
        BY <2>0
    <2>1. job'[t].pc \in Writing \cup {"done"}
        <3>1. CASE Prepare(t) \/ Open(t) \/ Land(t)
            BY <3>1, PrepareFields, OpenFields, LandMoves DEF Writing
        <3>2. CASE Spill(t) /\ job[t].pc = "opened"
            <4>1. job'[t].pc = "spilled"
                BY <3>2, SpillMoves
            <4> QED BY <4>1 DEF Writing
        <3>3. CASE Written(t)
            BY <3>3, WrittenMoves
        <3> QED BY <3>1, <3>2, <3>3
    <2>2. job'[t].pc # "respilled" /\ job'[t].pc # "undone"
        BY <2>1 DEF Writing
    <2>3. Prepare(t) \/ Open(t) \/ (Spill(t) /\ job[t].pc = "opened") \/ Land(t) \/ Written(t) =>
              (~ job'[t].refused => \A p \in DOMAIN before'[t] \ foreign'[t] :
                  Recalls(job'[t], p, Then(t, p)', Now(p)'))
        OBVIOUS
    <2> QED BY <1>1, <2>2, <2>3 DEF Faithful
<1>b. ASSUME job'[t].pc \in Writing \cup {"done"}
      PROVE  \A i : ~ Behind(job'[t], i)
    <2>1. job'[t].pc # "undoing" /\ job'[t].pc \notin Restoring
        BY <1>b, PcFacts DEF Writing
    <2> QED BY <2>1 DEF Behind
<1>f. ASSUME ~ Open(t)
      PROVE  before' = before /\ foreign[t] \subseteq foreign'[t]
    <2>1. before' = before
        BY <1>f DEF Prepare, Spill, Land, Written, history
    <2>2. CASE Prepare(t) \/ Written(t)
        BY <2>2 DEF Prepare, Written, history
    <2>3. CASE Spill(t) \/ Land(t)
        <3>1. Meddles({t}, job[t].plan.path) /\ job[t].plan.path \in Paths
            BY <2>3, PlannedPath DEF Spill, Land
        <3>2. foreign[t] \subseteq foreign'[t]
            BY <3>1, MeddleFacts
        <3> QED BY <2>1, <3>2
    <2> QED BY <1>f, <2>1, <2>2, <2>3
<1>2. CASE Prepare(t) \/ Written(t)
    <2>1. /\ Alike(job[t], job'[t]) /\ job[t].pc = "writing" /\ job'[t].pc \in {"writing", "done"}
        BY <1>2, PrepareFields, WrittenMoves DEF Written
    <2>2. job[t].pc \notin Putting /\ job[t].pc \in Writing /\ job'[t].pc \in Writing \cup {"done"}
        BY <2>1, PcFacts DEF Writing
    <2>3. before' = before /\ foreign[t] \subseteq foreign'[t]
        BY <1>2, <1>f DEF Prepare, Written, Open
    <2>4. Recalls(job[t], p, Then(t, p), Now(p))
        BY <2>1, <2>2, <2>3 DEF Faithful, Alike
    <2>5. Then(t, p)' = Then(t, p)
        BY <2>3 DEF Then
    <2> DEFINE j == job[t]
               n == job'[t]
    <2>6. /\ n.undos = j.undos /\ j.pc \notin Putting /\ \A i \in DOMAIN n.undos : ~ Behind(n, i)
          /\ Recalls(j, p, Then(t, p), Now(p))
        BY <1>b, <2>1, <2>2, <2>4 DEF Alike
    <2> HIDE DEF j, n
    <2>7. Recalls(n, p, Then(t, p), Now(p)')
        BY <2>6, RecallsOn
    <2> QED BY <2>5, <2>7 DEF n
<1>3. CASE Spill(t) /\ job[t].pc = "opened"
    <2>1. Alike(job[t], job'[t]) /\ job'[t].pc = "spilled"
        BY <1>3, SpillMoves
    <2>2. /\ job[t].pc \in Putting /\ job[t].pc \in Writing /\ job'[t].pc \in Putting
          /\ job'[t].pc \in Writing \cup {"done"}
        BY <1>3, <2>1, PcFacts DEF Writing
    <2>3. before' = before /\ foreign[t] \subseteq foreign'[t]
        BY <1>3, <1>f DEF Spill, Open
    <2>4. Recalls(job[t], p, Then(t, p), Now(p))
        BY <2>1, <2>2, <2>3 DEF Faithful, Alike
    <2>5. Then(t, p)' = Then(t, p)
        BY <2>3 DEF Then
    <2>6. Recalls(job'[t], p, Then(t, p), Now(p)')
        BY <1>b, <2>1, <2>2, <2>4 DEF Recalls, Alike
    <2> QED BY <2>5, <2>6
<1>4. CASE Land(t)
    <2> DEFINE e == [path |-> job[t].plan.path, previous |-> job[t].plan.previous]
    <2>1. /\ job'[t].undos = Append(job[t].undos, e) /\ e \in UndoRec /\ job'[t].pc = "writing"
          /\ job'[t].refused = job[t].refused
        BY <1>4, LandMoves
    <2>2. /\ job[t].undos \in Seq(UndoRec) /\ e.path = job[t].plan.path
          /\ e.previous = job[t].plan.previous
        BY <1>w DEF JobRec
    <2> HIDE DEF e
    <2>3. /\ DOMAIN job'[t].undos = DOMAIN job[t].undos \cup {Len(job[t].undos) + 1}
          /\ job'[t].undos[Len(job[t].undos) + 1] = e
          /\ \A i \in DOMAIN job[t].undos : job'[t].undos[i] = job[t].undos[i]
        BY <2>1, <2>2, GrowthFacts
    <2>4. Len(job[t].undos) \in Nat /\ DOMAIN job[t].undos = 1 .. Len(job[t].undos)
        BY <2>2, EntryFacts
    <2>5. job[t].pc = "spilled" /\ job[t].pc \in Writing /\ job'[t].pc \in Writing \cup {"done"}
        BY <1>4, <2>1 DEF Land, Writing
    <2>6. before' = before /\ foreign[t] \subseteq foreign'[t]
        BY <1>4, <1>f DEF Land, Open
    <2>7. Recalls(job[t], p, Then(t, p), Now(p)) /\ Then(t, p)' = Then(t, p)
        BY <2>1, <2>5, <2>6 DEF Faithful, Then
    <2>8. ASSUME NEW i \in DOMAIN job[t].undos, First(job[t].undos, p, i)
          PROVE  First(job'[t].undos, p, i)
        <3>1. \A k \in DOMAIN job'[t].undos : k < i => k \in DOMAIN job[t].undos
            BY <2>3, <2>4
        <3> QED BY <2>3, <2>8, <3>1 DEF First
    <2>9. CASE \E i \in DOMAIN job[t].undos : /\ First(job[t].undos, p, i)
                                              /\ OrBlank(job[t].undos[i].previous) = Then(t, p)
        <3>1. PICK i \in DOMAIN job[t].undos : /\ First(job[t].undos, p, i)
                                               /\ OrBlank(job[t].undos[i].previous) = Then(t, p)
            BY <2>9
        <3>2. First(job'[t].undos, p, i) /\ i \in DOMAIN job'[t].undos
              /\ OrBlank(job'[t].undos[i].previous) = Then(t, p)
            BY <2>3, <2>8, <3>1
        <3> QED BY <1>b, <2>5, <2>7, <3>2 DEF Recalls
    <2>10. CASE /\ job[t].plan.path = p /\ \A i \in DOMAIN job[t].undos : job[t].undos[i].path # p
                /\ OrBlank(job[t].plan.previous) = Then(t, p)
        <3> DEFINE i == Len(job[t].undos) + 1
        <3>1. i \in DOMAIN job'[t].undos /\ job'[t].undos[i] = e
            BY <2>3
        <3>2. \A k \in DOMAIN job'[t].undos : k < i => k \in DOMAIN job[t].undos
            BY <2>3, <2>4
        <3> HIDE DEF i
        <3>3. First(job'[t].undos, p, i)
            BY <2>2, <2>3, <2>10, <3>1, <3>2 DEF First
        <3>4. OrBlank(job'[t].undos[i].previous) = Then(t, p)
            BY <2>2, <2>10, <3>1
        <3> QED BY <1>b, <2>5, <2>7, <3>1, <3>3, <3>4 DEF Recalls
    <2> QED BY <2>7, <2>9, <2>10 DEF Recalls
<1>5. CASE Open(t)
    <2> DEFINE o == job'[t].plan
    <2>1. /\ Wise(Head(job[t].acts), o)
          /\ before'[t] = IF o.path \in DOMAIN before[t] THEN before[t]
                          ELSE Put(o.path, Read(o.path), before[t])
          /\ DOMAIN before'[t] = DOMAIN before[t] \cup {o.path}
          /\ foreign' = [foreign EXCEPT ![t] = IF o.path \in DOMAIN files \ index
                                               THEN foreign[t] \cup {o.path} ELSE foreign[t]]
        BY <1>5, OpenIs DEF Opening
    <2>2. /\ job[t].pc = "writing" /\ job'[t].pc = "opened" /\ job'[t].plan = o
          /\ job'[t].undos = job[t].undos /\ job'[t].refused = job[t].refused
        BY <1>5, OpenFields
    <2> HIDE DEF o
    <2>3. foreign'[t] = IF o.path \in DOMAIN files \ index THEN foreign[t] \cup {o.path}
                        ELSE foreign[t]
        BY <2>1 DEF Shaped
    <2>4. /\ job[t].pc \notin Putting /\ job[t].pc \in Writing /\ job'[t].pc \in Putting
          /\ job'[t].pc \in Writing \cup {"done"}
        BY <2>2, PcFacts DEF Writing
    <2>5. CASE p \in DOMAIN before[t]
        <3>1. before'[t][p] = before[t][p]
            <4>1. CASE o.path \in DOMAIN before[t]
                BY <2>1, <4>1
            <4>2. CASE o.path \notin DOMAIN before[t]
                <5>1. before'[t] = Put(o.path, Read(o.path), before[t]) /\ p # o.path
                    BY <2>1, <2>5, <4>2
                <5> QED BY <2>5, <5>1 DEF Put
            <4> QED BY <4>1, <4>2
        <3>2. Then(t, p)' = Then(t, p) /\ p \notin foreign[t]
            BY <2>3, <3>1 DEF Then
        <3>3. Recalls(job[t], p, Then(t, p), Now(p))
            BY <2>2, <2>4, <2>5, <3>2 DEF Faithful
        <3> DEFINE j == job[t]
                   n == job'[t]
        <3>4. /\ n.undos = j.undos /\ j.pc \notin Putting /\ \A i \in DOMAIN n.undos : ~ Behind(n, i)
              /\ Recalls(j, p, Then(t, p), Now(p))
            BY <1>b, <2>2, <2>4, <3>3
        <3> HIDE DEF j, n
        <3>5. Recalls(n, p, Then(t, p), Now(p)')
            BY <3>4, RecallsOn
        <3> QED BY <3>2, <3>5 DEF n
    <2>6. CASE p \notin DOMAIN before[t]
        <3>1. p = o.path /\ before'[t] = Put(p, Read(p), before[t])
            BY <2>1, <2>6
        <3>2. before'[t][p] = Read(p)
            BY <3>1 DEF Put
        <3>3. Then(t, p)' = Now(p)
            BY <3>2 DEF Then, Now
        <3>4. p \notin DOMAIN files \ index
            BY <2>3, <3>1
        <3>5. OrBlank(o.previous) = Now(p)
            <4>1. CASE OrBlank(o.previous) = OrBlank(Read(o.path))
                BY <3>1, <4>1 DEF Now
            <4>2. CASE o.previous = <<>> /\ o.path \notin index
                <5>1. Read(p) = <<>>
                    BY <3>1, <3>4, <4>2 DEF Read
                <5> QED BY <4>2, <5>1 DEF Now
            <4> QED BY <2>1, <4>1, <4>2 DEF Wise
        <3>6. \A i \in DOMAIN job'[t].undos : job'[t].undos[i].path # p
            BY ZenonT(60), <2>2, <2>6 DEF Ordered, Fits
        <3> QED BY <2>2, <2>4, <3>1, <3>3, <3>5, <3>6 DEF Recalls
    <2> QED BY <2>5, <2>6
<1> QED BY <1>2, <1>3, <1>4, <1>5

\* A write that is the oldest of its path, beyond the one at hand.
LEMMA FirstBeyond ==
    ASSUME NEW undos \in Seq(UndoRec), NEW p, NEW i, First(undos, p, i), NEW l \in DOMAIN undos,
           i > l - 1
    PROVE  /\ i = l => undos[l].path = p
           /\ undos[l].path # p => i > l
           /\ undos[l].path = p => i = l
<1>1. i \in Nat /\ l \in Nat /\ i \in DOMAIN undos /\ undos[i].path = p
    BY EntryFacts DEF First
<1>2. i = l \/ i > l
    BY <1>1
<1>3. undos[l].path = p => ~ l < i
    BY DEF First
<1> QED BY <1>1, <1>2, <1>3

\* The same undos, and of what is taken back the text is there again.
LEMMA RecallsAgain ==
    ASSUME NEW j, NEW n, NEW p, NEW then, NEW now, NEW later, Recalls(j, p, then, now),
           n.undos = j.undos, j.pc \notin Putting,
           \A i \in DOMAIN j.undos :
               /\ First(j.undos, p, i)
               /\ OrBlank(j.undos[i].previous) = then
               /\ Behind(j, i) => now = then
               /\ Behind(n, i)
               => later = then
    PROVE  Recalls(n, p, then, later)
<1>1. PICK i \in DOMAIN j.undos : /\ First(j.undos, p, i)
                                  /\ OrBlank(j.undos[i].previous) = then
                                  /\ Behind(j, i) => now = then
    BY DEF Recalls
<1>2. Behind(n, i) => later = then
    BY <1>1
<1>3. i \in DOMAIN n.undos /\ First(n.undos, p, i) /\ OrBlank(n.undos[i].previous) = then
    BY <1>1
<1> QED BY <1>2, <1>3 DEF Recalls

\* The steps of its Undo, and of its failing.
LEMMA UndoesRecall ==
    ASSUME Shaped, Ordered, NEW t \in Turns, Faithful(t),
           \/ Undo(t) \/ Bin(t) \/ Restore(t) \/ Reland(t)
           \/ Spill(t) /\ job[t].pc = "restoring"
           \/ Refused(t) \/ UndoRefused(t) \/ Undone(t)
    PROVE  Faithful(t)'
<1>w. /\ job[t] \in JobRec /\ job[t].undos \in Seq(UndoRec) /\ job[t].left \in Nat
      /\ job[t].plan.path \in Paths /\ DOMAIN before[t] \subseteq Paths
      /\ Fits(t, job[t], DOMAIN before[t])
    BY PlannedPath DEF Shaped, Ordered, JobRec
<1>b. before' = before /\ \A p : Then(t, p)' = Then(t, p)
    <2>1. before' = before
        BY DEF Undo, Bin, Restore, Reland, Spill, Refused, UndoRefused, Undone, history
    <2> QED BY <2>1 DEF Then
<1>p. /\ "undoing" \in Undoing /\ "undoing" \notin Restoring \cup Putting
      /\ "restoring" \in Undoing \cap Restoring /\ "respilled" \in Undoing \cap Restoring
      /\ "restoring" \notin Putting /\ "respilled" \notin Putting
      /\ "done" \notin Putting /\ "undone" \notin Writing \cup Undoing \cup {"done"}
    BY PcFacts DEF Writing
<1>1. CASE Undo(t)
    <2>1. /\ job[t].pc = "done" /\ job'[t].pc = "undoing" /\ job'[t].undos = job[t].undos
          /\ job'[t].left = Len(job[t].undos) /\ job'[t].refused = job[t].refused
          /\ foreign' = foreign
        BY <1>1, UndoMoves DEF Undo, history
    <2>2. \A i \in DOMAIN job'[t].undos : ~ Behind(job'[t], i)
        <3>1. \A i \in DOMAIN job[t].undos : ~ i > Len(job[t].undos)
            BY <1>w, EntryFacts
        <3> QED BY <1>p, <2>1, <3>1 DEF Behind
    <2>3. ASSUME ~ job'[t].refused, NEW p \in DOMAIN before[t] \ foreign[t]
          PROVE  Recalls(job'[t], p, Then(t, p), Now(p)')
        <3>1. Recalls(job[t], p, Then(t, p), Now(p))
            BY <2>1, <2>3 DEF Faithful
        <3> DEFINE j == job[t]
                   n == job'[t]
        <3>2. /\ n.undos = j.undos /\ j.pc \notin Putting /\ \A i \in DOMAIN n.undos : ~ Behind(n, i)
              /\ Recalls(j, p, Then(t, p), Now(p))
            BY <1>p, <2>1, <2>2, <3>1
        <3> HIDE DEF j, n
        <3>3. Recalls(n, p, Then(t, p), Now(p)')
            BY <3>2, RecallsOn
        <3> QED BY <3>3 DEF n
    <2> QED BY <1>b, <2>1, <2>3 DEF Faithful
<1>2. CASE Spill(t) /\ job[t].pc = "restoring"
    <2>1. /\ job'[t].pc = "respilled" /\ Alike(job[t], job'[t])
          /\ files' = files /\ spill' = [spill EXCEPT ![job[t].plan.path] = <<job[t].plan>>]
          /\ Meddles({t}, job[t].plan.path)
        BY <1>2, SpillMoves DEF Spill
    <2>2. foreign'[t] = foreign[t]
        BY <1>w, <2>1, MeddleFacts
    <2>3. spill'[job[t].plan.path] = <<job[t].plan>>
        BY <1>w, <2>1 DEF Shaped
    <2>4. ASSUME ~ job'[t].refused, NEW p \in DOMAIN before[t] \ foreign[t]
          PROVE  Recalls(job'[t], p, Then(t, p), Now(p)')
        <3>1. Recalls(job[t], p, Then(t, p), Now(p))
            BY <1>2, <1>p, <2>1, <2>4 DEF Faithful, Alike
        <3>2. Now(p)' = Now(p)
            BY <2>1 DEF Now, Read
        <3> DEFINE j == job[t]
                   n == job'[t]
        <3>3. \A i : Behind(n, i) => Behind(j, i)
            BY <1>2, <1>p, <2>1 DEF Behind, Alike
        <3>4. n.undos = j.undos /\ j.pc \notin Putting /\ Recalls(j, p, Then(t, p), Now(p))
            BY <1>2, <1>p, <2>1, <3>1 DEF Alike
        <3> HIDE DEF j, n
        <3>5. Recalls(n, p, Then(t, p), Now(p)')
            BY <3>2, <3>3, <3>4, RecallsAgain
        <3> QED BY <3>5 DEF n
    <2> QED BY <1>b, <2>1, <2>2, <2>3, <2>4 DEF Faithful, Alike
<1>3. CASE Bin(t)
    <2> DEFINE l == job[t].left
               q == Latest(t).path
    <2>1. /\ job[t].pc = "undoing" /\ Latest(t).previous = <<>>
          /\ files' = [p \in DOMAIN files \ {q} |-> files[p]] /\ spill' = spill
          /\ Meddles({t}, q)
        BY <1>3 DEF Bin
    <2>2. /\ l \in DOMAIN job[t].undos /\ job'[t].pc = "undoing" /\ job'[t].undos = job[t].undos
          /\ job'[t].left = l - 1 /\ job'[t].refused = job[t].refused
        BY <1>3, BinMoves
    <2>3. Latest(t) = job[t].undos[l]
        BY DEF Latest
    <2>4. q \in Paths
        <3>1. job[t].undos[l] \in UndoRec
            BY <1>w, <2>2, EntryFacts
        <3> QED BY <2>3, <3>1 DEF UndoRec
    <2> HIDE DEF l, q
    <2>5. foreign'[t] = foreign[t]
        BY <2>1, <2>4, MeddleFacts
    <2>6. ASSUME ~ job'[t].refused, NEW p \in DOMAIN before[t] \ foreign[t]
          PROVE  Recalls(job'[t], p, Then(t, p), Now(p)')
        <3>1. Recalls(job[t], p, Then(t, p), Now(p))
            BY <1>p, <2>1, <2>2, <2>6 DEF Faithful
        <3>2. ASSUME NEW i \in DOMAIN job[t].undos, First(job[t].undos, p, i),
                     OrBlank(job[t].undos[i].previous) = Then(t, p),
                     Behind(job[t], i) => Now(p) = Then(t, p), Behind(job'[t], i)
              PROVE  Now(p)' = Then(t, p)
            <4>1. i > l - 1
                BY <1>p, <2>2, <3>2 DEF Behind
            <4>2. /\ job[t].undos \in Seq(UndoRec) /\ First(job[t].undos, p, i)
                  /\ l \in DOMAIN job[t].undos /\ i > l - 1
                BY <1>w, <2>2, <3>2, <4>1
            <4>3. /\ job[t].undos[l].path # p => i > l
                  /\ job[t].undos[l].path = p => i = l
                BY <4>2, FirstBeyond
            <4>4. CASE job[t].undos[l].path = p
                <5>1. p = q
                    BY <2>3, <4>4 DEF q
                <5>2. Read(p)' = <<>>
                    BY <2>1, <5>1 DEF Read
                <5>3. job[t].undos[i].previous = <<>>
                    BY <2>1, <2>3, <4>3, <4>4
                <5>4. Then(t, p) = Blank
                    BY <3>2, <5>3 DEF OrBlank
                <5> QED BY <5>2, <5>4 DEF Now, OrBlank
            <4>5. CASE job[t].undos[l].path # p
                <5>1. Behind(job[t], i)
                    BY <2>1, <4>3, <4>5 DEF Behind, l
                <5>2. Now(p)' = Now(p)
                    BY <2>1, <2>3, <4>5 DEF Now, Read, q
                <5> QED BY <3>2, <5>1, <5>2
            <4> QED BY <4>4, <4>5
        <3> DEFINE j == job[t]
                   n == job'[t]
        <3>3. n.undos = j.undos /\ j.pc \notin Putting /\ Recalls(j, p, Then(t, p), Now(p))
            BY <1>p, <2>1, <2>2, <3>1
        <3>4. \A i \in DOMAIN j.undos :
                  /\ First(j.undos, p, i)
                  /\ OrBlank(j.undos[i].previous) = Then(t, p)
                  /\ Behind(j, i) => Now(p) = Then(t, p)
                  /\ Behind(n, i)
                  => Now(p)' = Then(t, p)
            BY <3>2
        <3> HIDE DEF j, n
        <3>5. Recalls(n, p, Then(t, p), Now(p)')
            BY <3>3, <3>4, RecallsAgain
        <3> QED BY <3>5 DEF n
    <2> QED BY <1>b, <2>2, <2>5, <2>6 DEF Faithful
<1>4. CASE Restore(t)
    <2>1. /\ job[t].pc = "undoing" /\ job[t].left \in DOMAIN job[t].undos
          /\ job'[t].pc = "restoring" /\ job'[t].undos = job[t].undos
          /\ job'[t].left = job[t].left - 1 /\ job'[t].refused = job[t].refused
          /\ files' = files /\ foreign' = foreign
        BY <1>4, RestoreMoves DEF Restore, disk, history
    <2>2. ASSUME ~ job'[t].refused, NEW p \in DOMAIN before[t] \ foreign[t]
          PROVE  Recalls(job'[t], p, Then(t, p), Now(p)')
        <3>1. Recalls(job[t], p, Then(t, p), Now(p))
            BY <1>p, <2>1, <2>2 DEF Faithful
        <3>2. Now(p)' = Now(p)
            BY <2>1 DEF Now, Read
        <3>3. job'[t].left + 1 = job[t].left
            BY <1>w, <2>1
        <3> DEFINE j == job[t]
                   n == job'[t]
        <3>4. \A i : Behind(n, i) => Behind(j, i)
            BY <1>p, <2>1, <3>3 DEF Behind
        <3>5. n.undos = j.undos /\ j.pc \notin Putting /\ Recalls(j, p, Then(t, p), Now(p))
            BY <1>p, <2>1, <3>1
        <3> HIDE DEF j, n
        <3>6. Recalls(n, p, Then(t, p), Now(p)')
            BY <3>2, <3>4, <3>5, RecallsAgain
        <3> QED BY <3>6 DEF n
    <2> QED BY <1>b, <2>1, <2>2 DEF Faithful
<1>5. CASE Reland(t)
    <2> DEFINE l == job[t].left + 1
               q == job[t].plan.path
    <2>1. /\ spill[q] # <<>> /\ Landed(q) /\ Meddles({t}, q)
        BY <1>5 DEF Reland
    <2>2. /\ job[t].pc = "respilled" /\ l \in DOMAIN job[t].undos
          /\ q = job[t].undos[l].path /\ job[t].undos[l].previous = <<job[t].plan.new>>
          /\ job'[t].pc = "undoing" /\ job'[t].undos = job[t].undos
          /\ job'[t].left = l - 1 /\ job'[t].refused = job[t].refused
        <3>1. job[t].left = job[t].left + 1 - 1
            BY <1>w
        <3> QED BY <1>5, <3>1, RelandMoves
    <2>3. q \in Paths
        BY <1>w
    <2> HIDE DEF l, q
    <2>4. foreign'[t] = foreign[t]
        BY <2>1, <2>3, MeddleFacts
    <2>5. /\ \A p \in Paths : p # q => Now(p)' = Now(p)
          /\ \A p \in Paths : p = q => Now(p)' = spill[q][1].new
        BY <2>1, <2>3, LandedElse
    <2>6. ASSUME ~ job'[t].refused, NEW p \in DOMAIN before[t] \ foreign[t]
          PROVE  Recalls(job'[t], p, Then(t, p), Now(p)')
        <3>1. /\ Recalls(job[t], p, Then(t, p), Now(p))
              /\ p = q => spill[q] = <<job[t].plan>>
            BY <1>p, <2>1, <2>2, <2>6 DEF Faithful, q
        <3>2. ASSUME NEW i \in DOMAIN job[t].undos, First(job[t].undos, p, i),
                     OrBlank(job[t].undos[i].previous) = Then(t, p),
                     Behind(job[t], i) => Now(p) = Then(t, p), Behind(job'[t], i)
              PROVE  Now(p)' = Then(t, p)
            <4>1. i > l - 1
                BY <1>p, <2>2, <3>2 DEF Behind
            <4>2. /\ job[t].undos \in Seq(UndoRec) /\ First(job[t].undos, p, i)
                  /\ l \in DOMAIN job[t].undos /\ i > l - 1
                BY <1>w, <2>2, <3>2, <4>1
            <4>3. /\ job[t].undos[l].path # p => i > l
                  /\ job[t].undos[l].path = p => i = l
                BY <4>2, FirstBeyond
            <4>4. CASE p = q
                <5>1. spill[q][1] = job[t].plan
                    BY <3>1, <4>4
                <5>2. Now(p)' = job[t].plan.new
                    BY <2>3, <2>5, <4>4, <5>1
                <5>3. job[t].undos[i].previous = <<job[t].plan.new>>
                    BY <2>2, <4>3, <4>4
                <5>4. Then(t, p) = job[t].plan.new
                    BY <3>2, <5>3 DEF OrBlank
                <5> QED BY <5>2, <5>4
            <4>5. CASE p # q
                <5>1. Behind(job[t], i)
                    BY <1>p, <2>2, <4>3, <4>5 DEF Behind, l
                <5>2. Now(p)' = Now(p)
                    BY <1>w, <2>5, <4>5
                <5> QED BY <3>2, <5>1, <5>2
            <4> QED BY <4>4, <4>5
        <3> DEFINE j == job[t]
                   n == job'[t]
        <3>3. n.undos = j.undos /\ j.pc \notin Putting /\ Recalls(j, p, Then(t, p), Now(p))
            BY <1>p, <2>2, <3>1
        <3>4. \A i \in DOMAIN j.undos :
                  /\ First(j.undos, p, i)
                  /\ OrBlank(j.undos[i].previous) = Then(t, p)
                  /\ Behind(j, i) => Now(p) = Then(t, p)
                  /\ Behind(n, i)
                  => Now(p)' = Then(t, p)
            BY <3>2
        <3> HIDE DEF j, n
        <3>5. Recalls(n, p, Then(t, p), Now(p)')
            BY <3>3, <3>4, RecallsAgain
        <3> QED BY <3>5 DEF n
    <2> QED BY <1>b, <2>2, <2>4, <2>6 DEF Faithful
<1>6. CASE Refused(t) \/ UndoRefused(t) \/ Undone(t)
    <2>1. CASE job'[t].refused
        BY <2>1 DEF Faithful
    <2>2. CASE ~ job'[t].refused
        <3>1. Undone(t) /\ job'[t].pc = "undone" /\ job'[t].refused = job[t].refused
            BY <1>6, <2>2, EndMoves
        <3>2. job[t].pc = "undoing" /\ job[t].left = 0 /\ files' = files /\ foreign' = foreign
            BY <3>1 DEF Undone, disk, history
        <3>3. ASSUME NEW p \in DOMAIN before[t] \ foreign[t]
              PROVE  Now(p)' = Then(t, p)
            <4>1. Recalls(job[t], p, Then(t, p), Now(p))
                BY <1>p, <2>2, <3>1, <3>2, <3>3 DEF Faithful
            <4>2. PICK i \in DOMAIN job[t].undos : Behind(job[t], i) => Now(p) = Then(t, p)
                BY <1>p, <3>2, <4>1 DEF Recalls
            <4>3. i > job[t].left
                BY <1>w, <3>2, EntryFacts
            <4>4. Now(p)' = Now(p)
                BY <3>2 DEF Now, Read
            <4> QED BY <3>2, <4>2, <4>3, <4>4 DEF Behind
        <3> QED BY <1>b, <1>p, <3>1, <3>2, <3>3 DEF Faithful
    <2> QED BY <2>1, <2>2
<1> QED BY <1>1, <1>2, <1>3, <1>4, <1>5, <1>6

\* Linking is no meddling with the files of its own turn while that may still be taken back.
LEMMA LinkElse ==
    ASSUME Shaped, NEW t \in Turns, Links(t), NEW u \in Turns
    PROVE  /\ foreign[u] \subseteq foreign'[u]
           /\ u # t \/ job[u].pc # "done" =>
                  \A p \in DOMAIN before[u] \ foreign'[u] :
                      Now(p)' = Now(p) /\ (spill'[p] = spill[p] \/ spill'[p] = <<>>)
<1> DEFINE q == Head(link[t].todo)
           plan == Plan(q, <<>>, [link[t].seen EXCEPT !.linked = link[t].seen.lines], link[t].seen.lines)
<1>0. DOMAIN before[u] \subseteq Paths
    BY DEF Shaped
<1>o. u # t \/ job[u].pc # "done" => u \notin Owners(t)
    BY DEF Owners
<1>1. CASE LinkRead(t) \/ LinkNothing(t) \/ (LinkLand(t) /\ spill[q] = <<>>)
    <2>1. files' = files /\ spill' = spill /\ foreign' = foreign
        BY <1>1 DEF LinkRead, LinkNothing, LinkLand, disk, history
    <2> QED BY <2>1 DEF Now, Read
<1>2. CASE LinkSpill(t) \/ (LinkLand(t) /\ spill[q] # <<>>)
    <2>1. link[t].todo # <<>>
        BY <1>2 DEF Shaped, LinkSpill, LinkLand
    <2>2. q \in Paths
        BY <2>1, LinkedPath
    <2>3. Meddles(Owners(t), q)
        BY <1>2 DEF LinkSpill, LinkLand
    <2>4. CASE LinkSpill(t)
        <3>1. files' = files /\ spill' = [spill EXCEPT ![q] = <<plan>>]
            BY <2>4 DEF LinkSpill
        <3> HIDE DEF q, plan
        <3>2. \A p \in Paths : Now(p)' = Now(p) /\ (p # q => spill'[p] = spill[p])
            BY <3>1 DEF Now, Read, Shaped
        <3>3. /\ foreign[u] \subseteq foreign'[u]
              /\ u \notin Owners(t) /\ q \in DOMAIN before[u] => q \in foreign'[u]
            BY <2>2, <2>3, MeddleFacts
        <3> QED BY <1>0, <1>o, <3>2, <3>3
    <2>5. CASE LinkLand(t) /\ spill[q] # <<>>
        <3>1. Landed(q) /\ spill[q] # <<>>
            BY <2>5 DEF LinkLand
        <3> HIDE DEF q
        <3>2. /\ \A p \in Paths : p # q => Now(p)' = Now(p)
              /\ \A p \in Paths : spill'[p] = spill[p] \/ spill'[p] = <<>>
            BY <2>2, <3>1, LandedElse
        <3>3. /\ foreign[u] \subseteq foreign'[u]
              /\ u \notin Owners(t) /\ q \in DOMAIN before[u] => q \in foreign'[u]
            BY <2>2, <2>3, MeddleFacts
        <3> QED BY <1>0, <1>o, <3>2, <3>3
    <2> QED BY <1>2, <2>4, <2>5
<1> QED BY <1>1, <1>2 DEF Links

\* Whoever asked for an Undo is past writing.
Wishing == \A t \in Turns : job[t].wished => job[t].pc \notin Early \cup Writing

LEMMA StepWishes == ASSUME Shaped, Ordered, Wishing, [Next]_vars PROVE Wishing'
<1>1. ASSUME NEW t \in Turns, Works(t)
      PROVE  Wishing'
    <2>1. \A u \in Turns : u # t => job'[u] = job[u]
        BY <1>1, WorkMoves, MovesFacts
    <2>2. ASSUME job'[t].wished, job'[t].pc \in Early \cup Writing
          PROVE  FALSE
        <3>0. job[t].wished => job[t].pc \notin Early \cup Writing
            BY DEF Wishing
        <3>1. CASE Begin(t) \/ Index(t) \/ NothingFiled(t) \/ File(t) \/ Prepare(t)
            <4>1. job[t].pc \in Early \cup Writing
                BY <3>1, EarlyFields, FileFields DEF Prepare, Writing
            <4>2. job[t].wished
                BY <2>2, <3>1, EarlyFields, FileFields, PrepareFields DEF Alike
            <4> QED BY <3>0, <4>1, <4>2
        <3>2. CASE Open(t) \/ Land(t) \/ Written(t)
            <4>1. job[t].pc \in Early \cup Writing
                BY <3>2, OpenFields DEF Land, Written, Writing
            <4>2. job[t].wished
                BY <2>2, <3>2, OpenFields, LandMoves, WrittenMoves DEF Alike
            <4> QED BY <3>0, <4>1, <4>2
        <3>3. CASE Spill(t)
            <4>1. job[t].wished
                BY <2>2, <3>3, SpillMoves DEF Alike
            <4>2. job[t].pc # "opened"
                BY <3>0, <4>1 DEF Writing
            <4>3. job'[t].pc = "respilled"
                BY <3>3, <4>2, SpillMoves DEF Spill
            <4> QED BY <2>2, <4>3 DEF Early, Writing
        <3>4. CASE Refused(t) \/ UndoRefused(t) \/ Undone(t)
            <4>1. job'[t].pc \in {"done", "undone"}
                BY <3>4, EndMoves
            <4> QED BY <2>2, <4>1 DEF Early, Writing
        <3>5. CASE Undo(t) \/ Bin(t) \/ Restore(t) \/ Reland(t)
            <4>1. job'[t].pc \in {"undoing", "restoring"}
                BY <3>5, UndoMoves, BinMoves, RestoreMoves, RelandMoves
            <4> QED BY <2>2, <4>1 DEF Early, Writing
        <3> QED BY <1>1, <3>1, <3>2, <3>3, <3>4, <3>5 DEF Works
    <2>3. ASSUME NEW u \in Turns, job'[u].wished
          PROVE  job'[u].pc \notin Early \cup Writing
        <3>1. CASE u = t
            BY <2>2, <2>3, <3>1
        <3>2. CASE u # t
            BY <2>1, <2>3, <3>2 DEF Wishing
        <3> QED BY <3>1, <3>2
    <2> QED BY <2>3 DEF Wishing
<1>2. ASSUME NEW t \in Turns, Links(t)
      PROVE  Wishing'
    BY <1>2, LinkWorks DEF Wishing
<1>3. ASSUME NEW p \in Typed, Type(p)
      PROVE  Wishing'
    BY <1>3, TypeWorks DEF Wishing
<1>4. CASE Crash
    <2>1. ASSUME NEW t \in Turns, job'[t].wished
          PROVE  job'[t] = job[t] \/ job'[t].pc = "done"
        BY <1>4, <2>1, CrashWorks
    <2> QED BY <2>1 DEF Wishing, Early, Writing
<1>5. CASE UNCHANGED vars
    BY <1>5 DEF vars, Wishing
<1> QED BY <1>1, <1>2, <1>3, <1>4, <1>5, StepCases

\* What the user types meddles with every turn that had the note.
LEMMA TypeElse ==
    ASSUME Shaped, NEW q \in Typed, Type(q), NEW u \in Turns
    PROVE  /\ foreign[u] \subseteq foreign'[u]
           /\ \A p \in DOMAIN before[u] \ foreign'[u] :
                  Now(p)' = Now(p) /\ (spill'[p] = spill[p] \/ spill'[p] = <<>>)
<1>1. /\ spill' = spill /\ DOMAIN files' = DOMAIN files \cup {q}
      /\ \A p \in DOMAIN files : p # q => files'[p] = files[p]
      /\ foreign[u] \subseteq foreign'[u] /\ (q \in DOMAIN before[u] => q \in foreign'[u])
    BY TypeWorks
<1>2. ASSUME NEW p, p # q
      PROVE  Now(p)' = Now(p)
    BY <1>1, <1>2 DEF Now, Read
<1> QED BY <1>1, <1>2

\* An Undo that a crash cut short can be asked for again.
LEMMA CrashRecalls ==
    ASSUME Shaped, Ordered, Wishing, Crash, NEW t \in Turns, Faithful(t)
    PROVE  Faithful(t)'
<1>1. /\ files' = files /\ spill' = spill /\ before' = before /\ foreign' = foreign
      /\ \/ job'[t] = job[t]
         \/ /\ job'[t].pc = "done" /\ job'[t].undos = job[t].undos
            /\ job'[t].refused = job[t].refused
            /\ job[t].wished /\ Busy(t)
         \/ job'[t].pc = "dead"
    BY CrashWorks
<1>2. CASE job'[t] = job[t]
    <2>1. \A p : Now(p)' = Now(p)
        BY <1>1 DEF Now, Read
    <2>2. before'[t] = before[t] /\ foreign[t] \subseteq foreign'[t]
        BY <1>1
    <2> QED BY <1>1, <1>2, <2>1, <2>2, Untouched
<1>3. CASE job'[t].pc = "dead"
    <2>1. job'[t].pc \notin Writing \cup Undoing \cup {"done"}
        BY <1>3, PcFacts DEF Writing
    <2> QED BY <1>3, <2>1 DEF Faithful
<1>4. CASE /\ job'[t].pc = "done" /\ job'[t].undos = job[t].undos
           /\ job'[t].refused = job[t].refused
           /\ job[t].wished /\ Busy(t)
    <2>1. job[t].pc \in JobPcs /\ job[t].pc \notin Early \cup Writing
        BY <1>4 DEF Wishing, Shaped, JobRec
    <2>2. job[t].pc \in Undoing /\ job[t].pc \notin Putting
        BY <1>4, <2>1, PcFacts DEF Busy, Writing
    <2>3. \A i : ~ Behind(job'[t], i)
        BY <1>4, PcFacts DEF Behind
    <2>4. ASSUME ~ job'[t].refused, NEW p \in DOMAIN before'[t] \ foreign'[t]
          PROVE  Recalls(job'[t], p, Then(t, p)', Now(p)')
        <3>1. Recalls(job[t], p, Then(t, p), Now(p))
            BY <1>1, <1>4, <2>2, <2>4 DEF Faithful
        <3> DEFINE j == job[t]
                   n == job'[t]
        <3>2. /\ n.undos = j.undos /\ j.pc \notin Putting /\ \A i \in DOMAIN n.undos : ~ Behind(n, i)
              /\ Recalls(j, p, Then(t, p), Now(p))
            BY <1>4, <2>2, <2>3, <3>1
        <3> HIDE DEF j, n
        <3>3. Recalls(n, p, Then(t, p), Now(p)')
            BY <3>2, RecallsOn
        <3>4. Then(t, p)' = Then(t, p)
            BY <1>1 DEF Then
        <3> QED BY <3>3, <3>4 DEF n
    <2> QED BY <1>4, <2>4 DEF Faithful
<1> QED BY <1>1, <1>2, <1>3, <1>4

LEMMA StepRemembers ==
    ASSUME Shaped, Ordered, Wishing, Remembered, [Next]_vars
    PROVE  Remembered'
<1> SUFFICES ASSUME NEW u \in Turns PROVE Faithful(u)'
    BY DEF Remembered
<1>0. Faithful(u)
    BY DEF Remembered
<1>1. ASSUME NEW t \in Turns, Works(t)
      PROVE  Faithful(u)'
    <2>1. CASE u = t
        <3>1. CASE \/ Begin(t) \/ Index(t) \/ NothingFiled(t) \/ File(t) \/ Prepare(t) \/ Open(t)
                   \/ Spill(t) /\ job[t].pc = "opened"
                   \/ Land(t) \/ Written(t)
            BY <1>0, <2>1, <3>1, WritesRecall
        <3>2. CASE \/ Undo(t) \/ Bin(t) \/ Restore(t) \/ Reland(t)
                   \/ Spill(t) /\ job[t].pc = "restoring"
                   \/ Refused(t) \/ UndoRefused(t) \/ Undone(t)
            BY <1>0, <2>1, <3>2, UndoesRecall
        <3>3. Spill(t) => job[t].pc = "opened" \/ job[t].pc = "restoring"
            BY DEF Spill
        <3> QED BY <1>1, <3>1, <3>2, <3>3 DEF Works
    <2>2. CASE u # t
        <3>1. job'[u] = job[u] /\ before'[u] = before[u]
            BY <1>1, <2>2, WorkMoves, MovesFacts, WorkPast
        <3>2. /\ foreign[u] \subseteq foreign'[u]
              /\ \A p \in DOMAIN before[u] \ foreign'[u] :
                     Now(p)' = Now(p) /\ (spill'[p] = spill[p] \/ spill'[p] = <<>>)
            BY <1>1, <2>2, WorkElse
        <3> QED BY <1>0, <3>1, <3>2, Untouched
    <2> QED BY <2>1, <2>2
<1>2. ASSUME NEW t \in Turns, Links(t)
      PROVE  Faithful(u)'
    <2>1. job'[u] = job[u] /\ before'[u] = before[u]
        BY <1>2, LinkWorks
    <2>2. /\ foreign[u] \subseteq foreign'[u]
          /\ u # t \/ job[u].pc # "done" =>
                 \A p \in DOMAIN before[u] \ foreign'[u] :
                     Now(p)' = Now(p) /\ (spill'[p] = spill[p] \/ spill'[p] = <<>>)
        BY <1>2, LinkElse
    <2>3. job[u].pc \in Undoing \cup {"undone"} => job[u].pc # "done"
        BY PcFacts
    <2>4. job[u].pc \in Undoing \cup {"undone"} =>
              \A p \in DOMAIN before[u] \ foreign'[u] :
                  Now(p)' = Now(p) /\ (spill'[p] = spill[p] \/ spill'[p] = <<>>)
        BY <2>2, <2>3
    <2> QED BY <1>0, <2>1, <2>2, <2>4, Untouched
<1>3. ASSUME NEW q \in Typed, Type(q)
      PROVE  Faithful(u)'
    <2>1. job'[u] = job[u] /\ before'[u] = before[u]
        BY <1>3, TypeWorks
    <2>2. /\ foreign[u] \subseteq foreign'[u]
          /\ \A p \in DOMAIN before[u] \ foreign'[u] :
                 Now(p)' = Now(p) /\ (spill'[p] = spill[p] \/ spill'[p] = <<>>)
        BY <1>3, TypeElse
    <2> QED BY <1>0, <2>1, <2>2, Untouched
<1>4. CASE Crash
    BY <1>0, <1>4, CrashRecalls
<1>5. CASE UNCHANGED vars
    BY <1>0, <1>5 DEF vars, Faithful, Then, Now, Read
<1> QED BY <1>1, <1>2, <1>3, <1>4, <1>5, StepCases

----------------------------------------------------------------------------
(* The theorems. *)

VaultInv == Shaped /\ Ordered /\ Accounted /\ Reached /\ Wishing /\ Remembered

LEMMA StartHolds == ASSUME Init PROVE VaultInv
<1>1. Shaped /\ Ordered
    BY StartShapes
<1>2. /\ \A t \in Turns : /\ job[t].plan = NoPlan /\ job[t].undos = <<>> /\ job[t].acts = <<>>
                          /\ job[t].pc = "idle" /\ ~ job[t].wished
                          /\ link[t].pc = "idle" /\ DOMAIN before[t] = {}
      /\ \A p \in Paths : spill[p] = <<>>
      /\ DOMAIN files = {Names[1]} /\ files[Names[1]].lines = {Old} /\ written = {Old}
    <2>1. Of(Old).lines = {Old}
        BY DEF Of, Blank
    <2> QED BY <2>1 DEF Init, Idle, Unlinked
<1>3. Accounted
    <2>1. \A t \in Turns : job[t].plan.seen \ job[t].plan.new.lines = {}
        BY <1>2, NothingPlanned
    <2>2. \A w \in written : InFiles(w)
        BY <1>2 DEF InFiles
    <2> QED BY <1>2, <2>1, <2>2 DEF Accounted
<1>4. Reached
    <2> SUFFICES ASSUME NEW t \in Turns, NEW p \in Paths, NEW w \in OwnWords(t), HeldAt(p, w)
                 PROVE  FALSE
        BY DEF Reached
    <2>1. w # Old
        BY LinesDiffer DEF OwnWords
    <2>2. \A u \in Turns : ~ LinkHolds(link[u], p, w)
        BY <1>2 DEF LinkHolds
    <2>3. \A u \in Turns : ~ JobHolds(job[u], p, w)
        <3> SUFFICES ASSUME NEW u \in Turns PROVE ~ JobHolds(job[u], p, w)
            OBVIOUS
        <3>1. /\ job[u].plan.new.lines = {} /\ LinesOf(job[u].plan.previous) = {}
              /\ DOMAIN job[u].undos = {} /\ DOMAIN job[u].acts = {}
            BY <1>2, NothingPlanned, TextFacts DEF LinesOf, OrBlank
        <3> QED BY <3>1 DEF JobHolds
    <2>4. ~ (p \in DOMAIN files /\ w \in files[p].lines) /\ spill[p] = <<>>
        BY <1>2, <2>1
    <2> QED BY <2>2, <2>3, <2>4 DEF HeldAt
<1>5. Wishing /\ Remembered
    BY <1>2 DEF Wishing, Remembered, Faithful
<1> QED BY <1>1, <1>3, <1>4, <1>5 DEF VaultInv

\* The invariant, as one: the shapes of the records, what a turn keeps by where it stands, and the
\* three ideas of the head of this module.
THEOREM Invariance == Spec => []VaultInv
<1>1. Init => VaultInv
    BY StartHolds
<1>2. VaultInv /\ [Next]_vars => VaultInv'
    <2> SUFFICES ASSUME VaultInv, [Next]_vars PROVE VaultInv'
        OBVIOUS
    <2>1. Shaped /\ Ordered /\ Accounted /\ Reached /\ Wishing /\ Remembered
        BY DEF VaultInv
    <2>2. Shaped' /\ Ordered'
        BY <2>1, StepShapes
    <2>3. Accounted'
        BY <2>1, StepAccounts
    <2>4. Reached'
        BY <2>1, StepReaches
    <2>5. Wishing' /\ Remembered'
        BY <2>1, StepWishes, StepRemembers
    <2> QED BY <2>2, <2>3, <2>4, <2>5 DEF VaultInv
<1> QED BY <1>1, <1>2, PTL DEF Spec

\* Files, plans and links keep their types, a spilled file belongs to one write, and a turn has no
\* more undos than it was asked for actions.
THEOREM TypeCorrect == Spec => []TypeOK
<1>1. VaultInv => TypeOK
    <2> SUFFICES ASSUME VaultInv PROVE TypeOK
        OBVIOUS
    <2>0. Shaped /\ Ordered
        BY DEF VaultInv
    <2>1. DOMAIN files \subseteq Paths /\ index \subseteq Paths /\ \A p \in DOMAIN files : files[p] \in Text
        BY <2>0 DEF Shaped
    <2>2. ASSUME NEW p \in Paths
          PROVE  Len(spill[p]) <= 1
        <3>1. spill[p] \in Maybe(PlanRec)
            BY <2>0 DEF Shaped
        <3>2. CASE spill[p] = <<>>
            BY <3>2
        <3>3. CASE spill[p] # <<>>
            <4>1. PICK x \in PlanRec : spill[p] = <<x>>
                BY <3>1, <3>3 DEF Maybe
            <4> QED BY <4>1
        <3> QED BY <3>2, <3>3
    <2>3. ASSUME NEW t \in Turns
          PROVE  /\ job[t].plan.new \in Text /\ link[t].new \in Text
                 /\ Len(job[t].acts) + Len(job[t].undos) <= MaxActions
                 /\ job[t].pc \in {"opened", "spilled"} => job[t].plan.path \in DOMAIN before[t]
        <3>1. job[t].plan \in PlanRec /\ link[t] \in LinkRec
            BY <2>0, PlannedPath DEF Shaped
        <3>2. Fits(t, job[t], DOMAIN before[t])
            BY <2>0 DEF Ordered
        <3>3. job[t].plan.new \in Text /\ link[t].new \in Text
            BY <3>1 DEF PlanRec, LinkRec
        <3> QED BY <3>2, <3>3, PcFacts DEF Fits
    <2> QED BY <2>1, <2>2, <2>3 DEF TypeOK
<1> QED BY <1>1, Invariance, PTL

\* Whatever was in the vault once is in a note or in .trash, unless somebody undid it or a writer
\* who had read the note before put its own text over it, or an update replaced the section it stood
\* in, of which .trash gets no copy: however many turns and links write, and wherever the process dies.
THEOREM NothingInTheVaultIsLost == Spec => []NothingIsLost
<1>1. VaultInv => NothingIsLost
    <2> SUFFICES ASSUME VaultInv, NEW w \in written, w \notin unseen,
                        w \notin UNION {OwnWords(t) : t \in {u \in Turns : job[u].wished}}
                 PROVE  w \in Kept
        BY DEF NothingIsLost
    <2>1. InFiles(w) \/ Safe(w)
        BY DEF VaultInv, Accounted
    <2>2. \A u \in Turns : job[u].wished => w \notin OwnWords(u)
        OBVIOUS
    <2>3. CASE InFiles(w)
        BY <2>3 DEF InFiles, Kept
    <2>4. CASE \E p \in Paths : \E i \in DOMAIN trash[p] : w \in trash[p][i].lines
        <3>1. PICK p \in Paths : \E i \in DOMAIN trash[p] : w \in trash[p][i].lines
            BY <2>4
        <3>2. PICK i \in DOMAIN trash[p] : w \in trash[p][i].lines
            BY <3>1
        <3>3. {trash[p][k].lines : k \in DOMAIN trash[p]} \in
                  {{trash[q][k].lines : k \in DOMAIN trash[q]} : q \in Paths}
            OBVIOUS
        <3>4. trash[p][i].lines \in {trash[p][k].lines : k \in DOMAIN trash[p]}
            OBVIOUS
        <3> QED BY <3>2, <3>3, <3>4 DEF Kept
    <2> QED BY <2>1, <2>2, <2>3, <2>4 DEF Safe
<1> QED BY <1>1, Invariance, PTL

\* An Undo that did not fail puts every note of its turn back as it was before the turn's first
\* write, unless somebody else has written to it since.
THEOREM UndoTakesBackExactly == Spec => []UndoIsExact
<1>1. VaultInv => UndoIsExact
    <2> SUFFICES ASSUME VaultInv, NEW t \in Turns, job[t].pc = "undone", ~ job[t].refused,
                        NEW p \in DOMAIN before[t] \ foreign[t]
                 PROVE  OrBlank(Read(p)) = OrBlank(before[t][p])
        BY DEF UndoIsExact
    <2>1. Faithful(t)
        BY DEF VaultInv, Remembered
    <2>2. Now(p) = Then(t, p)
        BY <2>1 DEF Faithful
    <2> QED BY <2>2 DEF Now, Then
<1> QED BY <1>1, Invariance, PTL

\* When a turn is over, did not fail and was not undone, a note with a word of its own in it is one
\* that its Undo reaches.
THEOREM WritesAreUndoableOrReported == Spec => []UndoableOrReported
<1>1. VaultInv => UndoableOrReported
    <2> SUFFICES ASSUME VaultInv, NEW t \in Turns, job[t].pc = "done",
                        ~ (job[t].refused \/ job[t].wished),
                        NEW p \in DOMAIN files, files[p].lines \cap OwnWords(t) # {}
                 PROVE  \E i \in DOMAIN job[t].undos : job[t].undos[i].path = p
        BY DEF UndoableOrReported
    <2>1. Owing(t) /\ p \in Paths
        BY DEF Owing, VaultInv, Shaped
    <2>2. PICK w \in OwnWords(t) : w \in files[p].lines
        OBVIOUS
    <2>3. HeldAt(p, w)
        BY <2>2 DEF HeldAt
    <2>4. Reaches(job[t], p)
        BY <2>1, <2>3 DEF VaultInv, Reached
    <2>5. job[t].pc \notin Putting
        BY PcFacts
    <2> QED BY <2>4, <2>5 DEF Reaches
<1> QED BY <1>1, Invariance, PTL
=============================================================================
