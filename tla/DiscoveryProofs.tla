-------------------------- MODULE DiscoveryProofs --------------------------
(***************************************************************************)
(* Discovery and the file behind it, for every workspace, every number of  *)
(* readers and of browser tabs, and every length of the lists: the types,  *)
(* that an invalidation is not taken back by the refresh it hit, that what *)
(* was created is found again, and that one place is flagged as the inbox. *)
(*                                                                         *)
(* The properties speak of the picture; what makes them hold is in the     *)
(* calls under way.  DiscoveryInv says that one of them fetches at a time, *)
(* that one which was not hit has read nothing too early, that one which   *)
(* was hit leaves the force on, and that a call which has created          *)
(* something still remembers what and where.                               *)
(***************************************************************************)
EXTENDS Discovery, SequenceLemmas, FunctionTheorems, FiniteSetTheorems, TLAPS

TaskPcs == {"idle", "waiting", "searching", "querying", "building", "created"}

NotionRec == [id : Things, under : Places]

TaskRec ==
    [pc : TaskPcs, age : Nat, hit : BOOLEAN, late : BOOLEAN, pages : Seq(NotionRec),
     rows : Seq(NotionRec), places : SUBSET Places, made : Things \cup {NoPlace},
     under : Places \cup {NoPlace}]

\* Lists of what lies in some of the places.
IsPicture(picture) ==
    /\ picture \in [items : {picture.items}, inbox : Places \cup {NoPlace}, late : BOOLEAN]
    /\ picture.items \in [PlacesOf(picture) -> Seq(Things)]
    /\ {Database, Page} \subseteq PlacesOf(picture) /\ PlacesOf(picture) \subseteq Places
    /\ \A p \in PlacesOf(picture) : Len(picture.items[p]) <= ITEMS

TabRec == [pc : {"closed", "open", "merged", "saved"}, body : Partial(Meta)]

Typed ==
    /\ file \in [meta : [Places -> Meta], broken : BOOLEAN]
    /\ tab \in [Requests -> TabRec]
    /\ notion \in Seq(NotionRec)
    /\ Known => IsPicture(last)
    /\ force \in BOOLEAN
    /\ line \in Seq(Tasks)
    /\ task \in [Tasks -> TaskRec]
    /\ age \in 0 .. STALE_MAX

\* The tasks at the lock, each once; the one that fetches is its holder.
Lined ==
    /\ \A i, j \in DOMAIN line : line[i] = line[j] => i = j
    /\ \A r \in Tasks :
          InLine(r) <=> task[r].pc \in {"waiting", "searching", "querying", "building"}
    /\ \A r \in Tasks : Fetching(r) => Holds(r)

\* A fetch that was hit has left the force on, for itself not to take off; one that was not has
\* read Notion after every invalidation so far.
Hits ==
    /\ Known /\ ~ force => ~ last.late
    /\ \A r \in Tasks : task[r].hit => Fetching(r) /\ force
    /\ \A r \in Tasks : task[r].pc \in {"querying", "building"} /\ ~ task[r].hit => ~ task[r].late

\* Things have one place in Notion, and a task that made one knows it; it has been served a picture
\* before it could.
Homes ==
    /\ \A i, j \in DOMAIN notion : notion[i].id = notion[j].id => i = j
    /\ \A r \in Tasks : task[r].pc = "created" =>
        \E i \in DOMAIN notion : notion[i].id = task[r].made /\ notion[i].under = task[r].under
    /\ \A r \in Tasks : task[r].pc # "created" => task[r].made = NoPlace
    /\ \A r \in Tasks : task[r].places # {} \/ task[r].pc = "created" => Known
    /\ task[Behind].pc # "created" /\ task[Behind].places = {}

Found == Known /\ ~ force => \A x \in Noted \ overtaken : Shown(last, x)

\* What a tab has merged and is about to save flags one inbox at most, as the file does.
Flags ==
    /\ Cardinality(Flagged(file.meta)) <= 1
    /\ \A a \in Requests : tab[a].pc = "merged" =>
        tab[a].body \in [Places -> Meta] /\ Cardinality(Flagged(tab[a].body)) <= 1

DiscoveryInv == Typed /\ Lined /\ Hits /\ Homes /\ Found /\ Flags

----------------------------------------------------------------------------
(* What the model's operators return. *)

\* Every rank up to their number is held by one of finitely many numbers.
LEMMA Ranks ==
    ASSUME NEW S \in SUBSET Nat, IsFiniteSet(S)
    PROVE  \A i \in 1 .. Cardinality(S) : \E j \in S : Cardinality({k \in S : k <= j}) = i
<1> DEFINE Upto(j) == {k \in S : k <= j}
           rank == [j \in S |-> Cardinality(Upto(j))]
<1>1. \A j \in S : Upto(j) \in SUBSET S
    OBVIOUS
<1>2. \A j \in S : IsFiniteSet(Upto(j)) /\ Cardinality(Upto(j)) <= Cardinality(S)
    BY <1>1, FS_Subset
<1>3. \A j \in S : Cardinality(Upto(j)) \in Nat /\ Cardinality(Upto(j)) # 0
    <2> SUFFICES ASSUME NEW j \in S
                 PROVE  Cardinality(Upto(j)) \in Nat /\ Cardinality(Upto(j)) # 0
        OBVIOUS
    <2>1. j \in Upto(j)
        OBVIOUS
    <2> QED BY <1>2, <2>1, FS_CardinalityType, FS_EmptySet
<1>4. Cardinality(S) \in Nat
    BY FS_CardinalityType
<1>5. rank \in [S -> 1 .. Cardinality(S)]
    BY <1>2, <1>3, <1>4
<1>6. ASSUME NEW i \in S, NEW j \in S, i < j
      PROVE  rank[i] # rank[j]
    <2>1. i \in Nat /\ j \in Nat /\ \A k \in S : k \in Nat /\ (k <= i => k <= j)
        BY <1>6
    <2>2. Upto(i) \in SUBSET Upto(j) /\ j \in Upto(j) /\ j \notin Upto(i)
        <3>1. \A k \in Upto(i) : k \in Upto(j)
            BY <2>1
        <3>2. j <= j /\ ~ j <= i
            BY <1>6, <2>1
        <3> QED BY <3>1, <3>2
    <2>3. Upto(i) # Upto(j)
        BY <2>2
    <2> QED BY <1>2, <2>2, <2>3, FS_Subset
<1>7. \A i, j \in S : rank[i] = rank[j] => i = j
    <2> SUFFICES ASSUME NEW i \in S, NEW j \in S, i # j
                 PROVE  rank[i] # rank[j]
        OBVIOUS
    <2>1. i < j \/ j < i
        OBVIOUS
    <2> QED BY <1>6, <2>1
<1>8. rank \in Injection(S, 1 .. Cardinality(S))
    BY <1>5, <1>7, Fun_IsInj
<1>9. IsFiniteSet(1 .. Cardinality(S)) /\ Cardinality(1 .. Cardinality(S)) = Cardinality(S)
    BY <1>4, FS_Interval
<1>10. rank \in Surjection(S, 1 .. Cardinality(S))
    BY <1>8, <1>9, FS_Injection
<1>11. \A i \in 1 .. Cardinality(S) : \E j \in S : rank[j] = i
    BY <1>10 DEF Surjection
<1> QED BY <1>11

\* The newest of a place are things, as many as a picture shows at most.
LEMMA NewestIs ==
    ASSUME NEW s \in Seq(NotionRec), NEW p
    PROVE  Newest(s, p) \in Seq(Things) /\ Len(Newest(s, p)) <= ITEMS
<1> DEFINE at == {j \in DOMAIN s : s[j].under = p}
           Rank(j) == Cardinality({k \in at : k <= j})
           shown == IF Cardinality(at) < ITEMS THEN Cardinality(at) ELSE ITEMS
           list == [i \in 1 .. shown |-> s[CHOOSE j \in at : Rank(j) = i].id]
<1>1. Len(s) \in Nat /\ DOMAIN s = 1 .. Len(s) /\ \A j \in DOMAIN s : s[j] \in NotionRec
    BY EntryFacts
<1>2. IsFiniteSet(at) /\ at \in SUBSET Nat
    <2>1. IsFiniteSet(1 .. Len(s)) /\ at \in SUBSET (1 .. Len(s))
        BY <1>1, FS_Interval
    <2> QED BY <2>1, FS_Subset
<1>3. Cardinality(at) \in Nat
    BY <1>2, FS_CardinalityType
<1>4. shown \in Nat /\ shown <= ITEMS /\ shown <= Cardinality(at)
    BY <1>3, Ages
<1>5. ASSUME NEW i \in 1 .. shown
      PROVE  s[CHOOSE j \in at : Rank(j) = i].id \in Things
    <2>1. i \in 1 .. Cardinality(at)
        BY <1>3, <1>4
    <2>2. \E j \in at : Rank(j) = i
        BY <1>2, <2>1, Ranks
    <2>3. (CHOOSE j \in at : Rank(j) = i) \in at
        BY <2>2
    <2> HIDE DEF Rank
    <2> QED BY <1>1, <2>3 DEF NotionRec
<1>6. list \in Seq(Things) /\ Len(list) = shown
    <2>1. list \in [1 .. shown -> Things]
        <3> HIDE DEF Rank, shown
        <3> QED BY <1>5
    <2> HIDE DEF list, shown
    <2> QED BY <1>4, <2>1, SeqDef, LenProperties
<1>7. Newest(s, p) = list
    BY DEF Newest
<1> HIDE DEF list
<1> QED BY <1>4, <1>6, <1>7

\* A request that is done leaves its tab closed.
LEMMA ClosedIs == Closed \in TabRec /\ [Closed EXCEPT !.pc = "saved"] \in TabRec
<1>1. <<>> \in [{} -> Meta]
    <2>1. <<>> \in Seq(Meta) /\ Len(<<>>) = 0
        BY EmptySeq
    <2>2. DOMAIN <<>> = {}
        BY <2>1
    <2> QED BY <2>1, <2>2
<1>2. <<>> \in Partial(Meta)
    BY <1>1 DEF Partial
<1> QED BY <1>2 DEF Closed, TabRec

\* A new picture is one.
LEMMA PictureIs ==
    ASSUME Typed, NEW r \in Tasks
    PROVE  IsPicture(Picture(r)) /\ Picture(r).late = task[r].late
<1> DEFINE places == {Database, Page} \cup PagesOf(task[r].pages)
           items == [p \in places |->
                        Newest(IF p = Database THEN task[r].rows ELSE task[r].pages, p)]
           inbox == Inbox(places, Loaded)
<1>1. task[r] \in TaskRec
    BY DEF Typed
<1>2. /\ task[r].pages \in Seq(NotionRec)
      /\ task[r].rows \in Seq(NotionRec)
      /\ task[r].late \in BOOLEAN
    BY <1>1 DEF TaskRec
<1>3. PagesOf(task[r].pages) \subseteq Things
    <2>1. \A i \in DOMAIN task[r].pages : task[r].pages[i] \in NotionRec
        BY <1>2, EntryFacts
    <2> QED BY <2>1 DEF PagesOf, NotionRec
<1>4. places \subseteq Places
    BY <1>3, PlacesAre
<1>5. \A p \in places : items[p] \in Seq(Things) /\ Len(items[p]) <= ITEMS
    <2> SUFFICES ASSUME NEW p \in places
                 PROVE  items[p] \in Seq(Things) /\ Len(items[p]) <= ITEMS
        OBVIOUS
    <2>1. CASE p = Database
        BY <1>2, <2>1, NewestIs
    <2>2. CASE p # Database
        BY <1>2, <2>2, NewestIs
    <2> QED BY <2>1, <2>2
<1>6. items \in [places -> Seq(Things)]
    <2>1. items = [p \in places |-> items[p]]
        OBVIOUS
    <2> HIDE DEF items, places
    <2> QED BY <1>5, <2>1
<1>7. inbox \in Places \cup {NoPlace}
    <2> DEFINE flagged == {p \in places : Loaded[p].inbox}
    <2>1. CASE InboxEnv # NoPlace
        BY <1>4, <2>1, EnvIsAPlace DEF Inbox
    <2>2. CASE InboxEnv = NoPlace /\ flagged = {}
        BY <2>2 DEF Inbox
    <2>3. CASE InboxEnv = NoPlace /\ flagged # {}
        <3>1. (CHOOSE p \in flagged : TRUE) \in flagged
            BY <2>3
        <3>2. inbox = CHOOSE p \in flagged : TRUE
            <4> HIDE DEF places
            <4> QED BY <2>3 DEF Inbox
        <3> QED BY <1>4, <3>1, <3>2
    <2> QED BY <2>1, <2>2, <2>3
<1>8. Picture(r) = [items |-> items, inbox |-> inbox, late |-> task[r].late]
    BY DEF Picture
<1>9. DOMAIN items = places /\ {Database, Page} \subseteq places
    OBVIOUS
<1> HIDE DEF items, inbox, places
<1> QED BY <1>2, <1>4, <1>5, <1>6, <1>7, <1>8, <1>9 DEF IsPicture, PlacesOf

\* A page that becomes a place of a picture changes nothing else of it.
LEMMA WithPlaceIs ==
    ASSUME NEW picture, IsPicture(picture), NEW x \in Places
    PROVE  /\ IsPicture(WithPlace(picture, x))
           /\ PlacesOf(WithPlace(picture, x)) = PlacesOf(picture) \cup {x}
           /\ \A p \in PlacesOf(picture) : WithPlace(picture, x).items[p] = picture.items[p]
           /\ WithPlace(picture, x).late = picture.late
<1>1. CASE x \in PlacesOf(picture)
    BY <1>1 DEF WithPlace
<1>2. CASE x \notin PlacesOf(picture)
    <2> DEFINE items == [p \in PlacesOf(picture) \cup {x} |->
                            IF p = x THEN <<>> ELSE picture.items[p]]
    <2>1. WithPlace(picture, x) = [picture EXCEPT !.items = items]
        BY <1>2 DEF WithPlace
    <2>2. DOMAIN items = PlacesOf(picture) \cup {x}
        OBVIOUS
    <2>3. items[x] = <<>> /\ \A p \in PlacesOf(picture) : items[p] = picture.items[p]
        BY <1>2
    <2>4. <<>> \in Seq(Things) /\ Len(<<>>) <= ITEMS
        BY EmptySeq, Ages
    <2>5. items \in [PlacesOf(picture) \cup {x} -> Seq(Things)]
        <3>1. items = [p \in PlacesOf(picture) \cup {x} |-> items[p]]
            OBVIOUS
        <3> HIDE DEF items
        <3> QED BY <2>2, <2>3, <2>4, <3>1 DEF IsPicture
    <2>6. /\ WithPlace(picture, x).items = items
          /\ WithPlace(picture, x).late = picture.late
          /\ WithPlace(picture, x) \in
                [items : {items}, inbox : Places \cup {NoPlace}, late : BOOLEAN]
        <3> HIDE DEF items
        <3> QED BY <2>1 DEF IsPicture
    <2> HIDE DEF items
    <2>7. \A p \in PlacesOf(picture) \cup {x} : Len(items[p]) <= ITEMS
        BY <2>3, <2>4 DEF IsPicture
    <2>8. PlacesOf(WithPlace(picture, x)) = PlacesOf(picture) \cup {x}
        BY <2>2, <2>6 DEF PlacesOf
    <2>9. IsPicture(WithPlace(picture, x))
        BY <2>5, <2>6, <2>7, <2>8 DEF IsPicture
    <2> QED BY <2>3, <2>6, <2>8, <2>9
<1> QED BY <1>1, <1>2

\* A new item comes first in its place; the others move on, and the last one may fall off a full
\* list, which is then full still.
LEMMA WithItemIs ==
    ASSUME NEW picture, IsPicture(picture), NEW x \in Things, NEW p \in PlacesOf(picture)
    PROVE  /\ IsPicture(WithItem(picture, x, p))
           /\ PlacesOf(WithItem(picture, x, p)) = PlacesOf(picture)
           /\ WithItem(picture, x, p).late = picture.late
           /\ \A q \in PlacesOf(picture) \ {p} :
                    WithItem(picture, x, p).items[q] = picture.items[q]
           /\ \E i \in DOMAIN WithItem(picture, x, p).items[p] :
                    WithItem(picture, x, p).items[p][i] = x
           /\ \A i \in DOMAIN picture.items[p] :
                  \E j \in DOMAIN WithItem(picture, x, p).items[p] :
                      WithItem(picture, x, p).items[p][j] = picture.items[p][i] \/ j = ITEMS
           /\ ITEMS \in DOMAIN picture.items[p] => ITEMS \in DOMAIN WithItem(picture, x, p).items[p]
<1> DEFINE old == picture.items[p]
           n == IF Len(old) < ITEMS THEN Len(old) + 1 ELSE ITEMS
           new == SubSeq(<<x>> \o old, 1, n)
<1>1. /\ old \in Seq(Things) /\ Len(old) \in Nat /\ DOMAIN old = 1 .. Len(old)
      /\ Len(old) <= ITEMS
    BY LenProperties DEF IsPicture
<1>2. CASE \E i \in DOMAIN old : old[i] = x
    <2>1. WithItem(picture, x, p) = picture
        BY <1>2 DEF WithItem
    <2> QED BY <1>2, <2>1
<1>3. CASE ~ \E i \in DOMAIN old : old[i] = x
    <2>1. WithItem(picture, x, p) = [picture EXCEPT !.items = [picture.items EXCEPT ![p] = new]]
        BY <1>3 DEF WithItem
    <2>2. /\ <<x>> \o old \in Seq(Things)
          /\ Len(<<x>> \o old) = Len(old) + 1
          /\ \A i \in 1 .. Len(old) + 1 :
                (<<x>> \o old)[i] = IF i = 1 THEN x ELSE old[i - 1]
        <3>1. <<x>> \in Seq(Things) /\ Len(<<x>>) = 1 /\ <<x>>[1] = x
            OBVIOUS
        <3> QED BY <1>1, <3>1, ConcatProperties
    <2>3. n \in 1 .. Len(old) + 1 /\ n <= ITEMS /\ (n < Len(old) + 1 => n = ITEMS)
        BY <1>1, Ages
    <2>4. /\ new \in Seq(Things) /\ Len(new) = n /\ DOMAIN new = 1 .. n
          /\ \A i \in 1 .. n : new[i] = IF i = 1 THEN x ELSE old[i - 1]
        <3> HIDE DEF n, old
        <3>1. 1 \in Nat \ {0} /\ n \in Nat /\ 1 <= Len(<<x>> \o old) + 1 /\ n <= Len(<<x>> \o old)
            BY <1>1, <2>2, <2>3
        <3>2. /\ new \in Seq(Things) /\ Len(new) = n
              /\ \A i \in 1 .. n : new[i] = (<<x>> \o old)[i]
            BY <1>1, <2>2, <2>3, <3>1, SubSeqProperties
        <3>3. DOMAIN new = 1 .. n
            BY <3>2, LenProperties
        <3> QED BY <1>1, <2>2, <2>3, <3>2, <3>3
    <2> HIDE DEF new
    <2>5. /\ WithItem(picture, x, p).items = [picture.items EXCEPT ![p] = new]
          /\ WithItem(picture, x, p).late = picture.late
          /\ WithItem(picture, x, p) \in [items : {[picture.items EXCEPT ![p] = new]},
                                          inbox : Places \cup {NoPlace}, late : BOOLEAN]
        BY <2>1 DEF IsPicture
    <2>6. PlacesOf(WithItem(picture, x, p)) = PlacesOf(picture)
        BY <2>5 DEF PlacesOf
    <2>7. /\ WithItem(picture, x, p).items \in [PlacesOf(picture) -> Seq(Things)]
          /\ WithItem(picture, x, p).items[p] = new
          /\ \A q \in PlacesOf(picture) \ {p} :
                WithItem(picture, x, p).items[q] = picture.items[q]
        BY <2>4, <2>5 DEF IsPicture, PlacesOf
    <2>8. IsPicture(WithItem(picture, x, p))
        <3>1. \A q \in PlacesOf(picture) : Len(WithItem(picture, x, p).items[q]) <= ITEMS
            BY <2>3, <2>4, <2>7 DEF IsPicture
        <3> QED BY <2>5, <2>6, <2>7, <3>1 DEF IsPicture
    <2>9. 1 \in DOMAIN new /\ new[1] = x
        BY <2>3, <2>4, <1>1
    <2>10. \A i \in DOMAIN old : \E j \in DOMAIN new : new[j] = old[i] \/ j = ITEMS
        <3> SUFFICES ASSUME NEW i \in DOMAIN old
                     PROVE  \E j \in DOMAIN new : new[j] = old[i] \/ j = ITEMS
            OBVIOUS
        <3> HIDE DEF old, n
        <3>1. CASE i + 1 <= n
            <4>1. i \in Nat \ {0}
                BY <1>1
            <4>2. i + 1 \in 1 .. n /\ i + 1 # 1 /\ (i + 1) - 1 = i
                BY <1>1, <2>3, <3>1, <4>1
            <4>3. new[i + 1] = old[(i + 1) - 1]
                BY <2>4, <4>2
            <4>4. new[i + 1] = old[i]
                BY <4>2, <4>3
            <4> QED BY <2>4, <4>2, <4>4
        <3>2. CASE ~ i + 1 <= n
            <4>1. n = ITEMS /\ n \in 1 .. n
                BY <1>1, <2>3, <3>2
            <4> QED BY <2>4, <4>1
        <3> QED BY <3>1, <3>2
    <2>11. ITEMS \in DOMAIN old => ITEMS \in DOMAIN new
        BY <1>1, <2>4, Ages
    <2> HIDE DEF old
    <2> QED BY <2>5, <2>6, <2>7, <2>8, <2>9, <2>10, <2>11 DEF old
<1> QED BY <1>2, <1>3

\* A task at rest, as it was or with the places of the picture it was served.
LEMMA RestIs ==
    /\ Idle \in TaskRec /\ [Idle EXCEPT !.pc = "waiting"] \in TaskRec
    /\ Idle.pc = "idle" /\ ~ Idle.hit /\ Idle.made = NoPlace /\ Idle.places = {}
    /\ \A picture : PlacesOf(picture) \subseteq Places =>
          /\ Served(picture) \in TaskRec
          /\ Served(picture).pc = "idle" /\ ~ Served(picture).hit
          /\ Served(picture).made = NoPlace
<1>1. <<>> \in Seq(NotionRec)
    BY EmptySeq
<1> QED BY <1>1 DEF Idle, Served, TaskRec, TaskPcs

----------------------------------------------------------------------------
(* What a step can make of a task: nothing; a fetch that is hit; a rest; a fetch's next part; a   *)
(* call that has created something.                                                               *)
HitNow(q) ==
    /\ Fetching(q)
    /\ task'[q] = [task[q] EXCEPT !.hit = TRUE, !.late = TRUE]
    /\ force'

Rests(q) ==
    /\ task'[q].pc \in {"idle", "waiting"}
    /\ ~ task'[q].hit
    /\ task'[q].made = NoPlace
    /\ task'[q].places = {} \/ (q # Behind /\ Known')
    /\ task[q].pc = "created" => Note(q)

Fetches(q) ==
    /\ task[q].pc \in {"waiting", "searching", "querying"}
    /\ Fetching(q)'
    /\ task'[q].hit = task[q].hit
    /\ task'[q].made = task[q].made
    /\ task'[q].places = task[q].places
    /\ \/ task'[q].pc = "searching"
       \/ ~ task'[q].late
       \/ task[q].pc = "querying" /\ task'[q].late = task[q].late

Makes(q) ==
    /\ q # Behind /\ Known
    /\ task[q].pc = "idle" /\ task'[q].pc = "created"
    /\ ~ task'[q].hit
    /\ \E i \in DOMAIN notion' : notion'[i].id = task'[q].made /\ notion'[i].under = task'[q].under

TaskStep(q) ==
    /\ task'[q] \in TaskRec
    /\ task'[q] = task[q] \/ HitNow(q) \/ Rests(q) \/ Fetches(q) \/ Makes(q)

\* An invalidation hits the fetches under way and leaves the other tasks alone.
LEMMA Hitting ==
    ASSUME Typed, force' = TRUE, NEW r \in Tasks, ~ Fetching(r),
           task' = [q \in Tasks |-> IF Fetching(q) THEN [task[q] EXCEPT !.hit = TRUE, !.late = TRUE]
                                                   ELSE IF q = r THEN task'[r] ELSE task[q]]
    PROVE  /\ \A q \in Tasks \ {r} : task'[q] \in TaskRec /\ (task'[q] = task[q] \/ HitNow(q))
           /\ task'[r] \in TaskRec => task' \in [Tasks -> TaskRec]
<1>0. ASSUME NEW q \in Tasks \ {r}
      PROVE  task'[q] \in TaskRec /\ (task'[q] = task[q] \/ HitNow(q))
    <2>1. task[q] \in TaskRec
        BY DEF Typed
    <2>2. task'[q] = IF Fetching(q) THEN [task[q] EXCEPT !.hit = TRUE, !.late = TRUE] ELSE task[q]
        BY Zenon
    <2>3. [task[q] EXCEPT !.hit = TRUE, !.late = TRUE] \in TaskRec
        BY <2>1 DEF TaskRec
    <2> QED BY <2>1, <2>2, <2>3 DEF HitNow
<1>1. ASSUME task'[r] \in TaskRec
      PROVE  task' \in [Tasks -> TaskRec]
    <2> DEFINE next(q) == IF Fetching(q) THEN [task[q] EXCEPT !.hit = TRUE, !.late = TRUE]
                                         ELSE IF q = r THEN task'[r] ELSE task[q]
    <2>1. task' = [q \in Tasks |-> next(q)]
        OBVIOUS
    <2> HIDE DEF next
    <2>2. \A q \in Tasks : next(q) = task'[q]
        BY <2>1
    <2> QED BY <1>0, <1>1, <2>1, <2>2
<1> QED BY <1>0, <1>1

\* The calls of get: reading the picture, and waiting for a new one.
LEMMA TasksGet ==
    ASSUME DiscoveryInv, NEW r \in Readers, Fresh(r) \/ Stale(r) \/ Queue(r) \/ Refresh(r)
    PROVE  task' \in [Tasks -> TaskRec] /\ \A q \in Tasks : TaskStep(q)
<1>1. /\ r \in Tasks /\ r # Behind /\ Behind \in Tasks
      /\ task \in [Tasks -> TaskRec]
      /\ \A q \in Tasks : task[q] \in TaskRec
    BY BehindIsNot DEF DiscoveryInv, Typed, Tasks
<1>2. Known => Served(last) \in TaskRec /\ Served(last).pc = "idle" /\ ~ Served(last).hit
               /\ Served(last).made = NoPlace
    BY RestIs DEF DiscoveryInv, Typed, IsPicture
<1>3. CASE Fresh(r)
    <2>1. Known' /\ Known /\ task' = [task EXCEPT ![r] = Served(last)] /\ task[r].pc = "idle"
        BY <1>3 DEF Fresh, Known, cache
    <2>2. task'[r] = Served(last) /\ \A q \in Tasks \ {r} : task'[q] = task[q]
        BY <1>1, <2>1
    <2>3. Rests(r)
        BY <1>1, <1>2, <2>1, <2>2 DEF Rests
    <2> QED BY <1>1, <1>2, <2>1, <2>2, <2>3 DEF TaskStep
<1>4. CASE Stale(r)
    <2>1. Known' /\ Known /\ task[r].pc = "idle"
        BY <1>4 DEF Stale, Known, cache
    <2>2. CASE task[Behind].pc = "idle"
        <3> DEFINE behind == [task[Behind] EXCEPT !.pc = "waiting"]
        <3>1. task' = [task EXCEPT ![r] = Served(last), ![Behind].pc = "waiting"]
            BY <1>4, <2>2 DEF Stale
        <3>2. /\ task'[r] = Served(last) /\ task'[Behind] = behind
              /\ \A q \in Tasks \ {r, Behind} : task'[q] = task[q]
              /\ DOMAIN task' = Tasks
            BY <1>1, <3>1
        <3>3. ~ task[Behind].hit /\ task[Behind].made = NoPlace /\ task[Behind].places = {}
            BY <1>1, <2>2 DEF DiscoveryInv, Hits, Homes, Fetching
        <3>4. /\ behind \in TaskRec /\ behind.pc = "waiting" /\ ~ behind.hit
              /\ behind.made = NoPlace /\ behind.places = {}
            BY ZenonT(60), <1>1, <3>3 DEF TaskRec, TaskPcs
        <3> HIDE DEF behind
        <3>5. Rests(r) /\ Rests(Behind)
            BY <1>1, <1>2, <2>1, <2>2, <3>2, <3>4 DEF Rests
        <3>6. task' \in [Tasks -> TaskRec]
            <4>1. \A q \in Tasks : task'[q] \in TaskRec
                BY <1>1, <1>2, <2>1, <3>2, <3>4
            <4>2. task' = [q \in Tasks |-> task'[q]]
                BY <3>1, <1>1
            <4> QED BY <4>1, <4>2
        <3> QED BY <1>1, <3>2, <3>5, <3>6 DEF TaskStep
    <2>3. CASE task[Behind].pc # "idle"
        <3>1. task' = [task EXCEPT ![r] = Served(last)]
            BY <1>4, <2>3 DEF Stale
        <3>2. task'[r] = Served(last) /\ \A q \in Tasks \ {r} : task'[q] = task[q]
            BY <1>1, <3>1
        <3>3. Rests(r)
            BY <1>1, <1>2, <2>1, <3>2 DEF Rests
        <3> QED BY <1>1, <1>2, <2>1, <3>1, <3>2, <3>3 DEF TaskStep
    <2> QED BY <2>2, <2>3
<1>5. CASE Queue(r)
    <2>1. task' = [task EXCEPT ![r] = [Idle EXCEPT !.pc = "waiting"]] /\ task[r].pc = "idle"
        BY <1>5 DEF Queue
    <2>2. task'[r] = [Idle EXCEPT !.pc = "waiting"] /\ \A q \in Tasks \ {r} : task'[q] = task[q]
        BY <1>1, <2>1
    <2>3. Rests(r)
        BY <1>1, <2>1, <2>2 DEF Rests, Idle
    <2> QED BY <1>1, <2>1, <2>2, <2>3, RestIs DEF TaskStep
<1>6. CASE Refresh(r)
    <2> DEFINE rest == [Idle EXCEPT !.pc = "waiting"]
    <2>1. /\ ~ Fetching(r) /\ force' = TRUE /\ task[r].pc = "idle"
          /\ task' = [q \in Tasks |->
                        IF Fetching(q)
                        THEN [[task EXCEPT ![r] = rest][q] EXCEPT !.hit = TRUE, !.late = TRUE]
                        ELSE [task EXCEPT ![r] = rest][q]]
        BY <1>6 DEF Refresh, Invalidated, Fetching
    <2> HIDE DEF rest
    <2>2. \A q \in Tasks : [task EXCEPT ![r] = rest][q] = IF q = r THEN rest ELSE task[q]
        BY <1>1
    <2>3. task'[r] = rest
        BY <1>1, <2>1, <2>2
    <2>4. task' = [q \in Tasks |-> IF Fetching(q) THEN [task[q] EXCEPT !.hit = TRUE, !.late = TRUE]
                                                  ELSE IF q = r THEN task'[r] ELSE task[q]]
        BY <1>1, <2>1, <2>2, <2>3
    <2>5. /\ \A q \in Tasks \ {r} : task'[q] \in TaskRec /\ (task'[q] = task[q] \/ HitNow(q))
          /\ task'[r] \in TaskRec => task' \in [Tasks -> TaskRec]
        BY <1>1, <2>1, <2>4, Hitting DEF DiscoveryInv
    <2>6. rest \in TaskRec /\ Rests(r)
        BY <1>1, <2>1, <2>3, RestIs DEF rest, Rests, Idle
    <2> QED BY <2>3, <2>5, <2>6 DEF TaskStep
<1> QED BY <1>3, <1>4, <1>5, <1>6

\* The parts of a fetch.
LEMMA TasksFetch ==
    ASSUME DiscoveryInv, NEW r \in Tasks, Step(r)
    PROVE  task' \in [Tasks -> TaskRec] /\ \A q \in Tasks : TaskStep(q)
<1>1. /\ task \in [Tasks -> TaskRec]
      /\ task[r] \in TaskRec
      /\ \A q \in Tasks : task[q] \in TaskRec
      /\ task[r].pc # "created" => task[r].made = NoPlace
      /\ age \in Nat /\ notion \in Seq(NotionRec)
    BY Ages DEF DiscoveryInv, Typed, Homes
<1>2. Known => Served(last) \in TaskRec /\ Served(last).pc = "idle" /\ ~ Served(last).hit
               /\ Served(last).made = NoPlace
    BY RestIs DEF DiscoveryInv, Typed, IsPicture
<1>3. /\ Served(Picture(r)) \in TaskRec /\ Served(Picture(r)).pc = "idle"
      /\ ~ Served(Picture(r)).hit /\ Served(Picture(r)).made = NoPlace
    BY PictureIs, RestIs DEF DiscoveryInv, IsPicture
<1>4. ASSUME NEW t \in TaskRec, task' = [task EXCEPT ![r] = t],
             Rests(r) \/ Fetches(r)
      PROVE  task' \in [Tasks -> TaskRec] /\ \A q \in Tasks : TaskStep(q)
    BY <1>1, <1>4 DEF TaskStep
<1>5. CASE Enter(r)
    <2>1. task[r].pc = "waiting"
        BY <1>5 DEF Enter
    <2>2. CASE r = Behind \/ ~ Known \/ force \/ age >= TTL
        <3> DEFINE t == [task[r] EXCEPT !.pc = "searching", !.age = age]
        <3>1. task' = [task EXCEPT ![r] = t]
            BY <1>1, <1>5, <2>2 DEF Enter
        <3>2. /\ t \in TaskRec /\ t.pc = "searching" /\ t.hit = task[r].hit
              /\ t.made = task[r].made /\ t.places = task[r].places
            BY <1>1 DEF TaskRec, TaskPcs
        <3> HIDE DEF t
        <3>3. task'[r] = t
            BY <1>1, <3>1
        <3>4. Fetches(r)
            BY <2>1, <3>2, <3>3 DEF Fetches, Fetching
        <3> QED BY <1>4, <3>1, <3>2, <3>4
    <2>3. CASE ~ (r = Behind \/ ~ Known \/ force \/ age >= TTL)
        <3>1. task' = [task EXCEPT ![r] = Served(last)] /\ Known'
            BY <1>5, <2>3 DEF Enter, Known, cache
        <3>2. task'[r] = Served(last)
            BY <1>1, <3>1
        <3>3. Rests(r)
            BY <1>2, <2>1, <2>3, <3>1, <3>2 DEF Rests
        <3> QED BY <1>2, <1>4, <2>3, <3>1, <3>3
    <2> QED BY <2>2, <2>3
<1>6. CASE Search(r)
    <2> DEFINE t == [task[r] EXCEPT !.pc = "querying", !.pages = notion, !.late = FALSE]
    <2>1. task' = [task EXCEPT ![r] = t] /\ task[r].pc = "searching"
        BY <1>1, <1>6 DEF Search
    <2>2. /\ t \in TaskRec /\ t.pc = "querying" /\ t.hit = task[r].hit
          /\ t.made = task[r].made /\ t.places = task[r].places /\ ~ t.late
        BY <1>1 DEF TaskRec, TaskPcs
    <2> HIDE DEF t
    <2>3. task'[r] = t
        BY <1>1, <2>1
    <2>4. Fetches(r)
        BY <2>1, <2>2, <2>3 DEF Fetches, Fetching
    <2> QED BY <1>4, <2>1, <2>2, <2>4
<1>7. CASE Query(r)
    <2> DEFINE t == [task[r] EXCEPT !.pc = "building", !.rows = notion]
    <2>1. task' = [task EXCEPT ![r] = t] /\ task[r].pc = "querying"
        BY <1>1, <1>7 DEF Query
    <2>2. /\ t \in TaskRec /\ t.pc = "building" /\ t.hit = task[r].hit
          /\ t.made = task[r].made /\ t.places = task[r].places /\ t.late = task[r].late
        BY <1>1 DEF TaskRec, TaskPcs
    <2> HIDE DEF t
    <2>3. task'[r] = t
        BY <1>1, <2>1
    <2>4. Fetches(r)
        BY <2>1, <2>2, <2>3 DEF Fetches, Fetching
    <2> QED BY <1>4, <2>1, <2>2, <2>4
<1>8. CASE Build(r)
    <2> DEFINE t == IF r = Behind THEN Idle ELSE Served(Picture(r))
    <2>1. /\ task' = [task EXCEPT ![r] = t] /\ task[r].pc = "building"
          /\ last' = Picture(r)
        BY <1>8 DEF Build
    <2>2. Known'
        <3>1. last' # None
            BY <2>1, PictureIs DEF DiscoveryInv, IsPicture, PlacesOf, None
        <3> QED BY <3>1 DEF Known, None
    <2>3. /\ t \in TaskRec /\ t.pc = "idle" /\ ~ t.hit /\ t.made = NoPlace
          /\ r = Behind => t.places = {}
        BY <1>3, RestIs
    <2> HIDE DEF t
    <2>4. task'[r] = t
        BY <1>1, <2>1
    <2>5. Rests(r)
        BY <2>1, <2>2, <2>3, <2>4 DEF Rests
    <2> QED BY <1>4, <2>1, <2>3, <2>5
<1>9. CASE Fail(r)
    <2> DEFINE t == IF r # Behind /\ Known /\ task[r].age < STALE_MAX THEN Served(last) ELSE Idle
    <2>1. /\ task' = [task EXCEPT ![r] = t] /\ task[r].pc \in {"searching", "querying"}
          /\ Known' = Known
        BY <1>9 DEF Fail, Known, cache
    <2>2. /\ t \in TaskRec /\ t.pc = "idle" /\ ~ t.hit /\ t.made = NoPlace
          /\ t.places # {} => r # Behind /\ Known
        BY <1>2, RestIs
    <2> HIDE DEF t
    <2>3. task'[r] = t
        BY <1>1, <2>1
    <2>4. Rests(r)
        BY <2>1, <2>2, <2>3 DEF Rests
    <2> QED BY <1>4, <2>1, <2>2, <2>4
<1> QED BY <1>5, <1>6, <1>7, <1>8, <1>9 DEF Step

\* What has created something gets rid of it by telling the cache.
LEMMA TasksTurn ==
    ASSUME DiscoveryInv, NEW r \in Readers, Turn(r)
    PROVE  task' \in [Tasks -> TaskRec] /\ \A q \in Tasks : TaskStep(q)
<1>1. /\ r \in Tasks /\ r # Behind
      /\ task \in [Tasks -> TaskRec]
      /\ \A q \in Tasks : task[q] \in TaskRec
      /\ notion \in Seq(NotionRec)
    BY BehindIsNot DEF DiscoveryInv, Typed, Tasks
<1>2. ASSUME NEW x \in Things, NEW p \in Places, Create(r, x, p)
      PROVE  task' \in [Tasks -> TaskRec] /\ \A q \in Tasks : TaskStep(q)
    <2> DEFINE t == [Idle EXCEPT !.pc = "created", !.made = x, !.under = p]
    <2>1. /\ task' = [task EXCEPT ![r] = t] /\ task[r].pc = "idle" /\ p \in task[r].places
          /\ notion' = <<[id |-> x, under |-> p]>> \o notion
        BY <1>2 DEF Create
    <2>2. Known
        BY <1>1, <2>1 DEF DiscoveryInv, Homes
    <2>3. t \in TaskRec /\ t.pc = "created" /\ ~ t.hit /\ t.made = x /\ t.under = p
        BY RestIs DEF TaskRec, TaskPcs
    <2> HIDE DEF t
    <2>4. task'[r] = t /\ \A q \in Tasks \ {r} : task'[q] = task[q]
        BY <1>1, <2>1
    <2>5. 1 \in DOMAIN notion' /\ notion'[1] = [id |-> x, under |-> p]
        BY <1>1, <2>1
    <2>6. task[r].pc = "idle"
        BY <2>1
    <2>7. Makes(r)
        BY <1>1, <2>2, <2>3, <2>4, <2>5, <2>6 DEF Makes
    <2> QED BY <1>1, <2>1, <2>3, <2>4, <2>7 DEF TaskStep
<1>3. CASE Note(r)
    <2> DEFINE picture == IF task[r].under = Database THEN last ELSE WithPlace(last, task[r].made)
    <2>1. task[r].pc = "created" /\ ~ Fetching(r)
        BY <1>3 DEF Note, Fetching
    <2>2. CASE task[r].under \in PlacesOf(picture)
        <3>1. task' = [task EXCEPT ![r] = Idle]
            BY <1>3, <2>2 DEF Note
        <3>2. task'[r] = Idle /\ \A q \in Tasks \ {r} : task'[q] = task[q]
            BY <1>1, <3>1
        <3>3. Rests(r)
            BY <1>1, <1>3, <3>2, RestIs DEF Rests
        <3> QED BY <1>1, <3>1, <3>2, <3>3, RestIs DEF TaskStep
    <2>3. CASE task[r].under \notin PlacesOf(picture)
        <3>1. /\ force' = TRUE
              /\ task' = [q \in Tasks |->
                            IF Fetching(q)
                            THEN [[task EXCEPT ![r] = Idle][q] EXCEPT !.hit = TRUE, !.late = TRUE]
                            ELSE [task EXCEPT ![r] = Idle][q]]
            BY <1>3, <2>3 DEF Note, Invalidated
        <3>2. \A q \in Tasks : [task EXCEPT ![r] = Idle][q] = IF q = r THEN Idle ELSE task[q]
            BY <1>1
        <3>3. task'[r] = Idle
            BY <1>1, <2>1, <3>1, <3>2
        <3>4. task' = [q \in Tasks |->
                         IF Fetching(q) THEN [task[q] EXCEPT !.hit = TRUE, !.late = TRUE]
                                        ELSE IF q = r THEN task'[r] ELSE task[q]]
            BY <1>1, <2>1, <3>1, <3>2, <3>3
        <3>5. /\ \A q \in Tasks \ {r} : task'[q] \in TaskRec /\ (task'[q] = task[q] \/ HitNow(q))
              /\ task'[r] \in TaskRec => task' \in [Tasks -> TaskRec]
            BY <1>1, <2>1, <3>1, <3>4, Hitting DEF DiscoveryInv
        <3>6. Rests(r)
            BY <1>1, <1>3, <3>3, RestIs DEF Rests
        <3> QED BY <3>3, <3>5, <3>6, RestIs DEF TaskStep
    <2> QED BY <2>2, <2>3
<1> QED BY <1>2, <1>3 DEF Turn

\* Nobody else moves a task but by an invalidation.
LEMMA TasksMove ==
    ASSUME DiscoveryInv, [Next]_vars
    PROVE  task' \in [Tasks -> TaskRec] /\ \A q \in Tasks : TaskStep(q)
<1>1. task \in [Tasks -> TaskRec] /\ \A q \in Tasks : task[q] \in TaskRec
    BY DEF DiscoveryInv, Typed
<1>2. CASE UNCHANGED task
    BY <1>1, <1>2 DEF TaskStep
<1>3. CASE Tick
    BY <1>2, <1>3 DEF Tick
<1>4. ASSUME NEW r \in Readers, Get(r) \/ Turn(r)
      PROVE  task' \in [Tasks -> TaskRec] /\ \A q \in Tasks : TaskStep(q)
    BY <1>4, TasksGet, TasksTurn DEF Get
<1>5. ASSUME NEW r \in Tasks, Step(r)
      PROVE  task' \in [Tasks -> TaskRec] /\ \A q \in Tasks : TaskStep(q)
    BY <1>5, TasksFetch
<1>6. ASSUME NEW a \in Requests, Serve(a)
      PROVE  task' \in [Tasks -> TaskRec] /\ \A q \in Tasks : TaskStep(q)
    BY <1>2, <1>6 DEF Serve
<1>7. ASSUME NEW a \in Requests, Accepted(a)
      PROVE  task' \in [Tasks -> TaskRec] /\ \A q \in Tasks : TaskStep(q)
    <2> DEFINE next(q) == IF Fetching(q) THEN [task[q] EXCEPT !.hit = TRUE, !.late = TRUE]
                                         ELSE task[q]
    <2>1. force' = TRUE /\ task' = [q \in Tasks |-> next(q)]
        BY <1>7 DEF Accepted, Invalidated
    <2>2. \A q \in Tasks : next(q) \in TaskRec
        BY <1>1 DEF TaskRec
    <2>3. \A q \in Tasks : next(q) = task[q] \/
              (Fetching(q) /\ next(q) = [task[q] EXCEPT !.hit = TRUE, !.late = TRUE])
        OBVIOUS
    <2> HIDE DEF next
    <2> QED BY <2>1, <2>2, <2>3 DEF TaskStep, HitNow
<1>8. CASE EditFile
    BY <1>2, <1>8 DEF EditFile
<1>9. CASE UNCHANGED vars
    BY <1>2, <1>9 DEF vars
<1> QED BY <1>3, <1>4, <1>5, <1>6, <1>7, <1>8, <1>9 DEF Next

----------------------------------------------------------------------------
(* What a step can make of the picture. *)
LEMMA PicturesAreKnown ==
    ASSUME NEW picture, IsPicture(picture)
    PROVE  picture # None
BY DEF IsPicture, PlacesOf, None

LEMMA OutdatedIs ==
    ASSUME NEW picture, IsPicture(picture)
    PROVE  IsPicture(Outdated(picture)) /\ Outdated(picture).items = picture.items
<1>1. CASE Known
    <2>1. /\ Outdated(picture).items = picture.items
          /\ Outdated(picture) \in
                [items : {picture.items}, inbox : Places \cup {NoPlace}, late : BOOLEAN]
        BY <1>1 DEF Outdated, IsPicture
    <2> QED BY <2>1 DEF IsPicture, PlacesOf
<1>2. CASE ~ Known
    BY <1>2 DEF Outdated
<1> QED BY <1>1, <1>2

\* What a task that has created something is about to note.
LEMMA MadeIs ==
    ASSUME DiscoveryInv, NEW r \in Readers, task[r].pc = "created"
    PROVE  /\ task[r].made \in Things /\ task[r].under \in Places
           /\ \E i \in DOMAIN notion : notion[i] = [id |-> task[r].made, under |-> task[r].under]
<1>1. \A i \in DOMAIN notion : notion[i] \in NotionRec
    BY EntryFacts DEF DiscoveryInv, Typed
<1>2. PICK i \in DOMAIN notion : notion[i].id = task[r].made /\ notion[i].under = task[r].under
    BY DEF DiscoveryInv, Homes, Tasks
<1> QED BY <1>1, <1>2 DEF NotionRec

\* A note leaves a picture, with all the places there were, whether or not it finds room in it.
LEMMA Noting ==
    ASSUME DiscoveryInv, NEW r \in Readers, Note(r)
    PROVE  /\ Known /\ IsPicture(last')
           /\ PlacesOf(last) \subseteq PlacesOf(last')
           /\ ~ force' => /\ force = FALSE /\ last'.late = last.late
                          /\ Shows(last', task[r].made, task[r].under)
                          /\ \A x, p : Shows(last, x, p) => Shows(last', x, p)
           /\ task' = [task EXCEPT ![r] = Idle] \/ force' = TRUE
           /\ UNCHANGED notion
<1> DEFINE x == task[r].made
           p == task[r].under
           picture == IF p = Database THEN last ELSE WithPlace(last, x)
<1>1. task[r].pc = "created" /\ UNCHANGED notion
    BY DEF Note
<1>2. x \in Things /\ p \in Places /\ x \in Places
    BY <1>1, MadeIs, PlacesAre
<1>3. Known /\ IsPicture(last) /\ force \in BOOLEAN
    BY <1>1 DEF DiscoveryInv, Homes, Typed, Tasks
<1>4. /\ IsPicture(picture)
      /\ PlacesOf(last) \subseteq PlacesOf(picture)
      /\ \A q \in PlacesOf(last) : picture.items[q] = last.items[q]
      /\ picture.late = last.late
      /\ p # Database => x \in PlacesOf(picture)
    <2>1. CASE p = Database
        BY <1>3, <2>1
    <2>2. CASE p # Database
        BY <1>2, <1>3, <2>2, WithPlaceIs
    <2> QED BY <2>1, <2>2
<1>5. CASE p \in PlacesOf(picture)
    <2>1. /\ last' = WithItem(picture, x, p)
          /\ task' = [task EXCEPT ![r] = Idle]
          /\ force' = force
        BY <1>5 DEF Note
    <2> HIDE DEF picture, x, p
    <2>2. /\ IsPicture(last')
          /\ PlacesOf(last') = PlacesOf(picture)
          /\ last'.late = picture.late
          /\ \A q \in PlacesOf(picture) \ {p} : last'.items[q] = picture.items[q]
          /\ \E i \in DOMAIN last'.items[p] : last'.items[p][i] = x
          /\ \A i \in DOMAIN picture.items[p] :
                \E j \in DOMAIN last'.items[p] :
                    last'.items[p][j] = picture.items[p][i] \/ j = ITEMS
          /\ ITEMS \in DOMAIN picture.items[p] => ITEMS \in DOMAIN last'.items[p]
        BY <1>2, <1>4, <1>5, <2>1, WithItemIs
    <2>3. Database \in PlacesOf(last) /\ Database \in PlacesOf(picture)
        BY <1>3, <1>4 DEF IsPicture
    <2>4. Shows(last', x, p)
        BY <1>4, <2>2 DEF Shows
    <2>5. ASSUME NEW y, NEW q, Shows(last, y, q)
          PROVE  Shows(last', y, q)
        <3>1. CASE q # Database
            BY <1>4, <2>2, <2>5, <3>1 DEF Shows
        <3>2. CASE q = Database
            <4>1. PICK i \in DOMAIN picture.items[q] : picture.items[q][i] = y \/ i = ITEMS
                BY <1>4, <2>3, <2>5, <3>2 DEF Shows
            <4>2. CASE p # q
                BY <2>2, <2>3, <3>2, <4>1, <4>2 DEF Shows
            <4>3. CASE p = q
                <5>1. CASE i = ITEMS
                    BY <2>2, <3>2, <4>1, <4>3, <5>1 DEF Shows
                <5>2. CASE picture.items[q][i] = y
                    BY <2>2, <3>2, <4>1, <4>3, <5>2 DEF Shows
                <5> QED BY <4>1, <5>1, <5>2
            <4> QED BY <4>2, <4>3
        <3> QED BY <3>1, <3>2
    <2> QED BY <1>1, <1>3, <1>4, <2>1, <2>2, <2>4, <2>5 DEF x, p
<1>6. CASE p \notin PlacesOf(picture)
    <2>1. last' = Outdated(picture) /\ force' = TRUE
        BY <1>6 DEF Note, Invalidated
    <2> HIDE DEF picture
    <2>2. IsPicture(last') /\ PlacesOf(last') = PlacesOf(picture)
        BY <1>4, <2>1, OutdatedIs DEF PlacesOf
    <2> QED BY <1>1, <1>3, <1>4, <2>1, <2>2
<1> QED BY <1>5, <1>6

\* There is a picture as soon as there was one, and it has what a picture has.
LEMMA PictureMoves ==
    ASSUME DiscoveryInv, [Next]_vars
    PROVE  (Known => Known') /\ (Known' => IsPicture(last'))
<1>1. Known => IsPicture(last)
    BY DEF DiscoveryInv, Typed
<1>2. CASE last' = last
    BY <1>1, <1>2 DEF Known, None
<1>3. CASE IsPicture(last')
    <2>1. last' # None
        BY <1>3, PicturesAreKnown
    <2> QED BY <1>3, <2>1 DEF Known, None
<1>4. CASE last' = Outdated(last)
    <2>1. CASE Known
        BY <1>1, <1>3, <1>4, <2>1, OutdatedIs
    <2>2. CASE ~ Known
        BY <1>2, <1>4, <2>2 DEF Outdated
    <2> QED BY <2>1, <2>2
<1>5. CASE Tick \/ EditFile \/ UNCHANGED vars
    BY <1>2, <1>5 DEF Tick, EditFile, cache, vars
<1>6. ASSUME NEW r \in Readers, Get(r) \/ Turn(r)
      PROVE  (Known => Known') /\ (Known' => IsPicture(last'))
    <2>1. CASE Fresh(r) \/ Stale(r) \/ Queue(r)
        BY <1>2, <2>1 DEF Fresh, Stale, Queue, cache
    <2>2. CASE Refresh(r)
        BY <1>4, <2>2 DEF Refresh
    <2>3. CASE Note(r)
        BY <1>3, <2>3, Noting
    <2>4. ASSUME NEW x \in Things, NEW p \in Places, Create(r, x, p)
          PROVE  last' = last
        BY <2>4 DEF Create, cache
    <2> QED BY <1>2, <1>6, <2>1, <2>2, <2>3, <2>4 DEF Get, Turn
<1>7. ASSUME NEW r \in Tasks, Step(r)
      PROVE  (Known => Known') /\ (Known' => IsPicture(last'))
    <2>1. CASE Enter(r) \/ Search(r) \/ Query(r) \/ Fail(r)
        BY <1>2, <2>1 DEF Enter, Search, Query, Fail, cache
    <2>2. CASE Build(r)
        <3>1. last' = Picture(r)
            BY <2>2 DEF Build
        <3>2. IsPicture(Picture(r))
            BY PictureIs DEF DiscoveryInv
        <3> QED BY <1>3, <3>1, <3>2
    <2> QED BY <1>7, <2>1, <2>2 DEF Step
<1>8. ASSUME NEW a \in Requests, Serve(a) \/ Accepted(a)
      PROVE  (Known => Known') /\ (Known' => IsPicture(last'))
    BY <1>2, <1>4, <1>8 DEF Serve, Accepted, cache
<1> QED BY <1>5, <1>6, <1>7, <1>8 DEF Next

----------------------------------------------------------------------------
(* What a step can make of the line at the lock: nothing, and then a waiting head may start to    *)
(* fetch; a task more at its end; the head leaves it.                                             *)
Waits(q) == task[q].pc \in {"waiting", "searching", "querying", "building"}

LineStays ==
    /\ UNCHANGED line
    /\ \A q \in Tasks : (Waits(q)' <=> Waits(q)) /\ (Fetching(q)' => Fetching(q) \/ Holds(q))

Joins(r) ==
    /\ ~ Waits(r)
    /\ line' = Append(line, r)
    /\ \A q \in Tasks : (Waits(q)' <=> Waits(q) \/ q = r) /\ (Fetching(q)' => Fetching(q))

Leaves(r) ==
    /\ Holds(r)
    /\ line' = Tail(line)
    /\ \A q \in Tasks : (Waits(q)' <=> Waits(q) /\ q # r) /\ (Fetching(q)' => Fetching(q))

\* Whichever it is, the line keeps each task once, and its holder alone fetches.
LEMMA LineKeeps ==
    ASSUME Typed, Lined, LineStays \/ \E r \in Tasks : Joins(r) \/ Leaves(r)
    PROVE  line' \in Seq(Tasks) /\ Lined'
<1>1. /\ line \in Seq(Tasks)
      /\ \A i, j \in DOMAIN line : line[i] = line[j] => i = j
      /\ \A q \in Tasks : InLine(q) <=> Waits(q)
      /\ \A q \in Tasks : Fetching(q) => Holds(q)
    BY DEF Typed, Lined, Waits
<1>2. CASE LineStays
    <2>1. \A q \in Tasks : (InLine(q)' <=> Waits(q)') /\ (Fetching(q)' => Holds(q)')
        BY <1>1, <1>2 DEF LineStays, InLine, Holds
    <2> QED BY <1>1, <1>2, <2>1 DEF LineStays, Lined, Waits
<1>3. ASSUME NEW r \in Tasks, Joins(r)
      PROVE  line' \in Seq(Tasks) /\ Lined'
    <2>1. /\ Append(line, r) \in Seq(Tasks)
          /\ DOMAIN Append(line, r) = DOMAIN line \cup {Len(line) + 1}
          /\ Append(line, r)[Len(line) + 1] = r
          /\ Len(line) + 1 \notin DOMAIN line
          /\ \A j \in DOMAIN line : Append(line, r)[j] = line[j]
        BY <1>1, GrowthFacts
    <2>2. line' = Append(line, r) /\ ~ InLine(r)
        BY <1>1, <1>3 DEF Joins
    <2>3. \A i, j \in DOMAIN line' : line'[i] = line'[j] => i = j
        BY <1>1, <2>1, <2>2 DEF InLine
    <2>4. \A q \in Tasks : InLine(q)' <=> InLine(q) \/ q = r
        BY <2>1, <2>2 DEF InLine
    <2>5. \A q \in Tasks : Holds(q) => Holds(q)'
        <3> SUFFICES ASSUME NEW q \in Tasks, Holds(q)
                     PROVE  Holds(q)'
            OBVIOUS
        <3>1. line # <<>> /\ Head(line) = line[1] /\ 1 \in DOMAIN line
            BY <1>1, HeadFacts, LenProperties DEF Holds
        <3>2. line' # <<>> /\ Head(line') = line'[1]
            BY <1>1, <2>1, <2>2, AppendFacts, HeadFacts
        <3> QED BY <2>1, <2>2, <3>1, <3>2 DEF Holds
    <2>6. \A q \in Tasks : (InLine(q)' <=> Waits(q)') /\ (Fetching(q)' => Holds(q)')
        BY <1>1, <1>3, <2>4, <2>5 DEF Joins
    <2> QED BY <2>1, <2>2, <2>3, <2>6 DEF Lined, Waits
<1>4. ASSUME NEW r \in Tasks, Leaves(r)
      PROVE  line' \in Seq(Tasks) /\ Lined'
    <2>1. line # <<>> /\ Head(line) = r /\ line' = Tail(line)
        BY <1>4 DEF Leaves, Holds
    <2>2. /\ line' \in Seq(Tasks)
          /\ \A i, j \in DOMAIN line' : line'[i] = line'[j] => i = j
          /\ \A q \in Tasks : InLine(q)' <=> InLine(q) /\ q # r
        <3>1. /\ Tail(line) \in Seq(Tasks)
              /\ \A i, j \in DOMAIN Tail(line) : Tail(line)[i] = Tail(line)[j] => i = j
              /\ \A e : (\E i \in DOMAIN Tail(line) : Tail(line)[i] = e)
                       <=> (\E i \in DOMAIN line : line[i] = e) /\ e # Head(line)
            BY <1>1, <2>1, TailFacts
        <3> QED BY <2>1, <3>1 DEF InLine
    <2>3. \A q \in Tasks : InLine(q)' <=> Waits(q)'
        BY <1>1, <1>4, <2>2 DEF Leaves
    <2>4. \A q \in Tasks : ~ Fetching(q)'
        <3> SUFFICES ASSUME NEW q \in Tasks, Fetching(q)'
                     PROVE  FALSE
            OBVIOUS
        <3>1. Fetching(q) /\ Waits(q)'
            BY <1>4 DEF Leaves, Fetching, Waits
        <3>2. q = r
            BY <1>1, <2>1, <3>1 DEF Holds
        <3> QED BY <1>4, <3>1, <3>2 DEF Leaves
    <2> QED BY <2>2, <2>3, <2>4 DEF Lined, Waits
<1> QED BY <1>2, <1>3, <1>4

LEMMA LineMoves ==
    ASSUME DiscoveryInv, [Next]_vars
    PROVE  LineStays \/ \E r \in Tasks : Joins(r) \/ Leaves(r)
<1>1. /\ task \in [Tasks -> TaskRec]
      /\ \A q \in Tasks : Fetching(q) => Holds(q)
      /\ \A q \in Readers : q \in Tasks /\ q # Behind
      /\ Behind \in Tasks
    BY BehindIsNot DEF DiscoveryInv, Typed, Lined, Tasks
<1>2. CASE UNCHANGED line /\ \A q \in Tasks : task'[q].pc = task[q].pc
    BY <1>2 DEF LineStays, Waits, Fetching
<1>3. /\ Idle.pc = "idle" /\ [Idle EXCEPT !.pc = "waiting"].pc = "waiting"
      /\ \A picture : Served(picture).pc = "idle"
    BY DEF Idle, Served
<1>4. CASE Tick \/ EditFile \/ UNCHANGED vars
    BY <1>2, <1>4 DEF Tick, EditFile, vars
<1>5. ASSUME NEW a \in Requests, Serve(a) \/ Accepted(a)
      PROVE  LineStays
    <2>1. CASE Serve(a)
        <3>1. UNCHANGED <<line, task>>
            BY <2>1 DEF Serve
        <3> QED BY <3>1 DEF LineStays, Waits, Fetching
    <2>2. CASE Accepted(a)
        <3>1. /\ UNCHANGED line
              /\ task' = [q \in Tasks |->
                    IF Fetching(q) THEN [task[q] EXCEPT !.hit = TRUE, !.late = TRUE] ELSE task[q]]
            BY <2>2 DEF Accepted, Invalidated
        <3>2. \A q \in Tasks : [task[q] EXCEPT !.hit = TRUE, !.late = TRUE].pc = task[q].pc
            BY <1>1 DEF TaskRec
        <3>3. \A q \in Tasks : task'[q].pc = task[q].pc
            BY <3>1, <3>2
        <3> QED BY <3>1, <3>3 DEF LineStays, Waits, Fetching
    <2> QED BY <1>5, <2>1, <2>2
<1>6. ASSUME NEW r \in Readers, Get(r)
      PROVE  LineStays \/ \E q \in Tasks : Joins(q)
    <2>1. CASE Fresh(r)
        <3>1. UNCHANGED line /\ task[r].pc = "idle" /\ task' = [task EXCEPT ![r] = Served(last)]
            BY <2>1 DEF Fresh
        <3>2. \A q \in Tasks : task'[q].pc = task[q].pc
            BY <1>1, <1>3, <3>1
        <3> QED BY <3>1, <3>2 DEF LineStays, Waits, Fetching
    <2>2. CASE Stale(r)
        <3>1. task[r].pc = "idle"
            BY <2>2 DEF Stale
        <3>2. CASE task[Behind].pc = "idle"
            <4>1. /\ task' = [task EXCEPT ![r] = Served(last), ![Behind].pc = "waiting"]
                  /\ line' = Append(line, Behind)
                BY <2>2, <3>2 DEF Stale
            <4>2. /\ task'[r].pc = "idle" /\ task'[Behind].pc = "waiting"
                  /\ \A q \in Tasks \ {r, Behind} : task'[q] = task[q]
                BY <1>1, <1>3, <4>1 DEF TaskRec
            <4>3. Joins(Behind)
                BY <1>1, <3>1, <3>2, <4>1, <4>2 DEF Joins, Waits, Fetching
            <4> QED BY <1>1, <4>3
        <3>3. CASE task[Behind].pc # "idle"
            <4>1. UNCHANGED line /\ task' = [task EXCEPT ![r] = Served(last)]
                BY <2>2, <3>3 DEF Stale
            <4>2. \A q \in Tasks : task'[q].pc = task[q].pc
                BY <1>1, <1>3, <3>1, <4>1
            <4> QED BY <4>1, <4>2 DEF LineStays, Waits, Fetching
        <3> QED BY <3>2, <3>3
    <2>3. CASE Queue(r)
        <3>1. /\ task[r].pc = "idle" /\ line' = Append(line, r)
              /\ task' = [task EXCEPT ![r] = [Idle EXCEPT !.pc = "waiting"]]
            BY <2>3 DEF Queue
        <3>2. task'[r].pc = "waiting" /\ \A q \in Tasks \ {r} : task'[q] = task[q]
            BY <1>1, <1>3, <3>1
        <3>3. Joins(r)
            BY <1>1, <3>1, <3>2 DEF Joins, Waits, Fetching
        <3> QED BY <1>1, <3>3
    <2>4. CASE Refresh(r)
        <3> DEFINE rest == [Idle EXCEPT !.pc = "waiting"]
        <3>1. /\ task[r].pc = "idle" /\ line' = Append(line, r)
              /\ task' = [q \in Tasks |->
                            IF Fetching(q)
                            THEN [[task EXCEPT ![r] = rest][q] EXCEPT !.hit = TRUE, !.late = TRUE]
                            ELSE [task EXCEPT ![r] = rest][q]]
            BY <2>4 DEF Refresh, Invalidated
        <3> HIDE DEF rest
        <3>2. \A q \in Tasks : [task EXCEPT ![r] = rest][q] = IF q = r THEN rest ELSE task[q]
            BY <1>1
        <3>3. \A q \in Tasks : [task[q] EXCEPT !.hit = TRUE, !.late = TRUE].pc = task[q].pc
            BY <1>1 DEF TaskRec
        <3>4. task'[r] = rest
            BY <1>1, <3>1, <3>2 DEF Fetching
        <3>5. ASSUME NEW q \in Tasks \ {r}
              PROVE  task'[q].pc = task[q].pc
            <4>1. task'[q] = IF Fetching(q)
                             THEN [[task EXCEPT ![r] = rest][q] EXCEPT !.hit = TRUE, !.late = TRUE]
                             ELSE [task EXCEPT ![r] = rest][q]
                BY <3>1
            <4>2. [task EXCEPT ![r] = rest][q] = task[q]
                BY <3>2
            <4> QED BY <3>3, <4>1, <4>2
        <3>6. task'[r].pc = "waiting"
            BY <1>3, <3>4 DEF rest
        <3>7. Joins(r)
            BY <1>1, <3>1, <3>5, <3>6 DEF Joins, Waits, Fetching
        <3> QED BY <1>1, <3>7
    <2> QED BY <1>6, <2>1, <2>2, <2>3, <2>4 DEF Get
<1>7. ASSUME NEW r \in Readers, Turn(r)
      PROVE  LineStays
    <2>1. ASSUME NEW x \in Things, NEW p \in Places, Create(r, x, p)
          PROVE  LineStays
        <3>1. /\ UNCHANGED line /\ task[r].pc = "idle"
              /\ task' = [task EXCEPT
                    ![r] = [Idle EXCEPT !.pc = "created", !.made = x, !.under = p]]
            BY <2>1 DEF Create
        <3>2. task'[r].pc = "created" /\ \A q \in Tasks \ {r} : task'[q] = task[q]
            BY <1>1, <3>1 DEF Idle
        <3> QED BY <1>1, <3>1, <3>2 DEF LineStays, Waits, Fetching
    <2>2. CASE Note(r)
        <3>1. task[r].pc = "created" /\ UNCHANGED line
            BY <2>2 DEF Note
        <3>2. \/ task' = [task EXCEPT ![r] = Idle]
              \/ task' = [q \in Tasks |->
                            IF Fetching(q)
                            THEN [[task EXCEPT ![r] = Idle][q] EXCEPT !.hit = TRUE, !.late = TRUE]
                            ELSE [task EXCEPT ![r] = Idle][q]]
            BY <2>2 DEF Note, Invalidated
        <3>3. \A q \in Tasks : [task EXCEPT ![r] = Idle][q] = IF q = r THEN Idle ELSE task[q]
            BY <1>1
        <3>4. \A q \in Tasks : [task[q] EXCEPT !.hit = TRUE, !.late = TRUE].pc = task[q].pc
            BY <1>1 DEF TaskRec
        <3>5. ~ Fetching(r)
            BY <3>1 DEF Fetching
        <3>6. task'[r] = Idle
            BY <1>1, <3>2, <3>3, <3>5
        <3>7. ASSUME NEW q \in Tasks \ {r}
              PROVE  task'[q].pc = task[q].pc
            <4>1. task'[q] = task[q] \/ task'[q] = [task[q] EXCEPT !.hit = TRUE, !.late = TRUE]
                BY ZenonT(60), <3>2, <3>3
            <4> QED BY <3>4, <4>1
        <3> QED BY <1>1, <1>3, <3>1, <3>6, <3>7 DEF LineStays, Waits, Fetching
    <2> QED BY <1>7, <2>1, <2>2 DEF Turn
<1>8. ASSUME NEW r \in Tasks, Step(r)
      PROVE  LineStays \/ Leaves(r)
    <2>1. CASE Enter(r)
        <3>1. task[r].pc = "waiting" /\ Holds(r)
            BY <2>1 DEF Enter
        <3>2. CASE r = Behind \/ ~ Known \/ force \/ age >= TTL
            <4>1. /\ UNCHANGED line
                  /\ task' = [task EXCEPT ![r].pc = "searching", ![r].age = age]
                BY <2>1, <3>2 DEF Enter
            <4>2. task'[r].pc = "searching" /\ \A q \in Tasks \ {r} : task'[q] = task[q]
                BY <1>1, <4>1 DEF TaskRec
            <4> QED BY <3>1, <4>1, <4>2 DEF LineStays, Waits, Fetching
        <3>3. CASE ~ (r = Behind \/ ~ Known \/ force \/ age >= TTL)
            <4>1. task' = [task EXCEPT ![r] = Served(last)] /\ line' = Tail(line)
                BY <2>1, <3>3 DEF Enter
            <4>2. task'[r].pc = "idle" /\ \A q \in Tasks \ {r} : task'[q] = task[q]
                BY <1>1, <1>3, <4>1
            <4> QED BY <3>1, <4>1, <4>2 DEF Leaves, Waits, Fetching
        <3> QED BY <3>2, <3>3
    <2>2. CASE Search(r)
        <3>1. /\ UNCHANGED line /\ task[r].pc = "searching"
              /\ task' = [task EXCEPT ![r].pc = "querying", ![r].pages = notion, ![r].late = FALSE]
            BY <2>2 DEF Search
        <3>2. task'[r].pc = "querying" /\ \A q \in Tasks \ {r} : task'[q] = task[q]
            BY <1>1, <3>1 DEF TaskRec
        <3> QED BY <3>1, <3>2 DEF LineStays, Waits, Fetching
    <2>3. CASE Query(r)
        <3>1. /\ UNCHANGED line /\ task[r].pc = "querying"
              /\ task' = [task EXCEPT ![r].pc = "building", ![r].rows = notion]
            BY <2>3 DEF Query
        <3>2. task'[r].pc = "building" /\ \A q \in Tasks \ {r} : task'[q] = task[q]
            BY <1>1, <3>1 DEF TaskRec
        <3> QED BY <3>1, <3>2 DEF LineStays, Waits, Fetching
    <2>4. CASE Build(r) \/ Fail(r)
        <3>1. Fetching(r) /\ line' = Tail(line)
            BY <2>4 DEF Build, Fail, Fetching
        <3>2. PICK t : t.pc = "idle" /\ task' = [task EXCEPT ![r] = t]
            BY <1>3, <2>4 DEF Build, Fail
        <3>3. task'[r].pc = "idle" /\ \A q \in Tasks \ {r} : task'[q] = task[q]
            BY <1>1, <3>2
        <3> QED BY <1>1, <3>1, <3>3 DEF Leaves, Waits, Fetching
    <2> QED BY <1>8, <2>1, <2>2, <2>3, <2>4 DEF Step
<1> QED BY <1>4, <1>5, <1>6, <1>7, <1>8 DEF Next

----------------------------------------------------------------------------
(* The force. *)

\* Only a fetch that was not hit takes the force off.
LEMMA ForceMoves ==
    ASSUME DiscoveryInv, [Next]_vars
    PROVE  /\ force' \in BOOLEAN
           /\ force /\ ~ force' => \E r \in Tasks : Fetching(r) /\ ~ task[r].hit
           /\ Known' /\ ~ force' => ~ last'.late
<1>1. force \in BOOLEAN /\ (Known /\ ~ force => ~ last.late)
    BY DEF DiscoveryInv, Typed, Hits
<1> DEFINE Goal == /\ force' \in BOOLEAN
                   /\ force /\ ~ force' => \E r \in Tasks : Fetching(r) /\ ~ task[r].hit
                   /\ Known' /\ ~ force' => ~ last'.late
<1>2. CASE UNCHANGED <<last, force>>
    BY <1>1, <1>2 DEF Known, None
<1>3. CASE force' = TRUE
    BY <1>3
<1>4. CASE Tick \/ EditFile \/ UNCHANGED vars
    BY <1>2, <1>4 DEF Tick, EditFile, cache, vars
<1>5. ASSUME NEW a \in Requests, Serve(a) \/ Accepted(a)
      PROVE  Goal
    BY <1>2, <1>3, <1>5 DEF Serve, Accepted, Invalidated, cache
<1>6. ASSUME NEW r \in Readers, Get(r)
      PROVE  Goal
    BY <1>2, <1>3, <1>6 DEF Get, Fresh, Stale, Queue, Refresh, Invalidated, cache
<1>7. ASSUME NEW r \in Readers, Turn(r)
      PROVE  Goal
    <2>1. CASE Note(r)
        <3>1. /\ Known /\ (~ force' => force = FALSE /\ last'.late = last.late)
              /\ force' \in BOOLEAN
            BY <1>1, <2>1, Noting DEF Note, Invalidated
        <3> QED BY <1>1, <3>1
    <2>2. CASE ~ Note(r)
        BY <1>2, <1>7, <2>2 DEF Turn, Create, cache
    <2> QED BY <2>1, <2>2
<1>8. ASSUME NEW r \in Tasks, Step(r)
      PROVE  Goal
    <2>1. CASE Build(r)
        <3>1. /\ task[r].pc = "building" /\ last' = Picture(r)
              /\ force' = (force /\ (r = Behind \/ task[r].hit))
            BY <2>1 DEF Build
        <3>2. task[r].hit \in BOOLEAN /\ Picture(r).late = task[r].late
            BY PictureIs DEF DiscoveryInv, Typed, TaskRec
        <3>3. task[r].hit => force
            BY DEF DiscoveryInv, Hits
        <3>4. ~ task[r].hit => ~ task[r].late
            BY <3>1 DEF DiscoveryInv, Hits
        <3> QED BY <1>1, <3>1, <3>2, <3>3, <3>4 DEF Fetching
    <2>2. CASE ~ Build(r)
        BY <1>2, <1>8, <2>2 DEF Step, Enter, Search, Query, Fail, cache
    <2> QED BY <2>1, <2>2
<1> QED BY <1>4, <1>5, <1>6, <1>7, <1>8 DEF Next

\* One task fetches at a time, so that the fetch that takes the force off was the only one.
LEMMA HitsKept ==
    ASSUME DiscoveryInv, [Next]_vars
    PROVE  Hits'
<1>1. \A q \in Tasks : TaskStep(q)
    BY TasksMove
<1>2. ASSUME NEW q \in Tasks, task[q].hit
      PROVE  Fetching(q) /\ force /\ force'
    <2>1. Fetching(q) /\ force
        BY <1>2 DEF DiscoveryInv, Hits
    <2>2. ASSUME ~ force'
          PROVE  FALSE
        <3>1. PICK r \in Tasks : Fetching(r) /\ ~ task[r].hit
            BY <2>1, <2>2, ForceMoves
        <3>2. q = r
            BY <2>1, <3>1 DEF DiscoveryInv, Lined, Holds
        <3> QED BY <1>2, <3>1, <3>2
    <2> QED BY <2>1, <2>2
<1>3. ASSUME NEW q \in Tasks, task'[q].hit
      PROVE  Fetching(q)' /\ force'
    <2>1. CASE task'[q] = task[q]
        BY <1>2, <1>3, <2>1 DEF Fetching
    <2>2. CASE HitNow(q)
        <3>1. task[q] \in TaskRec
            BY DEF DiscoveryInv, Typed
        <3>2. task'[q].pc = task[q].pc
            BY <2>2, <3>1 DEF HitNow, TaskRec
        <3> QED BY <2>2, <3>2 DEF HitNow, Fetching
    <2>3. CASE Rests(q) \/ Makes(q)
        BY <1>3, <2>3 DEF Rests, Makes
    <2>4. CASE Fetches(q)
        BY <1>2, <1>3, <2>4 DEF Fetches
    <2> QED BY <1>1, <2>1, <2>2, <2>3, <2>4 DEF TaskStep
<1>4. ASSUME NEW q \in Tasks, task'[q].pc \in {"querying", "building"}, ~ task'[q].hit
      PROVE  ~ task'[q].late
    <2>1. task[q].pc \in {"querying", "building"} /\ ~ task[q].hit => ~ task[q].late
        BY DEF DiscoveryInv, Hits
    <2>2. CASE task'[q] = task[q]
        BY <1>4, <2>1, <2>2
    <2>3. CASE HitNow(q)
        <3>1. task[q] \in TaskRec
            BY DEF DiscoveryInv, Typed
        <3>2. task'[q].hit
            BY <2>3, <3>1 DEF HitNow, TaskRec
        <3> QED BY <1>4, <3>2
    <2>4. CASE Rests(q) \/ Makes(q)
        BY <1>4, <2>4 DEF Rests, Makes
    <2>5. CASE Fetches(q)
        BY <1>4, <2>1, <2>5 DEF Fetches
    <2> QED BY <1>1, <2>2, <2>3, <2>4, <2>5 DEF TaskStep
<1> QED BY <1>3, <1>4, ForceMoves DEF Hits

----------------------------------------------------------------------------
(* Notion, and what the tasks made in it. *)

\* The index of a thing is found by its id.
LEMMA HomeIs ==
    ASSUME Homes, NEW i \in DOMAIN notion
    PROVE  Home(notion[i].id) = i
BY DEF Homes, Home

\* A creation comes before the others, with an id of its own.
LEMMA CreateIs ==
    ASSUME Typed, NEW r, NEW x \in Things, NEW p \in Places, Create(r, x, p)
    PROVE  /\ notion' \in Seq(NotionRec)
           /\ DOMAIN notion' = {1} \cup {i + 1 : i \in DOMAIN notion}
           /\ notion'[1] = [id |-> x, under |-> p]
           /\ \A i \in DOMAIN notion : i \in Nat /\ i + 1 # 1 /\ notion'[i + 1] = notion[i]
           /\ \A i \in DOMAIN notion : notion[i].id # x
<1>1. /\ notion' = <<[id |-> x, under |-> p]>> \o notion
      /\ \A i \in DOMAIN notion : notion[i].id # x
    BY DEF Create
<1>2. /\ <<[id |-> x, under |-> p]>> \in Seq(NotionRec)
      /\ Len(<<[id |-> x, under |-> p]>>) = 1
      /\ <<[id |-> x, under |-> p]>>[1] = [id |-> x, under |-> p]
    BY DEF NotionRec
<1>3. notion \in Seq(NotionRec) /\ Len(notion) \in Nat /\ DOMAIN notion = 1 .. Len(notion)
    BY EntryFacts DEF Typed
<1>4. /\ notion' \in Seq(NotionRec) /\ Len(notion') = Len(notion) + 1
      /\ \A i \in 1 .. Len(notion) + 1 :
            notion'[i] = IF i <= 1 THEN <<[id |-> x, under |-> p]>>[i] ELSE notion[i - 1]
    BY <1>1, <1>2, <1>3, ConcatProperties
<1>5. DOMAIN notion' = 1 .. Len(notion) + 1
    BY <1>4, LenProperties
<1>6. DOMAIN notion' = {1} \cup {i + 1 : i \in DOMAIN notion}
    <2>1. \A j \in 1 .. Len(notion) + 1 : j = 1 \/ (j - 1 \in 1 .. Len(notion) /\ (j - 1) + 1 = j)
        BY <1>3
    <2>2. \A i \in 1 .. Len(notion) : i + 1 \in 1 .. Len(notion) + 1
        BY <1>3
    <2>3. 1 \in 1 .. Len(notion) + 1
        BY <1>3
    <2> QED BY <1>3, <1>5, <2>1, <2>2, <2>3
<1>7. \A i \in DOMAIN notion : /\ i \in Nat /\ i + 1 # 1 /\ ~ i + 1 <= 1
                               /\ i + 1 \in 1 .. Len(notion) + 1 /\ (i + 1) - 1 = i
    BY <1>3
<1>8. \A i \in DOMAIN notion : notion'[i + 1] = notion[i]
    BY <1>4, <1>7
<1>9. notion'[1] = [id |-> x, under |-> p]
    BY <1>2, <1>3, <1>4
<1> QED BY <1>1, <1>4, <1>6, <1>7, <1>8, <1>9

LEMMA NotionMoves ==
    ASSUME [Next]_vars
    PROVE  UNCHANGED notion \/ \E r \in Readers, x \in Things, p \in Places : Create(r, x, p)
<1>1. CASE Tick \/ EditFile \/ UNCHANGED vars
    BY <1>1 DEF Tick, EditFile, vars
<1>2. ASSUME NEW a \in Requests, Serve(a) \/ Accepted(a)
      PROVE  UNCHANGED notion
    BY <1>2 DEF Serve, Accepted
<1>3. ASSUME NEW r \in Readers, Get(r) \/ Note(r)
      PROVE  UNCHANGED notion
    BY <1>3 DEF Get, Fresh, Stale, Queue, Refresh, Note
<1>4. ASSUME NEW r \in Tasks, Step(r)
      PROVE  UNCHANGED notion
    BY <1>4 DEF Step, Enter, Search, Query, Build, Fail
<1> QED BY <1>1, <1>2, <1>3, <1>4 DEF Next, Turn

\* What is in Notion stays there, and nothing is there twice.
LEMMA NotionKeeps ==
    ASSUME DiscoveryInv, [Next]_vars
    PROVE  /\ notion' \in Seq(NotionRec)
           /\ \A i, j \in DOMAIN notion' : notion'[i].id = notion'[j].id => i = j
           /\ \A i \in DOMAIN notion : \E j \in DOMAIN notion' : notion'[j] = notion[i]
<1>1. /\ notion \in Seq(NotionRec)
      /\ \A i, j \in DOMAIN notion : notion[i].id = notion[j].id => i = j
    BY DEF DiscoveryInv, Typed, Homes
<1>2. CASE UNCHANGED notion
    BY <1>1, <1>2
<1>3. ASSUME NEW r \in Readers, NEW x \in Things, NEW p \in Places, Create(r, x, p)
      PROVE  /\ notion' \in Seq(NotionRec)
             /\ \A i, j \in DOMAIN notion' : notion'[i].id = notion'[j].id => i = j
             /\ \A i \in DOMAIN notion : \E j \in DOMAIN notion' : notion'[j] = notion[i]
    <2>1. /\ notion' \in Seq(NotionRec)
          /\ DOMAIN notion' = {1} \cup {i + 1 : i \in DOMAIN notion}
          /\ notion'[1] = [id |-> x, under |-> p]
          /\ \A i \in DOMAIN notion : i \in Nat /\ i + 1 # 1 /\ notion'[i + 1] = notion[i]
          /\ \A i \in DOMAIN notion : notion[i].id # x
        <3>1. Typed
            BY DEF DiscoveryInv
        <3> QED BY <1>3, <3>1, CreateIs
    <2>2. ASSUME NEW i \in DOMAIN notion', NEW j \in DOMAIN notion', notion'[i].id = notion'[j].id
          PROVE  i = j
        <3>1. CASE i = 1 \/ j = 1
            BY <2>1, <2>2, <3>1
        <3>2. CASE i # 1 /\ j # 1
            <4>1. PICK k \in DOMAIN notion, l \in DOMAIN notion : i = k + 1 /\ j = l + 1
                BY <2>1, <3>2
            <4>2. notion[k].id = notion[l].id
                BY <2>1, <2>2, <4>1
            <4> QED BY <1>1, <4>1, <4>2
        <3> QED BY <3>1, <3>2
    <2>3. \A i \in DOMAIN notion : \E j \in DOMAIN notion' : notion'[j] = notion[i]
        BY <2>1
    <2> QED BY <2>1, <2>2, <2>3
<1> QED BY <1>2, <1>3, NotionMoves

LEMMA HomesKept ==
    ASSUME DiscoveryInv, [Next]_vars
    PROVE  Homes'
<1>1. /\ \A q \in Tasks : TaskStep(q) /\ task[q] \in TaskRec
      /\ Behind \in Tasks
      /\ Known => Known'
    BY TasksMove, PictureMoves DEF DiscoveryInv, Typed, Tasks
<1>2. /\ \A q \in Tasks : task[q].pc = "created" =>
             \E i \in DOMAIN notion : notion[i].id = task[q].made /\ notion[i].under = task[q].under
      /\ \A q \in Tasks : task[q].pc # "created" => task[q].made = NoPlace
      /\ \A q \in Tasks : task[q].places # {} \/ task[q].pc = "created" => Known
      /\ task[Behind].pc # "created" /\ task[Behind].places = {}
    BY DEF DiscoveryInv, Homes
<1>3. ASSUME NEW q \in Tasks
      PROVE  /\ task'[q].pc = "created" =>
                    \E i \in DOMAIN notion' :
                        notion'[i].id = task'[q].made /\ notion'[i].under = task'[q].under
             /\ task'[q].pc # "created" => task'[q].made = NoPlace
             /\ task'[q].places # {} \/ task'[q].pc = "created" => Known'
             /\ q = Behind => task'[q].pc # "created" /\ task'[q].places = {}
    <2>1. CASE task'[q] = task[q]
        <3>1. \A i \in DOMAIN notion : \E j \in DOMAIN notion' : notion'[j] = notion[i]
            BY NotionKeeps
        <3>2. task[q].pc = "created" =>
                 \E i \in DOMAIN notion' :
                    notion'[i].id = task[q].made /\ notion'[i].under = task[q].under
            BY <1>2, <3>1
        <3> QED BY <1>1, <1>2, <2>1, <3>2
    <2>2. CASE HitNow(q)
        <3>1. /\ task'[q].pc = task[q].pc /\ task'[q].made = task[q].made
              /\ task'[q].places = task[q].places /\ task[q].pc # "created"
            BY <1>1, <2>2 DEF HitNow, TaskRec, Fetching
        <3> QED BY <1>1, <1>2, <3>1
    <2>3. CASE Rests(q)
        BY <2>3 DEF Rests
    <2>4. CASE Fetches(q)
        BY <1>1, <1>2, <2>4 DEF Fetches, Fetching
    <2>5. CASE Makes(q)
        BY <1>1, <2>5 DEF Makes
    <2> QED BY <1>1, <2>1, <2>2, <2>3, <2>4, <2>5 DEF TaskStep
<1> QED BY <1>1, <1>3, NotionKeeps DEF Homes

\* A call that has created something remembers it until it is noted.
LEMMA MadeStays ==
    ASSUME DiscoveryInv, [Next]_vars, NEW q \in Tasks, task[q].made # NoPlace, ~ Note(q)
    PROVE  task'[q].made = task[q].made
<1>1. task[q].pc = "created"
    BY DEF DiscoveryInv, Homes
<1>2. TaskStep(q)
    BY TasksMove
<1> QED BY <1>1, <1>2 DEF TaskStep, HitNow, Rests, Fetches, Makes, Fetching

\* Where the picture changes: a new one, a note in it, or with the force put on.
LEMMA LastMoves ==
    ASSUME [Next]_vars
    PROVE  \/ UNCHANGED <<last, force>>
           \/ force' = TRUE
           \/ \E r \in Readers : Note(r)
           \/ \E r \in Tasks : Build(r)
<1>1. CASE Tick \/ EditFile \/ UNCHANGED vars
    BY <1>1 DEF Tick, EditFile, cache, vars
<1>2. ASSUME NEW a \in Requests, Serve(a) \/ Accepted(a)
      PROVE  UNCHANGED <<last, force>> \/ force' = TRUE
    BY <1>2 DEF Serve, Accepted, Invalidated, cache
<1>3. ASSUME NEW r \in Readers, Get(r)
      PROVE  UNCHANGED <<last, force>> \/ force' = TRUE
    BY <1>3 DEF Get, Fresh, Stale, Queue, Refresh, Invalidated, cache
<1>4. ASSUME NEW r \in Readers, Turn(r), ~ Note(r)
      PROVE  UNCHANGED <<last, force>>
    BY <1>4 DEF Turn, Create, cache
<1>5. ASSUME NEW r \in Tasks, Step(r), ~ Build(r)
      PROVE  UNCHANGED <<last, force>>
    BY <1>5 DEF Step, Enter, Search, Query, Fail, cache
<1> QED BY <1>1, <1>2, <1>3, <1>4, <1>5 DEF Next

\* What is not to be seen in the new picture is overtaken; a note moves nothing out of sight.
LEMMA FoundKept ==
    ASSUME DiscoveryInv, [Next]_vars
    PROVE  Found'
<1> SUFFICES ASSUME Known', ~ force', NEW x, (x \in Noted \ overtaken)'
             PROVE  Shown(last, x)'
    BY DEF Found
<1>1. PICK j \in DOMAIN notion' : x = notion'[j].id
    BY DEF Noted
<1>2. Home(x)' = j
    BY <1>1, HomesKept DEF Homes, Home
<1>3. /\ \A q \in Readers : task'[q].made # x
      /\ x \notin overtaken'
    BY DEF Noted
<1> SUFFICES Shows(last', x, notion'[j].under)
    BY <1>1, <1>2 DEF Shown, Shows
<1>4. ASSUME NEW i \in DOMAIN notion, notion[i].id = x, \A q \in Readers : task[q].made # x
      PROVE  x \in Noted /\ Home(x) = i
    BY <1>4, HomeIs DEF DiscoveryInv, Noted
<1>5. Found /\ \A i \in DOMAIN notion : notion[i] \in NotionRec
    BY EntryFacts DEF DiscoveryInv, Typed
<1>6. overtaken' = overtaken \/ \E r \in Tasks : Build(r)
    BY DEF Next, Tick, Get, Fresh, Stale, Queue, Refresh, Turn, Create, Note, Step, Enter, Search,
           Query, Fail, Serve, Accepted, EditFile, vars
<1>7. ASSUME NEW r \in Readers, Note(r)
      PROVE  Shows(last', x, notion'[j].under)
    <2>1. /\ notion' = notion /\ Known /\ force = FALSE
          /\ Shows(last', task[r].made, task[r].under)
          /\ \A y, p : Shows(last, y, p) => Shows(last', y, p)
          /\ task' = [task EXCEPT ![r] = Idle]
        BY <1>7, Noting
    <2>2. \A q \in Readers \ {r} : task'[q] = task[q]
        BY <2>1 DEF DiscoveryInv, Typed, Tasks
    <2>3. CASE x = task[r].made
        <3>1. task[r].pc = "created"
            BY <1>7 DEF Note
        <3>2. PICK i \in DOMAIN notion : notion[i] = [id |-> task[r].made, under |-> task[r].under]
            BY <3>1, MadeIs
        <3>3. i = j
            BY <1>1, <2>1, <2>3, <3>2 DEF DiscoveryInv, Homes
        <3> QED BY <2>1, <2>3, <3>2, <3>3
    <2>4. CASE x # task[r].made
        <3>1. \A q \in Readers : task[q].made # x
            BY <1>3, <2>2, <2>4
        <3>2. x \in Noted /\ Home(x) = j
            BY <1>1, <1>4, <2>1, <3>1
        <3>3. overtaken' = overtaken
            BY <1>7 DEF Note
        <3>4. Shown(last, x)
            BY <1>3, <1>5, <2>1, <3>2, <3>3 DEF Found
        <3> QED BY <2>1, <3>2, <3>4 DEF Shown
    <2> QED BY <2>3, <2>4
<1>8. ASSUME \A r \in Readers : ~ Note(r)
      PROVE  Shows(last', x, notion'[j].under)
    <2>1. \A q \in Readers : task[q].made # NoPlace => task'[q].made = task[q].made
        BY <1>8, MadeStays DEF Tasks
    <2>2. ASSUME NEW i \in DOMAIN notion, notion[i].id = x
          PROVE  x \in Noted /\ Home(x) = i
        <3>1. x # NoPlace
            BY <1>5, <2>2, NoPlaceIsNoPlace, PlacesAre DEF NotionRec
        <3>2. \A q \in Readers : task[q].made # x
            BY <1>3, <2>1, <3>1
        <3> QED BY <1>4, <2>2, <3>2
    <2>3. CASE \E r \in Tasks : Build(r)
        <3>1. PICK r \in Tasks : Build(r)
            BY <2>3
        <3>2. /\ last' = Picture(r) /\ notion' = notion
              /\ overtaken' = overtaken \cup {y \in Noted : ~ Shown(Picture(r), y)}
            BY <3>1 DEF Build
        <3>3. x \in Noted /\ Home(x) = j
            BY <1>1, <2>2, <3>2
        <3>4. Shown(Picture(r), x)
            BY <1>3, <3>2, <3>3
        <3> QED BY <3>2, <3>3, <3>4 DEF Shown
    <2>4. CASE ~ \E r \in Tasks : Build(r)
        <3>1. last' = last /\ force' = force /\ overtaken' = overtaken
            BY <1>6, <1>8, <2>4, LastMoves
        <3>2. Known /\ ~ force
            BY <3>1 DEF Known, None
        <3>3. ASSUME NEW i \in DOMAIN notion, notion[i].id = x
              PROVE  Shows(last, x, notion[i].under)
            <4>1. x \in Noted \ overtaken /\ Home(x) = i
                BY <1>3, <2>2, <3>1, <3>3
            <4>2. Shown(last, x)
                BY <1>5, <3>2, <4>1 DEF Found
            <4> QED BY <4>1, <4>2 DEF Shown
        <3>4. CASE UNCHANGED notion
            BY <1>1, <3>1, <3>3, <3>4
        <3>5. ASSUME NEW r \in Readers, NEW y \in Things, NEW p \in Places, Create(r, y, p)
              PROVE  Shows(last', x, notion'[j].under)
            <4>0. Typed
                BY DEF DiscoveryInv
            <4>1. /\ notion' \in Seq(NotionRec)
                  /\ DOMAIN notion' = {1} \cup {i + 1 : i \in DOMAIN notion}
                  /\ notion'[1] = [id |-> y, under |-> p]
                  /\ \A i \in DOMAIN notion : i \in Nat /\ i + 1 # 1 /\ notion'[i + 1] = notion[i]
                  /\ \A i \in DOMAIN notion : notion[i].id # y
                BY <3>5, <4>0, CreateIs
            <4>2. task'[r].made = y
                BY <3>5 DEF Create, DiscoveryInv, Typed, Tasks, Idle
            <4>3. j # 1
                BY <1>1, <1>3, <4>1, <4>2
            <4>4. PICK i \in DOMAIN notion : j = i + 1
                BY <4>1, <4>3
            <4>5. notion'[j] = notion[i]
                BY <4>1, <4>4
            <4> QED BY <1>1, <3>1, <3>3, <4>5
        <3> QED BY <3>4, <3>5, NotionMoves
    <2> QED BY <2>3, <2>4
<1> QED BY <1>7, <1>8

----------------------------------------------------------------------------
(* The file and the tabs. *)

\* What a tab shows and what is made of it speaks of places the picture had.
LEMMA BodiesAre ==
    ASSUME Typed, NEW places, places \subseteq Places
    PROVE  \A body \in Changed(View(places)) : body \in Partial(Meta)
<1> DEFINE view == View(places)
<1>1. Loaded \in [Places -> Meta]
    BY DEF Typed, Loaded, Nothing, Blank, Meta
<1>2. view \in [places -> Meta]
    BY <1>1 DEF View, Meta
<1> HIDE DEF view
<1>3. \A p \in DOMAIN view : [view EXCEPT ![p].said = ~ @] \in [places -> Meta]
    BY <1>2 DEF Meta
<1>4. \A q : [p \in DOMAIN view |-> [view[p] EXCEPT !.inbox = p = q]] \in [places -> Meta]
    BY <1>2 DEF Meta
<1>5. \A body \in Changed(view) : body \in [places -> Meta]
    <2> SUFFICES ASSUME NEW body \in Changed(view)
                 PROVE  body \in [places -> Meta]
        OBVIOUS
    <2>1. \/ \E p \in DOMAIN view : body = [view EXCEPT ![p].said = ~ @]
          \/ \E q : body = [p \in DOMAIN view |-> [view[p] EXCEPT !.inbox = p = q]]
        BY DEF Changed
    <2>2. ASSUME NEW p \in DOMAIN view, body = [view EXCEPT ![p].said = ~ @]
          PROVE  body \in [places -> Meta]
        BY <1>3, <2>2, Zenon
    <2>3. ASSUME NEW q, body = [p \in DOMAIN view |-> [view[p] EXCEPT !.inbox = p = q]]
          PROVE  body \in [places -> Meta]
        BY <1>4, <2>3, Zenon
    <2> QED BY <2>1, <2>2, <2>3
<1>6. [places -> Meta] \subseteq Partial(Meta)
    BY DEF Partial
<1> QED BY <1>5, <1>6 DEF view

\* A merge covers every place there is.
LEMMA MergedIs ==
    ASSUME Typed, NEW body \in Partial(Meta)
    PROVE  Merged(body) \in [Places -> Meta]
<1>1. Loaded \in [Places -> Meta]
    BY DEF Typed, Loaded, Nothing, Blank, Meta
<1>2. \A p \in DOMAIN body : body[p] \in Meta
    BY DEF Partial
<1> QED BY <1>1, <1>2 DEF Merged, Meta

\* How many places are flagged is a number, because there are finitely many.
LEMMA FlagsCount ==
    ASSUME NEW meta \in [Places -> Meta]
    PROVE  Cardinality(Flagged(meta)) \in Nat
<1>1. Flagged(meta) \in SUBSET Places
    BY DEF Flagged
<1> QED BY <1>1, PlacesAreFinite, FS_Subset, FS_CardinalityType

FilesTyped ==
    /\ file \in [meta : [Places -> Meta], broken : BOOLEAN]
    /\ tab \in [Requests -> TabRec]

LEMMA FilesKept ==
    ASSUME DiscoveryInv, [Next]_vars
    PROVE  FilesTyped' /\ Flags'
<1>1. /\ file \in [meta : [Places -> Meta], broken : BOOLEAN]
      /\ tab \in [Requests -> TabRec]
      /\ \A a \in Requests : tab[a] \in TabRec
      /\ Flags
    BY DEF DiscoveryInv, Typed
<1>2. CASE UNCHANGED <<file, tab>>
    BY <1>1, <1>2 DEF FilesTyped, Flags, Flagged
<1>3. ASSUME NEW a \in Requests, NEW t \in TabRec, tab' = [tab EXCEPT ![a] = t], UNCHANGED file,
             t.pc = "merged" => t.body \in [Places -> Meta] /\ Cardinality(Flagged(t.body)) <= 1
      PROVE  FilesTyped' /\ Flags'
    <2>1. tab' \in [Requests -> TabRec] /\ FilesTyped'
        BY <1>1, <1>3 DEF FilesTyped
    <2>2. \A b \in Requests : tab'[b].pc = "merged" =>
            tab'[b].body \in [Places -> Meta] /\ Cardinality(Flagged(tab'[b].body)) <= 1
        BY <1>1, <1>3 DEF Flags
    <2> QED BY <1>1, <1>3, <2>1, <2>2 DEF Flags, Flagged
<1>4. CASE EditFile
    <2>1. file' = [file EXCEPT !.broken = TRUE] /\ UNCHANGED tab
        BY <1>4 DEF EditFile, HandEdit
    <2>2. file'.meta = file.meta /\ file' \in [meta : [Places -> Meta], broken : BOOLEAN]
        BY <1>1, <2>1
    <2> QED BY <1>1, <2>1, <2>2 DEF FilesTyped, Flags, Flagged
<1>5. ASSUME NEW r \in Tasks, Build(r)
      PROVE  FilesTyped' /\ Flags'
    <2>1. /\ file' = IF file.broken THEN file ELSE [file EXCEPT !.meta = Loaded]
          /\ UNCHANGED tab
        BY <1>5 DEF Build, Ensure
    <2>2. file'.meta = file.meta /\ file' \in [meta : [Places -> Meta], broken : BOOLEAN]
        BY <1>1, <2>1 DEF Loaded
    <2> QED BY <1>1, <2>1, <2>2 DEF FilesTyped, Flags, Flagged
<1>6. ASSUME NEW a \in Requests, Serve(a)
      PROVE  FilesTyped' /\ Flags'
    <2>1. CASE Known /\ Open(a, PlacesOf(last))
        <3>1. /\ tab[a].pc = "closed" /\ UNCHANGED file
              /\ \E body \in Changed(View(PlacesOf(last))) :
                    tab' = [tab EXCEPT ![a].pc = "open", ![a].body = body]
            BY <2>1 DEF Open
        <3>2. PICK body \in Changed(View(PlacesOf(last))) :
                    tab' = [tab EXCEPT ![a].pc = "open", ![a].body = body]
            BY <3>1
        <3>3. body \in Partial(Meta)
            BY <2>1, <3>2, BodiesAre DEF DiscoveryInv, Typed, IsPicture
        <3> DEFINE t == [tab[a] EXCEPT !.pc = "open", !.body = body]
        <3>4. t \in TabRec /\ t.pc = "open" /\ tab' = [tab EXCEPT ![a] = t]
            BY <1>1, <3>2, <3>3 DEF TabRec
        <3> HIDE DEF t
        <3> QED BY <1>3, <3>1, <3>4
    <2>2. CASE Post(a, PlacesOf(last))
        <3> DEFINE body == tab[a].body
                   merged == Merged(body)
                   t == CASE ~ DOMAIN body \subseteq PlacesOf(last)
                                    \/ Cardinality(Flagged(merged)) > 1 -> Closed
                          [] ~ (~ DOMAIN body \subseteq PlacesOf(last)
                                    \/ Cardinality(Flagged(merged)) > 1)
                                /\ (\E p \in DOMAIN body : merged[p] # Loaded[p])
                                -> [Closed EXCEPT !.pc = "merged", !.body = merged]
                          [] OTHER -> [Closed EXCEPT !.pc = "saved"]
        <3>1. tab' = [tab EXCEPT ![a] = t] /\ UNCHANGED file
            BY <2>2 DEF Post
        <3>2. merged \in [Places -> Meta] /\ Cardinality(Flagged(merged)) \in Nat
            <4>1. body \in Partial(Meta)
                BY <1>1 DEF TabRec
            <4>2. merged \in [Places -> Meta]
                BY <4>1, MergedIs DEF DiscoveryInv
            <4> QED BY <4>2, FlagsCount
        <3> HIDE DEF merged
        <3>3. [Closed EXCEPT !.pc = "merged", !.body = merged] \in TabRec
            <4>1. merged \in Partial(Meta)
                BY <3>2 DEF Partial
            <4> QED BY <4>1, ClosedIs DEF TabRec
        <3>4. /\ t \in TabRec
              /\ t.pc = "merged" => t.body = merged /\ ~ Cardinality(Flagged(merged)) > 1
            BY <3>3, ClosedIs DEF Closed
        <3> HIDE DEF t
        <3>5. ~ Cardinality(Flagged(merged)) > 1 => Cardinality(Flagged(merged)) <= 1
            BY <3>2
        <3> QED BY <1>3, <3>1, <3>2, <3>4, <3>5
    <2>3. CASE Save(a)
        <3>1. /\ tab[a].pc = "merged"
              /\ file' = [meta |-> tab[a].body, broken |-> FALSE]
              /\ tab' = [tab EXCEPT ![a] = [Closed EXCEPT !.pc = "saved"]]
            BY <2>3 DEF Save
        <3>2. tab[a].body \in [Places -> Meta] /\ Cardinality(Flagged(tab[a].body)) <= 1
            BY <1>1, <3>1 DEF Flags
        <3>3. tab' \in [Requests -> TabRec]
            BY <1>1, <3>1, ClosedIs
        <3>4. \A b \in Requests : tab'[b].pc = "merged" => tab'[b] = tab[b]
            BY <1>1, <3>1 DEF Closed
        <3>5. file'.meta = tab[a].body /\ file' \in [meta : [Places -> Meta], broken : BOOLEAN]
            BY <3>1, <3>2
        <3> QED BY <1>1, <3>2, <3>3, <3>4, <3>5 DEF FilesTyped, Flags, Flagged
    <2>4. CASE RestRefused(a)
        BY <1>3, <2>4, ClosedIs DEF RestRefused, Closed
    <2> QED BY <1>6, <2>1, <2>2, <2>3, <2>4 DEF Serve
<1>7. ASSUME NEW a \in Requests, Accepted(a)
      PROVE  FilesTyped' /\ Flags'
    BY <1>3, <1>7, ClosedIs DEF Accepted, Closed
<1>8. ASSUME NEW r \in Readers, Get(r) \/ Turn(r)
      PROVE  UNCHANGED <<file, tab>>
    BY <1>8 DEF Get, Fresh, Stale, Queue, Refresh, Turn, Create, Note, fileVars
<1>9. ASSUME NEW r \in Tasks, Step(r), ~ Build(r)
      PROVE  UNCHANGED <<file, tab>>
    BY <1>9 DEF Step, Enter, Search, Query, Fail, fileVars
<1>10. CASE Tick \/ UNCHANGED vars
    BY <1>2, <1>10 DEF Tick, vars, fileVars
<1> QED BY <1>2, <1>4, <1>5, <1>6, <1>7, <1>8, <1>9, <1>10 DEF Next

----------------------------------------------------------------------------
(* The invariant. *)
LEMMA AgeMoves ==
    ASSUME Typed, [Next]_vars
    PROVE  age' \in 0 .. STALE_MAX
<1>1. age \in 0 .. STALE_MAX /\ STALE_MAX \in Nat \ {0}
    BY Ages DEF Typed
<1>2. CASE age' = age
    BY <1>1, <1>2
<1>3. CASE Tick
    BY <1>1, <1>3 DEF Tick
<1>4. ASSUME NEW r \in Tasks, Step(r)
      PROVE  age' = age \/ age' = 0
    BY <1>4 DEF Step, Enter, Search, Query, Build, Fail, cache
<1>5. ASSUME NEW r \in Readers, Get(r) \/ Turn(r)
      PROVE  age' = age
    BY <1>5 DEF Get, Fresh, Stale, Queue, Refresh, Turn, Create, Note, cache
<1>6. ASSUME NEW a \in Requests, Serve(a) \/ Accepted(a)
      PROVE  age' = age
    BY <1>6 DEF Serve, Accepted, cache
<1>7. CASE EditFile \/ UNCHANGED vars
    BY <1>2, <1>7 DEF EditFile, vars, cache
<1>8. CASE age' = 0
    BY <1>1, <1>8
<1> QED BY <1>2, <1>3, <1>4, <1>5, <1>6, <1>7, <1>8 DEF Next

LEMMA InitHolds == Init => DiscoveryInv
<1> SUFFICES ASSUME Init
             PROVE  DiscoveryInv
    OBVIOUS
<1> USE DEF Init, FileInit
<1>1. ~ Known /\ \A r \in Tasks : task[r] = Idle
    BY DEF Known
<1>2. file.meta \in [Places -> Meta] /\ Flagged(file.meta) = {}
    BY DEF Nothing, Blank, Meta, Flagged
<1>3. Typed
    <2>1. file \in [meta : [Places -> Meta], broken : BOOLEAN]
        BY DEF Nothing, Blank, Meta
    <2>2. tab \in [Requests -> TabRec]
        BY ClosedIs
    <2>3. notion \in Seq(NotionRec) /\ line \in Seq(Tasks)
        BY EmptySeq
    <2>4. task \in [Tasks -> TaskRec]
        BY RestIs
    <2>5. force \in BOOLEAN /\ age \in 0 .. STALE_MAX
        <3>1. STALE_MAX \in Nat \ {0}
            BY Ages
        <3>2. 0 \in 0 .. STALE_MAX
            BY <3>1
        <3> QED BY <3>2
    <2> QED BY <1>1, <2>1, <2>2, <2>3, <2>4, <2>5 DEF Typed
<1>4. DOMAIN line = {} /\ DOMAIN notion = {}
    <2>1. Len(line) = 0 /\ Len(notion) = 0 /\ line \in Seq(Tasks) /\ notion \in Seq(NotionRec)
        BY EmptySeq
    <2> QED BY <2>1, EntryFacts
<1>5. Lined
    BY <1>1, <1>4, RestIs DEF Lined, InLine, Fetching
<1>6. Hits
    BY <1>1, RestIs DEF Hits
<1>7. Homes
    <2>1. task[Behind] = Idle
        BY <1>1 DEF Tasks
    <2> QED BY <1>1, <1>4, <2>1, RestIs DEF Homes
<1>8. Found
    BY <1>1 DEF Found
<1>9. Flags
    <2>1. Cardinality(Flagged(file.meta)) = 0
        BY <1>2, FS_EmptySet
    <2>2. \A a \in Requests : tab[a].pc = "closed"
        BY DEF Closed
    <2> QED BY <2>1, <2>2 DEF Flags
<1> QED BY <1>3, <1>5, <1>6, <1>7, <1>8, <1>9 DEF DiscoveryInv

LEMMA StepKeeps == DiscoveryInv /\ [Next]_vars => DiscoveryInv'
<1> SUFFICES ASSUME DiscoveryInv, [Next]_vars
             PROVE  DiscoveryInv'
    OBVIOUS
<1>1. line' \in Seq(Tasks) /\ Lined'
    BY LineMoves, LineKeeps DEF DiscoveryInv
<1>2. Typed'
    BY <1>1, TasksMove, PictureMoves, ForceMoves, NotionKeeps, FilesKept, AgeMoves
       DEF Typed, DiscoveryInv, FilesTyped, IsPicture
<1> QED BY <1>1, <1>2, HitsKept, HomesKept, FoundKept, FilesKept DEF DiscoveryInv

THEOREM Invariance == Spec => []DiscoveryInv
BY InitHolds, StepKeeps, PTL DEF Spec

\* Every variable keeps its type, a picture shows ITEMS entries of a place at most, and only the
\* task at the head of the line talks to Notion (Discovery.get under its lock).
THEOREM TypeCorrect == Spec => []TypeOK
<1>1. DiscoveryInv => TypeOK
    <2> SUFFICES ASSUME DiscoveryInv
                 PROVE  TypeOK
        OBVIOUS
    <2>1. FileTypeOK
        BY DEF DiscoveryInv, Typed, FileTypeOK, TabRec
    <2>2. \A i \in DOMAIN notion : notion[i] \in [id : Things, under : Places]
        BY ZenonT(60), EntryFacts DEF DiscoveryInv, Typed, NotionRec
    <2>3. PlacesOf(last) \subseteq Places /\ \A p \in PlacesOf(last) : Len(last.items[p]) <= ITEMS
        <3>1. CASE Known
            BY <3>1 DEF DiscoveryInv, Typed, IsPicture
        <3>2. CASE ~ Known
            <4>1. last.items = <<>>
                BY <3>2 DEF Known, None
            <4>2. DOMAIN last.items = {}
                <5>1. <<>> \in Seq(Places) /\ Len(<<>>) = 0
                    BY EmptySeq
                <5> QED BY <4>1, <5>1
            <4> QED BY <4>2 DEF PlacesOf
        <3> QED BY <3>1, <3>2
    <2>4. \A r \in Tasks : task[r].pc \in TaskPcs
        BY DEF DiscoveryInv, Typed, TaskRec
    <2> QED BY <2>1, <2>2, <2>3, <2>4
            DEF TypeOK, DiscoveryInv, Typed, Lined, Fetching, TaskPcs
<1> QED BY <1>1, Invariance, PTL

\* A picture that is served without waiting was read after the latest invalidation, whoever
\* invalidated and in whichever part of a refresh it came (Discovery.invalidate against get).
THEOREM InvalidationIsKept == Spec => []InvalidationHolds
<1>1. DiscoveryInv => InvalidationHolds
    BY DEF DiscoveryInv, Hits, InvalidationHolds
<1> QED BY <1>1, Invariance, PTL

\* What was created and noted is in the picture that is served, unless a refresh that had read
\* Notion before it came after it (note_new_page and note_new_item).
THEOREM WhatWasCreatedIsFound == Spec => []CreatedIsFound
<1>1. DiscoveryInv => CreatedIsFound
    BY DEF DiscoveryInv, Found, CreatedIsFound
<1> QED BY <1>1, Invariance, PTL

\* However many tabs save against each other and against discovery, one place at most is flagged
\* (TargetsFile's _merge_target and its check of the merged page).
THEOREM OneInbox == Spec => []OneInboxFlag
<1>1. DiscoveryInv => OneInboxFlag
    BY DEF DiscoveryInv, Flags, OneInboxFlag
<1> QED BY <1>1, Invariance, PTL
=============================================================================
