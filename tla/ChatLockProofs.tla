--------------------------- MODULE ChatLockProofs ---------------------------
(***************************************************************************)
(* ChatLock for every set of turns, chats and lock identities: its types,  *)
(* mutual exclusion, the hygiene of its tables and no forgotten sleeper.   *)
(*                                                                         *)
(* Mutual exclusion alone is not inductive: that two turns of one chat     *)
(* exclude each other needs them to hold the same object, which needs the  *)
(* table entry to outlive every turn that read it, which needs the counter *)
(* to be exact.  LockInv states all of it.                                 *)
(***************************************************************************)
EXTENDS ChatLock, SequenceLemmas, FiniteSetTheorems, TLAPS

\* A turn in flight holds the object its chat's table entry names.
Bound ==
    \A t \in Turns :
        /\ pc[t] = "idle" => chatOf[t] = NoChat /\ lockOf[t] = NoLock
        /\ pc[t] # "idle" => /\ chatOf[t] \in Chats
                             /\ lockOf[t] \in Locks
                             /\ lockOf[t] = locks[chatOf[t]]

\* An entry is there only for a chat with a turn in flight, and no two chats share an object.
Entries ==
    /\ \A c \in Chats : locks[c] # NoLock => \E t \in Turns : pc[t] # "idle" /\ chatOf[t] = c
    /\ \A c, d \in Chats : locks[c] # NoLock /\ locks[c] = locks[d] => c = d

Counted == \A c \in Chats : waiting[c] = Cardinality(Pending(c))

\* A lock is held by the one turn inside it.
Holders ==
    /\ \A t \in Turns : pc[t] = "inside" => held[lockOf[t]]
    /\ \A t, u \in Turns : pc[t] = "inside" /\ pc[u] = "inside" /\ lockOf[t] = lockOf[u] => t = u
    /\ \A l \in Locks : held[l] => \E t \in Turns : pc[t] = "inside" /\ lockOf[t] = l

\* The waiters of a lock are the turns queued on it, each once.
Waiters ==
    /\ \A t \in Turns : pc[t] = "queued" =>
            \E i \in 1 .. Len(queue[lockOf[t]]) : queue[lockOf[t]][i] = t
    /\ \A l \in Locks : \A i \in 1 .. Len(queue[l]) :
            pc[queue[l][i]] = "queued" /\ lockOf[queue[l][i]] = l
    /\ \A l \in Locks : \A i, j \in 1 .. Len(queue[l]) : queue[l][i] = queue[l][j] => i = j

\* A woken turn is the head of the line of a free lock, and a free lock's head is woken.
Wakings ==
    /\ \A t \in woken :
            /\ pc[t] = "queued"
            /\ ~ held[lockOf[t]]
            /\ queue[lockOf[t]][1] = t
    /\ \A l \in Locks : ~ held[l] /\ queue[l] # <<>> => queue[l][1] \in woken

LockInv == TypeOK /\ Bound /\ Entries /\ Counted /\ Holders /\ Waiters /\ Wakings

----------------------------------------------------------------------------
(* Sequences: what the operators on a line of waiters return. *)

\* Removing one waiter keeps the others in their order.
LEMMA RemoveAtFacts ==
    ASSUME NEW S, NEW s \in Seq(S), NEW i \in 1 .. Len(s)
    PROVE  /\ RemoveAt(s, i) \in Seq(S)
           /\ Len(RemoveAt(s, i)) = Len(s) - 1
           /\ \A j \in 1 .. Len(s) - 1 :
                    RemoveAt(s, i)[j] = IF j < i THEN s[j] ELSE s[j + 1]
<1> DEFINE a == SubSeq(s, 1, i - 1)
           b == SubSeq(s, i + 1, Len(s))
<1>0. Len(s) \in Nat /\ i \in Nat /\ \A j \in 1 .. Len(s) : s[j] \in S
    BY LenProperties, ElementOfSeq
<1>1. /\ a \in Seq(S)
      /\ Len(a) = i - 1
      /\ \A j \in 1 .. i - 1 : a[j] = s[j]
    <2>1. \A j \in 1 .. i - 1 : s[j] \in S
        BY <1>0
    <2>2. /\ a \in Seq(S)
          /\ Len(a) = IF 1 <= i - 1 THEN (i - 1) - 1 + 1 ELSE 0
          /\ \A j \in 1 .. (i - 1) - 1 + 1 : a[j] = s[1 + j - 1]
        BY <1>0, <2>1, SubSeqProperties
    <2> QED BY <1>0, <2>2
<1>2. /\ b \in Seq(S)
      /\ Len(b) = Len(s) - i
      /\ \A j \in 1 .. Len(s) - i : b[j] = s[i + j]
    <2>1. \A j \in i + 1 .. Len(s) : s[j] \in S
        BY <1>0
    <2>2. /\ b \in Seq(S)
          /\ Len(b) = IF i + 1 <= Len(s) THEN Len(s) - (i + 1) + 1 ELSE 0
          /\ \A j \in 1 .. Len(s) - (i + 1) + 1 : b[j] = s[(i + 1) + j - 1]
        BY <1>0, <2>1, SubSeqProperties
    <2> QED BY <1>0, <2>2
<1> HIDE DEF a, b
<1>3. /\ a \o b \in Seq(S)
      /\ Len(a \o b) = Len(a) + Len(b)
      /\ \A j \in 1 .. Len(a) + Len(b) : (a \o b)[j] =
                IF j <= Len(a) THEN a[j] ELSE b[j - Len(a)]
    BY <1>1, <1>2, ConcatProperties
<1>4. RemoveAt(s, i) = a \o b
    BY DEF RemoveAt, a, b
<1>5. ASSUME NEW j \in 1 .. Len(s) - 1
      PROVE  (a \o b)[j] = IF j < i THEN s[j] ELSE s[j + 1]
    <2>1. CASE j < i
        BY <1>0, <1>1, <1>2, <1>3, <2>1
    <2>2. CASE i <= j
        <3>1. (a \o b)[j] = b[j - (i - 1)]
            BY <1>0, <1>1, <1>2, <1>3, <2>2
        <3>2. j - (i - 1) \in 1 .. Len(s) - i
            BY <1>0, <2>2
        <3>3. b[j - (i - 1)] = s[i + (j - (i - 1))]
            BY <1>2, <3>2
        <3>4. i + (j - (i - 1)) = j + 1 /\ ~ (j < i)
            BY <1>0, <2>2
        <3> QED BY <3>1, <3>3, <3>4
    <2>3. j < i \/ i <= j
        BY <1>0
    <2> QED BY <2>1, <2>2, <2>3
<1>6. Len(a \o b) = Len(s) - 1
    BY <1>0, <1>1, <1>2, <1>3
<1> QED BY <1>3, <1>4, <1>5, <1>6, Zenon

----------------------------------------------------------------------------
(* The counter. *)

\* The turns of a chat are finitely many, being some of Turns.
LEMMA PendingFinite ==
    ASSUME NEW c
    PROVE  IsFiniteSet(Pending(c))
BY TurnsAreFinite, FS_Subset DEF Pending

\* A turn that comes is counted once, for its own chat only.
LEMMA CountArrival ==
    ASSUME TypeOK, Counted, NEW t \in Turns, NEW c \in Chats, pc[t] = "idle",
           pc' \in [Turns -> {"idle", "queued", "inside"}], pc'[t] # "idle",
           \A u \in Turns \ {t} : pc'[u] = pc[u],
           chatOf' = [chatOf EXCEPT ![t] = c],
           waiting' = [waiting EXCEPT ![c] = @ + 1]
    PROVE  Counted'
<1> SUFFICES ASSUME NEW d \in Chats
             PROVE  waiting'[d] = Cardinality(Pending(d)')
    BY DEF Counted
<1>1. waiting[d] = Cardinality(Pending(d))
    BY DEF Counted
<1>2. CASE d = c
    <2>1. Pending(d)' = Pending(d) \cup {t} /\ t \notin Pending(d)
        BY <1>2 DEF Pending, TypeOK
    <2>2. Cardinality(Pending(d) \cup {t}) = Cardinality(Pending(d)) + 1
        BY <2>1, PendingFinite, FS_AddElement
    <2>3. waiting'[d] = waiting[d] + 1
        BY <1>2 DEF TypeOK
    <2> QED BY <1>1, <2>1, <2>2, <2>3
<1>3. CASE d # c
    <2>1. Pending(d)' = Pending(d)
        BY <1>3 DEF Pending, TypeOK
    <2>2. waiting'[d] = waiting[d]
        BY <1>3 DEF TypeOK
    <2> QED BY <1>1, <2>1, <2>2
<1> QED BY <1>2, <1>3

\* A turn that goes is forgotten once; and the counter reaches zero exactly with the last one.
LEMMA CountDeparture ==
    ASSUME TypeOK, Bound, Counted, NEW t \in Turns, NEW c \in Chats,
           pc[t] # "idle", chatOf[t] = c,
           pc' = [pc EXCEPT ![t] = "idle"],
           chatOf' = [chatOf EXCEPT ![t] = NoChat],
           waiting' = [waiting EXCEPT ![c] = @ - 1]
    PROVE  /\ Counted'
           /\ waiting' \in [Chats -> Nat]
           /\ waiting[c] = 1 <=> \A u \in Turns \ {t} : u \notin Pending(c)
<1>1. t \in Pending(c)
    BY DEF Pending
<1>2. Pending(c)' = Pending(c) \ {t}
    BY NoChatIsNoChat DEF Pending, TypeOK
<1>3. Cardinality(Pending(c) \ {t}) = Cardinality(Pending(c)) - 1
    BY <1>1, PendingFinite, FS_RemoveElement
<1>4. Cardinality(Pending(c) \ {t}) \in Nat /\ IsFiniteSet(Pending(c) \ {t})
    BY PendingFinite, FS_RemoveElement, FS_CardinalityType
<1>5. waiting[c] = Cardinality(Pending(c)) /\ waiting[c] \in Nat
    BY DEF Counted, TypeOK
<1>6. waiting'[c] = waiting[c] - 1
    BY DEF TypeOK
<1>7. waiting'[c] = Cardinality(Pending(c)')
    BY <1>2, <1>3, <1>5, <1>6
<1>8. ASSUME NEW d \in Chats, d # c
      PROVE  waiting'[d] = Cardinality(Pending(d)')
    <2>1. Pending(d)' = Pending(d)
        BY <1>8, NoChatIsNoChat DEF Pending, TypeOK
    <2>2. waiting'[d] = waiting[d]
        BY <1>8 DEF TypeOK
    <2> QED BY <2>1, <2>2 DEF Counted
<1>9. waiting'[c] \in Nat
    BY <1>2, <1>4, <1>7
<1>10. waiting' \in [Chats -> Nat]
    BY <1>9 DEF TypeOK
<1>11. waiting[c] = 1 <=> Pending(c) \ {t} = {}
    BY <1>3, <1>4, <1>5, FS_EmptySet
<1>12. Pending(c) \ {t} = {} <=> \A u \in Turns \ {t} : u \notin Pending(c)
    BY DEF Pending
<1>13. Counted'
    BY <1>7, <1>8 DEF Counted
<1> QED BY <1>10, <1>11, <1>12, <1>13
(* LockInv is inductive: one lemma per action. *)

LEMMA InitEstablishes == Init => LockInv
<1> SUFFICES ASSUME Init PROVE LockInv
    OBVIOUS
<1>1. TypeOK /\ Bound /\ Entries /\ Holders /\ Waiters /\ Wakings
    BY NoLockIsNoLock DEF Init, TypeOK, Bound, Entries, Holders, Waiters, Wakings
<1>2. \A c : Pending(c) = {}
    BY DEF Init, Pending
<1>3. Counted
    BY <1>2, FS_EmptySet DEF Init, Counted
<1> QED BY <1>1, <1>3 DEF LockInv

\* The waiters of a lock are turns.
LEMMA WaitersAreTurns ==
    ASSUME TypeOK, NEW l \in Locks
    PROVE  /\ queue[l] \in Seq(Turns)
           /\ Len(queue[l]) \in Nat
           /\ DOMAIN queue[l] = 1 .. Len(queue[l])
           /\ \A i \in 1 .. Len(queue[l]) : queue[l][i] \in Turns
BY LenProperties, ElementOfSeq DEF TypeOK

LEMMA ArrivePreserves ==
    ASSUME LockInv, NEW t \in Turns, NEW c \in Chats, Arrive(t, c)
    PROVE  LockInv'
<1> PICK l \in Locks :
        /\ IF locks[c] = NoLock THEN l \notin Referenced ELSE l = locks[c]
        /\ locks' = [locks EXCEPT ![c] = l]
        /\ lockOf' = [lockOf EXCEPT ![t] = l]
        /\ chatOf' = [chatOf EXCEPT ![t] = c]
        /\ waiting' = [waiting EXCEPT ![c] = @ + 1]
        /\ AcquireFast(t, l) \/ AcquireSlow(t, l)
    BY DEF Arrive
<1> USE DEF LockInv
<1>0. pc[t] = "idle"
    BY DEF Arrive
<1>1. TypeOK'
    <2>1. Append(queue[l], t) \in Seq(Turns)
        BY AppendFacts DEF TypeOK
    <2>2. /\ chatOf' \in [Turns -> Chats \cup {NoChat}]
          /\ lockOf' \in [Turns -> Locks \cup {NoLock}]
          /\ locks' \in [Chats -> Locks \cup {NoLock}]
          /\ waiting' \in [Chats -> Nat]
        BY DEF TypeOK
    <2>3. CASE AcquireFast(t, l)
        BY <2>2, <2>3 DEF TypeOK, AcquireFast
    <2>4. CASE AcquireSlow(t, l)
        BY <2>1, <2>2, <2>4 DEF TypeOK, AcquireSlow
    <2> QED BY <2>3, <2>4
<1>2. pc'[t] # "idle" /\ \A u \in Turns \ {t} : pc'[u] = pc[u]
    BY DEF TypeOK, AcquireFast, AcquireSlow
<1>3. \A u \in Turns : lockOf[u] = l => pc[u] # "idle" /\ chatOf[u] = c
    <2> SUFFICES ASSUME NEW u \in Turns, lockOf[u] = l
                 PROVE  pc[u] # "idle" /\ chatOf[u] = c
        OBVIOUS
    <2>1. l \in Referenced /\ l # NoLock
        BY NoLockIsNoLock DEF Referenced
    <2>2. locks[c] = l
        BY <2>1
    <2>3. pc[u] # "idle" /\ chatOf[u] \in Chats /\ locks[chatOf[u]] = l
        BY <2>1 DEF Bound
    <2> QED BY <2>1, <2>2, <2>3 DEF Entries
<1>4. Bound'
    <2> SUFFICES ASSUME NEW u \in Turns
                 PROVE  /\ pc'[u] = "idle" => chatOf'[u] = NoChat /\ lockOf'[u] = NoLock
                        /\ pc'[u] # "idle" => /\ chatOf'[u] \in Chats
                                              /\ lockOf'[u] \in Locks
                                              /\ lockOf'[u] = locks'[chatOf'[u]]
        BY DEF Bound
    <2>1. CASE u = t
        BY <1>2, <2>1 DEF TypeOK
    <2>2. CASE u # t
        <3>1. pc'[u] = pc[u] /\ chatOf'[u] = chatOf[u] /\ lockOf'[u] = lockOf[u]
            BY <1>2, <2>2 DEF TypeOK
        <3>2. ASSUME pc[u] # "idle", chatOf[u] = c
              PROVE  locks[c] = l
            BY <3>2, NoLockIsNoLock DEF Bound
        <3> QED BY <3>1, <3>2 DEF Bound, TypeOK
    <2> QED BY <2>1, <2>2
<1>5. Entries'
    <2>1. ASSUME NEW d \in Chats, d # c PROVE locks'[d] = locks[d]
        BY <2>1 DEF TypeOK
    <2>2. locks'[c] = l
        BY DEF TypeOK
    <2>3. ASSUME NEW d \in Chats, d # c, locks[d] = l PROVE FALSE
        BY <2>3, NoLockIsNoLock DEF Entries, Referenced
    <2>4. ASSUME NEW d \in Chats, locks'[d] # NoLock
          PROVE  \E u \in Turns : pc'[u] # "idle" /\ chatOf'[u] = d
        <3>1. CASE d = c
            BY <1>2, <3>1 DEF TypeOK
        <3>2. CASE d # c
            <4>1. PICK u \in Turns : pc[u] # "idle" /\ chatOf[u] = d
                BY <2>1, <2>4, <3>2 DEF Entries
            <4>2. u # t
                BY <1>0, <4>1
            <4> QED BY <1>2, <4>1, <4>2 DEF TypeOK
        <3> QED BY <3>1, <3>2
    <2>5. ASSUME NEW d \in Chats, NEW e \in Chats, locks'[d] # NoLock, locks'[d] = locks'[e]
          PROVE  d = e
        BY <2>1, <2>2, <2>3, <2>5 DEF Entries
    <2> QED BY <2>4, <2>5 DEF Entries
<1>6. Counted'
    BY <1>0, <1>1, <1>2, CountArrival DEF TypeOK
<1>9. \A k \in Locks : \A i \in 1 .. Len(queue[k]) : queue[k][i] \in Turns \ {t}
    BY <1>0, WaitersAreTurns DEF Waiters
<1>10. \A u \in Turns \ {t} : pc'[u] = pc[u] /\ lockOf'[u] = lockOf[u]
    BY <1>2 DEF TypeOK
<1>11. lockOf'[t] = l
    BY DEF TypeOK
<1>7. CASE AcquireFast(t, l)
    <2>0. pc'[t] = "inside" /\ held'[l] /\ ~ held[l] /\ queue[l] = <<>> /\ queue' = queue
        BY <1>7 DEF AcquireFast, TypeOK
    <2>1. Holders'
        BY <1>0, <1>2, <1>7 DEF Holders, Bound, AcquireFast, TypeOK
    <2>2. Waiters'
        <3>1. \A u \in Turns : pc'[u] = "queued" => u \in Turns \ {t}
            BY <2>0
        <3>2. \A u \in Turns : pc'[u] = "queued" =>
                \E i \in 1 .. Len(queue'[lockOf'[u]]) : queue'[lockOf'[u]][i] = u
            BY <1>10, <2>0, <3>1 DEF Waiters
        <3>3. \A k \in Locks : \A i \in 1 .. Len(queue'[k]) :
                pc'[queue'[k][i]] = "queued" /\ lockOf'[queue'[k][i]] = k
            BY <1>9, <1>10, <2>0 DEF Waiters
        <3>4. \A k \in Locks : \A i, j \in 1 .. Len(queue'[k]) :
                queue'[k][i] = queue'[k][j] => i = j
            BY <2>0 DEF Waiters
        <3> QED BY <3>2, <3>3, <3>4 DEF Waiters
    <2>3. Wakings'
        <3>1. woken' = woken /\ t \notin woken /\ woken \subseteq Turns
            BY <1>0, <1>7 DEF AcquireFast, Wakings, TypeOK
        <3>2. \A k \in Locks \ {l} : held'[k] = held[k]
            BY <1>7 DEF AcquireFast, TypeOK
        <3>3. \A u \in woken : lockOf[u] \in Locks \ {l}
            <4> SUFFICES ASSUME NEW u \in woken PROVE lockOf[u] \in Locks \ {l}
                OBVIOUS
            <4>1. u \in Turns /\ pc[u] = "queued" /\ lockOf[u] \in Locks
                BY <3>1 DEF Wakings, Bound
            <4>2. Len(queue[l]) = 0
                BY <2>0
            <4> QED BY <4>1, <4>2 DEF Waiters
        <3> QED BY <1>10, <2>0, <3>1, <3>2, <3>3 DEF Wakings
    <2> QED BY <1>1, <1>4, <1>5, <1>6, <2>1, <2>2, <2>3
<1>8. CASE AcquireSlow(t, l)
    <2> DEFINE q == queue[l]
    <2>1. q \in Seq(Turns) /\ queue'[l] = Append(q, t) /\ Len(q) \in Nat
        BY <1>8 DEF AcquireSlow, TypeOK
    <2>2. /\ Len(queue'[l]) = Len(q) + 1
          /\ queue'[l] # <<>>
          /\ \A j \in 1 .. Len(q) + 1 : queue'[l][j] = IF j = Len(q) + 1 THEN t ELSE q[j]
        BY <2>1, AppendFacts
    <2>3. \A k \in Locks \ {l} : queue'[k] = queue[k]
        BY <1>8 DEF AcquireSlow, TypeOK
    <2>4. Holders'
        BY <1>0, <1>2, <1>8 DEF Holders, Bound, AcquireSlow, TypeOK
    <2>7. pc'[t] = "queued" /\ held' = held /\ woken' = woken
        BY <1>8 DEF AcquireSlow, TypeOK
    <2>8. \A j \in 1 .. Len(q) + 1 : j = Len(q) + 1 \/ (j \in 1 .. Len(q) /\ j # Len(q) + 1)
        BY <2>1
    <2>9. /\ queue'[l][Len(q) + 1] = t
          /\ \A j \in 1 .. Len(q) : queue'[l][j] = q[j] /\ j \in 1 .. Len(queue'[l])
          /\ Len(q) + 1 \in 1 .. Len(queue'[l])
        BY <2>1, <2>2
    <2>5. Waiters'
        <3>1. ASSUME NEW u \in Turns, pc'[u] = "queued"
              PROVE  \E i \in 1 .. Len(queue'[lockOf'[u]]) : queue'[lockOf'[u]][i] = u
            <4>1. CASE u = t
                BY <1>11, <2>9, <4>1
            <4>2. CASE u # t
                <5>1. PICK i \in 1 .. Len(queue[lockOf[u]]) : queue[lockOf[u]][i] = u
                    BY <1>10, <3>1, <4>2 DEF Waiters
                <5>2. lockOf'[u] = lockOf[u] /\ lockOf[u] \in Locks
                    BY <1>10, <3>1, <4>2 DEF Bound
                <5> QED BY <2>3, <2>9, <5>1, <5>2
            <4> QED BY <4>1, <4>2
        <3>2. ASSUME NEW k \in Locks, NEW i \in 1 .. Len(queue'[k])
              PROVE  pc'[queue'[k][i]] = "queued" /\ lockOf'[queue'[k][i]] = k
            <4>1. CASE k = l
                <5>1. CASE i = Len(q) + 1
                    BY <1>11, <2>7, <2>9, <4>1, <5>1
                <5>2. CASE i \in 1 .. Len(q)
                    BY <1>9, <1>10, <2>9, <4>1, <5>2 DEF Waiters
                <5> QED BY <2>2, <2>8, <4>1, <5>1, <5>2
            <4>2. CASE k # l
                BY <1>9, <1>10, <2>3, <4>2 DEF Waiters
            <4> QED BY <4>1, <4>2
        <3>3. ASSUME NEW k \in Locks, NEW i \in 1 .. Len(queue'[k]),
                     NEW j \in 1 .. Len(queue'[k]), queue'[k][i] = queue'[k][j]
              PROVE  i = j
            <4>1. CASE k = l
                BY <1>9, <2>2, <2>8, <2>9, <3>3, <4>1 DEF Waiters
            <4>2. CASE k # l
                BY <2>3, <3>3, <4>2 DEF Waiters
            <4> QED BY <4>1, <4>2
        <3> QED BY <3>1, <3>2, <3>3 DEF Waiters
    <2>6. Wakings'
        <3>1. ASSUME NEW u \in woken
              PROVE  pc'[u] = "queued" /\ ~ held[lockOf'[u]] /\ queue'[lockOf'[u]][1] = u
            <4>1. u \in Turns \ {t} /\ pc[u] = "queued" /\ ~ held[lockOf[u]]
                    /\ queue[lockOf[u]][1] = u /\ lockOf[u] \in Locks
                BY <1>0 DEF Wakings, TypeOK, Bound
            <4>2. 1 \in 1 .. Len(queue[lockOf[u]])
                BY <4>1, WaitersAreTurns DEF Waiters
            <4> QED BY <1>10, <2>3, <2>9, <4>1, <4>2
        <3>2. ASSUME NEW k \in Locks, ~ held[k], queue'[k] # <<>>
              PROVE  queue'[k][1] \in woken
            <4>1. CASE k = l
                <5>1. q # <<>>
                    BY <1>8, <3>2, <4>1 DEF AcquireSlow
                <5>2. 1 \in 1 .. Len(q)
                    BY <2>1, <5>1, HeadFacts
                <5> QED BY <2>9, <3>2, <4>1, <5>1, <5>2 DEF Wakings
            <4>2. CASE k # l
                BY <2>3, <3>2, <4>2 DEF Wakings
            <4> QED BY <4>1, <4>2
        <3> QED BY <2>7, <3>1, <3>2 DEF Wakings
    <2> QED BY <1>1, <1>4, <1>5, <1>6, <2>4, <2>5, <2>6
<1> QED BY <1>7, <1>8

\* Taking one waiter out of a line leaves the others queued, each once.
LEMMA RemovalKeepsWaiters ==
    ASSUME TypeOK, Waiters, Bound, NEW t \in Turns, NEW l \in Locks, NEW i \in 1 .. Len(queue[l]),
           queue[l][i] = t, pc'[t] # "queued",
           queue' = [queue EXCEPT ![l] = RemoveAt(@, i)],
           \A u \in Turns \ {t} : pc'[u] = pc[u] /\ lockOf'[u] = lockOf[u]
    PROVE  /\ queue' \in [Locks -> Seq(Turns)]
           /\ Waiters'
           /\ Len(queue'[l]) = Len(queue[l]) - 1
           /\ \A j \in 1 .. Len(queue[l]) - 1 :
                    queue'[l][j] = IF j < i THEN queue[l][j] ELSE queue[l][j + 1]
<1> DEFINE q == queue[l]
           n == Len(q)
<1>1. q \in Seq(Turns) /\ n \in Nat /\ i \in 1 .. n /\ \A j \in 1 .. n : q[j] \in Turns
    BY WaitersAreTurns
<1>2. /\ RemoveAt(q, i) \in Seq(Turns)
      /\ Len(RemoveAt(q, i)) = n - 1
      /\ \A j \in 1 .. n - 1 : RemoveAt(q, i)[j] = IF j < i THEN q[j] ELSE q[j + 1]
    BY <1>1, RemoveAtFacts
<1>3. queue' \in [Locks -> Seq(Turns)]
    BY <1>2 DEF TypeOK
<1>4. queue'[l] = RemoveAt(q, i) /\ \A k \in Locks \ {l} : queue'[k] = queue[k]
    BY DEF TypeOK
<1>5. Len(queue'[l]) = n - 1
      /\ \A j \in 1 .. n - 1 : queue'[l][j] = IF j < i THEN q[j] ELSE q[j + 1]
    BY <1>2, <1>4
<1> HIDE DEF q, n
<1>6. \A j \in 1 .. n - 1 : /\ j < i \/ ~ (j < i)
                            /\ j \in 1 .. n /\ j + 1 \in 1 .. n
                            /\ j < i => j # i
                            /\ ~ (j < i) => j + 1 # i
    BY <1>1
<1>7. \A j \in 1 .. n : q[j] = t => j = i
    BY <1>1 DEF Waiters, q, n
<1>8. \A j \in 1 .. n : pc[q[j]] = "queued" /\ lockOf[q[j]] = l
    BY DEF Waiters, q, n
<1>9. \A j, m \in 1 .. n : q[j] = q[m] => j = m
    BY DEF Waiters, q, n
<1>10. \A k \in Locks \ {l} : \A j \in 1 .. Len(queue[k]) : queue[k][j] \in Turns \ {t}
    <2> SUFFICES ASSUME NEW k \in Locks \ {l}, NEW j \in 1 .. Len(queue[k])
                 PROVE  queue[k][j] \in Turns \ {t}
        OBVIOUS
    <2>1. queue[k][j] \in Turns /\ lockOf[queue[k][j]] = k
        BY WaitersAreTurns DEF Waiters
    <2>2. lockOf[t] = l
        BY <1>1, <1>8 DEF q, n
    <2> QED BY <2>1, <2>2
<1>11. ASSUME NEW u \in Turns, pc'[u] = "queued"
       PROVE  \E j \in 1 .. Len(queue'[lockOf'[u]]) : queue'[lockOf'[u]][j] = u
    <2>1. u # t /\ lockOf'[u] = lockOf[u] /\ pc[u] = "queued" /\ lockOf[u] \in Locks
        BY <1>11 DEF Bound
    <2>2. PICK j \in 1 .. Len(queue[lockOf[u]]) : queue[lockOf[u]][j] = u
        BY <2>1 DEF Waiters
    <2>3. CASE lockOf[u] # l
        BY <1>4, <2>1, <2>2, <2>3
    <2>4. CASE lockOf[u] = l
        <3>1. j \in 1 .. n /\ q[j] = u /\ j # i
            BY <2>1, <2>2, <2>4 DEF q, n
        <3>2. CASE j < i
            <4>1. j \in 1 .. n - 1
                BY <1>1, <3>1, <3>2
            <4>2. queue'[l][j] = u
                BY <1>5, <3>1, <3>2, <4>1
            <4> QED BY <1>5, <2>1, <2>4, <4>1, <4>2
        <3>3. CASE ~ (j < i)
            <4>1. j - 1 \in 1 .. n - 1 /\ ~ (j - 1 < i) /\ (j - 1) + 1 = j
                BY <1>1, <3>1, <3>3
            <4>2. queue'[l][j - 1] = u
                BY <1>5, <3>1, <4>1
            <4> QED BY <1>5, <2>1, <2>4, <4>1, <4>2
        <3> QED BY <3>2, <3>3
    <2> QED BY <2>3, <2>4
<1>12. ASSUME NEW k \in Locks, NEW j \in 1 .. Len(queue'[k])
       PROVE  pc'[queue'[k][j]] = "queued" /\ lockOf'[queue'[k][j]] = k
    <2>1. CASE k # l
        BY <1>4, <1>10, <2>1 DEF Waiters
    <2>2. CASE k = l
        <3>1. j \in 1 .. n - 1
            BY <1>5, <2>2
        <3>2. \E m \in 1 .. n : queue'[l][j] = q[m] /\ m # i
            BY <1>5, <1>6, <3>1
        <3>3. PICK m \in 1 .. n : queue'[l][j] = q[m] /\ m # i
            BY <3>2
        <3>4. q[m] \in Turns \ {t} /\ pc[q[m]] = "queued" /\ lockOf[q[m]] = l
            BY <1>1, <1>7, <1>8, <3>3
        <3> QED BY <2>2, <3>3, <3>4
    <2> QED BY <2>1, <2>2
<1>13. ASSUME NEW k \in Locks, NEW j \in 1 .. Len(queue'[k]), NEW m \in 1 .. Len(queue'[k]),
              queue'[k][j] = queue'[k][m]
       PROVE  j = m
    <2>1. CASE k # l
        BY <1>4, <1>13, <2>1 DEF Waiters
    <2>2. CASE k = l
        <3> DEFINE at(x) == IF x < i THEN x ELSE x + 1
        <3>1. j \in 1 .. n - 1 /\ m \in 1 .. n - 1
            BY <1>5, <2>2
        <3>2. at(j) \in 1 .. n /\ at(m) \in 1 .. n
            BY <1>1, <3>1
        <3>3. queue'[l][j] = q[at(j)] /\ queue'[l][m] = q[at(m)]
            BY <1>5, <3>1
        <3>4. at(j) = at(m)
            BY <1>9, <1>13, <2>2, <3>2, <3>3
        <3> QED BY <1>1, <3>1, <3>4
    <2> QED BY <2>1, <2>2
<1>14. Waiters'
    BY <1>11, <1>12, <1>13 DEF Waiters
<1> QED BY <1>3, <1>5, <1>14 DEF q, n

\* A turn that goes leaves the tables right for those that stay.
LEMMA DepartureKeepsTables ==
    ASSUME LockInv, NEW t \in Turns, NEW c \in Chats, pc[t] # "idle", chatOf[t] = c,
           pc' = [pc EXCEPT ![t] = "idle"],
           chatOf' = [chatOf EXCEPT ![t] = NoChat],
           lockOf' = [lockOf EXCEPT ![t] = NoLock],
           Forget(c)
    PROVE  /\ Bound' /\ Entries' /\ Counted'
           /\ pc' \in [Turns -> {"idle", "queued", "inside"}]
           /\ chatOf' \in [Turns -> Chats \cup {NoChat}]
           /\ lockOf' \in [Turns -> Locks \cup {NoLock}]
           /\ locks' \in [Chats -> Locks \cup {NoLock}]
           /\ waiting' \in [Chats -> Nat]
<1> USE DEF LockInv
<1>1. /\ Counted'
      /\ waiting' \in [Chats -> Nat]
      /\ waiting[c] = 1 <=> \A u \in Turns \ {t} : u \notin Pending(c)
    BY CountDeparture DEF Forget
<1>2. \A d \in Chats \ {c} : locks'[d] = locks[d]
    BY DEF Forget, TypeOK
<1>3. locks'[c] = IF waiting[c] = 1 THEN NoLock ELSE locks[c]
    BY DEF Forget, TypeOK
<1>4. /\ pc' \in [Turns -> {"idle", "queued", "inside"}]
      /\ chatOf' \in [Turns -> Chats \cup {NoChat}]
      /\ lockOf' \in [Turns -> Locks \cup {NoLock}]
      /\ locks' \in [Chats -> Locks \cup {NoLock}]
    BY DEF Forget, TypeOK
<1>5. \A u \in Turns \ {t} : pc'[u] = pc[u] /\ chatOf'[u] = chatOf[u] /\ lockOf'[u] = lockOf[u]
    BY DEF TypeOK
<1>6. pc'[t] = "idle" /\ chatOf'[t] = NoChat /\ lockOf'[t] = NoLock
    BY DEF TypeOK
<1>7. \A u \in Turns \ {t} : pc[u] # "idle" => locks'[chatOf[u]] = locks[chatOf[u]]
    BY <1>1, <1>2, <1>3 DEF Pending, Bound
<1>8. Bound'
    BY <1>5, <1>6, <1>7 DEF Bound
<1>9. ASSUME NEW d \in Chats, locks'[d] # NoLock
      PROVE  \E u \in Turns : pc'[u] # "idle" /\ chatOf'[u] = d
    <2>1. CASE d = c
        BY <1>1, <1>3, <1>5, <1>9, <2>1 DEF Pending
    <2>2. CASE d # c
        <3>1. PICK u \in Turns : pc[u] # "idle" /\ chatOf[u] = d
            BY <1>2, <1>9, <2>2 DEF Entries
        <3> QED BY <1>5, <2>2, <3>1
    <2> QED BY <2>1, <2>2
<1>10. ASSUME NEW d \in Chats, NEW e \in Chats, locks'[d] # NoLock, locks'[d] = locks'[e]
       PROVE  d = e
    BY <1>2, <1>3, <1>10 DEF Entries
<1>11. Entries'
    BY <1>9, <1>10 DEF Entries
<1> QED BY <1>1, <1>4, <1>8, <1>11

LEMMA ResumePreserves ==
    ASSUME LockInv, NEW t \in Turns, Resume(t)
    PROVE  LockInv'
<1> USE DEF LockInv
<1>1. PICK l \in Locks : lockOf[t] = l
    BY DEF Resume, Bound
<1>2. PICK i \in 1 .. Len(queue[l]) :
        /\ queue[l][i] = t
        /\ queue' = [queue EXCEPT ![l] = RemoveAt(@, i)]
        /\ held' = [held EXCEPT ![l] = TRUE]
    <2>1. DOMAIN queue[l] = 1 .. Len(queue[l])
        BY WaitersAreTurns
    <2> QED BY <1>1, <2>1, Zenon DEF Resume
<1>3. /\ pc[t] = "queued" /\ t \in woken /\ woken' = woken \ {t}
      /\ pc' = [pc EXCEPT ![t] = "inside"]
      /\ UNCHANGED <<chatOf, lockOf, locks, waiting>>
    BY DEF Resume
<1>4. pc'[t] = "inside" /\ \A u \in Turns \ {t} : pc'[u] = pc[u] /\ lockOf'[u] = lockOf[u]
    BY <1>3 DEF TypeOK
<1>5. /\ queue' \in [Locks -> Seq(Turns)]
      /\ Waiters'
      /\ Len(queue'[l]) = Len(queue[l]) - 1
      /\ \A j \in 1 .. Len(queue[l]) - 1 :
                queue'[l][j] = IF j < i THEN queue[l][j] ELSE queue[l][j + 1]
    BY <1>2, <1>4, RemovalKeepsWaiters
<1>6. TypeOK'
    BY <1>2, <1>3, <1>5 DEF TypeOK
<1>7. Bound'
    BY <1>3, <1>4 DEF Bound
<1>8. Entries'
    BY <1>3, <1>4 DEF Entries
<1>9. Counted'
    <2>1. \A c : Pending(c)' = Pending(c)
        BY <1>3, <1>4 DEF Pending
    <2> QED BY <1>3, <2>1 DEF Counted
<1>10. ~ held[l] /\ queue[l][1] = t
    BY <1>1, <1>3 DEF Wakings
<1>11. held'[l] /\ \A k \in Locks \ {l} : held'[k] = held[k] /\ queue'[k] = queue[k]
    BY <1>2 DEF TypeOK
<1>12. Holders'
    <2>1. \A u \in Turns \ {t} : pc[u] = "inside" => lockOf[u] \in Locks \ {l}
        BY <1>10 DEF Holders, Bound
    <2>2. \A u \in Turns : pc'[u] = "inside" => held'[lockOf'[u]]
        BY <1>1, <1>3, <1>4, <1>11, <2>1 DEF Holders
    <2>3. \A u, v \in Turns :
            pc'[u] = "inside" /\ pc'[v] = "inside" /\ lockOf'[u] = lockOf'[v] => u = v
        BY <1>1, <1>3, <1>4, <2>1 DEF Holders
    <2>4. ASSUME NEW k \in Locks, held'[k]
          PROVE  \E u \in Turns : pc'[u] = "inside" /\ lockOf'[u] = k
        <3>1. CASE k = l
            BY <1>1, <1>3, <1>4, <3>1
        <3>2. CASE k # l
            <4>1. PICK u \in Turns : pc[u] = "inside" /\ lockOf[u] = k
                BY <1>11, <2>4, <3>2 DEF Holders
            <4>2. u # t
                BY <1>3, <4>1
            <4> QED BY <1>4, <4>1, <4>2
        <3> QED BY <3>1, <3>2
    <2> QED BY <2>2, <2>3, <2>4 DEF Holders
<1>13. Wakings'
    <2>1. ASSUME NEW u \in woken \ {t}
          PROVE  pc'[u] = "queued" /\ ~ held'[lockOf'[u]] /\ queue'[lockOf'[u]][1] = u
        <3>1. /\ u \in Turns \ {t} /\ pc[u] = "queued" /\ ~ held[lockOf[u]]
              /\ queue[lockOf[u]][1] = u /\ lockOf[u] \in Locks
            BY DEF Wakings, TypeOK, Bound
        <3>2. lockOf[u] # l
            BY <1>10, <3>1
        <3> QED BY <1>4, <1>11, <3>1, <3>2
    <2>2. ASSUME NEW k \in Locks, ~ held'[k], queue'[k] # <<>>
          PROVE  queue'[k][1] \in woken \ {t}
        <3>1. k # l
            BY <1>11, <2>2
        <3>2. queue[k][1] \in woken
            BY <1>11, <2>2, <3>1 DEF Wakings
        <3>3. lockOf[queue[k][1]] = k
            BY <1>11, <2>2, <3>1, HeadFacts, WaitersAreTurns DEF Waiters
        <3> QED BY <1>1, <1>11, <3>1, <3>2, <3>3
    <2> QED BY <1>3, <2>1, <2>2 DEF Wakings
<1> QED BY <1>5, <1>6, <1>7, <1>8, <1>9, <1>12, <1>13

LEMMA LeaveTurnPreserves ==
    ASSUME LockInv, NEW t \in Turns, LeaveTurn(t)
    PROVE  LockInv'
<1> USE DEF LockInv
<1>1. PICK l \in Locks : lockOf[t] = l
    BY DEF LeaveTurn, Bound
<1>2. PICK c \in Chats : chatOf[t] = c
    BY DEF LeaveTurn, Bound
<1>3. /\ pc[t] = "inside"
      /\ held' = [held EXCEPT ![l] = FALSE]
      /\ woken' = woken \cup WakeFirst(queue[l])
      /\ Forget(c)
      /\ pc' = [pc EXCEPT ![t] = "idle"]
      /\ chatOf' = [chatOf EXCEPT ![t] = NoChat]
      /\ lockOf' = [lockOf EXCEPT ![t] = NoLock]
      /\ queue' = queue
    BY <1>1, <1>2 DEF LeaveTurn
<1>4. /\ Bound' /\ Entries' /\ Counted'
      /\ pc' \in [Turns -> {"idle", "queued", "inside"}]
      /\ chatOf' \in [Turns -> Chats \cup {NoChat}]
      /\ lockOf' \in [Turns -> Locks \cup {NoLock}]
      /\ locks' \in [Chats -> Locks \cup {NoLock}]
      /\ waiting' \in [Chats -> Nat]
    BY <1>2, <1>3, DepartureKeepsTables
<1>5. pc'[t] = "idle" /\ \A u \in Turns \ {t} : pc'[u] = pc[u] /\ lockOf'[u] = lockOf[u]
    BY <1>3 DEF TypeOK
<1>6. queue[l] \in Seq(Turns) /\ queue[l] # <<>> =>
            Head(queue[l]) = queue[l][1] /\ 1 \in 1 .. Len(queue[l]) /\ queue[l][1] \in Turns
    BY WaitersAreTurns, HeadFacts
<1>7. WakeFirst(queue[l]) \subseteq Turns
    BY <1>6, WaitersAreTurns DEF WakeFirst
<1>8. TypeOK'
    BY <1>3, <1>4, <1>7 DEF TypeOK
<1>9. \A k \in Locks : \A i \in 1 .. Len(queue[k]) : queue[k][i] \in Turns \ {t}
    BY <1>3, WaitersAreTurns DEF Waiters
<1>10. Waiters'
    <2>1. \A u \in Turns : pc'[u] = "queued" =>
            \E i \in 1 .. Len(queue'[lockOf'[u]]) : queue'[lockOf'[u]][i] = u
        BY <1>3, <1>5 DEF Waiters
    <2>2. \A k \in Locks : \A i \in 1 .. Len(queue'[k]) :
            pc'[queue'[k][i]] = "queued" /\ lockOf'[queue'[k][i]] = k
        BY <1>3, <1>5, <1>9 DEF Waiters
    <2>3. \A k \in Locks : \A i, j \in 1 .. Len(queue'[k]) : queue'[k][i] = queue'[k][j] => i = j
        BY <1>3 DEF Waiters
    <2> QED BY <2>1, <2>2, <2>3 DEF Waiters
<1>11. ~ held'[l] /\ \A k \in Locks \ {l} : held'[k] = held[k]
    BY <1>3 DEF TypeOK
<1>12. Holders'
    <2>1. \A u \in Turns \ {t} : pc[u] = "inside" => lockOf[u] \in Locks \ {l}
        BY <1>1, <1>3 DEF Holders, Bound
    <2>2. \A u \in Turns : pc'[u] = "inside" => held'[lockOf'[u]]
        BY <1>5, <1>11, <2>1 DEF Holders
    <2>3. \A u, v \in Turns :
            pc'[u] = "inside" /\ pc'[v] = "inside" /\ lockOf'[u] = lockOf'[v] => u = v
        BY <1>5 DEF Holders
    <2>4. ASSUME NEW k \in Locks, held'[k]
          PROVE  \E u \in Turns : pc'[u] = "inside" /\ lockOf'[u] = k
        <3>1. k # l /\ held[k]
            BY <1>11, <2>4
        <3>2. PICK u \in Turns : pc[u] = "inside" /\ lockOf[u] = k
            BY <3>1 DEF Holders
        <3>3. u # t
            BY <1>1, <3>1, <3>2
        <3> QED BY <1>5, <3>2, <3>3
    <2> QED BY <2>2, <2>3, <2>4 DEF Holders
<1>13. Wakings'
    <2>1. ASSUME NEW u \in woken
          PROVE  pc'[u] = "queued" /\ ~ held'[lockOf'[u]] /\ queue'[lockOf'[u]][1] = u
        <3>1. /\ u \in Turns \ {t} /\ pc[u] = "queued" /\ ~ held[lockOf[u]]
              /\ queue[lockOf[u]][1] = u /\ lockOf[u] \in Locks
            BY <1>3 DEF Wakings, TypeOK, Bound
        <3> QED BY <1>3, <1>5, <1>11, <3>1
    <2>2. ASSUME NEW u \in WakeFirst(queue[l])
          PROVE  pc'[u] = "queued" /\ ~ held'[lockOf'[u]] /\ queue'[lockOf'[u]][1] = u
        <3>1. queue[l] # <<>> /\ u = queue[l][1] /\ 1 \in 1 .. Len(queue[l])
            BY <1>6, WaitersAreTurns DEF WakeFirst
        <3>2. u \in Turns \ {t} /\ pc[u] = "queued" /\ lockOf[u] = l
            BY <1>9, <3>1 DEF Waiters
        <3> QED BY <1>3, <1>5, <1>11, <3>1, <3>2
    <2>3. ASSUME NEW k \in Locks, ~ held'[k], queue'[k] # <<>>
          PROVE  queue'[k][1] \in woken'
        <3>1. CASE k = l
            BY <1>3, <1>6, <2>3, <3>1, WaitersAreTurns DEF WakeFirst
        <3>2. CASE k # l
            BY <1>3, <1>11, <2>3, <3>2 DEF Wakings
        <3> QED BY <3>1, <3>2
    <2> QED BY <1>3, <2>1, <2>2, <2>3 DEF Wakings
<1> QED BY <1>4, <1>8, <1>10, <1>12, <1>13

LEMMA CancelPreserves ==
    ASSUME LockInv, NEW t \in Turns, Cancel(t)
    PROVE  LockInv'
<1> USE DEF LockInv
<1>1. PICK l \in Locks : lockOf[t] = l
    BY DEF Cancel, Bound
<1>2. PICK c \in Chats : chatOf[t] = c
    BY DEF Cancel, Bound
<1> DEFINE rest(i) == RemoveAt(queue[l], i)
<1>3. PICK i \in 1 .. Len(queue[l]) :
        /\ queue[l][i] = t
        /\ queue' = [queue EXCEPT ![l] = RemoveAt(@, i)]
        /\ woken' = (woken \ {t}) \cup (IF held[l] THEN {} ELSE WakeFirst(rest(i)))
    <2>1. DOMAIN queue[l] = 1 .. Len(queue[l])
        BY WaitersAreTurns
    <2> QED BY <1>1, <2>1, Zenon DEF Cancel, rest
<1>4. /\ pc[t] = "queued"
      /\ Forget(c)
      /\ pc' = [pc EXCEPT ![t] = "idle"]
      /\ chatOf' = [chatOf EXCEPT ![t] = NoChat]
      /\ lockOf' = [lockOf EXCEPT ![t] = NoLock]
      /\ held' = held
    BY <1>2 DEF Cancel
<1>5. /\ Bound' /\ Entries' /\ Counted'
      /\ pc' \in [Turns -> {"idle", "queued", "inside"}]
      /\ chatOf' \in [Turns -> Chats \cup {NoChat}]
      /\ lockOf' \in [Turns -> Locks \cup {NoLock}]
      /\ locks' \in [Chats -> Locks \cup {NoLock}]
      /\ waiting' \in [Chats -> Nat]
    BY <1>2, <1>4, DepartureKeepsTables
<1>6. pc'[t] = "idle" /\ \A u \in Turns \ {t} : pc'[u] = pc[u] /\ lockOf'[u] = lockOf[u]
    BY <1>4 DEF TypeOK
<1>7. /\ queue' \in [Locks -> Seq(Turns)]
      /\ Waiters'
      /\ Len(queue'[l]) = Len(queue[l]) - 1
      /\ \A j \in 1 .. Len(queue[l]) - 1 :
                queue'[l][j] = IF j < i THEN queue[l][j] ELSE queue[l][j + 1]
    BY <1>3, <1>6, RemovalKeepsWaiters
<1>8. queue'[l] = rest(i) /\ \A k \in Locks \ {l} : queue'[k] = queue[k]
    BY <1>3 DEF TypeOK
<1> HIDE DEF rest
<1>9. queue'[l] # <<>> =>
            /\ Head(queue'[l]) = queue'[l][1] /\ 1 \in 1 .. Len(queue'[l])
            /\ queue'[l][1] \in Turns
    <2>1. queue'[l] \in Seq(Turns)
        BY <1>7
    <2> QED BY <2>1, HeadFacts, ElementOfSeq
<1>10. TypeOK'
    <2>1. WakeFirst(queue'[l]) \subseteq Turns
        BY <1>9 DEF WakeFirst
    <2> QED BY <1>3, <1>4, <1>5, <1>7, <1>8, <2>1 DEF TypeOK
<1>11. Holders'
    <2>1. \A u \in Turns : pc'[u] = "inside" <=> pc[u] = "inside"
        BY <1>4, <1>6
    <2>2. \A u \in Turns : pc[u] = "inside" => lockOf'[u] = lockOf[u]
        BY <1>4, <1>6
    <2> QED BY <1>4, <2>1, <2>2 DEF Holders
<1>12. Wakings'
    <2>1. ASSUME NEW u \in woken \ {t}
          PROVE  pc'[u] = "queued" /\ ~ held'[lockOf'[u]] /\ queue'[lockOf'[u]][1] = u
        <3>1. /\ u \in Turns \ {t} /\ pc[u] = "queued" /\ ~ held[lockOf[u]]
              /\ queue[lockOf[u]][1] = u /\ lockOf[u] \in Locks
            BY DEF Wakings, TypeOK, Bound
        <3>2. CASE lockOf[u] # l
            BY <1>4, <1>6, <1>8, <3>1, <3>2
        <3>3. CASE lockOf[u] = l
            <4>1. Len(queue[l]) \in Nat /\ i # 1
                BY <1>3, <3>1, <3>3, WaitersAreTurns
            <4>2. 1 < i /\ 1 \in 1 .. Len(queue[l]) - 1
                BY <4>1
            <4> QED BY <1>4, <1>6, <1>7, <3>1, <3>3, <4>2
        <3> QED BY <3>2, <3>3
    <2>2. ASSUME NEW u \in WakeFirst(queue'[l]), ~ held[l]
          PROVE  pc'[u] = "queued" /\ ~ held'[lockOf'[u]] /\ queue'[lockOf'[u]][1] = u
        <3>1. u = queue'[l][1] /\ 1 \in 1 .. Len(queue'[l])
            BY <1>9 DEF WakeFirst
        <3>2. pc'[u] = "queued" /\ lockOf'[u] = l
            BY <1>7, <3>1 DEF Waiters
        <3> QED BY <1>4, <2>2, <3>1, <3>2
    <2>3. ASSUME NEW k \in Locks, ~ held'[k], queue'[k] # <<>>
          PROVE  queue'[k][1] \in woken'
        <3>1. CASE k = l
            BY <1>3, <1>4, <1>8, <1>9, <2>3, <3>1 DEF WakeFirst
        <3>2. CASE k # l
            <4>1. queue[k][1] \in woken
                BY <1>4, <1>8, <2>3, <3>2 DEF Wakings
            <4>2. lockOf[queue[k][1]] = k
                BY <1>8, <2>3, <3>2, HeadFacts, WaitersAreTurns DEF Waiters
            <4> QED BY <1>1, <1>3, <1>8, <3>2, <4>1, <4>2
        <3> QED BY <3>1, <3>2
    <2> QED BY <1>3, <1>8, <2>1, <2>2, <2>3 DEF Wakings
<1> QED BY <1>5, <1>7, <1>10, <1>11, <1>12

----------------------------------------------------------------------------
(* The theorems. *)

\* The lock's invariant holds in every reachable state.
THEOREM Invariance == Spec => []LockInv
<1>1. LockInv /\ [Next]_vars => LockInv'
    <2> SUFFICES ASSUME LockInv, [Next]_vars PROVE LockInv'
        OBVIOUS
    <2>1. ASSUME NEW t \in Turns, NEW c \in Chats, Arrive(t, c) PROVE LockInv'
        BY <2>1, ArrivePreserves
    <2>2. ASSUME NEW t \in Turns, Resume(t) PROVE LockInv'
        BY <2>2, ResumePreserves
    <2>3. ASSUME NEW t \in Turns, LeaveTurn(t) PROVE LockInv'
        BY <2>3, LeaveTurnPreserves
    <2>4. ASSUME NEW t \in Turns, Cancel(t) PROVE LockInv'
        BY <2>4, CancelPreserves
    <2>5. CASE UNCHANGED vars
        BY <2>5 DEF vars, LockInv, TypeOK, Bound, Entries, Counted, Pending, Holders, Waiters, Wakings
    <2> QED BY <2>1, <2>2, <2>3, <2>4, <2>5 DEF Next
<1> QED BY <1>1, InitEstablishes, PTL DEF Spec

\* Every variable keeps its type.
THEOREM TypeCorrect == Spec => []TypeOK
<1>1. LockInv => TypeOK
    BY DEF LockInv
<1> QED BY <1>1, Invariance, PTL

\* Two turns of one chat are never inside together, for any number of turns and chats: the
\* objects they hold are the one the table names, and one object has one holder.
THEOREM TurnsExclude == Spec => []MutualExclusion
<1>1. LockInv => MutualExclusion
    BY DEF LockInv, Bound, Holders, MutualExclusion
<1> QED BY <1>1, Invariance, PTL

\* Both tables hold exactly the chats with a turn in flight, so neither grows with the chats
\* the process has ever seen, and no turn waits on an object a newcomer would not be given.
THEOREM TablesExact == Spec => []TablesTrackTurns
<1>1. LockInv => TablesTrackTurns
    <2> SUFFICES ASSUME LockInv, NEW c \in Chats
                 PROVE  /\ waiting[c] = Cardinality(Pending(c))
                        /\ locks[c] # NoLock <=> Pending(c) # {}
                        /\ \A t \in Pending(c) : lockOf[t] = locks[c]
        BY DEF TablesTrackTurns
    <2>1. waiting[c] = Cardinality(Pending(c))
        BY DEF LockInv, Counted
    <2>2. \A t \in Pending(c) : lockOf[t] = locks[c] /\ lockOf[t] \in Locks
        BY DEF LockInv, Bound, Pending
    <2>3. locks[c] # NoLock => Pending(c) # {}
        BY DEF LockInv, Entries, Pending
    <2> QED BY <2>1, <2>2, <2>3, NoLockIsNoLock
<1> QED BY <1>1, Invariance, PTL

\* A held lock has a holder inside it, and a free lock with sleepers has woken the first.
THEOREM NoLostWakeup == Spec => []NobodyForgotten
<1>1. LockInv => NobodyForgotten
    <2> SUFFICES ASSUME LockInv, NEW l \in Locks
                 PROVE  /\ held[l] => \E t \in Turns : pc[t] = "inside" /\ lockOf[t] = l
                        /\ ~ held[l] /\ queue[l] # <<>> => Head(queue[l]) \in woken
        BY DEF NobodyForgotten
    <2>1. queue[l] \in Seq(Turns)
        BY WaitersAreTurns DEF LockInv
    <2>2. queue[l] # <<>> => Head(queue[l]) = queue[l][1]
        BY <2>1, HeadFacts
    <2> QED BY <2>2 DEF LockInv, Holders, Wakings
<1> QED BY <1>1, Invariance, PTL

----------------------------------------------------------------------------
(* ChatLock implements ChatQueue: the turn inside a chat is its owner and  *)
(* the waiters of the table entry's object are its line; arriving is       *)
(* joining, resuming is entering, and a cancelled waiter gives up its      *)
(* place.                                                                  *)

(* The abstract state. *)

\* Owner(c), a CHOOSE, is the one turn inside the chat.
OwnerIsInside ==
    \A c \in Chats :
        /\ Owner(c) \in Turns \cup {Nobody}
        /\ \A t \in Turns : Owner(c) = t <=> pc[t] = "inside" /\ chatOf[t] = c

LEMMA OneOwner == LockInv => OwnerIsInside
<1> SUFFICES ASSUME LockInv, NEW c \in Chats
             PROVE  /\ Owner(c) \in Turns \cup {Nobody}
                    /\ \A t \in Turns : Owner(c) = t <=> pc[t] = "inside" /\ chatOf[t] = c
    BY DEF OwnerIsInside
<1>1. \A t, u \in Inside(c) : t = u
    BY DEF Inside, LockInv, Bound, Holders
<1>2. CASE Inside(c) = {}
    BY <1>2, NobodyIsNoTurn DEF Owner, Inside
<1>3. CASE Inside(c) # {}
    <2>1. Owner(c) = CHOOSE t \in Turns : t \in Inside(c)
        BY <1>3 DEF Owner
    <2>2. \E t \in Turns : t \in Inside(c)
        BY <1>3 DEF Inside
    <2>3. Owner(c) \in Turns /\ Owner(c) \in Inside(c)
        BY <2>1, <2>2
    <2> QED BY <1>1, <2>3 DEF Inside
<1> QED BY <1>2, <1>3

\* A chat keeps its owner when the same turns are inside it.
LEMMA SameOwner ==
    ASSUME OwnerIsInside, OwnerIsInside', NEW d \in Chats,
           \A u \in Turns : pc'[u] = "inside" /\ chatOf'[u] = d
                                <=> pc[u] = "inside" /\ chatOf[u] = d
    PROVE  Owner(d)' = Owner(d)
<1>1. /\ Owner(d) \in Turns \cup {Nobody}
      /\ Owner(d)' \in Turns \cup {Nobody}
      /\ \A u \in Turns : Owner(d)' = u <=> Owner(d) = u
    BY DEF OwnerIsInside
<1> QED BY <1>1

\* The line of a chat is a sequence of turns queued for that chat.
LEMMA LineIsOfChat ==
    ASSUME LockInv, NEW c \in Chats
    PROVE  /\ Line(c) \in Seq(Turns)
           /\ Len(Line(c)) \in Nat
           /\ DOMAIN Line(c) = 1 .. Len(Line(c))
           /\ \A i \in 1 .. Len(Line(c)) :
                /\ Line(c)[i] \in Turns
                /\ pc[Line(c)[i]] = "queued"
                /\ chatOf[Line(c)[i]] = c
<1>1. CASE locks[c] = NoLock
    BY <1>1 DEF Line
<1>2. CASE locks[c] # NoLock
    <2>1. locks[c] \in Locks /\ Line(c) = queue[locks[c]]
        BY <1>2 DEF Line, LockInv, TypeOK
    <2>2. /\ Line(c) \in Seq(Turns)
          /\ Len(Line(c)) \in Nat
          /\ DOMAIN Line(c) = 1 .. Len(Line(c))
          /\ \A i \in 1 .. Len(Line(c)) : Line(c)[i] \in Turns
        BY <2>1, WaitersAreTurns DEF LockInv
    <2>3. ASSUME NEW i \in 1 .. Len(Line(c))
          PROVE  pc[Line(c)[i]] = "queued" /\ chatOf[Line(c)[i]] = c
        <3>1. pc[Line(c)[i]] = "queued" /\ lockOf[Line(c)[i]] = locks[c]
            BY <2>1 DEF LockInv, Waiters
        <3>2. /\ chatOf[Line(c)[i]] \in Chats
              /\ locks[chatOf[Line(c)[i]]] = locks[c]
            BY <2>2, <3>1 DEF LockInv, Bound
        <3> QED BY <1>2, <3>1, <3>2 DEF LockInv, Entries
    <2> QED BY <2>2, <2>3
<1> QED BY <1>1, <1>2

\* Two chats with an entry have two objects.
LEMMA OtherLocks ==
    ASSUME LockInv, NEW c \in Chats, NEW d \in Chats, d # c, locks[c] # NoLock
    PROVE  locks[d] # locks[c]
BY DEF LockInv, Entries

\* The first waiter taken out leaves the tail.
LEMMA FirstRemoved ==
    ASSUME NEW S, NEW s \in Seq(S), s # <<>>
    PROVE  RemoveAt(s, 1) = Tail(s)
<1>1. 1 \in 1 .. Len(s) /\ Len(s) \in Nat
    BY HeadFacts, LenProperties
<1>2. /\ RemoveAt(s, 1) \in Seq(S)
      /\ Len(RemoveAt(s, 1)) = Len(s) - 1
      /\ \A j \in 1 .. Len(s) - 1 : RemoveAt(s, 1)[j] = s[j + 1]
    BY <1>1, RemoveAtFacts
<1>3. /\ Tail(s) \in Seq(S)
      /\ Len(Tail(s)) = Len(s) - 1
      /\ \A j \in 1 .. Len(s) - 1 : Tail(s)[j] = s[j + 1]
    BY <1>1, HeadTailProperties
<1>4. /\ Len(RemoveAt(s, 1)) = Len(Tail(s))
      /\ \A j \in 1 .. Len(RemoveAt(s, 1)) : RemoveAt(s, 1)[j] = Tail(s)[j]
    BY <1>2, <1>3
<1> QED BY <1>2, <1>3, <1>4, SeqEqual

----------------------------------------------------------------------------
(* One lemma per action. *)

LEMMA ArriveJoins ==
    ASSUME LockInv, LockInv', OwnerIsInside, OwnerIsInside',
           NEW t \in Turns, NEW c \in Chats, Arrive(t, c)
    PROVE  Queue!Join(t, c)
<1> PICK l \in Locks :
        /\ IF locks[c] = NoLock THEN l \notin Referenced ELSE l = locks[c]
        /\ locks' = [locks EXCEPT ![c] = l]
        /\ lockOf' = [lockOf EXCEPT ![t] = l]
        /\ chatOf' = [chatOf EXCEPT ![t] = c]
        /\ waiting' = [waiting EXCEPT ![c] = @ + 1]
        /\ AcquireFast(t, l) \/ AcquireSlow(t, l)
    BY DEF Arrive
<1>0. pc[t] = "idle" /\ locks'[c] = l /\ l # NoLock
    BY NoLockIsNoLock DEF Arrive, LockInv, TypeOK
<1>1. ~ Queue!Present(t)
    <2> SUFFICES ASSUME NEW d \in Chats
                 PROVE  Owner(d) # t /\ t \notin {Line(d)[i] : i \in DOMAIN Line(d)}
        BY DEF Queue!Present, Queue!InLine
    <2>1. Owner(d) # t
        BY <1>0 DEF OwnerIsInside
    <2>2. t \notin {Line(d)[i] : i \in DOMAIN Line(d)}
        BY <1>0, LineIsOfChat
    <2> QED BY <2>1, <2>2
<1>2. ASSUME NEW d \in Chats, d # c
      PROVE  Owner(d)' = Owner(d) /\ Line(d)' = Line(d)
    <2>1. \A u \in Turns : pc'[u] = "inside" /\ chatOf'[u] = d
                                <=> pc[u] = "inside" /\ chatOf[u] = d
        BY <1>0, <1>2 DEF LockInv, TypeOK, AcquireFast, AcquireSlow
    <2>2. locks'[d] = locks[d] /\ locks[d] # l
        <3>1. CASE locks[c] = NoLock
            BY <1>2, <3>1 DEF Referenced, LockInv, TypeOK
        <3>2. CASE locks[c] # NoLock
            BY <1>2, <3>2, OtherLocks DEF LockInv, TypeOK
        <3> QED BY <3>1, <3>2
    <2>3. \A k \in Locks \ {l} : queue'[k] = queue[k]
        BY DEF LockInv, TypeOK, AcquireFast, AcquireSlow
    <2>4. Line(d)' = Line(d)
        BY <2>2, <2>3 DEF Line, LockInv, TypeOK
    <2> QED BY <2>1, <2>4, SameOwner
<1>3. /\ Line(c) = queue[l]
      /\ held[l] => Owner(c) # Nobody
      /\ ~ held[l] => Owner(c) = Nobody
    <2>1. ASSUME NEW u \in Turns, pc[u] # "idle", lockOf[u] = l
          PROVE  locks[c] = l /\ chatOf[u] = c
        <3>1. l \in Referenced
            BY <2>1 DEF Referenced
        <3>2. locks[c] = l /\ chatOf[u] \in Chats /\ locks[chatOf[u]] = l
            BY <2>1, <3>1 DEF LockInv, Bound
        <3> QED BY <1>0, <3>2 DEF LockInv, Entries
    <2>2. locks[c] = NoLock => queue[l] = <<>>
        <3> SUFFICES ASSUME locks[c] = NoLock, queue[l] # <<>> PROVE FALSE
            OBVIOUS
        <3>1. 1 \in 1 .. Len(queue[l]) /\ queue[l][1] \in Turns
            BY WaitersAreTurns, HeadFacts DEF LockInv
        <3>2. pc[queue[l][1]] = "queued" /\ lockOf[queue[l][1]] = l
            BY <3>1 DEF LockInv, Waiters
        <3> QED BY <1>0, <2>1, <3>1, <3>2
    <2>3. held[l] => Owner(c) # Nobody
        <3> SUFFICES ASSUME held[l] PROVE Owner(c) # Nobody
            OBVIOUS
        <3>1. PICK u \in Turns : pc[u] = "inside" /\ lockOf[u] = l
            BY DEF LockInv, Holders
        <3>2. chatOf[u] = c
            BY <2>1, <3>1
        <3> QED BY <3>1, <3>2, NobodyIsNoTurn DEF OwnerIsInside
    <2>4. ~ held[l] => Owner(c) = Nobody
        <3> SUFFICES ASSUME ~ held[l], Owner(c) # Nobody PROVE FALSE
            OBVIOUS
        <3>1. PICK u \in Turns : pc[u] = "inside" /\ chatOf[u] = c
            BY DEF OwnerIsInside
        <3>2. lockOf[u] = locks[c] /\ lockOf[u] \in Locks /\ held[lockOf[u]]
            BY <3>1 DEF LockInv, Bound, Holders
        <3> QED BY <3>2, NoLockIsNoLock
    <2> QED BY <2>2, <2>3, <2>4 DEF Line
<1>4. CASE AcquireFast(t, l)
    <2>1. /\ ~ held[l]
          /\ queue[l] = <<>>
          /\ queue' = queue
          /\ pc'[t] = "inside"
          /\ chatOf'[t] = c
        BY <1>4 DEF AcquireFast, LockInv, TypeOK
    <2>2. Owner(c)' = t
        BY <2>1 DEF OwnerIsInside
    <2>3. Line(c)' = Line(c)
        BY <1>0, <1>3, <2>1 DEF Line
    <2>4. Queue!JoinEmpty(t, c)
        BY <1>2, <1>3, <2>1, <2>2, <2>3 DEF Queue!JoinEmpty
    <2> QED BY <1>1, <2>4 DEF Queue!Join
<1>5. CASE AcquireSlow(t, l)
    <2>1. /\ held[l] \/ queue[l] # <<>>
          /\ queue'[l] = Append(queue[l], t)
          /\ pc'[t] = "queued"
          /\ \A u \in Turns \ {t} : pc'[u] = pc[u] /\ chatOf'[u] = chatOf[u]
        BY <1>5 DEF AcquireSlow, LockInv, TypeOK
    <2>2. Owner(c)' = Owner(c)
        BY <1>0, <2>1, SameOwner
    <2>3. Line(c)' = Append(Line(c), t)
        BY <1>0, <1>3, <2>1 DEF Line
    <2>4. Queue!JoinLine(t, c)
        BY <1>2, <1>3, <2>1, <2>2, <2>3 DEF Queue!JoinLine
    <2> QED BY <1>1, <2>4 DEF Queue!Join
<1> QED BY <1>4, <1>5

\* A woken turn is the head of the line, and nobody is inside.
LEMMA ResumeEnters ==
    ASSUME LockInv, LockInv', OwnerIsInside, OwnerIsInside',
           NEW t \in Turns, NEW c \in Chats, chatOf[t] = c, Resume(t)
    PROVE  Queue!Enter(t, c)
<1> PICK l \in Locks : l = lockOf[t]
    BY DEF Resume, LockInv, Bound
<1> DEFINE q == queue[l]
<1>1. /\ pc[t] = "queued"
      /\ t \in woken
      /\ l = locks[c]
    BY DEF Resume, LockInv, Bound
<1>2. q \in Seq(Turns) /\ DOMAIN q = 1 .. Len(q) /\ Len(q) \in Nat
    BY <1>1, WaitersAreTurns DEF LockInv
<1>3. ~ held[l] /\ q[1] = t
    BY <1>1 DEF LockInv, Wakings
<1>4. PICK i \in DOMAIN q : /\ q[i] = t
                            /\ queue' = [queue EXCEPT ![l] = RemoveAt(@, i)]
    BY DEF Resume
<1>5. q # <<>> /\ 1 \in 1 .. Len(q) /\ Head(q) = t
    BY <1>2, <1>3, <1>4, HeadFacts
<1>6. i = 1
    BY <1>1, <1>2, <1>3, <1>4, <1>5 DEF LockInv, Waiters
<1>7. queue'[l] = Tail(q) /\ \A k \in Locks \ {l} : queue'[k] = queue[k]
    BY <1>1, <1>2, <1>4, <1>5, <1>6, FirstRemoved DEF LockInv, TypeOK
<1>8. locks' = locks /\ chatOf' = chatOf /\ pc' = [pc EXCEPT ![t] = "inside"]
    BY DEF Resume
<1>9. Line(c) = q /\ Line(c)' = Tail(q)
    BY <1>1, <1>7, <1>8, NoLockIsNoLock DEF Line
<1>10. Owner(c) = Nobody
    <2> SUFFICES ASSUME Owner(c) # Nobody PROVE FALSE
        OBVIOUS
    <2>1. PICK u \in Turns : pc[u] = "inside" /\ chatOf[u] = c
        BY <1>1 DEF OwnerIsInside
    <2>2. held[lockOf[u]] /\ lockOf[u] = l
        BY <1>1, <2>1 DEF LockInv, Bound, Holders
    <2> QED BY <1>3, <2>2
<1>11. Owner(c)' = t
    BY <1>1, <1>8 DEF OwnerIsInside, LockInv, TypeOK
<1>12. ASSUME NEW d \in Chats, d # c
       PROVE  Owner(d)' = Owner(d) /\ Line(d)' = Line(d)
    <2>1. Owner(d)' = Owner(d)
        BY <1>8, <1>12, SameOwner DEF LockInv, TypeOK
    <2>2. locks[d] # l
        BY <1>1, <1>12, OtherLocks, NoLockIsNoLock
    <2> QED BY <1>7, <1>8, <2>1, <2>2 DEF Line, LockInv, TypeOK
<1> QED
    BY <1>1, <1>5, <1>9, <1>10, <1>11, <1>12 DEF Queue!Enter

\* When the last turn of a chat goes, its entry goes and its line is empty; otherwise both stay.
LEMMA DepartureKeepsLine ==
    ASSUME LockInv, NEW t \in Turns, NEW c \in Chats, pc[t] # "idle", chatOf[t] = c,
           Forget(c), pc' = [pc EXCEPT ![t] = "idle"], chatOf' = [chatOf EXCEPT ![t] = NoChat]
    PROVE  /\ \A d \in Chats \ {c} : locks'[d] = locks[d]
           /\ \/ locks'[c] = locks[c]
              \/ /\ locks'[c] = NoLock
                 /\ \A i \in 1 .. Len(Line(c)) : Line(c)[i] = t
<1>1. waiting[c] = 1 => \A u \in Turns \ {t} : u \notin Pending(c)
    BY CountDeparture DEF LockInv, Forget
<1>2. ASSUME waiting[c] = 1, NEW i \in 1 .. Len(Line(c))
      PROVE  Line(c)[i] = t
    BY <1>1, <1>2, LineIsOfChat DEF Pending
<1>3. CASE waiting[c] = 1
    BY <1>2, <1>3 DEF Forget, LockInv, TypeOK
<1>4. CASE waiting[c] # 1
    BY <1>4 DEF Forget
<1> QED BY <1>3, <1>4

\* A turn that ends leaves its chat to nobody and the line as it is.
LEMMA LeaveTurnLeaves ==
    ASSUME LockInv, LockInv', OwnerIsInside, OwnerIsInside',
           NEW t \in Turns, NEW c \in Chats, chatOf[t] = c, LeaveTurn(t)
    PROVE  Queue!Leave(t, c)
<1>1. /\ pc[t] = "inside"
      /\ Forget(c)
      /\ pc' = [pc EXCEPT ![t] = "idle"]
      /\ chatOf' = [chatOf EXCEPT ![t] = NoChat]
      /\ queue' = queue
    BY DEF LeaveTurn, LockInv, Bound
<1>2. Owner(c) = t
    BY <1>1 DEF OwnerIsInside
<1>3. Owner(c)' = Nobody
    <2>1. \A u \in Turns : ~ (pc'[u] = "inside" /\ chatOf'[u] = c)
        BY <1>1, <1>2, NoChatIsNoChat DEF OwnerIsInside, LockInv, TypeOK
    <2> QED BY <1>1, <2>1 DEF OwnerIsInside
<1>4. /\ \A d \in Chats \ {c} : locks'[d] = locks[d]
      /\ \/ locks'[c] = locks[c]
         \/ /\ locks'[c] = NoLock
            /\ \A i \in 1 .. Len(Line(c)) : Line(c)[i] = t
    BY <1>1, DepartureKeepsLine
<1>5. Line(c)' = Line(c)
    <2>1. CASE locks'[c] = locks[c]
        BY <1>1, <2>1 DEF Line
    <2>2. CASE locks'[c] = NoLock /\ \A i \in 1 .. Len(Line(c)) : Line(c)[i] = t
        <3>1. Line(c) \in Seq(Turns) /\ \A i \in 1 .. Len(Line(c)) : FALSE
            BY <1>1, <2>2, LineIsOfChat
        <3>2. Line(c) = <<>>
            BY <3>1, HeadFacts
        <3> QED BY <2>2, <3>2 DEF Line
    <2> QED BY <1>4, <2>1, <2>2
<1>6. ASSUME NEW d \in Chats, d # c
      PROVE  Owner(d)' = Owner(d) /\ Line(d)' = Line(d)
    <2>1. Owner(d)' = Owner(d)
        BY <1>1, <1>6, NoChatIsNoChat, SameOwner DEF LockInv, TypeOK
    <2> QED BY <1>1, <1>4, <1>6, <2>1 DEF Line
<1> QED
    BY <1>1, <1>2, <1>3, <1>5, <1>6 DEF Queue!Leave

\* A cancelled waiter is taken out of the line, and the owner stays.
LEMMA CancelGivesUp ==
    ASSUME LockInv, LockInv', OwnerIsInside, OwnerIsInside',
           NEW t \in Turns, NEW c \in Chats, chatOf[t] = c, Cancel(t)
    PROVE  Queue!GiveUp(t, c)
<1> PICK l \in Locks : l = lockOf[t]
    BY DEF Cancel, LockInv, Bound
<1> DEFINE q == queue[l]
<1>1. /\ pc[t] = "queued"
      /\ l = locks[c]
      /\ Forget(c)
      /\ pc' = [pc EXCEPT ![t] = "idle"]
      /\ chatOf' = [chatOf EXCEPT ![t] = NoChat]
    BY DEF Cancel, LockInv, Bound
<1>2. PICK i \in DOMAIN q : /\ q[i] = t
                            /\ queue' = [queue EXCEPT ![l] = RemoveAt(@, i)]
    BY DEF Cancel
<1>3. Line(c) = q
    BY <1>1, NoLockIsNoLock DEF Line
<1>4. q \in Seq(Turns) /\ DOMAIN q = 1 .. Len(q) /\ Len(q) \in Nat
    BY <1>1, WaitersAreTurns DEF LockInv
<1>5. queue'[l] = RemoveAt(q, i) /\ \A k \in Locks \ {l} : queue'[k] = queue[k]
    BY <1>1, <1>2 DEF LockInv, TypeOK
<1>6. /\ \A d \in Chats \ {c} : locks'[d] = locks[d]
      /\ \/ locks'[c] = locks[c]
         \/ /\ locks'[c] = NoLock
            /\ \A j \in 1 .. Len(Line(c)) : Line(c)[j] = t
    BY <1>1, DepartureKeepsLine
<1>7. Line(c)' = RemoveAt(q, i)
    <2>1. CASE locks'[c] = locks[c]
        BY <1>1, <1>5, <2>1, NoLockIsNoLock DEF Line
    <2>2. CASE locks'[c] = NoLock /\ \A j \in 1 .. Len(Line(c)) : Line(c)[j] = t
        <3>1. \A j \in 1 .. Len(q) : j = i
            BY <1>1, <1>2, <1>3, <1>4, <2>2 DEF LockInv, Waiters
        <3>2. Len(q) = 1
            <4>1. 1 \in 1 .. Len(q) /\ Len(q) \in 1 .. Len(q)
                BY <1>2, <1>4
            <4>2. 1 = i /\ Len(q) = i
                BY <3>1, <4>1
            <4> QED BY <4>2
        <3>3. RemoveAt(q, i) \in Seq(Turns) /\ Len(RemoveAt(q, i)) = 0
            BY <1>2, <1>4, <3>2, RemoveAtFacts
        <3>4. RemoveAt(q, i) = <<>>
            BY <3>3, HeadFacts
        <3> QED BY <2>2, <3>4 DEF Line
    <2> QED BY <1>6, <2>1, <2>2
<1>8. ASSUME NEW d \in Chats
      PROVE  Owner(d)' = Owner(d)
    BY <1>1, NoChatIsNoChat, SameOwner DEF LockInv, TypeOK
<1>9. ASSUME NEW d \in Chats, d # c
      PROVE  Line(d)' = Line(d)
    <2>1. locks[d] # l /\ locks'[d] = locks[d]
        BY <1>1, <1>6, <1>9, OtherLocks, NoLockIsNoLock
    <2> QED BY <1>5, <2>1 DEF Line, LockInv, TypeOK
<1> QED
    BY <1>1, <1>2, <1>3, <1>7, <1>8, <1>9 DEF Queue!GiveUp, Queue!RemoveAt, RemoveAt

----------------------------------------------------------------------------
(* The theorem. *)

\* Every step of the lock, with its table, its counter and its futures, is a step of the line of
\* turns it stands for: a turn enters an empty chat at once or joins the line at its end, only
\* the head of the line enters, and no departure loses a turn that waits.
THEOREM Refinement == Spec => ImplementsQueue
<1>1. Init => Queue!QueueInit
    <2> SUFFICES ASSUME Init, NEW c \in Chats
                 PROVE  Owner(c) = Nobody /\ Line(c) = <<>>
        BY DEF Queue!QueueInit
    <2>1. Inside(c) = {} /\ locks[c] = NoLock
        BY DEF Init, Inside
    <2> QED BY <2>1 DEF Owner, Line
<1>2. LockInv /\ LockInv' /\ OwnerIsInside /\ OwnerIsInside' /\ [Next]_vars
            => [Queue!QueueNext]_(Queue!queueVars)
    <2> SUFFICES ASSUME LockInv, LockInv', OwnerIsInside, OwnerIsInside', [Next]_vars
                 PROVE  [Queue!QueueNext]_(Queue!queueVars)
        OBVIOUS
    <2>1. ASSUME NEW t \in Turns, NEW c \in Chats, Arrive(t, c) PROVE Queue!QueueNext
        BY <2>1, ArriveJoins DEF Queue!QueueNext
    <2>2. ASSUME NEW t \in Turns, Resume(t) PROVE Queue!QueueNext
        BY <2>2, ResumeEnters DEF Queue!QueueNext, Resume, LockInv, Bound
    <2>3. ASSUME NEW t \in Turns, LeaveTurn(t) PROVE Queue!QueueNext
        BY <2>3, LeaveTurnLeaves DEF Queue!QueueNext, LeaveTurn, LockInv, Bound
    <2>4. ASSUME NEW t \in Turns, Cancel(t) PROVE Queue!QueueNext
        BY <2>4, CancelGivesUp DEF Queue!QueueNext, Cancel, LockInv, Bound
    <2>5. CASE UNCHANGED vars
        <3>1. ASSUME NEW c \in Chats PROVE Owner(c)' = Owner(c) /\ Line(c)' = Line(c)
            BY <2>5, SameOwner DEF vars, Line
        <3> QED BY <3>1 DEF Queue!queueVars
    <2> QED BY <2>1, <2>2, <2>3, <2>4, <2>5 DEF Next
<1> QED BY <1>1, <1>2, Invariance, OneOwner, PTL DEF Spec, ImplementsQueue, Queue!QueueSpec
=============================================================================
