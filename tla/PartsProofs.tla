---------------------------- MODULE PartsProofs ----------------------------
(***************************************************************************)
(* Six of the smaller parts for every value of their constants: the rows   *)
(* that messages add to one Notion table, the updater, the digests, the    *)
(* import of Notion into the vault, the bot's edits of a Notion page and   *)
(* the grocery page.                                                       *)
(***************************************************************************)
EXTENDS TableRows, Updater, Schedules, VaultImport, PageEdits, Groceries,
        FiniteSetTheorems, WellFoundedInduction, SequenceLemmas, TLAPS

----------------------------------------------------------------------------
(* TableRows: a title is not added twice                                   *)

Table == [read : BOOLEAN, by_title : SUBSET Titles, partial : BOOLEAN]
Create ==
    [pc : {"ready", "reading", "asking", "sending"}, title : Titles \cup {CHOOSE t \in Titles : TRUE},
     left : Nat, table : Table, sure : BOOLEAN]

RowsTyped ==
    /\ given \in Nat
    /\ IsFiniteSet(rows)
    /\ rows \subseteq [id : 1 .. given, title : Titles, by : Messages \cup {Nobody}]
    /\ \A r, q \in rows : r.id = q.id => r = q
    /\ msg \in [Messages -> Create]
    /\ vouched \in [Messages -> SUBSET (1 .. given)]

\* The titles are read before the first row is added, and a row of the bot is of a message.
ReadFirst ==
    /\ \A m \in Messages :
           /\ msg[m].pc # "ready" => msg[m].title \in Titles
           /\ msg[m].pc = "reading" => ~msg[m].table.read
           /\ msg[m].pc \in {"asking", "sending"} => msg[m].table.read
    /\ \A r \in rows : r.by # Nobody => msg[r.by].table.read

\* A table that is held as a whole has the title of every row that still stands of those it saw.
Known ==
    \A m \in Messages : \A r \in rows :
        msg[m].table.read /\ ~msg[m].table.partial /\ r.id \in vouched[m] => r.title \in msg[m].table.by_title

\* A create is sent on the answer that no such row has its title, which no other step makes untrue.
Checked ==
    \A m \in Messages : \A r \in rows :
        msg[m].pc = "sending" /\ msg[m].sure /\ r.id \in vouched[m] => r.title # msg[m].title

RowsInv == RowsTyped /\ ReadFirst /\ Known /\ Checked /\ NoRowTwice

\* What a step of message m must show of m's own entry c, for the invariant to hold of it.
Firm(c, seen, set) ==
    /\ c \in Create
    /\ c.pc # "ready" => c.title \in Titles
    /\ c.pc = "reading" => ~c.table.read
    /\ c.pc \in {"asking", "sending"} => c.table.read
    /\ \A r \in set : c.table.read /\ ~c.table.partial /\ r.id \in seen => r.title \in c.table.by_title
    /\ \A r \in set : c.pc = "sending" /\ c.sure /\ r.id \in seen => r.title # c.title

\* The parts of the invariant that speak of one message, put together.
LEMMA FirmFacts ==
    ASSUME msg \in [Messages -> Create]
    PROVE  /\ ReadFirst /\ Known /\ Checked => \A m \in Messages : Firm(msg[m], vouched[m], rows)
           /\ (\A m \in Messages : Firm(msg[m], vouched[m], rows))
              /\ (\A r \in rows : r.by # Nobody => msg[r.by].table.read) => ReadFirst /\ Known /\ Checked
BY DEF ReadFirst, Known, Checked, Firm

\* A message's own entry changes, and neither the table nor what was read of it.
OwnMove(m) ==
    /\ msg' \in [Messages -> Create]
    /\ \A o \in Messages : o # m => msg'[o] = msg[o]
    /\ msg[m].table.read => msg'[m].table.read
    /\ UNCHANGED <<rows, given, vouched, blind>>

LEMMA OwnMoveKeeps ==
    ASSUME RowsInv, NEW m \in Messages, OwnMove(m), Firm(msg'[m], vouched[m], rows)
    PROVE  RowsInv'
<1>1. RowsTyped'
    BY DEF RowsInv, RowsTyped, OwnMove
<1>2. \A o \in Messages : Firm(msg'[o], vouched[o], rows)
    BY FirmFacts DEF RowsInv, RowsTyped, OwnMove
<1>3. \A r \in rows : r.by # Nobody => msg'[r.by].table.read
  <2> SUFFICES ASSUME NEW r \in rows, r.by # Nobody PROVE msg'[r.by].table.read
      OBVIOUS
  <2>1. r.by \in Messages /\ msg[r.by].table.read
      BY DEF RowsInv, RowsTyped, ReadFirst
  <2> QED BY <2>1 DEF OwnMove
<1>4. (ReadFirst /\ Known /\ Checked)'
    BY <1>2, <1>3 DEF OwnMove, Firm, ReadFirst, Known, Checked
<1>5. NoRowTwice'
    BY DEF RowsInv, NoRowTwice, OwnMove
<1> QED BY <1>1, <1>4, <1>5 DEF RowsInv

\* Notion answers with as many of the rows as it may: all of them, when that is fewer than its limit.
LEMMA ReadWhole ==
    ASSUME NEW set, IsFiniteSet(set),
           NEW answer \in kSubset(Min({Cardinality(set), MAX_INDEX_ROWS}), set)
    PROVE  /\ answer \subseteq set
           /\ ~Indexed(answer).partial => answer = set
<1> DEFINE few == {Cardinality(set), MAX_INDEX_ROWS}
<1>1. Cardinality(set) \in Nat /\ MAX_INDEX_ROWS \in Nat
    BY FS_CardinalityType, RowBounds
<1>2. Min(few) \in few /\ \A y \in few : Min(few) <= y
  <2>1. \E x \in few : \A y \in few : x <= y
      BY <1>1
  <2> QED BY <2>1 DEF Min
<1>3. answer \in SUBSET set /\ Cardinality(answer) = Min(few)
    BY DEF kSubset
<1>4. ASSUME ~Indexed(answer).partial PROVE answer = set
  <2>1. ~(Min(few) >= MAX_INDEX_ROWS)
      BY <1>4, <1>3 DEF Indexed
  <2>2. Cardinality(answer) = Cardinality(set)
      BY <2>1, <1>1, <1>2, <1>3
  <2> QED BY <2>2, <1>3, FS_Subset
<1> QED BY <1>3, <1>4

LEMMA RowsStart == RowsInit => RowsInv
<1> SUFFICES ASSUME RowsInit PROVE RowsInv
    OBVIOUS
<1>1. PICK n \in 0 .. MaxStart : \E held \in [1 .. n -> Titles] :
           /\ rows = {[id |-> i, title |-> held[i], by |-> Nobody] : i \in DOMAIN held}
           /\ given = Cardinality(DOMAIN held)
    BY DEF RowsInit
<1>2. PICK held \in [1 .. n -> Titles] :
           /\ rows = {[id |-> i, title |-> held[i], by |-> Nobody] : i \in DOMAIN held}
           /\ given = Cardinality(DOMAIN held)
    BY <1>1
<1>3. n \in Nat /\ IsFiniteSet(1 .. n) /\ given = n
    BY <1>2, FS_Interval, RowBounds
<1>4. IsFiniteSet(rows)
  <2> DEFINE f == [i \in 1 .. n |-> [id |-> i, title |-> held[i], by |-> Nobody]]
  <2>1. f \in Surjection(1 .. n, rows)
      BY <1>2 DEF Surjection
  <2> HIDE DEF f
  <2> QED BY <2>1, <1>3, FS_Surjection
<1>5. \A m \in Messages :
          /\ msg[m] \in Create /\ msg[m].pc = "ready" /\ ~msg[m].table.read /\ vouched[m] = {}
    BY RowBounds DEF RowsInit, Create, Table, Unread
<1>6. \A r \in rows : r \in [id : 1 .. given, title : Titles, by : Messages \cup {Nobody}] /\ r.by = Nobody
    BY <1>2, <1>3
<1>7. \A r, q \in rows : r.id = q.id => r = q
    BY <1>2
<1>8. RowsTyped
    BY <1>3, <1>4, <1>5, <1>6, <1>7 DEF RowsTyped, RowsInit
<1>9. ReadFirst /\ Known /\ Checked /\ NoRowTwice
    BY <1>5, <1>6 DEF ReadFirst, Known, Checked, NoRowTwice
<1> QED BY <1>8, <1>9 DEF RowsInv

\* Whatever the fields of an entry that a step gives new values to, the others are what they were.
LEMMA OwnSteps ==
    ASSUME RowsInv, NEW m \in Messages,
           \/ \E t \in Titles : AskFor(m, t)
           \/ ReadTableFails(m) \/ QueryOne(m) \/ QueryOneFails(m) \/ CreateFails(m)
    PROVE  RowsInv'
<1> DEFINE c == msg[m]
           n == msg'[m]
<1>0. /\ msg \in [Messages -> Create] /\ c \in Create
      /\ Firm(c, vouched[m], rows)
    BY FirmFacts DEF RowsInv, RowsTyped
<1>1. CASE \E t \in Titles : AskFor(m, t)
  <2> PICK t \in Titles : AskFor(m, t)
      BY <1>1
  <2>1. /\ c.pc = "ready" /\ c.left > 0
        /\ n.title = t /\ n.left = c.left - 1 /\ n.sure = TRUE /\ n.table = c.table
        /\ n.pc = IF c.table.read THEN NextAfter(c.table, t) ELSE "reading"
      BY <1>0 DEF AskFor, At, Create
  <2>2. n.pc \in {"ready", "reading", "asking", "sending"}
      BY <2>1 DEF NextAfter
  <2>3. n \in Create /\ msg' \in [Messages -> Create]
    <3>1. c.left - 1 \in Nat /\ t \in Titles \cup {CHOOSE u \in Titles : TRUE}
        BY <1>0, <2>1 DEF Create
    <3> DEFINE pc == n.pc
    <3>2. msg' = [msg EXCEPT ![m] = [@ EXCEPT !.title = t, !.left = c.left - 1, !.sure = TRUE, !.pc = pc]]
        BY <1>0, <2>1 DEF AskFor
    <3>3. pc \in {"ready", "reading", "asking", "sending"}
        BY <2>2
    <3> HIDE DEF pc
    <3>4. [c EXCEPT !.title = t, !.left = c.left - 1, !.sure = TRUE, !.pc = pc] \in Create
        BY <1>0, <3>1, <3>3 DEF Create
    <3> QED BY <1>0, <3>2, <3>4
  <2>4. OwnMove(m)
      BY <1>0, <2>1, <2>3 DEF AskFor, OwnMove
  <2>5. n.pc = "sending" => t \notin c.table.by_title /\ ~c.table.partial /\ c.table.read
      BY <2>1 DEF NextAfter
  <2>6. Firm(n, vouched[m], rows)
    <3>1. \A r \in rows : n.table.read /\ ~n.table.partial /\ r.id \in vouched[m] => r.title \in n.table.by_title
        BY <1>0, <2>1 DEF Firm
    <3>2. \A r \in rows : n.pc = "sending" /\ n.sure /\ r.id \in vouched[m] => r.title # n.title
        BY <3>1, <2>1, <2>5
    <3>3. n.pc \in {"asking", "sending"} => n.table.read
        BY <2>1
    <3>4. n.pc = "reading" => ~n.table.read
        BY <2>1 DEF NextAfter
    <3> QED BY <2>1, <2>3, <3>1, <3>2, <3>3, <3>4 DEF Firm
  <2> QED BY <2>4, <2>6, OwnMoveKeeps
<1>2. CASE ReadTableFails(m)
  <2>1. /\ c.pc = "reading"
        /\ n.title = c.title /\ n.left = c.left /\ n.sure = c.sure
        /\ n.table = Failed /\ n.pc = "asking"
      BY <1>0, <1>2 DEF ReadTableFails, At, Create
  <2>2. Failed \in Table /\ Failed.read /\ Failed.partial
      BY DEF Failed, Table
  <2>3. n \in Create /\ msg' \in [Messages -> Create]
      BY <1>0, <1>2, <2>1, <2>2 DEF ReadTableFails, Create
  <2>4. OwnMove(m)
      BY <1>0, <1>2, <2>1, <2>2, <2>3 DEF ReadTableFails, OwnMove
  <2>5. Firm(n, vouched[m], rows)
      BY <1>0, <2>1, <2>2, <2>3 DEF Firm
  <2> QED BY <2>4, <2>5, OwnMoveKeeps
<1>3. CASE QueryOne(m)
  <2>1. /\ c.pc = "asking"
        /\ n.title = c.title /\ n.left = c.left /\ n.sure = c.sure /\ n.table = c.table
        /\ n.pc = IF c.title \in TitlesOf(rows) THEN "ready" ELSE "sending"
      BY <1>0, <1>3 DEF QueryOne, At, Create
  <2>2. n \in Create /\ msg' \in [Messages -> Create]
      BY <1>0, <1>3, <2>1 DEF QueryOne, Create
  <2>3. OwnMove(m)
      BY <1>0, <1>3, <2>1, <2>2 DEF QueryOne, OwnMove
  <2>4. n.pc = "sending" => \A r \in rows : r.title # n.title
      BY <2>1 DEF TitlesOf
  <2>5. Firm(n, vouched[m], rows)
      BY <1>0, <2>1, <2>2, <2>4 DEF Firm
  <2> QED BY <2>3, <2>5, OwnMoveKeeps
<1>4. CASE QueryOneFails(m)
  <2>1. /\ c.pc = "asking"
        /\ n.title = c.title /\ n.left = c.left /\ n.sure = FALSE /\ n.table = c.table
        /\ n.pc = "sending"
      BY <1>0, <1>4 DEF QueryOneFails, At, Create
  <2>2. n \in Create /\ msg' \in [Messages -> Create]
      BY <1>0, <1>4, <2>1 DEF QueryOneFails, Create
  <2>3. OwnMove(m)
      BY <1>0, <1>4, <2>1, <2>2 DEF QueryOneFails, OwnMove
  <2>4. Firm(n, vouched[m], rows)
      BY <1>0, <2>1, <2>2 DEF Firm
  <2> QED BY <2>3, <2>4, OwnMoveKeeps
<1>5. CASE CreateFails(m)
  <2>1. /\ c.pc = "sending"
        /\ n.title = c.title /\ n.left = c.left /\ n.sure = c.sure /\ n.table = c.table
        /\ n.pc = "ready"
      BY <1>0, <1>5 DEF CreateFails, At, Create
  <2>2. n \in Create /\ msg' \in [Messages -> Create]
      BY <1>0, <1>5, <2>1 DEF CreateFails, Create
  <2>3. OwnMove(m)
      BY <1>0, <1>5, <2>1, <2>2 DEF CreateFails, OwnMove
  <2>4. Firm(n, vouched[m], rows)
      BY <1>0, <2>1, <2>2 DEF Firm
  <2> QED BY <2>3, <2>4, OwnMoveKeeps
<1> QED BY <1>1, <1>2, <1>3, <1>4, <1>5

\* The message sees every row there is; it has added none yet, so nothing older can be a repetition.
LEMMA ReadTableKeeps ==
    ASSUME RowsInv, NEW m \in Messages, ReadTable(m)
    PROVE  RowsInv'
<1> DEFINE c == msg[m]
           n == msg'[m]
<1>0. /\ msg \in [Messages -> Create] /\ c \in Create /\ c.pc = "reading"
      /\ c.title \in Titles /\ ~c.table.read
      /\ \A o \in Messages : Firm(msg[o], vouched[o], rows)
    BY FirmFacts DEF RowsInv, RowsTyped, ReadTable, At, Firm
<1>1. PICK answer \in kSubset(Min({Cardinality(rows), MAX_INDEX_ROWS}), rows) :
           msg' = [msg EXCEPT ![m].table = Indexed(answer),
                              ![m].pc = NextAfter(Indexed(answer), msg[m].title)]
    BY DEF ReadTable
<1>2. answer \subseteq rows /\ (~Indexed(answer).partial => answer = rows)
    BY ReadWhole DEF RowsInv, RowsTyped
<1>3. /\ Indexed(answer) \in Table /\ Indexed(answer).read
      /\ Indexed(answer).by_title = TitlesOf(answer)
  <2>1. TitlesOf(answer) \in SUBSET Titles
      BY <1>2 DEF TitlesOf, RowsInv, RowsTyped
  <2>2. (Cardinality(answer) >= MAX_INDEX_ROWS) \in BOOLEAN
      OBVIOUS
  <2> QED BY <2>1, <2>2 DEF Indexed, Table
<1> DEFINE a == Indexed(answer)
<1> HIDE DEF a
<1>4. /\ n.title = c.title /\ n.left = c.left /\ n.sure = c.sure
      /\ n.table = a /\ n.pc = NextAfter(a, c.title)
    BY <1>0, <1>1 DEF Create, a
<1>5. n.pc \in {"ready", "asking", "sending"} /\ (n.pc = "sending" => c.title \notin a.by_title /\ ~a.partial)
    BY <1>4 DEF NextAfter
<1>6. n \in Create /\ msg' \in [Messages -> Create]
    BY <1>0, <1>1, <1>3, <1>4, <1>5 DEF Create, a
<1>7. /\ \A o \in Messages : o # m => msg'[o] = msg[o] /\ vouched'[o] = vouched[o]
      /\ vouched' \in [Messages -> SUBSET (1 .. given)]
      /\ UNCHANGED <<rows, given, blind>>
    BY <1>0, <1>1 DEF ReadTable, RowsInv, RowsTyped
<1>8. RowsTyped'
    BY <1>6, <1>7 DEF RowsInv, RowsTyped
<1>9. ~a.partial => \A r \in rows : r.title \in a.by_title
    BY <1>2, <1>3 DEF TitlesOf, a
<1>10. Firm(n, vouched'[m], rows)
  <2>1. \A r \in rows : n.pc = "sending" => r.title # n.title
      BY <1>4, <1>5, <1>9
  <2> QED BY <1>0, <1>3, <1>4, <1>5, <1>6, <1>9, <2>1 DEF Firm, a
<1>11. \A o \in Messages : Firm(msg'[o], vouched'[o], rows)
    BY <1>0, <1>7, <1>10
<1>12. \A r \in rows : r.by # Nobody => r.by \in Messages /\ r.by # m /\ msg[r.by].table.read
    BY <1>0 DEF RowsInv, RowsTyped, ReadFirst
<1>13. (ReadFirst /\ Known /\ Checked)'
    BY <1>11, <1>12, <1>7 DEF Firm, ReadFirst, Known, Checked
<1>14. NoRowTwice'
    BY <1>12, <1>7 DEF RowsInv, NoRowTwice
<1> QED BY <1>8, <1>13, <1>14 DEF RowsInv

\* A new row's id is nobody's and was vouched for to nobody, so only its own title can repeat one.
LEMMA NewRow ==
    ASSUME RowsInv, NEW title \in Titles, NEW by \in Messages \cup {Nobody},
           rows' = rows \cup {[id |-> given + 1, title |-> title, by |-> by]},
           given' = given + 1
    PROVE  /\ given' \in Nat /\ IsFiniteSet(rows')
           /\ rows' \subseteq [id : 1 .. given', title : Titles, by : Messages \cup {Nobody}]
           /\ \A r, q \in rows' : r.id = q.id => r = q
           /\ \A r \in rows' : r \in rows \/ (r.id = given + 1 /\ r.title = title /\ r.by = by)
           /\ \A r \in rows : r.id < given + 1
           /\ \A m \in Messages : given + 1 \notin vouched[m] /\ vouched[m] \subseteq 1 .. given'
<1>1. given \in Nat /\ IsFiniteSet(rows)
    BY DEF RowsInv, RowsTyped
<1>2. \A r \in rows : r \in [id : 1 .. given, title : Titles, by : Messages \cup {Nobody}]
    BY DEF RowsInv, RowsTyped
<1>3. \A r \in rows : r.id \in 1 .. given /\ r.id < given + 1
    BY <1>1, <1>2
<1>4. IsFiniteSet(rows')
    BY <1>1, FS_AddElement
<1>5. \A r \in rows' : r \in [id : 1 .. given', title : Titles, by : Messages \cup {Nobody}]
  <2>1. \A r \in rows : r \in [id : 1 .. given', title : Titles, by : Messages \cup {Nobody}]
      BY <1>1, <1>2
  <2>2. [id |-> given + 1, title |-> title, by |-> by] \in [id : 1 .. given', title : Titles, by : Messages \cup {Nobody}]
      BY <1>1
  <2> QED BY <2>1, <2>2
<1>6. \A r, q \in rows' : r.id = q.id => r = q
    BY <1>1, <1>3 DEF RowsInv, RowsTyped
<1>7. \A m \in Messages : vouched[m] \subseteq 1 .. given
    BY DEF RowsInv, RowsTyped
<1>8. \A m \in Messages : given + 1 \notin vouched[m] /\ vouched[m] \subseteq 1 .. given'
    BY <1>1, <1>7
<1> QED BY <1>1, <1>3, <1>4, <1>5, <1>6, <1>8

\* A create's row: the title had been found free, or the check had failed.
LEMMA CreatedKeeps ==
    ASSUME RowsInv, NEW m \in Messages, CreateAnswered(m) \/ CreateLost(m)
    PROVE  RowsInv'
<1> DEFINE c == msg[m]
           n == msg'[m]
<1>0. /\ msg \in [Messages -> Create] /\ c \in Create /\ c.pc = "sending"
      /\ c.title \in Titles /\ c.table.read /\ given \in Nat
      /\ vouched \in [Messages -> SUBSET (1 .. given)]
      /\ \A o \in Messages : Firm(msg[o], vouched[o], rows)
    BY FirmFacts DEF RowsInv, RowsTyped, CreateAnswered, CreateLost, At, Firm
<1>1. Created_(m)
    BY DEF CreateAnswered, CreateLost
<1>2. /\ rows' = rows \cup {[id |-> given + 1, title |-> c.title, by |-> m]}
      /\ given' = given + 1
      /\ blind \subseteq blind'
      /\ ~c.sure => given + 1 \in blind'
    BY <1>1 DEF Created_
<1>3. /\ given' \in Nat /\ IsFiniteSet(rows')
      /\ rows' \subseteq [id : 1 .. given', title : Titles, by : Messages \cup {Nobody}]
      /\ \A r, q \in rows' : r.id = q.id => r = q
      /\ \A r \in rows' : r \in rows \/ (r.id = given + 1 /\ r.title = c.title /\ r.by = m)
      /\ \A r \in rows : r.id < given + 1
      /\ \A o \in Messages : given + 1 \notin vouched[o] /\ vouched[o] \subseteq 1 .. given'
    BY <1>0, <1>2, NewRow
<1>4. /\ n.pc = "ready" /\ n.title = c.title /\ n.left = c.left /\ n.sure = c.sure
      /\ n.table.read /\ n.table.partial = c.table.partial
      /\ c.table.by_title \subseteq n.table.by_title
      /\ given + 1 \in vouched'[m] => c.title \in n.table.by_title
      /\ n \in Create /\ msg' \in [Messages -> Create]
      /\ \A o \in Messages : o # m => msg'[o] = msg[o] /\ vouched'[o] = vouched[o]
      /\ vouched' \in [Messages -> SUBSET (1 .. given')]
      /\ vouched'[m] \subseteq vouched[m] \cup {given + 1}
  <2>1. CASE CreateAnswered(m)
    <3>1. msg' = [msg EXCEPT ![m].pc = "ready", ![m].table.by_title = @ \cup {c.title}]
        BY <2>1 DEF CreateAnswered, Remembered
    <3>2. /\ n.pc = "ready" /\ n.title = c.title /\ n.left = c.left /\ n.sure = c.sure
          /\ n.table.read /\ n.table.partial = c.table.partial
          /\ n.table.by_title = c.table.by_title \cup {c.title}
        BY <1>0, <3>1 DEF Create, Table
    <3>3. c.table.by_title \cup {c.title} \in SUBSET Titles
        BY <1>0 DEF Create, Table
    <3>4. n \in Create /\ msg' \in [Messages -> Create]
        BY <1>0, <3>1, <3>3 DEF Create, Table
    <3>5. \A o \in Messages : o # m => msg'[o] = msg[o]
        BY <1>0, <3>1
    <3>6. vouched' = [vouched EXCEPT ![m] = @ \cup {given + 1}]
        BY <2>1 DEF CreateAnswered
    <3>7. vouched[m] \cup {given + 1} \in SUBSET (1 .. given')
        BY <1>0, <1>2, <1>3
    <3>8. /\ vouched' \in [Messages -> SUBSET (1 .. given')]
          /\ \A o \in Messages : o # m => vouched'[o] = vouched[o]
          /\ vouched'[m] = vouched[m] \cup {given + 1}
        BY <1>0, <1>3, <3>6, <3>7
    <3> QED BY <3>2, <3>4, <3>5, <3>8
  <2>2. CASE CreateLost(m)
    <3>1. msg' = [msg EXCEPT ![m].pc = "ready"] /\ vouched' = vouched
        BY <2>2 DEF CreateLost
    <3>2. /\ n.pc = "ready" /\ n.title = c.title /\ n.left = c.left /\ n.sure = c.sure
          /\ n.table = c.table
          /\ n \in Create /\ msg' \in [Messages -> Create]
          /\ \A o \in Messages : o # m => msg'[o] = msg[o]
        BY <1>0, <3>1 DEF Create
    <3>3. vouched' \in [Messages -> SUBSET (1 .. given')] /\ given + 1 \notin vouched'[m]
        BY <1>0, <1>3, <3>1
    <3> QED BY <1>0, <3>1, <3>2, <3>3
  <2> QED BY <2>1, <2>2
<1>5. RowsTyped'
    BY <1>3, <1>4 DEF RowsTyped
<1>6. \A o \in Messages : Firm(msg'[o], vouched'[o], rows')
  <2> SUFFICES ASSUME NEW o \in Messages PROVE Firm(msg'[o], vouched'[o], rows')
      OBVIOUS
  <2>1. CASE o # m
    <3>1. Firm(msg[o], vouched[o], rows) /\ given + 1 \notin vouched[o]
        BY <1>0, <1>3
    <3>2. \A r \in rows' : r.id \in vouched[o] => r \in rows
        BY <3>1, <1>3
    <3>3. Firm(msg[o], vouched[o], rows')
        BY <3>1, <3>2 DEF Firm
    <3> QED BY <2>1, <3>3, <1>4
  <2>2. CASE o = m
    <3>1. ASSUME NEW r \in rows', n.table.read, ~n.table.partial, r.id \in vouched'[m]
          PROVE  r.title \in n.table.by_title
      <4>1. CASE r \in rows
        <5>1. r.id \in vouched[m]
            BY <4>1, <3>1, <1>3, <1>4, <1>0
        <5> QED BY <4>1, <5>1, <3>1, <1>0, <1>4 DEF Firm
      <4>2. CASE r.id = given + 1 /\ r.title = c.title
          BY <4>2, <3>1, <1>4
      <4> QED BY <4>1, <4>2, <1>3
    <3> QED BY <2>2, <3>1, <1>0, <1>4 DEF Firm
  <2> QED BY <2>1, <2>2
<1>7. \A r \in rows' : r.by # Nobody => msg'[r.by].table.read
  <2> SUFFICES ASSUME NEW r \in rows', r.by # Nobody PROVE msg'[r.by].table.read
      OBVIOUS
  <2>1. CASE r \in rows
    <3>1. r.by \in Messages /\ msg[r.by].table.read
        BY <2>1 DEF RowsInv, RowsTyped, ReadFirst
    <3> QED BY <3>1, <1>4
  <2>2. CASE r.by = m
      BY <2>2, <1>4
  <2> QED BY <2>1, <2>2, <1>3
<1>8. (ReadFirst /\ Known /\ Checked)'
    BY <1>6, <1>7 DEF Firm, ReadFirst, Known, Checked
<1>9. NoRowTwice'
  <2> SUFFICES ASSUME NEW r \in rows', NEW q \in rows', r.by # Nobody, q.id < r.id,
                      q.title = r.title, q.id \in vouched'[r.by]
               PROVE  r.id \in blind'
      BY DEF NoRowTwice
  <2>1. r.id \in Nat /\ q.id \in Nat /\ r.id <= given + 1 /\ given \in Nat
      BY <1>0, <1>2, <1>3
  <2>2. q \in rows /\ q.id # given + 1
      BY <2>1, <1>3
  <2>3. CASE r \in rows
    <3>1. r.by \in Messages
        BY <2>3 DEF RowsInv, RowsTyped
    <3>2. q.id \in vouched[r.by]
        BY <3>1, <2>2, <1>4
    <3>3. r.id \in blind
        BY <2>2, <2>3, <3>2 DEF RowsInv, NoRowTwice
    <3> QED BY <3>3, <1>2
  <2>4. CASE r.id = given + 1 /\ r.title = c.title /\ r.by = m
    <3>1. q.id \in vouched[m]
        BY <2>2, <2>4, <1>4
    <3>2. ~c.sure
        BY <3>1, <2>2, <2>4, <1>0 DEF Firm
    <3> QED BY <3>2, <2>4, <1>2
  <2> QED BY <2>3, <2>4, <1>3
<1> QED BY <1>5, <1>8, <1>9 DEF RowsInv

\* The user's own changes: a row of another hand, and a row less.
LEMMA HandKeeps ==
    ASSUME RowsInv, (\E t \in Titles : AddRow(t)) \/ (\E r \in rows : RemoveRow(r))
    PROVE  RowsInv'
<1>0. UNCHANGED <<msg, vouched, blind>>
    BY DEF AddRow, RemoveRow
<1>1. \A o \in Messages : Firm(msg[o], vouched[o], rows)
    BY FirmFacts DEF RowsInv, RowsTyped
<1>2. CASE \E t \in Titles : AddRow(t)
  <2> PICK t \in Titles : AddRow(t)
      BY <1>2
  <2>1. rows' = rows \cup {[id |-> given + 1, title |-> t, by |-> Nobody]} /\ given' = given + 1
      BY DEF AddRow
  <2>2. /\ given' \in Nat /\ IsFiniteSet(rows')
        /\ rows' \subseteq [id : 1 .. given', title : Titles, by : Messages \cup {Nobody}]
        /\ \A r, q \in rows' : r.id = q.id => r = q
        /\ \A r \in rows' : r \in rows \/ (r.id = given + 1 /\ r.title = t /\ r.by = Nobody)
        /\ \A r \in rows : r.id < given + 1
        /\ \A o \in Messages : given + 1 \notin vouched[o] /\ vouched[o] \subseteq 1 .. given'
      BY <2>1, NewRow
  <2>3. RowsTyped'
      BY <1>0, <2>2 DEF RowsInv, RowsTyped
  <2>4. \A o \in Messages : \A r \in rows' : r.id \in vouched[o] => r \in rows
      BY <2>2
  <2>5. \A r \in rows' : r.by # Nobody => r \in rows
      BY <2>2
  <2>6. (ReadFirst /\ Known /\ Checked)'
      BY <1>0, <1>1, <2>4, <2>5 DEF RowsInv, ReadFirst, Known, Checked
  <2>7. \A r \in rows' : r.by # Nobody => r.by \in Messages
      BY <2>2
  <2>8. NoRowTwice'
      BY <1>0, <2>4, <2>5, <2>7 DEF RowsInv, NoRowTwice
  <2> QED BY <2>3, <2>6, <2>8 DEF RowsInv
<1>3. CASE \E r \in rows : RemoveRow(r)
  <2>1. PICK r \in rows : rows' = rows \ {r}
      BY <1>3 DEF RemoveRow
  <2>2. given' = given
      BY <1>3 DEF RemoveRow
  <2>3. rows' \subseteq rows
      BY <2>1
  <2>4. IsFiniteSet(rows')
      BY <2>3, FS_Subset DEF RowsInv, RowsTyped
  <2>5. RowsTyped'
      BY <1>0, <2>2, <2>3, <2>4 DEF RowsInv, RowsTyped
  <2>6. (ReadFirst /\ Known /\ Checked)'
      BY <1>0, <2>3 DEF RowsInv, ReadFirst, Known, Checked
  <2>7. NoRowTwice'
      BY <1>0, <2>3 DEF RowsInv, NoRowTwice
  <2> QED BY <2>5, <2>6, <2>7 DEF RowsInv
<1> QED BY <1>2, <1>3

LEMMA RowsInvariance == RowsSpec => []RowsInv
<1>1. ASSUME RowsInv, [RowsNext]_rowVars PROVE RowsInv'
  <2>1. CASE UNCHANGED rowVars
      BY <1>1, <2>1 DEF rowVars, RowsInv, RowsTyped, ReadFirst, Known, Checked, NoRowTwice
  <2>2. CASE RowsNext
      BY <1>1, <2>2, OwnSteps, ReadTableKeeps, CreatedKeeps, HandKeeps DEF RowsNext
  <2> QED BY <1>1, <2>1, <2>2
<1> QED BY <1>1, RowsStart, PTL DEF RowsSpec

\* The table's rows have ids of their own, and a title is asked for or sent only once the table was
\* read.
THEOREM RowsTypeCorrect == RowsSpec => []RowsTypeOK
<1>1. RowsInv => RowsTypeOK
    BY DEF RowsInv, RowsTyped, ReadFirst, RowsTypeOK, Create
<1> QED BY <1>1, RowsInvariance, PTL

\* However many messages, rows and faults there are, no message adds a row under a title that stood
\* in the table when it read it, or that it had itself added before, unless the check had failed.
THEOREM TitlesAreNotRepeated == RowsSpec => []NoRowTwice
<1>1. RowsInv => NoRowTwice
    BY DEF RowsInv
<1> QED BY <1>1, RowsInvariance, PTL
----------------------------------------------------------------------------
(* Updater: a rollback brings the release back that was in place           *)

Numbers == 0 .. Len(Shipped)
UpdPcs == {"off", "backup", "extract", "prune", "sync", "migrate", "version", "written", "rollback"}
UpdRec == [pc : UpdPcs, new : Numbers, old : Numbers, sync : BOOLEAN, todo : Seq(Items)]
Laying == {"prune", "sync", "migrate", "version", "written"}

\* The items of a release's tree.
ItemsOf(v) == FilesOf(v) \cup {"VERSION", "manifest"}

UpdTyped ==
    /\ tree \in [Items -> Int] /\ tree["manifest"] \in Releases
    /\ backups \in [Numbers -> [Items -> Int]]
    /\ upd \in UpdRec
    /\ prior \in Releases
    /\ spoilt \in {"no", "torn"}

\* Releases only go up: none that is newer than the one in place is backed up, none older is laid.
Rising ==
    /\ \A v \in Numbers : backups[v] # Absent => v <= prior
    /\ upd.pc \notin {"off", "rollback"} => upd.new \in Releases /\ upd.new >= prior

\* The backup of the release in place is as whole as the tree was, and it is there before the tree
\* is touched.
BackedUp ==
    /\ upd.pc = "backup" =>
           /\ Whole(prior)
           /\ ToSet(upd.todo) \subseteq ItemsOf(prior)
           /\ \A i \in ItemsOf(prior) : i \in ToSet(upd.todo) \/ backups[prior][i] = prior
    /\ upd.pc # "backup" /\ backups[prior] # Absent => \A i \in ItemsOf(prior) : backups[prior][i] = prior
    /\ backups[prior] = Absent => upd.pc = "off" /\ Whole(prior) /\ \A v \in Numbers : backups[v] = Absent

\* What is laid over the tree is of the new release, all of it before VERSION names it.
Laid ==
    /\ upd.pc = "extract" =>
           /\ ToSet(upd.todo) \subseteq FilesOf(upd.new) \cup {"manifest"}
           /\ \A i \in FilesOf(upd.new) \cup {"manifest"} : i \in ToSet(upd.todo) \/ tree[i] = upd.new
    /\ upd.pc \in Laying => \A i \in FilesOf(upd.new) \cup {"manifest"} : tree[i] = upd.new

\* VERSION names the release in place, or one that has been laid since, whole.
Standing ==
    /\ spoilt = "no" /\ upd.pc # "rollback" =>
           \/ tree["VERSION"] \in {0, prior}
           \/ /\ upd.pc = "off"
              /\ tree["VERSION"] \in Releases /\ tree["VERSION"] > prior /\ Whole(tree["VERSION"])
    /\ spoilt = "torn" => upd.pc \in {"off", "rollback"}

\* A rollback takes that backup, and has put back whatever it need not put back any more.
Restoring ==
    upd.pc = "rollback" =>
        /\ upd.new = prior /\ backups[prior] # Absent
        /\ \A i \in ItemsOf(prior) : i \in ToSet(upd.todo) \/ tree[i] = prior

Sound == UpdTyped /\ Rising /\ BackedUp /\ Laid /\ Standing /\ Restoring

\* Of the cases that RollbackRestores leaves out nothing is said, and there is no way back from them.
UpdaterInv == spoilt # "yes" => Sound

LEMMA ReleaseFacts ==
    /\ Len(Shipped) \in Nat /\ Releases = 1 .. Len(Shipped) /\ 1 \in Releases
    /\ Releases \subseteq Numbers /\ \A v \in Releases : v >= 1
    /\ "VERSION" \in Items /\ "manifest" \in Items
    /\ \A v \in Releases :
           /\ FilesOf(v) = ToSet(Shipped[v]) /\ Shipped[v] \in Seq(Items)
           /\ "VERSION" \notin FilesOf(v) /\ "manifest" \notin FilesOf(v)
           /\ FilesOf(v) \subseteq Items /\ ItemsOf(v) \subseteq Items
<1>1. Shipped \in Seq(Seq(STRING)) /\ Shipped # <<>>
    BY ReleasesAre
<1>2. Len(Shipped) \in Nat /\ Releases = 1 .. Len(Shipped) /\ 1 \in Releases
    BY <1>1, LenProperties, EmptySeq DEF Releases
<1>3. Releases \subseteq Numbers /\ \A v \in Releases : v >= 1
    BY <1>2 DEF Numbers
<1>4. "VERSION" \in Items /\ "manifest" \in Items
    BY DEF Items
<1>5. ASSUME NEW v \in Releases
      PROVE  /\ FilesOf(v) = ToSet(Shipped[v]) /\ Shipped[v] \in Seq(Items)
             /\ "VERSION" \notin FilesOf(v) /\ "manifest" \notin FilesOf(v)
             /\ FilesOf(v) \subseteq Items /\ ItemsOf(v) \subseteq Items
  <2>1. FilesOf(v) = ToSet(Shipped[v])
      BY DEF FilesOf
  <2>2. FilesOf(v) \subseteq Files /\ Files \subseteq Items
      BY DEF Files, Items
  <2>3. "VERSION" \notin Files /\ "manifest" \notin Files
      BY ReleasesAre
  <2>4. Shipped[v] \in Seq(STRING)
      BY <1>1, <1>2, ElementOfSeq
  <2>5. \A i \in 1 .. Len(Shipped[v]) : Shipped[v][i] \in Items
      BY <2>1, <2>2, <2>4, LenProperties DEF ToSet
  <2>6. Shipped[v] \in Seq(Items)
      BY <2>4, <2>5, LenProperties
  <2>7. ItemsOf(v) \subseteq Items
      BY <2>2, <1>4 DEF ItemsOf
  <2> QED BY <2>1, <2>2, <2>3, <2>6, <2>7
<1> QED BY <1>2, <1>3, <1>4, <1>5

LEMMA WholeFacts ==
    ASSUME NEW v \in Releases
    PROVE  /\ Whole(v) <=> \A i \in ItemsOf(v) : tree[i] = v
           /\ Whole(v)' <=> \A i \in ItemsOf(v) : tree'[i] = v
<1>1. v # 0 /\ ItemsOf(v) \subseteq Items
    BY ReleaseFacts
<1>2. \A i \in Items : Full(v)[i] # 0 <=> i \in ItemsOf(v)
    BY <1>1 DEF Full, ItemsOf
<1> QED BY <1>1, <1>2 DEF Whole

\* A list of things to do is its first item and the rest of it.
LEMMA ListFacts ==
    ASSUME NEW S, NEW s \in Seq(S), s # <<>>
    PROVE  /\ Head(s) \in S /\ Tail(s) \in Seq(S)
           /\ ToSet(s) = ToSet(Tail(s)) \cup {Head(s)}
<1>1. /\ Head(s) \in S /\ Tail(s) \in Seq(S) /\ Len(Tail(s)) = Len(s) - 1
      /\ \A i \in 1 .. Len(Tail(s)) : Tail(s)[i] = s[i + 1]
    BY HeadTailProperties
<1>2. Len(s) \in Nat \ {0} /\ DOMAIN s = 1 .. Len(s) /\ Head(s) = s[1]
    BY LenProperties, EmptySeq
<1>3. DOMAIN Tail(s) = 1 .. Len(s) - 1
    BY <1>1, LenProperties
<1>4. ASSUME NEW x \in ToSet(s) PROVE x \in ToSet(Tail(s)) \cup {Head(s)}
  <2>1. PICK i \in 1 .. Len(s) : x = s[i]
      BY <1>2, <1>4 DEF ToSet
  <2>2. CASE i = 1
      BY <2>1, <2>2, <1>2
  <2>3. CASE i # 1
    <3>1. i - 1 \in 1 .. Len(s) - 1 /\ (i - 1) + 1 = i
        BY <2>3, <1>2
    <3>2. Tail(s)[i - 1] = x
        BY <3>1, <2>1, <1>1
    <3> QED BY <3>1, <3>2, <1>3 DEF ToSet
  <2> QED BY <2>2, <2>3
<1>5. ASSUME NEW x \in ToSet(Tail(s)) PROVE x \in ToSet(s)
  <2>1. PICK i \in 1 .. Len(s) - 1 : x = Tail(s)[i]
      BY <1>3, <1>5 DEF ToSet
  <2>2. i + 1 \in 1 .. Len(s) /\ x = s[i + 1]
      BY <2>1, <1>1, <1>2
  <2> QED BY <2>2, <1>2 DEF ToSet
<1>6. Head(s) \in ToSet(s)
    BY <1>2 DEF ToSet
<1> QED BY <1>1, <1>4, <1>5, <1>6

LEMMA JoinFacts ==
    ASSUME NEW S, NEW s \in Seq(S), NEW t \in Seq(S)
    PROVE  s \o t \in Seq(S) /\ ToSet(s \o t) = ToSet(s) \cup ToSet(t)
<1>1. /\ s \o t \in Seq(S) /\ Len(s \o t) = Len(s) + Len(t)
      /\ \A i \in 1 .. Len(s) + Len(t) : (s \o t)[i] = IF i <= Len(s) THEN s[i] ELSE t[i - Len(s)]
    BY ConcatProperties
<1>2. /\ Len(s) \in Nat /\ Len(t) \in Nat /\ DOMAIN s = 1 .. Len(s) /\ DOMAIN t = 1 .. Len(t)
      /\ DOMAIN (s \o t) = 1 .. Len(s) + Len(t)
    BY <1>1, LenProperties
<1>3. ASSUME NEW x \in ToSet(s \o t) PROVE x \in ToSet(s) \cup ToSet(t)
  <2>1. PICK i \in 1 .. Len(s) + Len(t) : x = (s \o t)[i]
      BY <1>2, <1>3 DEF ToSet
  <2>2. CASE i <= Len(s)
    <3>1. i \in 1 .. Len(s) /\ x = s[i]
        BY <2>1, <2>2, <1>1, <1>2
    <3> QED BY <3>1, <1>2 DEF ToSet
  <2>3. CASE ~(i <= Len(s))
    <3>1. i - Len(s) \in 1 .. Len(t) /\ x = t[i - Len(s)]
        BY <2>1, <2>3, <1>1, <1>2
    <3> QED BY <3>1, <1>2 DEF ToSet
  <2> QED BY <2>2, <2>3
<1>4. ASSUME NEW x \in ToSet(s) PROVE x \in ToSet(s \o t)
  <2>1. PICK i \in 1 .. Len(s) : x = s[i]
      BY <1>2, <1>4 DEF ToSet
  <2>2. i \in 1 .. Len(s) + Len(t) /\ (s \o t)[i] = x
      BY <2>1, <1>1, <1>2
  <2> QED BY <2>2, <1>2 DEF ToSet
<1>5. ASSUME NEW x \in ToSet(t) PROVE x \in ToSet(s \o t)
  <2>1. PICK i \in 1 .. Len(t) : x = t[i]
      BY <1>2, <1>5 DEF ToSet
  <2>2. i + Len(s) \in 1 .. Len(s) + Len(t) /\ ~(i + Len(s) <= Len(s)) /\ (i + Len(s)) - Len(s) = i
      BY <2>1, <1>2
  <2>3. (s \o t)[i + Len(s)] = x
      BY <2>1, <2>2, <1>1
  <2> QED BY <2>2, <2>3, <1>2 DEF ToSet
<1> QED BY <1>1, <1>3, <1>4, <1>5

\* A rollback's items, in whatever order, are all of the backup's.
LEMMA OrderFacts ==
    ASSUME NEW S, IsFiniteSet(S), NEW order \in SetToSeqs(S)
    PROVE  order \in Seq(S) /\ ToSet(order) = S
<1> DEFINE n == Cardinality(S)
<1>1. n \in Nat
    BY FS_CardinalityType
<1>2. order \in [1 .. n -> S] /\ \A i, j \in 1 .. n : i # j => order[i] # order[j]
    BY DEF SetToSeqs
<1>3. order \in Injection(1 .. n, S)
    BY <1>2 DEF Injection, IsInjective
<1>4. IsFiniteSet(1 .. n) /\ Cardinality(1 .. n) = n
    BY <1>1, FS_Interval
<1>5. order \in Surjection(1 .. n, S)
    BY <1>3, <1>4, FS_Injection
<1>6. order \in Seq(S)
    BY <1>1, <1>2
<1>7. ToSet(order) = S
    BY <1>2, <1>5 DEF ToSet, Surjection
<1> QED BY <1>6, <1>7

LEMMA ItemsAreFinite == IsFiniteSet(Items)
<1>1. \A v \in Releases : IsFiniteSet(FilesOf(v))
  <2> SUFFICES ASSUME NEW v \in Releases PROVE IsFiniteSet(FilesOf(v))
      OBVIOUS
  <2>1. FilesOf(v) = ToSet(Shipped[v]) /\ Shipped[v] \in Seq(Items)
      BY ReleaseFacts
  <2>2. Len(Shipped[v]) \in Nat /\ DOMAIN Shipped[v] = 1 .. Len(Shipped[v])
      BY <2>1, LenProperties
  <2>3. \A n \in Nat : IsFiniteSet(1 .. n)
      BY FS_Interval
  <2>4. IsFiniteSet(DOMAIN Shipped[v])
      BY <2>2, <2>3
  <2>5. Shipped[v] \in Surjection(DOMAIN Shipped[v], ToSet(Shipped[v]))
      BY <2>1, <2>2 DEF Surjection, ToSet
  <2> QED BY <2>1, <2>4, <2>5, FS_Surjection
<1>2. IsFiniteSet({FilesOf(v) : v \in Releases})
  <2> DEFINE f == [v \in Releases |-> FilesOf(v)]
  <2>1. f \in Surjection(Releases, {FilesOf(v) : v \in Releases})
      BY DEF Surjection
  <2>2. IsFiniteSet(Releases)
      BY ReleaseFacts, FS_Interval
  <2> HIDE DEF f
  <2> QED BY <2>1, <2>2, FS_Surjection
<1>3. IsFiniteSet(Files)
    BY <1>1, <1>2, FS_UNION DEF Files
<1>4. IsFiniteSet(Files \cup {"VERSION"})
    BY <1>3, FS_AddElement
<1>5. IsFiniteSet((Files \cup {"VERSION"}) \cup {"manifest"})
    BY <1>4, FS_AddElement
<1>6. Items = (Files \cup {"VERSION"}) \cup {"manifest"}
    BY DEF Items
<1> QED BY <1>5, <1>6

LEMMA UpdaterStart == UpdaterInit => UpdaterInv
<1> SUFFICES ASSUME UpdaterInit PROVE Sound
    BY DEF UpdaterInv
<1>1. /\ tree = Full(1) /\ backups = [v \in Numbers |-> Absent] /\ upd = Off
      /\ prior = 1 /\ spoilt = "no"
    BY DEF UpdaterInit, Numbers
<1>2. 1 \in Releases /\ 0 \in Numbers /\ ItemsOf(1) \subseteq Items
    BY ReleaseFacts DEF Numbers
<1>3. \A i \in Items : tree[i] = IF i \in ItemsOf(1) THEN 1 ELSE 0
    BY <1>1 DEF Full, ItemsOf
<1>4. tree \in [Items -> Int] /\ tree["manifest"] \in Releases /\ tree["VERSION"] = 1
    BY <1>1, <1>2, <1>3, ReleaseFacts DEF Full, ItemsOf
<1>5. backups \in [Numbers -> [Items -> Int]] /\ \A v \in Numbers : backups[v] = Absent
    BY <1>1 DEF Absent
<1>6. Off \in UpdRec
    BY <1>2, EmptySeq DEF Off, UpdRec, UpdPcs
<1>7. UpdTyped
    BY <1>1, <1>2, <1>4, <1>5, <1>6 DEF UpdTyped
<1>8. Whole(1)
    BY <1>2, <1>3, WholeFacts
<1>9. upd.pc = "off"
    BY <1>1 DEF Off
<1>10. Absent \in [Items -> Int] /\ backups[1] = Absent
    BY <1>2, <1>5, ReleaseFacts DEF Absent
<1> QED BY <1>1, <1>4, <1>5, <1>7, <1>8, <1>9, <1>10 DEF Sound, Rising, BackedUp, Laid, Standing, Restoring, Laying

\* A run of the updater that is over.
LEMMA OffFacts ==
    /\ Off \in UpdRec /\ Off.pc = "off" /\ Off.todo = <<>>
    /\ \A i : i \notin ToSet(<<>>)
<1>1. 0 \in Numbers /\ <<>> \in Seq(Items)
    BY ReleaseFacts, EmptySeq DEF Numbers
<1>2. DOMAIN <<>> = {}
    BY EmptySeq, LenProperties
<1> QED BY <1>1, <1>2 DEF Off, UpdRec, UpdPcs, ToSet

\* The updater goes from one stage to the next, ends, or fails, and lays nothing.
LEMMA StageMoves ==
    ASSUME Sound, spoilt' # "yes",
           \/ ExtractDone \/ PruneDone \/ SyncRuntime \/ Migrate \/ MigrateDone
           \/ StepFails \/ Dies \/ RollbackDone \/ StartBot \/ StopBot
    PROVE  Sound'
<1>0. /\ UNCHANGED <<tree, backups, prior>> /\ upd \in UpdRec
    BY DEF ExtractDone, PruneDone, SyncRuntime, Migrate, MigrateDone, StepFails, Dies, RollbackDone,
           StartBot, StopBot, Doing, disk, past, Sound, UpdTyped
<1>1. /\ Off \in UpdRec /\ Off.pc = "off" /\ Off.todo = <<>>
      /\ \A i \in Items : i \notin ToSet(<<>>)
    BY OffFacts
<1>2. prior \in Releases /\ ItemsOf(prior) \subseteq Items
    BY ReleaseFacts DEF Sound, UpdTyped
<1>3. Whole(prior)' <=> Whole(prior)
    BY <1>0 DEF Whole
<1>4. Whole(tree["VERSION"])' <=> Whole(tree["VERSION"])
    BY <1>0 DEF Whole
<1>5. CASE \/ ExtractDone \/ PruneDone \/ SyncRuntime \/ MigrateDone
  <2>1. /\ upd.pc \in {"extract"} \cup Laying /\ upd'.pc \in Laying
        /\ upd.pc = "extract" => upd.todo = <<>>
        /\ upd'.new = upd.new /\ upd' \in UpdRec
        /\ spoilt' = spoilt
      BY <1>0, <1>5 DEF ExtractDone, PruneDone, SyncRuntime, MigrateDone, Doing, past, Laying, UpdRec, UpdPcs
  <2>2. UpdTyped'
      BY <1>0, <2>1 DEF Sound, UpdTyped
  <2>3. Rising'
      BY <1>0, <2>1 DEF Sound, Rising, Laying
  <2>4. BackedUp'
      BY <1>0, <2>1 DEF Sound, BackedUp, Laying
  <2>5. Laid'
    <3>1. CASE upd.pc = "extract"
      <4>1. upd.new \in Releases /\ FilesOf(upd.new) \cup {"manifest"} \subseteq Items
          BY <3>1, ReleaseFacts DEF Sound, Rising
      <4>2. \A i \in FilesOf(upd.new) \cup {"manifest"} : tree[i] = upd.new
          BY <3>1, <4>1, <2>1, <1>1 DEF Sound, Laid
      <4> QED BY <4>2, <2>1, <1>0 DEF Laid, Laying
    <3>2. CASE upd.pc \in Laying
        BY <3>2, <2>1, <1>0 DEF Sound, Laid, Laying
    <3> QED BY <3>1, <3>2, <2>1
  <2>6. Standing'
      BY <1>0, <2>1 DEF Sound, Standing, Laying
  <2>7. Restoring'
      BY <2>1 DEF Restoring, Laying
  <2> QED BY <2>2, <2>3, <2>4, <2>5, <2>6, <2>7 DEF Sound
<1>6. CASE Migrate \/ StartBot \/ StopBot
  <2>1. upd' = upd /\ spoilt' = spoilt
      BY <1>6 DEF Migrate, StartBot, StopBot, Doing, past
  <2> QED BY <1>0, <1>3, <1>4, <2>1 DEF Sound, UpdTyped, Rising, BackedUp, Laid, Standing, Restoring
<1>7. CASE StepFails \/ Dies
  <2>1. /\ upd' = Off /\ upd.pc # "backup" /\ upd.pc # "off"
        /\ spoilt' = IF upd.pc = "rollback" /\ spoilt = "no" THEN "torn" ELSE spoilt
      BY <1>7 DEF StepFails, Dies, past
  <2>2. UpdTyped'
      BY <1>0, <1>1, <2>1 DEF Sound, UpdTyped
  <2>3. Rising'
      BY <1>0, <1>1, <2>1 DEF Sound, Rising
  <2>4. BackedUp'
      BY <1>0, <1>1, <2>1 DEF Sound, BackedUp
  <2>5. Laid'
      BY <1>1, <2>1 DEF Laid, Laying
  <2>6. Standing'
      BY <1>0, <1>1, <2>1 DEF Sound, Standing
  <2>7. Restoring'
      BY <1>1, <2>1 DEF Restoring
  <2> QED BY <2>2, <2>3, <2>4, <2>5, <2>6, <2>7 DEF Sound
<1>8. CASE RollbackDone
  <2>1. /\ upd.pc = "rollback" /\ upd.todo = <<>> /\ upd' = Off
        /\ spoilt' = IF spoilt = "torn" THEN "no" ELSE spoilt
      BY <1>8 DEF RollbackDone, Doing
  <2>2. UpdTyped'
      BY <1>0, <1>1, <2>1 DEF Sound, UpdTyped
  <2>3. Rising'
      BY <1>0, <1>1, <2>1 DEF Sound, Rising
  <2>4. BackedUp'
      BY <1>0, <1>1, <2>1 DEF Sound, BackedUp
  <2>5. Laid'
      BY <1>1, <2>1 DEF Laid, Laying
  <2>6. tree["VERSION"] = prior
      BY <1>1, <1>2, <2>1 DEF Sound, Restoring, ItemsOf
  <2>7. Standing'
      BY <1>0, <1>1, <2>1, <2>6 DEF Sound, Standing, UpdTyped
  <2>8. Restoring'
      BY <1>1, <2>1 DEF Restoring
  <2> QED BY <2>2, <2>3, <2>4, <2>5, <2>7, <2>8 DEF Sound
<1> QED BY <1>5, <1>6, <1>7, <1>8

LEMMA ExtractedFacts ==
    ASSUME NEW v \in Releases
    PROVE  Extracted(v) \in Seq(Items) /\ ToSet(Extracted(v)) = FilesOf(v) \cup {"manifest"}
<1> DEFINE last == <<"manifest">>
           list == Shipped[v]
<1>1. list \in Seq(Items) /\ FilesOf(v) = ToSet(list) /\ "manifest" \in Items
    BY ReleaseFacts
<1>2. last \in Seq(Items) /\ ToSet(last) = {"manifest"}
  <2>1. DOMAIN last = {1} /\ last[1] = "manifest"
      OBVIOUS
  <2>2. last \in Seq(Items)
      BY <1>1
  <2> QED BY <2>1, <2>2 DEF ToSet
<1>3. Extracted(v) = list \o last
    BY DEF Extracted
<1> HIDE DEF last, list
<1>4. list \o last \in Seq(Items) /\ ToSet(list \o last) = ToSet(list) \cup ToSet(last)
    BY <1>1, <1>2, JoinFacts
<1> QED BY <1>1, <1>2, <1>3, <1>4

LEMMA BackedUpFacts ==
    ASSUME NEW v \in Releases
    PROVE  /\ Shipped[v] \o <<"VERSION", "manifest">> \in Seq(Items)
           /\ ToSet(Shipped[v] \o <<"VERSION", "manifest">>) = ItemsOf(v)
<1> DEFINE last == <<"VERSION", "manifest">>
           list == Shipped[v]
<1>1. list \in Seq(Items) /\ FilesOf(v) = ToSet(list) /\ "manifest" \in Items /\ "VERSION" \in Items
    BY ReleaseFacts
<1>2. last \in Seq(Items) /\ ToSet(last) = {"VERSION", "manifest"}
  <2>1. DOMAIN last = {1, 2} /\ last[1] = "VERSION" /\ last[2] = "manifest"
      OBVIOUS
  <2>2. last \in Seq(Items)
      BY <1>1
  <2> QED BY <2>1, <2>2 DEF ToSet
<1> HIDE DEF last, list
<1>3. list \o last \in Seq(Items) /\ ToSet(list \o last) = ToSet(list) \cup ToSet(last)
    BY <1>1, <1>2, JoinFacts
<1>4. list \o last \in Seq(Items) /\ ToSet(list \o last) = ItemsOf(v)
    BY <1>1, <1>2, <1>3 DEF ItemsOf
<1> QED BY <1>4 DEF list, last

\* The backup: the tree is whole and stays so, item after item is copied, and only then are old
\* backups dropped, among which the newest never is.
LEMMA BackupMoves ==
    ASSUME Sound, spoilt' # "yes", BackupItem \/ BackupDone
    PROVE  Sound'
<1> DEFINE W == tree["VERSION"]
<1>0. /\ UNCHANGED <<tree, prior, spoilt>> /\ upd \in UpdRec /\ upd.pc = "backup"
      /\ tree \in [Items -> Int] /\ backups \in [Numbers -> [Items -> Int]]
      /\ Whole(prior) /\ backups[prior] # Absent
      /\ ToSet(upd.todo) \subseteq ItemsOf(prior)
      /\ \A i \in ItemsOf(prior) : i \in ToSet(upd.todo) \/ backups[prior][i] = prior
      /\ upd.new \in Releases /\ upd.new >= prior
    BY DEF BackupItem, BackupDone, Doing, past, Sound, UpdTyped, Rising, BackedUp
<1>1. /\ prior \in Releases /\ prior \in Numbers /\ prior >= 1 /\ ItemsOf(prior) \subseteq Items
      /\ "VERSION" \in Items /\ "manifest" \in Items /\ prior \in Int
  <2>1. prior \in Releases
      BY DEF Sound, UpdTyped
  <2>2. prior \in 1 .. Len(Shipped) /\ Len(Shipped) \in Nat
      BY <2>1, ReleaseFacts
  <2>3. prior \in Int
      BY <2>2
  <2> QED BY <2>1, <2>3, ReleaseFacts
<1>2. /\ \A i \in ItemsOf(prior) : tree[i] = prior
      /\ W = prior /\ Whole(prior)'
    BY <1>0, <1>1, WholeFacts DEF ItemsOf
<1>3. Standing'
  <2>1. upd'.pc # "off" \/ W \in {0, prior}
      BY <1>2
  <2>2. spoilt # "torn"
      BY <1>0 DEF Sound, Standing
  <2> QED BY <1>0, <1>2, <2>2 DEF Standing
<1>4. CASE BackupItem
  <2>1. /\ upd.todo # <<>> /\ upd.todo \in Seq(Items)
        /\ upd' = [upd EXCEPT !.todo = Tail(@)]
        /\ backups' = [backups EXCEPT ![prior][Head(upd.todo)] = tree[Head(upd.todo)]]
      BY <1>0, <1>2, <1>4 DEF BackupItem, Moved, Item, UpdRec
  <2>2. /\ Head(upd.todo) \in Items /\ Tail(upd.todo) \in Seq(Items)
        /\ ToSet(upd.todo) = ToSet(Tail(upd.todo)) \cup {Head(upd.todo)}
      BY <2>1, ListFacts
  <2>3. /\ upd' \in UpdRec /\ upd'.pc = "backup" /\ upd'.new = upd.new /\ upd'.todo = Tail(upd.todo)
      BY <1>0, <2>1, <2>2 DEF UpdRec
  <2>4. /\ backups' \in [Numbers -> [Items -> Int]]
        /\ \A v \in Numbers : v # prior => backups'[v] = backups[v]
        /\ \A i \in Items : backups'[prior][i] = IF i = Head(upd.todo) THEN tree[i] ELSE backups[prior][i]
      BY <1>0, <1>1, <2>1, <2>2
  <2>5. \A i \in ItemsOf(prior) : i \in ToSet(upd'.todo) \/ backups'[prior][i] = prior
      BY <1>0, <1>1, <1>2, <2>2, <2>3, <2>4
  <2>6. backups'[prior] # Absent
    <3>1. Head(upd.todo) \in ItemsOf(prior)
        BY <2>2, <1>0
    <3>2. backups'[prior][Head(upd.todo)] = prior
        BY <3>1, <1>2, <2>2, <2>4
    <3>3. Absent[Head(upd.todo)] = -1
        BY <2>2 DEF Absent
    <3>4. prior # -1
        BY <1>1
    <3> QED BY <3>2, <3>3, <3>4
  <2>7. UpdTyped'
      BY <1>0, <2>3, <2>4 DEF Sound, UpdTyped
  <2>8. Rising'
      BY <1>0, <1>1, <2>3, <2>4 DEF Sound, Rising
  <2>9. BackedUp'
      BY <1>0, <1>2, <2>2, <2>3, <2>5, <2>6 DEF BackedUp
  <2>10. Laid' /\ Restoring'
      BY <2>3 DEF Laid, Laying, Restoring
  <2> QED BY <1>3, <2>7, <2>8, <2>9, <2>10 DEF Sound
<1>5. CASE BackupDone
  <2>1. /\ upd.todo = <<>>
        /\ backups' = [v \in DOMAIN backups |-> IF v \in Pruned(Backups) THEN Absent ELSE backups[v]]
        /\ upd' = [upd EXCEPT !.pc = "extract", !.todo = Extracted(upd.new)]
      BY <1>5 DEF BackupDone
  <2>2. Extracted(upd.new) \in Seq(Items) /\ ToSet(Extracted(upd.new)) = FilesOf(upd.new) \cup {"manifest"}
      BY <1>0, ExtractedFacts
  <2>3. upd' \in UpdRec /\ upd'.pc = "extract" /\ upd'.new = upd.new /\ upd'.todo = Extracted(upd.new)
      BY <1>0, <2>1, <2>2 DEF UpdRec, UpdPcs
  <2>4. prior \notin Pruned(Backups)
    <3>1. {w \in Backups : w > prior} = {}
      <4> SUFFICES ASSUME NEW w \in Backups PROVE ~(w > prior)
          OBVIOUS
      <4>1. w \in Numbers /\ backups[w] # Absent
          BY <1>0 DEF Backups
      <4>2. w <= prior /\ w \in Int
          BY <4>1, ReleaseFacts DEF Sound, Rising, Numbers
      <4> QED BY <4>2, <1>1
    <3>2. Cardinality({w \in Backups : w > prior}) = 0
        BY <3>1, FS_EmptySet
    <3>3. KEEP_BACKUPS \in Nat /\ KEEP_BACKUPS > 0
        BY ReleasesAre
    <3>4. ~(Cardinality({w \in Backups : w > prior}) >= KEEP_BACKUPS)
        BY <3>2, <3>3
    <3> QED BY <3>4 DEF Pruned
  <2>5. /\ \A v \in Numbers : backups'[v] = IF v \in Pruned(Backups) THEN Absent ELSE backups[v]
        /\ DOMAIN backups' = Numbers
      BY <1>0, <2>1
  <2>6. backups' \in [Numbers -> [Items -> Int]]
    <3>1. Absent \in [Items -> Int]
        BY DEF Absent
    <3> QED BY <1>0, <2>1, <3>1
  <2>7. backups'[prior] = backups[prior]
      BY <1>1, <2>4, <2>5
  <2>8. \A i \in Items : i \notin ToSet(<<>>)
      BY OffFacts
  <2>9. \A i \in ItemsOf(prior) : backups'[prior][i] = prior
      BY <1>0, <1>1, <2>1, <2>7, <2>8
  <2>10. UpdTyped'
      BY <1>0, <2>3, <2>6 DEF Sound, UpdTyped
  <2>11. Rising'
      BY <1>0, <2>3, <2>5 DEF Sound, Rising
  <2>12. BackedUp'
      BY <1>0, <2>3, <2>7, <2>9 DEF BackedUp
  <2>13. Laid' /\ Restoring'
      BY <2>2, <2>3 DEF Laid, Laying, Restoring
  <2> QED BY <1>3, <2>10, <2>11, <2>12, <2>13 DEF Sound
<1> QED BY <1>4, <1>5

\* Items of the new release are laid, and files that it no longer ships are taken away: VERSION is
\* touched by neither.
LEMMA LayingMoves ==
    ASSUME Sound, spoilt' # "yes", ExtractItem \/ PruneItem
    PROVE  Sound'
<1>0. /\ UNCHANGED <<backups, prior, spoilt>> /\ upd \in UpdRec
      /\ tree \in [Items -> Int] /\ tree["manifest"] \in Releases
      /\ upd.pc \in {"extract", "prune"} /\ upd.new \in Releases
    BY DEF ExtractItem, PruneItem, Doing, past, Sound, UpdTyped, Rising
<1>1. /\ "VERSION" \in Items /\ "manifest" \in Items /\ "manifest" # "VERSION"
      /\ FilesOf(upd.new) \subseteq Items /\ "VERSION" \notin FilesOf(upd.new) /\ upd.new \in Int
    BY <1>0, ReleaseFacts
<1>2. backups[prior] # Absent
    BY <1>0 DEF Sound, BackedUp
<1>3. CASE ExtractItem
  <2> DEFINE h == Head(upd.todo)
  <2>1. /\ upd.pc = "extract" /\ upd.todo # <<>> /\ upd.todo \in Seq(Items)
        /\ tree' = [tree EXCEPT ![h] = upd.new] /\ upd' = [upd EXCEPT !.todo = Tail(@)]
      BY <1>0, <1>3 DEF ExtractItem, Doing, Moved, Item, UpdRec
  <2>2. /\ h \in Items /\ Tail(upd.todo) \in Seq(Items)
        /\ ToSet(upd.todo) = ToSet(Tail(upd.todo)) \cup {h}
      BY <2>1, ListFacts
  <2>3. h # "VERSION"
      BY <1>1, <2>1, <2>2 DEF Sound, Laid
  <2>4. /\ upd' \in UpdRec /\ upd'.pc = "extract" /\ upd'.new = upd.new /\ upd'.todo = Tail(upd.todo)
      BY <1>0, <2>1, <2>2 DEF UpdRec
  <2>5. /\ tree' \in [Items -> Int] /\ tree'["VERSION"] = tree["VERSION"] /\ tree'["manifest"] \in Releases
        /\ \A i \in Items : tree'[i] = IF i = h THEN upd.new ELSE tree[i]
      BY <1>0, <1>1, <2>1, <2>2, <2>3
  <2>6. UpdTyped'
      BY <1>0, <2>4, <2>5 DEF Sound, UpdTyped
  <2>7. Rising' /\ BackedUp'
      BY <1>0, <1>2, <2>1, <2>4 DEF Sound, Rising, BackedUp
  <2>8. Laid'
      BY <1>1, <2>1, <2>2, <2>4, <2>5 DEF Sound, Laid, Laying
  <2>9. Standing'
      BY <1>0, <2>1, <2>4, <2>5 DEF Sound, Standing
  <2>10. Restoring'
      BY <2>1, <2>2, <2>4 DEF Restoring
  <2> QED BY <2>6, <2>7, <2>8, <2>9, <2>10 DEF Sound
<1>4. CASE PruneItem
  <2>1. upd.pc = "prune" /\ upd' = upd
      BY <1>4 DEF PruneItem, Doing
  <2>2. PICK h \in Stale : tree' = [tree EXCEPT ![h] = 0]
      BY <1>4 DEF PruneItem
  <2>3. h \in FilesOf(upd.old) /\ h \notin FilesOf(upd.new)
      BY DEF Stale
  <2>4. h # "VERSION" /\ h # "manifest" /\ h \in Items
      BY <2>3, ReleaseFacts DEF FilesOf
  <2>5. /\ tree' \in [Items -> Int] /\ tree'["VERSION"] = tree["VERSION"] /\ tree'["manifest"] = tree["manifest"]
        /\ \A i \in Items : i # h => tree'[i] = tree[i]
      BY <1>0, <1>1, <2>2, <2>4
  <2>6. UpdTyped'
      BY <1>0, <2>1, <2>5 DEF Sound, UpdTyped
  <2>7. Rising' /\ BackedUp'
      BY <1>0, <1>2, <2>1 DEF Sound, Rising, BackedUp
  <2>8. Laid'
      BY <1>1, <2>1, <2>3, <2>4, <2>5 DEF Sound, Laid, Laying
  <2>9. Standing'
      BY <1>0, <2>1, <2>5 DEF Sound, Standing
  <2>10. Restoring'
      BY <2>1 DEF Restoring
  <2> QED BY <2>6, <2>7, <2>8, <2>9, <2>10 DEF Sound
<1> QED BY <1>3, <1>4

\* VERSION is emptied, and then names the new release, of which everything else is laid by now.
LEMMA VersionMoves ==
    ASSUME Sound, spoilt' # "yes", EmptyVersion \/ WriteVersion
    PROVE  Sound'
<1>0. /\ UNCHANGED <<backups, prior, spoilt>> /\ upd \in UpdRec
      /\ tree \in [Items -> Int] /\ tree["manifest"] \in Releases
      /\ upd.pc \in {"version", "written"} /\ upd.new \in Releases /\ upd.new >= prior
      /\ backups[prior] # Absent
    BY DEF EmptyVersion, WriteVersion, Doing, past, Sound, UpdTyped, Rising, BackedUp
<1>1. /\ "VERSION" \in Items /\ "manifest" \in Items /\ "manifest" # "VERSION"
      /\ FilesOf(upd.new) \subseteq Items /\ "VERSION" \notin FilesOf(upd.new)
      /\ Releases \subseteq Int /\ 0 \in Int
  <2>1. Releases \subseteq Int
      BY ReleaseFacts
  <2> QED BY <1>0, <2>1, ReleaseFacts
<1>2. \A i \in FilesOf(upd.new) \cup {"manifest"} : tree[i] = upd.new
    BY <1>0 DEF Sound, Laid, Laying
<1>3. spoilt = "no" /\ prior \in Releases
    BY <1>0 DEF Sound, Standing, UpdTyped
<1>4. CASE EmptyVersion
  <2>1. /\ tree' = [tree EXCEPT !["VERSION"] = 0] /\ upd' = [upd EXCEPT !.pc = "written"]
      BY <1>4 DEF EmptyVersion
  <2>2. /\ tree' \in [Items -> Int] /\ tree'["VERSION"] = 0 /\ tree'["manifest"] = tree["manifest"]
        /\ \A i \in Items : i # "VERSION" => tree'[i] = tree[i]
      BY <1>0, <1>1, <2>1
  <2>3. upd' \in UpdRec /\ upd'.pc = "written" /\ upd'.new = upd.new
      BY <1>0, <2>1 DEF UpdRec, UpdPcs
  <2>4. UpdTyped'
      BY <1>0, <2>2, <2>3 DEF Sound, UpdTyped
  <2>5. Rising' /\ BackedUp'
      BY <1>0, <2>3 DEF Sound, Rising, BackedUp
  <2>6. Laid'
      BY <1>1, <1>2, <2>2, <2>3 DEF Laid, Laying
  <2>7. Standing' /\ Restoring'
      BY <1>0, <1>3, <2>2, <2>3 DEF Standing, Restoring
  <2> QED BY <2>4, <2>5, <2>6, <2>7 DEF Sound
<1>5. CASE WriteVersion
  <2>1. tree' = [tree EXCEPT !["VERSION"] = upd.new] /\ upd' = Off
      BY <1>5 DEF WriteVersion
  <2>2. /\ tree' \in [Items -> Int] /\ tree'["VERSION"] = upd.new /\ tree'["manifest"] = tree["manifest"]
        /\ \A i \in Items : i # "VERSION" => tree'[i] = tree[i]
      BY <1>0, <1>1, <2>1
  <2>3. Off \in UpdRec /\ Off.pc = "off"
      BY OffFacts
  <2>4. UpdTyped'
      BY <1>0, <2>1, <2>2, <2>3 DEF Sound, UpdTyped
  <2>5. Rising' /\ BackedUp'
      BY <1>0, <2>1, <2>3 DEF Sound, Rising, BackedUp
  <2>6. \A i \in ItemsOf(upd.new) : tree'[i] = upd.new
      BY <1>1, <1>2, <2>2 DEF ItemsOf
  <2>7. \A v : v = upd.new => Whole(v)'
      BY <1>0, <2>6, WholeFacts
  <2>8. Whole(tree["VERSION"])'
      BY <2>7, <2>2
  <2>9. upd.new = prior \/ upd.new > prior
    <3>1. upd.new \in Int /\ prior \in Int
        BY <1>0, <1>1, <1>3
    <3>2. upd.new >= prior
        BY <1>0
    <3> QED BY <3>1, <3>2
  <2>10. Standing'
      BY <1>0, <1>3, <2>1, <2>2, <2>3, <2>8, <2>9 DEF Standing
  <2>11. Laid' /\ Restoring'
      BY <2>1, <2>3 DEF Laid, Laying, Restoring
  <2> QED BY <2>4, <2>5, <2>10, <2>11 DEF Sound
<1> QED BY <1>4, <1>5

\* A rollback takes the newest backup, which is the one of the release in place.
LEMMA RollbackMoves ==
    ASSUME Sound, spoilt' # "yes", Rollback \/ RestoreItem
    PROVE  Sound'
<1>0. /\ UNCHANGED <<backups, prior, spoilt>> /\ upd \in UpdRec
      /\ tree \in [Items -> Int] /\ tree["manifest"] \in Releases
      /\ backups \in [Numbers -> [Items -> Int]]
    BY DEF Rollback, RestoreItem, Doing, disk, past, Sound, UpdTyped
<1>1. /\ prior \in Releases /\ prior \in Numbers /\ prior \in Int /\ prior >= 1
      /\ ItemsOf(prior) \subseteq Items /\ "manifest" \in Items /\ "manifest" \in ItemsOf(prior)
  <2>1. prior \in Releases
      BY DEF Sound, UpdTyped
  <2>2. Releases \subseteq Int
      BY ReleaseFacts
  <2> QED BY <2>1, <2>2, ReleaseFacts DEF ItemsOf
<1>2. CASE Rollback
  <2>1. /\ upd.pc = "off" /\ Backups # {} /\ UNCHANGED tree
        /\ \E order \in SetToSeqs({i \in Items : backups[Newest_][i] > 0}) :
               upd' = [Off EXCEPT !.pc = "rollback", !.new = Newest_, !.todo = order]
      BY <1>2 DEF Rollback, disk
  <2>2. backups[prior] # Absent
      BY <1>0, <2>1 DEF Sound, BackedUp, Backups
  <2>3. Newest_ = prior
    <3>1. prior \in Backups
        BY <1>0, <1>1, <2>2 DEF Backups
    <3>2. \A w \in Backups : w \in Int /\ w <= prior
      <4> SUFFICES ASSUME NEW w \in Backups PROVE w \in Int /\ w <= prior
          OBVIOUS
      <4>1. w \in Numbers /\ backups[w] # Absent
          BY <1>0 DEF Backups
      <4> QED BY <4>1, ReleaseFacts DEF Sound, Rising, Numbers
    <3>3. \A w \in Backups : prior >= w
        BY <3>2, <1>1
    <3>4. \A x \in Backups : (\A y \in Backups : x >= y) => x = prior
        BY <3>1, <3>2, <1>1
    <3> QED BY <3>1, <3>3, <3>4 DEF Newest_, Max
  <2> DEFINE kept == {i \in Items : backups[prior][i] > 0}
  <2>4. PICK order \in SetToSeqs(kept) :
            upd' = [Off EXCEPT !.pc = "rollback", !.new = prior, !.todo = order]
      BY <2>1, <2>3
  <2>5. IsFiniteSet(kept)
      BY ItemsAreFinite, FS_Subset
  <2>6. order \in Seq(kept) /\ ToSet(order) = kept
      BY <2>5, OrderFacts
  <2>7. order \in Seq(Items)
      BY <2>6
  <2>8. /\ upd' \in UpdRec /\ upd'.pc = "rollback" /\ upd'.new = prior /\ upd'.todo = order
      BY <1>1, <2>4, <2>7, OffFacts DEF UpdRec, UpdPcs
  <2>9. \A i \in ItemsOf(prior) : backups[prior][i] = prior
      BY <2>1, <2>2 DEF Sound, BackedUp
  <2>10. \A i \in ItemsOf(prior) : i \in ToSet(order)
      BY <1>1, <2>6, <2>9
  <2>11. UpdTyped'
      BY <1>0, <2>1, <2>8 DEF Sound, UpdTyped
  <2>12. Rising' /\ BackedUp'
      BY <1>0, <2>2, <2>8, <2>9 DEF Sound, Rising, BackedUp
  <2>13. Laid' /\ Restoring'
      BY <1>0, <2>2, <2>8, <2>10 DEF Laid, Laying, Restoring
  <2>14. Standing'
      BY <1>0, <2>8 DEF Sound, Standing, UpdTyped
  <2> QED BY <2>11, <2>12, <2>13, <2>14 DEF Sound
<1>3. CASE RestoreItem
  <2> DEFINE h == Head(upd.todo)
  <2>1. /\ upd.pc = "rollback" /\ upd.todo # <<>> /\ upd.todo \in Seq(Items)
        /\ tree' = [tree EXCEPT ![h] = backups[upd.new][h]] /\ upd' = [upd EXCEPT !.todo = Tail(@)]
      BY <1>0, <1>3 DEF RestoreItem, Doing, Moved, Item, UpdRec
  <2>2. /\ h \in Items /\ Tail(upd.todo) \in Seq(Items)
        /\ ToSet(upd.todo) = ToSet(Tail(upd.todo)) \cup {h}
      BY <2>1, ListFacts
  <2>3. /\ upd.new = prior /\ backups[prior] # Absent
        /\ \A i \in ItemsOf(prior) : i \in ToSet(upd.todo) \/ tree[i] = prior
        /\ \A i \in ItemsOf(prior) : backups[prior][i] = prior
      BY <2>1 DEF Sound, Restoring, BackedUp
  <2>4. backups[prior][h] \in Int
      BY <1>0, <1>1, <2>2
  <2>5. /\ tree' \in [Items -> Int]
        /\ \A i \in Items : tree'[i] = IF i = h THEN backups[prior][h] ELSE tree[i]
      BY <1>0, <2>1, <2>2, <2>3, <2>4
  <2>6. tree'["manifest"] \in Releases
      BY <1>0, <1>1, <2>3, <2>5
  <2>7. /\ upd' \in UpdRec /\ upd'.pc = "rollback" /\ upd'.new = prior /\ upd'.todo = Tail(upd.todo)
      BY <1>0, <2>1, <2>2, <2>3 DEF UpdRec
  <2>8. \A i \in ItemsOf(prior) : i \in ToSet(Tail(upd.todo)) \/ tree'[i] = prior
      BY <1>1, <2>2, <2>3, <2>5
  <2>9. UpdTyped'
      BY <1>0, <2>5, <2>6, <2>7 DEF Sound, UpdTyped
  <2>10. Rising' /\ BackedUp'
      BY <1>0, <2>3, <2>7 DEF Sound, Rising, BackedUp
  <2>11. Laid' /\ Restoring'
      BY <1>0, <2>3, <2>7, <2>8 DEF Laid, Laying, Restoring
  <2>12. Standing'
      BY <1>0, <2>7 DEF Sound, Standing, UpdTyped
  <2> QED BY <2>9, <2>10, <2>11, <2>12 DEF Sound
<1> QED BY <1>2, <1>3

\* What an update begins on: a release that stands whole is from now on the one in place.
LEMMA PriorFacts ==
    ASSUME Sound, NEW new \in Releases, NEW force \in BOOLEAN, Apply_(new, force)
    PROVE  \/ tree["VERSION"] \in Releases /\ Whole(tree["VERSION"]) /\ prior' = tree["VERSION"]
           \/ prior' = prior /\ \A w \in Releases : ~Whole(w)
<1>0. prior' = CHOOSE v \in Releases : IF \E w \in Releases : Whole(w) THEN Whole(v) ELSE v = prior
    BY DEF Apply_
<1>1. \A w \in Releases : Whole(w) => tree["VERSION"] = w
  <2> SUFFICES ASSUME NEW w \in Releases, Whole(w) PROVE tree["VERSION"] = w
      OBVIOUS
  <2> QED BY WholeFacts DEF ItemsOf
<1>2. prior \in Releases
    BY DEF Sound, UpdTyped
<1>3. CASE \E w \in Releases : Whole(w)
  <2>1. PICK w \in Releases : Whole(w)
      BY <1>3
  <2>2. prior' = CHOOSE v \in Releases : Whole(v)
      BY <1>0, <1>3
  <2>3. prior' \in Releases /\ Whole(CHOOSE v \in Releases : Whole(v))
      BY <2>1, <2>2
  <2>4. tree["VERSION"] = w /\ (CHOOSE v \in Releases : Whole(v)) = w
      BY <2>1, <2>2, <2>3, <1>1
  <2> QED BY <2>1, <2>2, <2>4
<1>4. CASE ~\E w \in Releases : Whole(w)
  <2>1. prior' = CHOOSE v \in Releases : v = prior
      BY <1>0, <1>4
  <2> QED BY <2>1, <1>2, <1>4
<1> QED BY <1>3, <1>4

\* An update begins: with a backup, unless one is there of the release in place.
LEMMA ApplyMoves ==
    ASSUME Sound, spoilt' # "yes", NEW new \in Releases, NEW force \in BOOLEAN, Apply_(new, force)
    PROVE  Sound'
<1> DEFINE W == tree["VERSION"]
           M == tree["manifest"]
<1>0. /\ UNCHANGED tree /\ upd.pc = "off"
      /\ tree \in [Items -> Int] /\ M \in Releases
      /\ backups \in [Numbers -> [Items -> Int]]
      /\ prior \in Releases
    BY DEF Apply_, Sound, UpdTyped
<1>1. Releases \subseteq Int /\ Releases \subseteq Numbers /\ \A v \in Releases : v >= 1
    BY ReleaseFacts
<1>2. spoilt = "no" /\ spoilt' = "no" /\ ~(new < prior')
    BY DEF Apply_, Sound, UpdTyped
<1>3. \/ W \in Releases /\ Whole(W) /\ prior' = W
      \/ prior' = prior /\ \A w \in Releases : ~Whole(w)
    BY PriorFacts
<1>4. W \in {0, prior} \/ (W \in Releases /\ W > prior /\ Whole(W))
    BY <1>0, <1>2 DEF Sound, Standing
<1>5. \A v : Whole(v)' <=> Whole(v)
    BY <1>0 DEF Whole
<1>6. prior' \in Releases /\ new >= prior'
  <2>1. prior' \in Releases
      BY <1>0, <1>3
  <2>2. prior' \in Int /\ new \in Int
      BY <2>1, <1>1
  <2>3. ~(new < prior')
      BY <1>2
  <2>4. new >= prior'
      BY <2>2, <2>3
  <2> QED BY <2>1, <2>4
<1>7. backups[prior] = Absent => Whole(prior) /\ \A v \in Numbers : backups[v] = Absent
    BY DEF Sound, BackedUp
<1>8. ASSUME W \in Releases, Whole(W) PROVE M = W
    BY <1>8, WholeFacts DEF ItemsOf
<1>9. CASE BackupKept
  <2>1. /\ upd' = [pc |-> "extract", new |-> new, old |-> M,
                   sync |-> M = 0 \/ LockOf[new] # LockOf[M], todo |-> Extracted(new)]
        /\ backups' = backups
      BY <1>9 DEF Apply_
  <2>2. Extracted(new) \in Seq(Items) /\ ToSet(Extracted(new)) = FilesOf(new) \cup {"manifest"}
      BY ExtractedFacts
  <2>3. (M = 0 \/ LockOf[new] # LockOf[M]) \in BOOLEAN
      OBVIOUS
  <2>4. /\ upd' \in UpdRec /\ upd'.pc = "extract" /\ upd'.new = new /\ upd'.todo = Extracted(new)
      BY <1>0, <1>1, <2>1, <2>2, <2>3 DEF UpdRec, UpdPcs
  <2>5. prior' = prior /\ backups[prior] # Absent /\ W \in {0, prior}
    <3>1. CASE W \in Releases /\ Whole(W) /\ prior' = W
      <4>1. ~MidUpdate
          BY <3>1, <1>8 DEF MidUpdate
      <4>2. backups[W] # Absent
          BY <4>1, <1>9 DEF BackupKept
      <4>3. W <= prior
          BY <3>1, <4>2, <1>1 DEF Sound, Rising
      <4>4. W = prior
          BY <3>1, <4>3, <1>0, <1>1, <1>4
      <4> QED BY <3>1, <4>2, <4>4
    <3>2. CASE prior' = prior /\ \A w \in Releases : ~Whole(w)
        BY <3>2, <1>0, <1>4, <1>7
    <3> QED BY <3>1, <3>2, <1>3
  <2>6. UpdTyped'
      BY <1>0, <1>2, <1>6, <2>1, <2>4 DEF UpdTyped
  <2>7. Rising'
      BY <1>6, <2>1, <2>4, <2>5 DEF Sound, Rising
  <2>8. BackedUp'
      BY <1>0, <2>1, <2>4, <2>5 DEF Sound, BackedUp
  <2>9. Laid' /\ Restoring'
      BY <2>2, <2>4 DEF Laid, Laying, Restoring
  <2>10. Standing'
      BY <1>0, <1>2, <2>4, <2>5 DEF Standing
  <2> QED BY <2>6, <2>7, <2>8, <2>9, <2>10 DEF Sound
<1>10. CASE ~BackupKept
  <2>1. M = W /\ backups[W] = Absent
      BY <1>0, <1>1, <1>10 DEF BackupKept, MidUpdate
  <2>2. W \in Releases /\ W # 0 /\ W \in Int
    <3>1. W \in Releases
        BY <1>0, <2>1
    <3>2. W \in Int /\ W >= 1
        BY <3>1, <1>1
    <3> QED BY <3>1, <3>2
  <2>3. Whole(W) /\ prior' = W /\ prior <= W
    <3>1. Whole(W) /\ prior <= W
        BY <1>0, <1>1, <1>4, <1>7, <2>1, <2>2
    <3> QED BY <3>1, <1>3, <2>2
  <2> DEFINE all == Shipped[W] \o <<"VERSION", "manifest">>
  <2>4. /\ upd' = [pc |-> "backup", new |-> new, old |-> W,
                   sync |-> W = 0 \/ LockOf[new] # LockOf[W], todo |-> all]
        /\ backups' = [backups EXCEPT ![W] = NoItems]
      BY <1>10, <2>1, <2>2 DEF Apply_
  <2>5. all \in Seq(Items) /\ ToSet(all) = ItemsOf(W)
      BY <2>2, BackedUpFacts
  <2>6. (W = 0 \/ LockOf[new] # LockOf[W]) \in BOOLEAN
      OBVIOUS
  <2> HIDE DEF all
  <2>7. /\ upd' \in UpdRec /\ upd'.pc = "backup" /\ upd'.new = new /\ upd'.todo = all
      BY <1>1, <2>2, <2>4, <2>5, <2>6 DEF UpdRec, UpdPcs
  <2>8. NoItems \in [Items -> Int] /\ NoItems # Absent
    <3>1. "VERSION" \in Items
        BY ReleaseFacts
    <3>2. NoItems["VERSION"] = 0 /\ Absent["VERSION"] = -1
        BY <3>1 DEF NoItems, Absent
    <3> QED BY <3>2 DEF NoItems
  <2>9. /\ backups' \in [Numbers -> [Items -> Int]] /\ backups'[W] = NoItems
        /\ \A v \in Numbers : v # W => backups'[v] = backups[v]
      BY <1>0, <1>1, <2>2, <2>4, <2>8
  <2>10. UpdTyped'
      BY <1>0, <1>2, <1>6, <2>7, <2>9 DEF UpdTyped
  <2>11. Rising'
    <3> SUFFICES ASSUME NEW v \in Numbers, backups'[v] # Absent PROVE v <= W
        BY <1>6, <2>3, <2>7 DEF Rising
    <3>1. CASE v = W
        BY <3>1, <2>2
    <3>2. CASE v # W
      <4>1. v <= prior
          BY <3>2, <2>9 DEF Sound, Rising
      <4>2. v \in Int /\ prior \in Int
          BY <1>0, <1>1, ReleaseFacts DEF Numbers
      <4> QED BY <4>1, <4>2, <2>2, <2>3
    <3> QED BY <3>1, <3>2
  <2>12. BackedUp'
      BY <1>0, <1>5, <2>3, <2>5, <2>7, <2>8, <2>9 DEF BackedUp
  <2>13. Laid' /\ Restoring'
      BY <2>7 DEF Laid, Laying, Restoring
  <2>14. Standing'
      BY <1>0, <1>2, <2>3 DEF Standing
  <2> QED BY <2>10, <2>11, <2>12, <2>13, <2>14 DEF Sound
<1> QED BY <1>9, <1>10

LEMMA UpdaterInvariance == UpdaterSpec => []UpdaterInv
<1>1. ASSUME UpdaterInv, [UpdaterNext]_updVars PROVE UpdaterInv'
  <2> SUFFICES ASSUME spoilt' # "yes" PROVE Sound'
      BY DEF UpdaterInv
  <2>1. CASE UNCHANGED updVars
      BY <1>1, <2>1 DEF updVars, UpdaterInv, Sound, UpdTyped, Rising, BackedUp, Laid, Standing, Restoring, Whole
  <2>2. CASE UpdaterNext
    <3>1. spoilt # "yes"
        BY <2>2 DEF UpdaterNext, Apply_, BackupItem, BackupDone, ExtractItem, ExtractDone, PruneItem, PruneDone,
                    SyncRuntime, Migrate, MigrateDone, EmptyVersion, WriteVersion, StepFails, Dies, Rollback,
                    RestoreItem, RollbackDone, StartBot, StopBot, Doing, past
    <3>2. Sound
        BY <1>1, <3>1 DEF UpdaterInv
    <3> QED BY <2>2, <3>2, StageMoves, BackupMoves, LayingMoves, VersionMoves, RollbackMoves, ApplyMoves
            DEF UpdaterNext
  <2> QED BY <1>1, <2>1, <2>2
<1> QED BY <1>1, UpdaterStart, PTL DEF UpdaterSpec

\* Whatever releases there are, and however often an update or a rollback fails, dies or is tried
\* again: a rollback that runs to its end leaves every file, the VERSION and the manifest of the
\* release that was in place.
THEOREM RollbackBringsBack == UpdaterSpec => []RollbackRestores
<1>1. ASSUME UpdaterInv PROVE RollbackRestores
  <2> SUFFICES ASSUME upd.pc = "rollback", upd.todo = <<>>, spoilt # "yes" PROVE Whole(prior)
      BY DEF RollbackRestores
  <2>1. Sound
      BY <1>1 DEF UpdaterInv
  <2>2. \A i \in ItemsOf(prior) : i \in ToSet(<<>>) \/ tree[i] = prior
      BY <2>1 DEF Sound, Restoring
  <2>3. \A i \in ItemsOf(prior) : tree[i] = prior
      BY <2>2, OffFacts
  <2>4. prior \in Releases
      BY <2>1 DEF Sound, UpdTyped
  <2> QED BY <2>3, <2>4, WholeFacts
<1> QED BY <1>1, UpdaterInvariance, PTL

----------------------------------------------------------------------------
(* Schedules: every mail once, and one message at a time                   *)

\* The largest of some numbers.
LEMMA Greatest ==
    ASSUME NEW n \in Nat, NEW S \in SUBSET (0 .. n), S # {}
    PROVE  \E x \in S : \A y \in S : y <= x
<1> DEFINE U == {n - x : x \in S}
<1>1. U \in SUBSET Nat /\ U # {}
  <2>1. \A x \in S : n - x \in Nat
      OBVIOUS
  <2> QED BY <2>1
<1>2. \A x \in S : n - x \in U /\ x \in Nat
    OBVIOUS
<1>3. PICK u \in U : \A y \in U : u <= y
  <2> HIDE DEF U
  <2> QED BY <1>1, Least
<1>4. PICK x \in S : u = n - x
    OBVIOUS
<1>5. ASSUME NEW y \in S PROVE y <= x
  <2>1. n - x <= n - y /\ x \in Nat /\ y \in Nat
      BY <1>2, <1>3, <1>4
  <2> QED BY <2>1
<1> QED BY <1>5

LEMMA SchedBounds ==
    /\ DAY \in Nat \ {0} /\ MaxMails \in Nat /\ Generations \in Nat \ {0} /\ MAX_PER_RUN \in Nat \ {0}
    /\ GRACE \in Nat /\ FIRST_RUN \in Nat
    /\ Times \subseteq 0 .. DAY - 1 /\ Times # {}
<1>1. DAY \in Nat /\ Times \subseteq 0 .. DAY - 1 /\ Times # {}
    BY SchedulesAre
<1>2. DAY # 0
  <2>1. PICK t \in Times : t \in 0 .. DAY - 1
      BY <1>1
  <2> QED BY <2>1, <1>1
<1>3. MaxMails \in Nat /\ Generations \in Nat \ {0} /\ MAX_PER_RUN \in Nat \ {0} /\ GRACE \in Nat /\ FIRST_RUN \in Nat
    BY SchedulesAre
<1> QED BY <1>1, <1>2, <1>3

\* Every time of the day comes within a day.
LEMMA WithinADay ==
    ASSUME NEW d \in Nat \ {0}, NEW w \in Nat, NEW c \in 0 .. d - 1
    PROVE  \E t \in w + 1 .. w + d : t % d = c
<1> DEFINE q == w \div d  r == w % d
<1>1. q \in Nat /\ r \in 0 .. d - 1 /\ w = d * q + r
    OBVIOUS
<1>2. \A k \in Nat : d * k \in Nat /\ (d * k + c) % d = c
    OBVIOUS
<1>3. d * (q + 1) = d * q + d
    BY <1>1
<1> HIDE DEF q, r
<1>4. d * q \in Nat /\ d * (q + 1) \in Nat /\ q + 1 \in Nat
    BY <1>1, <1>2
<1> DEFINE a == d * q  b == d * (q + 1)
<1>a. a \in Nat /\ b = a + d /\ w = a + r /\ (a + c) % d = c /\ (b + c) % d = c
    BY <1>1, <1>2, <1>3, <1>4
<1> HIDE DEF a, b
<1>5. CASE c > r
  <2>1. a + c \in w + 1 .. w + d
      BY <1>1, <1>a, <1>5
  <2> QED BY <2>1, <1>a
<1>6. CASE ~(c > r)
  <2>1. b + c \in w + 1 .. w + d
      BY <1>1, <1>a, <1>6
  <2> QED BY <2>1, <1>a
<1> QED BY <1>5, <1>6
\* What a place in the mailbox leaves to be read, and what it has passed.
Ahead(p, m) == p.validity # validity \/ Uid(m) > p.uid
\* The place that the run under way is about to save, and the messages it holds.
RunPlace == [uid |-> mailRun.newest, validity |-> mailRun.validity]
InHand(step, m) == loop.at = step /\ m \in mailRun.mails

SchedTyped ==
    /\ wall \in Nat /\ starts \in Nat /\ schedFaults \in Nat
    /\ loop \in [at : {"off", "waiting", "reading", "again", "sorting", "sending"}, left : 0 .. DAY]
    /\ loop.left > 0 => loop.at = "waiting"
    /\ box \in Seq(Nat) /\ Len(box) <= MaxMails
    /\ validity \in 1 .. Generations
    /\ mailRun \in [mails : SUBSET Mails, newest : Nat, validity : 0 .. validity]
    /\ Cardinality(mailRun.mails) <= MAX_PER_RUN
    /\ loop.at \notin {"sorting", "sending"} => mailRun = NoRun
    /\ place \in [uid : Nat, validity : 0 .. validity]
    /\ told \in [1 .. MaxMails -> Nat]
    /\ dropped \subseteq Mails
    /\ since \in [sent : Nat, starts : Nat]

\* No place lies beyond the newest message, and a mailbox is read again only after a renumbering.
Placed ==
    /\ place.validity = 0 => place.uid = 0
    /\ place.validity = validity => place.uid <= Uid(Len(box))
    /\ loop.at = "sorting" => mailRun.validity # 0
    /\ loop.at = "sorting" /\ mailRun.validity = validity => mailRun.newest <= Uid(Len(box))
    /\ loop.at = "again" => place.validity # validity

\* A message in hand, and one that is to be read again, has a renumbering or a fault left to pay for it.
Affordable(p, m, held) ==
    /\ told[m] <= validity + schedFaults
    /\ held => told[m] + 1 <= validity + schedFaults
    /\ Ahead(p, m) => told[m] + 1 <= validity + schedFaults
    /\ held /\ Ahead(p, m) => told[m] + 2 <= validity + schedFaults
Paid ==
    \A m \in 1 .. MaxMails :
        /\ Affordable(place, m, InHand("sending", m))
        /\ loop.at = "sorting" => Affordable(RunPlace, m, InHand("sorting", m))

\* What a place has passed was told, was dropped, or is in hand.
Accounted(p, m, held) == ~Ahead(p, m) => told[m] > 0 \/ m \in dropped \/ held
Accounts ==
    \A m \in Mails :
        /\ Accounted(place, m, InHand("sending", m))
        /\ loop.at = "sorting" => Accounted(RunPlace, m, InHand("sorting", m))

\* A sleep ends only after the time that it waits for, which starts the count of messages again.
Punctual ==
    /\ since.sent <= 1 + since.starts
    /\ loop.at = "waiting" =>
           \/ since.sent <= since.starts
           \/ \E t \in wall + 1 .. wall + loop.left : IsTime(t)

SchedInv == SchedTyped /\ Placed /\ Paid /\ Accounts /\ Punctual

\* The loop sleeps at least one tick, until the next of the times.
LEMMA WaitFacts ==
    ASSUME wall \in Nat
    PROVE  /\ Wait \in 1 .. DAY
           /\ \E t \in wall + 1 .. wall + Wait : IsTime(t)
<1> DEFINE S == {t \in wall + 1 .. wall + DAY : IsTime(t)}
           next(t) == IsTime(t) /\ \A u \in wall + 1 .. t - 1 : ~IsTime(u)
<1>1. DAY \in Nat \ {0} /\ Times # {} /\ Times \subseteq 0 .. DAY - 1
    BY SchedBounds
<1>2. PICK c \in Times : c \in 0 .. DAY - 1
    BY <1>1
<1>3. \E t \in wall + 1 .. wall + DAY : t % DAY = c
    BY <1>1, <1>2, WithinADay
<1>4. S # {}
    BY <1>2, <1>3 DEF IsTime
<1>5. S \in SUBSET Nat
    BY <1>1
<1>6. PICK x \in S : \A y \in S : x <= y
  <2> HIDE DEF S
  <2> QED BY <1>4, <1>5, Least
<1>7. x \in wall + 1 .. wall + DAY /\ IsTime(x)
    BY <1>6
<1>8. ASSUME NEW u \in wall + 1 .. x - 1 PROVE ~IsTime(u)
  <2>1. u \in wall + 1 .. wall + DAY /\ ~(x <= u)
      BY <1>1, <1>7, <1>8
  <2> QED BY <1>6, <2>1
<1>9. \E t \in wall + 1 .. wall + DAY : next(t)
    BY <1>7, <1>8
<1>10. NextRun \in wall + 1 .. wall + DAY /\ next(NextRun)
  <2> HIDE DEF next
  <2>1. NextRun = CHOOSE t \in wall + 1 .. wall + DAY : next(t)
      BY DEF NextRun, next
  <2> QED BY <1>9, <2>1
<1>11. NextRun \in Nat /\ NextRun - wall \in 1 .. DAY /\ NextRun - wall >= 1
    BY <1>1, <1>10
<1>12. Wait = NextRun - wall
  <2> DEFINE a == NextRun - wall
  <2>1. a \in Nat /\ a >= 1
      BY <1>11
  <2> HIDE DEF a
  <2>2. \E z \in {a, 1} : \A y \in {a, 1} : z >= y
      BY <2>1
  <2>3. Max({a, 1}) \in {a, 1} /\ \A y \in {a, 1} : Max({a, 1}) >= y
      BY <2>2 DEF Max
  <2>4. Max({a, 1}) = a
      BY <2>1, <2>3
  <2> QED BY <2>4 DEF Wait, a
<1>13. NextRun \in wall + 1 .. wall + Wait
    BY <1>11, <1>12
<1> QED BY <1>10, <1>11, <1>12, <1>13

\* In the order of arrival the uids rise, within one numbering from one.
LEMMA UidFacts ==
    ASSUME validity \in 1 .. Generations
    PROVE  /\ \A m \in Nat : Uid(m) \in Nat
           /\ \A m, n \in Nat : Uid(m) <= Uid(n) <=> m <= n
           /\ \A m \in Nat \ {0} : Uid(m) > 0
           /\ \A m, n \in Nat : Uid(m) = Uid(n) => m = n
<1> DEFINE base == (Generations - validity) * MaxMails
<1>1. Generations - validity \in Nat /\ MaxMails \in Nat
    BY SchedBounds
<1>2. base \in Nat
    BY <1>1
<1>3. \A m : Uid(m) = base + m
    BY DEF Uid
<1> HIDE DEF base
<1> QED BY <1>2, <1>3

\* A run looks at the last few.
LEMMA LatestFacts ==
    ASSUME NEW n \in Nat, NEW S \in SUBSET (1 .. n)
    PROVE  /\ Latest(S) \subseteq S
           /\ IsFiniteSet(Latest(S))
           /\ Cardinality(Latest(S)) <= MAX_PER_RUN
<1> DEFINE L == Latest(S)
<1>1. L \subseteq S
    BY DEF Latest
<1>2. IsFiniteSet(1 .. n)
    BY FS_Interval
<1>3. IsFiniteSet(S) /\ IsFiniteSet(L)
    BY <1>1, <1>2, FS_Subset
<1>4. MAX_PER_RUN \in Nat \ {0}
    BY SchedBounds
<1>5. CASE L = {}
    BY <1>1, <1>3, <1>4, <1>5, FS_EmptySet
<1>6. CASE L # {}
  <2>1. L \in SUBSET Nat
    <3>1. \A y \in 1 .. n : y \in Nat
        OBVIOUS
    <3> QED BY <1>1, <3>1
  <2>2. PICK x \in L : \A y \in L : x <= y
    <3> HIDE DEF L
    <3> QED BY <1>6, <2>1, Least
  <2> DEFINE later == {y \in S : y > x}
  <2>3. Cardinality(later) < MAX_PER_RUN
      BY <2>2 DEF Latest
  <2>4. IsFiniteSet(later) /\ Cardinality(later) \in Nat
      BY <1>3, FS_Subset, FS_CardinalityType
  <2>5. L \subseteq later \cup {x}
    <3> SUFFICES ASSUME NEW y \in L, y # x PROVE y > x
        BY <1>1
    <3>1. x \in Nat /\ y \in Nat /\ x <= y
        BY <2>1, <2>2
    <3> QED BY <3>1
  <2>6. x \notin later
      BY <2>1
  <2> HIDE DEF later
  <2>7. IsFiniteSet(later \cup {x}) /\ Cardinality(later \cup {x}) = Cardinality(later) + 1
      BY <2>4, <2>6, FS_AddElement
  <2>8. Cardinality(L) <= Cardinality(later \cup {x})
      BY <2>5, <2>7, FS_Subset
  <2>9. Cardinality(L) \in Nat
      BY <1>3, FS_CardinalityType
  <2> HIDE DEF L
  <2>10. Cardinality(L) <= MAX_PER_RUN
      BY <1>4, <2>3, <2>4, <2>7, <2>8, <2>9
  <2> QED BY <1>1, <1>3, <2>10 DEF L
<1> QED BY <1>5, <1>6

\* The place after a run is the newest uid that it saw, or the one before.
LEMMA NewestFacts ==
    ASSUME SchedTyped, NEW uid \in Nat
    PROVE  /\ NewSince(uid) \subseteq Mails
           /\ Newest(uid) \in Nat /\ uid <= Newest(uid)
           /\ \A m \in NewSince(uid) : Uid(m) <= Newest(uid)
           /\ uid <= Uid(Len(box)) => Newest(uid) <= Uid(Len(box))
<1> DEFINE N == NewSince(uid)  U == {Uid(m) : m \in N}
<1>1. Len(box) \in Nat /\ Mails = 1 .. Len(box)
    BY EntryFacts DEF SchedTyped, Mails
<1>2. N \subseteq Mails
    BY DEF NewSince, Searched
<1>3. validity \in 1 .. Generations
    BY DEF SchedTyped
<1>4. CASE N = {}
    BY <1>2, <1>4 DEF Newest
<1>5. CASE N # {}
  <2>1. N \in SUBSET (0 .. Len(box))
      BY <1>1, <1>2
  <2>2. PICK x \in N : \A y \in N : y <= x
    <3> HIDE DEF N
    <3> QED BY <1>1, <1>5, <2>1, Greatest
  <2>3. \A m \in N : m \in Nat /\ m <= Len(box)
      BY <2>1
  <2>4. x \in N /\ x \in Nat /\ Uid(x) \in U
      BY <2>2, <2>3
  <2>5. \A u \in U : u \in Nat /\ Uid(x) >= u
    <3> SUFFICES ASSUME NEW m \in N PROVE Uid(m) \in Nat /\ Uid(x) >= Uid(m)
        OBVIOUS
    <3>1. m \in Nat /\ x \in Nat /\ m <= x
        BY <2>2, <2>3
    <3>2. Uid(m) <= Uid(x) /\ Uid(m) \in Nat /\ Uid(x) \in Nat
        BY <1>3, <3>1, UidFacts
    <3> QED BY <3>2
  <2> HIDE DEF U
  <2>6. Max(U) \in U /\ \A u \in U : Max(U) >= u
      BY <2>4, <2>5 DEF Max
  <2>7. Max(U) = Uid(x) /\ Uid(x) \in Nat
    <3>1. Max(U) >= Uid(x) /\ Uid(x) >= Max(U) /\ Max(U) \in Nat /\ Uid(x) \in Nat
        BY <2>4, <2>5, <2>6
    <3> QED BY <3>1
  <2>8. Newest(uid) = Uid(x)
      BY <1>5, <2>7 DEF Newest, U
  <2>9. \A m \in N : Uid(m) <= Uid(x)
      BY <1>3, <2>2, <2>3, UidFacts
  <2>10. Uid(x) <= Uid(Len(box))
      BY <1>1, <1>3, <2>3, <2>4, UidFacts
  <2>11. uid <= Uid(x)
    <3>1. uid = 0 \/ Uid(x) > uid
        BY <2>2 DEF NewSince
    <3> QED BY <2>7, <3>1
  <2> QED BY <1>2, <2>7, <2>8, <2>9, <2>10, <2>11
<1> QED BY <1>4, <1>5

LEMMA SchedStart == SchedInit => SchedInv
<1> SUFFICES ASSUME SchedInit PROVE SchedInv
    OBVIOUS
<1>1. wall = 0 /\ loop = Off_ /\ mailRun = NoRun /\ box = <<>> /\ validity = 1 /\ place = NoPlace
    BY DEF SchedInit
<1>2. starts = 0 /\ schedFaults = 0 /\ told = [m \in 1 .. MaxMails |-> 0] /\ dropped = {}
      /\ since = [sent |-> 0, starts |-> 0]
    BY DEF SchedInit
<1>3. Mails = {} /\ Len(box) = 0 /\ box \in Seq(Nat)
    BY <1>1 DEF Mails
<1>4. Cardinality({}) = 0
    BY FS_EmptySet
<1>5. SchedTyped
    BY <1>1, <1>2, <1>3, <1>4, SchedBounds DEF SchedTyped, Off_, NoRun, NoPlace
<1>6. Placed
    BY <1>1 DEF Placed, Off_, NoPlace
<1>7. Paid
    BY <1>1, <1>2 DEF Paid, Affordable, InHand, Off_
<1>8. Accounts
    BY <1>3 DEF Accounts
<1>9. Punctual
    BY <1>1, <1>2 DEF Punctual, Off_
<1> QED BY <1>5, <1>6, <1>7, <1>8, <1>9 DEF SchedInv

\* Nothing is let go while the task stays where it is.
LEMMA RestKeeps ==
    ASSUME SchedInv, UNCHANGED <<mailRun, box, validity, place, told, dropped>>, loop'.at = loop.at,
           schedFaults' \in Nat, schedFaults <= schedFaults'
    PROVE  Placed' /\ Paid' /\ Accounts'
<1>1. \A m : Uid(m)' = Uid(m)
    BY DEF Uid
<1>2. Mails' = Mails /\ Len(box)' = Len(box) /\ RunPlace' = RunPlace
    BY DEF Mails, RunPlace
<1>3. Placed'
    BY <1>1, <1>2 DEF SchedInv, Placed
<1>4. Accounts'
    BY <1>1, <1>2 DEF SchedInv, Accounts, Accounted, Ahead, InHand
<1>5. \A m \in 1 .. MaxMails : told[m] \in Nat
    BY DEF SchedInv, SchedTyped
<1>6. validity \in Nat /\ schedFaults \in Nat
    BY DEF SchedInv, SchedTyped
<1>7. Paid'
  <2> SUFFICES ASSUME NEW m \in 1 .. MaxMails
               PROVE  /\ Affordable(place, m, InHand("sending", m))'
                      /\ loop'.at = "sorting" => Affordable(RunPlace, m, InHand("sorting", m))'
      BY DEF Paid
  <2>1. /\ Affordable(place, m, InHand("sending", m))
        /\ loop.at = "sorting" => Affordable(RunPlace, m, InHand("sorting", m))
      BY DEF SchedInv, Paid
  <2>2. told[m] \in Nat /\ told'[m] = told[m] /\ validity' = validity
      BY <1>5
  <2> QED BY <1>1, <1>2, <1>6, <2>1, <2>2 DEF Affordable, Ahead, InHand
<1> QED BY <1>3, <1>4, <1>7

\* A run that ends leaves its messages told or dropped, and the place as it is.
LEMMA EndKeeps ==
    ASSUME SchedInv, UNCHANGED <<box, validity, place, told>>, dropped \subseteq dropped',
           loop'.at \in {"off", "waiting", "reading"}, loop.at = "sending" => mailRun.mails \subseteq dropped',
           schedFaults' \in Nat, schedFaults <= schedFaults'
    PROVE  Placed' /\ Paid' /\ Accounts'
<1>1. \A m : Uid(m)' = Uid(m)
    BY DEF Uid
<1>2. Mails' = Mails /\ Len(box)' = Len(box)
    BY DEF Mails
<1>3. Placed'
    BY <1>1, <1>2 DEF SchedInv, Placed
<1>4. Accounts'
  <2> SUFFICES ASSUME NEW m \in Mails PROVE Accounted(place, m, InHand("sending", m))'
      BY <1>2 DEF Accounts
  <2>1. Accounted(place, m, InHand("sending", m))
      BY DEF SchedInv, Accounts
  <2> QED BY <1>1, <2>1 DEF Accounted, Ahead, InHand
<1>5. \A m \in 1 .. MaxMails : told[m] \in Nat
    BY DEF SchedInv, SchedTyped
<1>6. validity \in Nat /\ schedFaults \in Nat
    BY DEF SchedInv, SchedTyped
<1>7. Paid'
  <2> SUFFICES ASSUME NEW m \in 1 .. MaxMails PROVE Affordable(place, m, InHand("sending", m))'
      BY DEF Paid
  <2>1. Affordable(place, m, InHand("sending", m))
      BY DEF SchedInv, Paid
  <2>2. told[m] \in Nat /\ told'[m] = told[m] /\ validity' = validity
      BY <1>5
  <2> QED BY <1>1, <1>6, <2>1, <2>2 DEF Affordable, Ahead, InHand
<1> QED BY <1>3, <1>4, <1>7

LEMMA ArrivesKeeps ==
    ASSUME SchedInv, Arrives
    PROVE  SchedTyped' /\ Placed' /\ Paid' /\ Accounts'
<1>1. /\ box \in Seq(Nat) /\ wall \in Nat /\ Len(box) < MaxMails /\ box' = Append(box, wall)
      /\ UNCHANGED <<wall, loop, mailRun, validity, place, starts, schedFaults, told, dropped, since>>
    BY DEF Arrives, SchedInv, SchedTyped
<1>2. /\ box' \in Seq(Nat) /\ Len(box') = Len(box) + 1 /\ Len(box) \in Nat
      /\ Mails = 1 .. Len(box) /\ Mails' = 1 .. Len(box) + 1
    BY <1>1, AppendFacts, EntryFacts DEF Mails
<1>3. \A m : Uid(m)' = Uid(m)
    BY <1>1 DEF Uid
<1>4. SchedTyped'
  <2>1. Mails \subseteq Mails' /\ Len(box') <= MaxMails
      BY <1>1, <1>2, SchedBounds
  <2> QED BY <1>1, <1>2, <2>1 DEF SchedInv, SchedTyped
<1>5. validity \in 1 .. Generations
    BY DEF SchedInv, SchedTyped
<1>6. Uid(Len(box)) \in Nat /\ Uid(Len(box) + 1) \in Nat /\ Uid(Len(box)) < Uid(Len(box) + 1)
  <2> DEFINE a == Len(box)  b == Len(box) + 1
  <2>1. a \in Nat /\ b \in Nat /\ ~(b <= a)
      BY <1>2
  <2> HIDE DEF a, b
  <2>2. Uid(a) \in Nat /\ Uid(b) \in Nat /\ ~(Uid(b) <= Uid(a))
      BY <1>5, <2>1, UidFacts
  <2> QED BY <2>2 DEF a, b
<1>7. place.uid \in Nat /\ mailRun.newest \in Nat
    BY DEF SchedInv, SchedTyped
<1>8. Placed'
  <2>1. Uid(Len(box))' = Uid(Len(box) + 1)
      BY <1>1, <1>2 DEF Uid
  <2> QED BY <1>1, <1>6, <1>7, <2>1 DEF SchedInv, Placed
<1>9. Paid'
  <2> SUFFICES ASSUME NEW m \in 1 .. MaxMails
               PROVE  /\ Affordable(place, m, InHand("sending", m))'
                      /\ loop'.at = "sorting" => Affordable(RunPlace, m, InHand("sorting", m))'
      BY DEF Paid
  <2>1. /\ Affordable(place, m, InHand("sending", m))
        /\ loop.at = "sorting" => Affordable(RunPlace, m, InHand("sorting", m))
      BY DEF SchedInv, Paid
  <2> QED BY <1>1, <1>3, <2>1 DEF Affordable, Ahead, InHand, RunPlace
<1>10. Accounts'
  <2> SUFFICES ASSUME NEW m \in Mails'
               PROVE  /\ Accounted(place, m, InHand("sending", m))'
                      /\ loop'.at = "sorting" => Accounted(RunPlace, m, InHand("sorting", m))'
      BY DEF Accounts
  <2>1. CASE m \in Mails
    <3>1. /\ Accounted(place, m, InHand("sending", m))
          /\ loop.at = "sorting" => Accounted(RunPlace, m, InHand("sorting", m))
        BY <2>1 DEF SchedInv, Accounts
    <3> QED BY <1>1, <1>3, <3>1 DEF Accounted, Ahead, InHand, RunPlace
  <2>2. CASE m \notin Mails
    <3>1. m = Len(box) + 1
        BY <1>2, <2>2
    <3>2. place.validity = validity => Uid(m) > place.uid
        BY <1>6, <1>7, <3>1 DEF SchedInv, Placed
    <3>3. loop.at = "sorting" /\ mailRun.validity = validity => Uid(m) > mailRun.newest
        BY <1>6, <1>7, <3>1 DEF SchedInv, Placed
    <3> QED BY <1>1, <1>3, <3>2, <3>3 DEF Accounted, Ahead, RunPlace
  <2> QED BY <2>1, <2>2
<1> QED BY <1>4, <1>8, <1>9, <1>10

\* After a renumbering every message is to be read again, and may be told once more.
LEMMA RenumberedKeeps ==
    ASSUME SchedInv, Renumbered
    PROVE  SchedTyped' /\ Placed' /\ Paid' /\ Accounts'
<1>1. /\ validity < Generations /\ validity' = validity + 1
      /\ UNCHANGED <<wall, loop, mailRun, box, place, starts, schedFaults, told, dropped, since>>
    BY DEF Renumbered
<1>2. validity \in 1 .. Generations /\ schedFaults \in Nat /\ Generations \in Nat
    BY SchedBounds DEF SchedInv, SchedTyped
<1>3. Mails' = Mails
    BY <1>1 DEF Mails
<1>4. SchedTyped'
  <2>1. validity' \in 1 .. Generations /\ 0 .. validity \subseteq 0 .. validity'
      BY <1>1, <1>2
  <2>2. mailRun \in [mails : SUBSET Mails, newest : Nat, validity : 0 .. validity']
      BY <2>1 DEF SchedInv, SchedTyped
  <2>3. place \in [uid : Nat, validity : 0 .. validity']
      BY <2>1 DEF SchedInv, SchedTyped
  <2> QED BY <1>1, <1>3, <2>1, <2>2, <2>3 DEF SchedInv, SchedTyped
<1>5. place.validity # validity' /\ mailRun.validity # validity'
  <2>1. place.validity \in 0 .. validity /\ mailRun.validity \in 0 .. validity
      BY DEF SchedInv, SchedTyped
  <2> QED BY <1>1, <1>2, <2>1
<1>6. Placed'
    BY <1>1, <1>5 DEF SchedInv, Placed
<1>7. Accounts'
    BY <1>1, <1>5 DEF Accounts, Accounted, Ahead, RunPlace
<1>8. Paid'
  <2> SUFFICES ASSUME NEW m \in 1 .. MaxMails
               PROVE  /\ Affordable(place, m, InHand("sending", m))'
                      /\ loop'.at = "sorting" => Affordable(RunPlace, m, InHand("sorting", m))'
      BY DEF Paid
  <2>1. /\ Affordable(place, m, InHand("sending", m))
        /\ loop.at = "sorting" => Affordable(RunPlace, m, InHand("sorting", m))
      BY DEF SchedInv, Paid
  <2>2. told[m] \in Nat /\ told'[m] = told[m]
      BY <1>1 DEF SchedInv, SchedTyped
  <2> QED BY <1>1, <1>2, <2>1, <2>2 DEF Affordable, InHand
<1> QED BY <1>4, <1>6, <1>7, <1>8

\* A reading takes what lies ahead of the place, and its newest uid passes what it takes or drops.
LEMMA FetchKeeps ==
    ASSUME SchedInv, NEW uid \in Nat, Fetched(uid), UNCHANGED <<outside, starts, since, place, told>>,
           loop.at \in {"reading", "again"},
           \/ place.validity # validity /\ uid = 0
           \/ place.validity = validity /\ uid = place.uid
    PROVE  SchedTyped' /\ Placed' /\ Paid' /\ Accounts'
<1> DEFINE N == NewSince(uid)
<1>1. SchedTyped /\ Placed /\ Paid /\ Accounts
    BY DEF SchedInv
<1>2. /\ N \subseteq Mails /\ Newest(uid) \in Nat /\ uid <= Newest(uid)
      /\ \A m \in N : Uid(m) <= Newest(uid)
      /\ uid <= Uid(Len(box)) => Newest(uid) <= Uid(Len(box))
    BY <1>1, NewestFacts
<1>3. Len(box) \in Nat /\ Mails = 1 .. Len(box) /\ Mails \subseteq 1 .. MaxMails
  <2>1. Len(box) \in Nat /\ Mails = 1 .. Len(box) /\ Len(box) <= MaxMails /\ MaxMails \in Nat
      BY <1>1, EntryFacts, SchedBounds DEF SchedTyped, Mails
  <2> QED BY <2>1
<1>4. Latest(N) \subseteq N /\ IsFiniteSet(Latest(N)) /\ Cardinality(Latest(N)) <= MAX_PER_RUN
  <2> HIDE DEF N
  <2> QED BY <1>2, <1>3, LatestFacts
<1>5. wall' = wall /\ box' = box /\ validity' = validity
    BY DEF outside
<1>6. /\ loop' = AtStep("sorting") /\ schedFaults' \in Nat /\ schedFaults <= schedFaults'
      /\ mailRun'.mails \subseteq Latest(N) /\ mailRun'.newest = Newest(uid) /\ mailRun'.validity = validity
      /\ mailRun' = [mails |-> mailRun'.mails, newest |-> Newest(uid), validity |-> validity]
      /\ dropped \subseteq dropped' /\ dropped' \subseteq Mails
      /\ N \ mailRun'.mails \subseteq dropped'
      /\ uid = 0 => Mails \ Searched(0) \subseteq dropped'
  <2>1. schedFaults \in Nat /\ dropped \subseteq Mails /\ MaxSchedFaults \in Nat
      BY <1>1, SchedulesAre DEF SchedTyped
  <2>2. CASE UNCHANGED schedFaults /\ Found(uid)
      BY <1>2, <1>4, <2>1, <2>2 DEF Found
  <2>3. CASE Unfetched(uid)
    <3>1. PICK m \in Latest(N) :
             /\ dropped' = dropped \cup (N \ Latest(N)) \cup {m} \cup (IF uid = 0 THEN Mails \ Searched(0) ELSE {})
             /\ mailRun' = [mails |-> Latest(N) \ {m}, newest |-> Newest(uid), validity |-> validity]
        BY <2>3 DEF Unfetched
    <3>2. loop' = AtStep("sorting") /\ schedFaults' = schedFaults + 1
        BY <2>3 DEF Unfetched, Faulted
    <3>3. schedFaults' \in Nat /\ schedFaults <= schedFaults'
        BY <2>1, <3>2
    <3> QED BY <1>2, <1>4, <2>1, <3>1, <3>2, <3>3
  <2> QED BY <2>2, <2>3 DEF Fetched
<1> HIDE DEF N
<1>7. validity \in 1 .. Generations /\ validity \in Nat \ {0} /\ schedFaults \in Nat
    BY <1>1, SchedBounds DEF SchedTyped
<1>8. Mails' = Mails /\ \A m : Uid(m)' = Uid(m)
    BY <1>5 DEF Mails, Uid
<1>9. SchedTyped'
  <2>1. Cardinality(mailRun'.mails) <= MAX_PER_RUN
    <3>1. IsFiniteSet(mailRun'.mails) /\ Cardinality(mailRun'.mails) <= Cardinality(Latest(N))
        BY <1>4, <1>6, FS_Subset
    <3>2. Cardinality(mailRun'.mails) \in Nat /\ Cardinality(Latest(N)) \in Nat /\ MAX_PER_RUN \in Nat
        BY <1>4, <3>1, FS_CardinalityType, SchedBounds
    <3> QED BY <1>4, <3>1, <3>2
  <2>2. mailRun' \in [mails : SUBSET Mails, newest : Nat, validity : 0 .. validity]
      BY <1>2, <1>4, <1>6, <1>7
  <2>3. loop' = [at |-> "sorting", left |-> 0]
      BY <1>6 DEF AtStep
  <2>4. DAY \in Nat
      BY SchedBounds
  <2> QED BY <1>1, <1>5, <1>6, <1>8, <2>1, <2>2, <2>3, <2>4 DEF SchedTyped
<1>10. loop'.at = "sorting"
    BY <1>6 DEF AtStep
<1>11. Uid(Len(box)) \in Nat
    BY <1>3, <1>7, UidFacts
<1>12. uid <= Uid(Len(box))
    BY <1>1, <1>11 DEF Placed
<1>13. Placed'
    BY <1>1, <1>2, <1>5, <1>6, <1>7, <1>8, <1>10, <1>12 DEF Placed
\* What the new place leaves to be read, and what is in hand, the old place left to be read.
<1>14. ASSUME NEW m \in 1 .. MaxMails
       PROVE  /\ m \in mailRun'.mails => Ahead(place, m) /\ ~Ahead(RunPlace, m)'
              /\ Ahead(RunPlace, m)' => Ahead(place, m)
  <2>1. Uid(m) \in Nat /\ Uid(m) > 0
      BY <1>7, UidFacts
  <2>2. Ahead(RunPlace, m)' <=> Uid(m) > Newest(uid)
      BY <1>5, <1>6, <1>8 DEF Ahead, RunPlace
  <2>3. m \in mailRun'.mails => m \in N /\ Uid(m) <= Newest(uid)
      BY <1>2, <1>4, <1>6
  <2>4. m \in N => Ahead(place, m)
    <3>1. m \in N => uid = 0 \/ Uid(m) > uid
        BY DEF N, NewSince
    <3> QED BY <2>1, <3>1 DEF Ahead
  <2>5. Uid(m) > Newest(uid) => Ahead(place, m)
    <3>1. Uid(m) > Newest(uid) => Uid(m) > uid
        BY <1>2, <2>1
    <3> QED BY <3>1 DEF Ahead
  <2>6. Uid(m) <= Newest(uid) => ~(Uid(m) > Newest(uid))
      BY <1>2, <2>1
  <2> QED BY <2>2, <2>3, <2>4, <2>5, <2>6
<1>15. Paid'
  <2> SUFFICES ASSUME NEW m \in 1 .. MaxMails
               PROVE  /\ Affordable(place, m, InHand("sending", m))'
                      /\ Affordable(RunPlace, m, InHand("sorting", m))'
      BY DEF Paid
  <2>1. Affordable(place, m, InHand("sending", m))
      BY <1>1 DEF Paid
  <2>2. told[m] \in Nat /\ told'[m] = told[m]
      BY <1>1 DEF SchedTyped
  <2>3. ~InHand("sending", m)' /\ (InHand("sorting", m)' => m \in mailRun'.mails)
      BY <1>10 DEF InHand
  <2>4. Ahead(place, m)' <=> Ahead(place, m)
      BY <1>5, <1>8 DEF Ahead
  <2>5. /\ told[m] <= validity + schedFaults
        /\ Ahead(place, m) => told[m] + 1 <= validity + schedFaults
      BY <2>1 DEF Affordable
  <2>6. /\ told'[m] <= validity' + schedFaults'
        /\ Ahead(place, m) => told'[m] + 1 <= validity' + schedFaults'
      BY <1>5, <1>6, <1>7, <2>2, <2>5
  <2>7. Affordable(place, m, InHand("sending", m))'
      BY <2>3, <2>4, <2>6 DEF Affordable
  <2>8. Affordable(RunPlace, m, InHand("sorting", m))'
      BY <1>14, <2>3, <2>6 DEF Affordable
  <2> QED BY <2>7, <2>8
<1>16. Accounts'
  <2> SUFFICES ASSUME NEW m \in Mails
               PROVE  /\ Accounted(place, m, InHand("sending", m))'
                      /\ Accounted(RunPlace, m, InHand("sorting", m))'
      BY <1>8 DEF Accounts
  <2>1. Accounted(place, m, InHand("sending", m))
      BY <1>1 DEF Accounts
  <2>2. ~InHand("sending", m)
      BY DEF InHand
  <2>3. ~Ahead(place, m) => told[m] > 0 \/ m \in dropped'
      BY <1>6, <2>1, <2>2 DEF Accounted
  <2>4. Ahead(place, m)' <=> Ahead(place, m)
      BY <1>5, <1>8 DEF Ahead
  <2>5. Uid(m) \in Nat /\ Uid(m) > 0
      BY <1>3, <1>7, UidFacts
  <2>6. ~Ahead(RunPlace, m)' => Uid(m) <= Newest(uid)
      BY <1>2, <1>5, <1>6, <1>8, <2>5 DEF Ahead, RunPlace
  <2>7. InHand("sorting", m)' <=> m \in mailRun'.mails
      BY <1>10 DEF InHand
  <2>8. m \in N \/ ~Ahead(place, m) \/ m \in dropped'
    <3>1. CASE uid = 0
      <4>1. m \in Searched(0) => m \in N
          BY <3>1 DEF N, NewSince
      <4> QED BY <1>6, <3>1, <4>1
    <3>2. CASE uid # 0
      <4>1. place.validity = validity /\ uid = place.uid
          BY <3>2
      <4>2. Uid(m) > uid => m \in N
          BY <3>2 DEF N, NewSince, Searched
      <4> QED BY <4>1, <4>2 DEF Ahead
    <3> QED BY <3>1, <3>2
  <2>9. m \in N => m \in mailRun'.mails \/ m \in dropped'
      BY <1>6
  <2> QED BY <2>3, <2>4, <2>7, <2>8, <2>9 DEF Accounted
<1> QED BY <1>9, <1>13, <1>15, <1>16

\* The new place is saved before anything is sent, or a fault keeps the old one.
LEMMA SortedKeeps ==
    ASSUME SchedInv, Sorted
    PROVE  SchedTyped' /\ Placed' /\ Paid' /\ Accounts'
<1>1. /\ SchedTyped /\ Placed /\ Paid /\ Accounts
      /\ loop.at = "sorting" /\ UNCHANGED <<wall, box, validity, starts, since, told, dropped>>
    BY DEF SchedInv, Sorted, Step, outside
<1>2. Mails' = Mails /\ Len(box)' = Len(box) /\ \A m : Uid(m)' = Uid(m)
    BY <1>1 DEF Mails, Uid
<1>3. schedFaults \in Nat /\ validity \in Nat \ {0} /\ wall \in Nat /\ DAY \in Nat /\ MAX_PER_RUN \in Nat
    BY <1>1, SchedBounds DEF SchedTyped
<1>4. /\ schedFaults' \in Nat /\ schedFaults <= schedFaults'
      /\ \/ place' = RunPlace
         \/ place' = place /\ schedFaults' = schedFaults + 1
    BY <1>1, <1>3 DEF Sorted, Saves, PlaceSaved, Faulted, RunPlace
<1>5. \/ loop' = Asleep /\ mailRun' = NoRun /\ mailRun.mails = {}
      \/ loop' = AtStep("sending") /\ mailRun' = mailRun
    BY <1>1 DEF Sorted, Done
<1>6. /\ loop' \in [at : {"waiting", "sending"}, left : 0 .. DAY]
      /\ loop'.left > 0 => loop'.at = "waiting"
    BY <1>3, <1>5, WaitFacts DEF Asleep, AtStep
<1>8. mailRun \in [mails : SUBSET Mails, newest : Nat, validity : 0 .. validity]
    BY <1>1 DEF SchedTyped
<1>9. place' \in [uid : Nat, validity : 0 .. validity]
    BY <1>1, <1>4, <1>8 DEF SchedTyped, RunPlace
<1>10. /\ mailRun' \in [mails : SUBSET Mails, newest : Nat, validity : 0 .. validity]
       /\ Cardinality(mailRun'.mails) <= MAX_PER_RUN
  <2>1. CASE mailRun' = mailRun
      BY <1>1, <2>1 DEF SchedTyped
  <2>2. CASE mailRun' = NoRun
    <3>1. mailRun'.mails = {} /\ Cardinality({}) = 0
        BY <2>2, FS_EmptySet DEF NoRun
    <3> QED BY <1>3, <2>2, <3>1 DEF NoRun
  <2> QED BY <1>5, <2>1, <2>2
<1>11. SchedTyped'
  <2>1. loop' \in [at : {"off", "waiting", "reading", "again", "sorting", "sending"}, left : 0 .. DAY]
      BY <1>6
  <2>2. loop'.at \notin {"sorting", "sending"} => mailRun' = NoRun
      BY <1>5 DEF AtStep
  <2> QED BY <1>1, <1>2, <1>4, <1>6, <1>9, <1>10, <2>1, <2>2 DEF SchedTyped
<1>12. loop'.at \in {"waiting", "sending"}
    BY <1>5 DEF Asleep, AtStep
<1>13. Placed'
    BY <1>1, <1>2, <1>4, <1>12 DEF Placed, RunPlace
<1>14. \A m : InHand("sending", m)' => InHand("sorting", m)
    BY <1>1, <1>5 DEF InHand, Asleep, AtStep
<1>15. \A m : InHand("sorting", m) => InHand("sending", m)'
    BY <1>1, <1>5 DEF InHand, Asleep, AtStep
<1>16. \A m : ~InHand("sending", m)
    BY <1>1 DEF InHand
<1>17. \/ \A m : Ahead(place, m)' <=> Ahead(RunPlace, m)
       \/ schedFaults' = schedFaults + 1 /\ \A m : Ahead(place, m)' <=> Ahead(place, m)
    BY <1>1, <1>2, <1>4 DEF Ahead
<1>18. Paid'
  <2> SUFFICES ASSUME NEW m \in 1 .. MaxMails PROVE Affordable(place, m, InHand("sending", m))'
      BY <1>12 DEF Paid
  <2>1. /\ Affordable(place, m, FALSE)
        /\ Affordable(RunPlace, m, InHand("sorting", m))
      BY <1>1, <1>16 DEF Paid, Affordable
  <2>2. told[m] \in Nat /\ told'[m] = told[m] /\ validity' = validity
      BY <1>1 DEF SchedTyped
  <2>3. CASE \A n : Ahead(place, n)' <=> Ahead(RunPlace, n)
      BY <1>3, <1>4, <1>14, <2>1, <2>2, <2>3 DEF Affordable
  <2>4. CASE schedFaults' = schedFaults + 1 /\ \A n : Ahead(place, n)' <=> Ahead(place, n)
      BY <1>3, <2>1, <2>2, <2>4 DEF Affordable
  <2> QED BY <1>17, <2>3, <2>4
<1>19. Accounts'
  <2> SUFFICES ASSUME NEW m \in Mails PROVE Accounted(place, m, InHand("sending", m))'
      BY <1>2, <1>12 DEF Accounts
  <2>1. /\ Accounted(place, m, FALSE)
        /\ Accounted(RunPlace, m, InHand("sorting", m))
      BY <1>1, <1>16 DEF Accounts, Accounted
  <2>2. told'[m] = told[m] /\ dropped' = dropped
      BY <1>1
  <2> QED BY <1>15, <1>17, <2>1, <2>2 DEF Accounted
<1> QED BY <1>11, <1>13, <1>18, <1>19

\* One message tells what is in hand, which the place has passed or a fault has paid for.
LEMMA SentKeeps ==
    ASSUME SchedInv, Sent
    PROVE  SchedTyped' /\ Placed' /\ Paid' /\ Accounts'
<1>1. /\ SchedTyped /\ Placed /\ Paid /\ Accounts
      /\ loop.at = "sending" /\ loop' = Asleep /\ mailRun' = NoRun
      /\ UNCHANGED <<wall, box, validity, starts, since, place, schedFaults, dropped>>
      /\ told' = [m \in DOMAIN told |-> told[m] + (IF m \in mailRun.mails THEN 1 ELSE 0)]
    BY DEF SchedInv, Sent, Step, outside, Done
<1>2. Mails' = Mails /\ Len(box)' = Len(box) /\ \A m : Uid(m)' = Uid(m)
    BY <1>1 DEF Mails, Uid
<1>3. schedFaults \in Nat /\ validity \in Nat \ {0} /\ wall \in Nat /\ DAY \in Nat /\ MAX_PER_RUN \in Nat
    BY <1>1, SchedBounds DEF SchedTyped
<1>4. loop' = [at |-> "waiting", left |-> Wait] /\ Wait \in 0 .. DAY
    BY <1>1, <1>3, WaitFacts DEF Asleep
<1>5. /\ told' \in [1 .. MaxMails -> Nat]
      /\ \A m \in 1 .. MaxMails :
             /\ told[m] \in Nat
             /\ m \in mailRun.mails => told'[m] = told[m] + 1
             /\ m \notin mailRun.mails => told'[m] = told[m]
    BY <1>1 DEF SchedTyped
<1>6. SchedTyped'
  <2>1. Cardinality({}) = 0
      BY FS_EmptySet
  <2>2. mailRun' \in [mails : SUBSET Mails, newest : Nat, validity : 0 .. validity] /\ Cardinality(mailRun'.mails) <= MAX_PER_RUN
      BY <1>1, <1>3, <2>1 DEF NoRun
  <2> QED BY <1>1, <1>2, <1>4, <1>5, <2>2 DEF SchedTyped
<1>7. Placed'
    BY <1>1, <1>2, <1>4 DEF Placed
<1>8. \A m : ~InHand("sending", m)' /\ (InHand("sending", m) <=> m \in mailRun.mails)
    BY <1>1, <1>4 DEF InHand
<1>9. \A m : Ahead(place, m)' <=> Ahead(place, m)
    BY <1>1, <1>2 DEF Ahead
<1>10. Paid'
  <2> SUFFICES ASSUME NEW m \in 1 .. MaxMails PROVE Affordable(place, m, FALSE)'
      BY <1>4, <1>8 DEF Paid, Affordable
  <2>1. Affordable(place, m, m \in mailRun.mails)
      BY <1>1, <1>8 DEF Paid, Affordable
  <2>2. CASE m \in mailRun.mails
      BY <1>1, <1>3, <1>5, <1>9, <2>1, <2>2 DEF Affordable
  <2>3. CASE m \notin mailRun.mails
      BY <1>1, <1>3, <1>5, <1>9, <2>1, <2>3 DEF Affordable
  <2> QED BY <2>2, <2>3
<1>11. Mails \subseteq 1 .. MaxMails
  <2>1. Len(box) \in Nat /\ Mails = 1 .. Len(box) /\ Len(box) <= MaxMails /\ MaxMails \in Nat
      BY <1>1, EntryFacts, SchedBounds DEF SchedTyped, Mails
  <2> QED BY <2>1
<1>12. Accounts'
  <2> SUFFICES ASSUME NEW m \in Mails PROVE ~Ahead(place, m)' => told'[m] > 0 \/ m \in dropped'
      BY <1>2, <1>4 DEF Accounts, Accounted
  <2>1. ~Ahead(place, m) => told[m] > 0 \/ m \in dropped \/ m \in mailRun.mails
      BY <1>1, <1>8 DEF Accounts, Accounted
  <2>2. told[m] > 0 \/ m \in mailRun.mails => told'[m] > 0
      BY <1>5, <1>11
  <2> QED BY <1>1, <1>9, <2>1, <2>2
<1> QED BY <1>6, <1>7, <1>10, <1>12

\* The steps that only move the task, or the clock.
LEMMA TaskTyped ==
    ASSUME SchedInv, UNCHANGED <<box, validity, place, told>>,
           wall' \in Nat, starts' \in Nat, schedFaults' \in Nat, since' \in [sent : Nat, starts : Nat],
           dropped' \subseteq Mails,
           \/ loop' = loop /\ mailRun' = mailRun
           \/ loop'.at = "waiting" /\ loop.at = "waiting" /\ mailRun' = mailRun /\ loop' \in [at : {"waiting"}, left : 0 .. DAY]
           \/ mailRun' = NoRun /\ (loop' = Off_ \/ loop' = Asleep \/ loop' = AtStep("reading") \/ loop' = AtStep("again"))
    PROVE  SchedTyped'
<1>1. SchedTyped
    BY DEF SchedInv
<1>2. Mails' = Mails
    BY DEF Mails
<1>3. wall \in Nat /\ validity \in Nat /\ DAY \in Nat /\ MAX_PER_RUN \in Nat
    BY <1>1, SchedBounds DEF SchedTyped
<1>4. Off_ \in [at : {"off"}, left : {0}] /\ Asleep \in [at : {"waiting"}, left : 0 .. DAY]
      /\ AtStep("reading") \in [at : {"reading"}, left : {0}] /\ AtStep("again") \in [at : {"again"}, left : {0}]
    BY <1>3, WaitFacts DEF Off_, Asleep, AtStep
<1>5. NoRun \in [mails : SUBSET Mails, newest : Nat, validity : 0 .. validity] /\ Cardinality(NoRun.mails) <= MAX_PER_RUN
  <2>1. NoRun.mails = {} /\ Cardinality({}) = 0
      BY FS_EmptySet DEF NoRun
  <2> QED BY <1>3, <2>1 DEF NoRun
<1>6. /\ mailRun' \in [mails : SUBSET Mails, newest : Nat, validity : 0 .. validity]
      /\ Cardinality(mailRun'.mails) <= MAX_PER_RUN
      /\ loop'.at \notin {"sorting", "sending"} => mailRun' = NoRun
    BY <1>1, <1>4, <1>5 DEF SchedTyped
<1>7. /\ loop' \in [at : {"off", "waiting", "reading", "again", "sorting", "sending"}, left : 0 .. DAY]
      /\ loop'.left > 0 => loop'.at = "waiting"
  <2> DEFINE Stages == {"off", "waiting", "reading", "again", "sorting", "sending"}
             Good(l) == l \in [at : Stages, left : 0 .. DAY] /\ (l.left > 0 => l.at = "waiting")
  <2>1. Good(loop)
      BY <1>1 DEF SchedTyped
  <2>2. Good(Off_) /\ Good(AtStep("reading")) /\ Good(AtStep("again"))
      BY <1>3 DEF Off_, AtStep
  <2>3. Good(Asleep)
      BY <1>4
  <2>4. loop' \in [at : {"waiting"}, left : 0 .. DAY] => Good(loop')
      OBVIOUS
  <2>5. \/ loop' = loop \/ loop' \in [at : {"waiting"}, left : 0 .. DAY]
        \/ loop' = Off_ \/ loop' = Asleep \/ loop' = AtStep("reading") \/ loop' = AtStep("again")
      OBVIOUS
  <2>6. Good(loop')
    <3> HIDE DEF Good
    <3> QED BY ONLY <2>1, <2>2, <2>3, <2>4, <2>5
  <2> QED BY <2>6
<1> QED BY <1>1, <1>2, <1>6, <1>7 DEF SchedTyped

LEMMA TaskSteps ==
    ASSUME SchedInv,
           Tick \/ Suspended \/ StartLoop \/ Fire \/ Stop \/ SwitchedOff \/ MailboxDown \/ SendFails
    PROVE  SchedTyped' /\ Placed' /\ Paid' /\ Accounts'
<1>1. SchedTyped
    BY DEF SchedInv
<1>2. /\ wall \in Nat /\ starts \in Nat /\ schedFaults \in Nat /\ schedFaults <= schedFaults
      /\ since \in [sent : Nat, starts : Nat] /\ dropped \subseteq Mails /\ mailRun.mails \subseteq Mails
      /\ loop.at \notin {"sorting", "sending"} => mailRun = NoRun
    BY <1>1 DEF SchedTyped
<1>3. DAY \div 2 \in Nat
    BY SchedBounds
<1>4. ASSUME NEW ticks \in Nat, Passing(ticks) PROVE wall' \in Nat /\ since' \in [sent : Nat, starts : Nat]
    BY <1>2, <1>4 DEF Passing
<1>5. ASSUME Faulted(1) PROVE schedFaults' \in Nat /\ schedFaults <= schedFaults'
    BY <1>2, <1>5 DEF Faulted
<1>6. CASE Tick
  <2>1. wall' \in Nat /\ since' \in [sent : Nat, starts : Nat]
      BY <1>4, <1>6 DEF Tick
  <2>2. UNCHANGED <<mailRun, box, validity, place, starts, schedFaults, told, dropped>>
      BY <1>6 DEF Tick
  <2>3. \/ loop' = loop
        \/ loop'.at = "waiting" /\ loop.at = "waiting" /\ loop' \in [at : {"waiting"}, left : 0 .. DAY]
    <3>1. CASE loop.at = "waiting"
      <4>1. loop.left \in 0 .. DAY /\ loop.left > 0 /\ DAY \in Nat
          BY <1>1, <1>6, <3>1, SchedBounds DEF Tick, SchedTyped
      <4>2. loop' = [loop EXCEPT !.left = loop.left - 1] /\ loop.left - 1 \in 0 .. DAY
          BY <1>6, <3>1, <4>1 DEF Tick
      <4>3. loop \in [at : {"waiting"}, left : 0 .. DAY]
          BY <1>1, <3>1 DEF SchedTyped
      <4> QED BY <3>1, <4>2, <4>3
    <3>2. CASE loop.at # "waiting"
        BY <1>6, <3>2 DEF Tick
    <3> QED BY <3>1, <3>2
  <2>4. loop'.at = loop.at
      BY <2>3
  <2>5. SchedTyped'
      BY <1>2, <2>1, <2>2, <2>3, TaskTyped
  <2> QED BY <1>2, <2>2, <2>4, <2>5, RestKeeps
<1>7. CASE Suspended
  <2>1. wall' \in Nat /\ since' \in [sent : Nat, starts : Nat]
      BY <1>3, <1>4, <1>7 DEF Suspended
  <2>2. UNCHANGED <<loop, mailRun, box, validity, place, starts, told, dropped>>
      BY <1>7 DEF Suspended
  <2>3. schedFaults' \in Nat /\ schedFaults <= schedFaults'
      BY <1>5, <1>7 DEF Suspended
  <2>4. SchedTyped'
      BY <1>2, <2>1, <2>2, <2>3, TaskTyped
  <2> QED BY <1>2, <2>2, <2>3, <2>4, RestKeeps
<1> DEFINE Ends ==
        /\ UNCHANGED <<wall, box, validity, place, told>>
        /\ starts' \in Nat /\ schedFaults' \in Nat /\ schedFaults <= schedFaults' /\ since' \in [sent : Nat, starts : Nat]
        /\ dropped \subseteq dropped' /\ dropped' \subseteq Mails
        /\ loop.at = "sending" => mailRun.mails \subseteq dropped'
        /\ mailRun' = NoRun /\ (loop' = Off_ \/ loop' = Asleep \/ loop' = AtStep("reading"))
<1>8. ASSUME Ends PROVE SchedTyped' /\ Placed' /\ Paid' /\ Accounts'
  <2>1. loop'.at \in {"off", "waiting", "reading"}
      BY <1>8 DEF Off_, Asleep, AtStep
  <2>2. SchedTyped'
      BY <1>2, <1>8, TaskTyped
  <2> QED BY <1>8, <2>1, <2>2, EndKeeps
<1>9. CASE StartLoop
  <2>1. /\ loop.at = "off" /\ starts' = starts + 1
        /\ UNCHANGED <<wall, box, validity, mailRun, place, schedFaults, told, dropped>>
        /\ \/ loop' = AtStep("reading") /\ since' = [sent |-> since.sent + 1, starts |-> since.starts + 1]
           \/ loop' = Asleep /\ since' = [since EXCEPT !.starts = @ + 1]
      BY <1>9 DEF StartLoop, outside
  <2>2. since' \in [sent : Nat, starts : Nat]
      BY <1>2, <2>1
  <2>3. Ends
      BY <1>2, <2>1, <2>2
  <2> QED BY <1>8, <2>3
<1>10. CASE Fire
  <2>1. /\ loop.at = "waiting" /\ loop' = AtStep("reading") /\ since' = [since EXCEPT !.sent = @ + 1]
        /\ UNCHANGED <<wall, box, validity, mailRun, place, starts, schedFaults, told, dropped>>
      BY <1>10 DEF Fire, Fires, outside
  <2>2. since' \in [sent : Nat, starts : Nat]
      BY <1>2, <2>1
  <2>3. Ends
      BY <1>2, <2>1, <2>2
  <2> QED BY <1>8, <2>3
<1>11. CASE Stop
  <2>1. Ends
      BY <1>2, <1>11 DEF Stop, outside
  <2> QED BY <1>8, <2>1
<1>12. CASE SwitchedOff
  <2>1. Ends
      BY <1>2, <1>12 DEF SwitchedOff, Step, Done, outside
  <2> QED BY <1>8, <2>1
<1>13. CASE MailboxDown
  <2>1. Ends
      BY <1>2, <1>5, <1>13 DEF MailboxDown, Step, Done, outside
  <2> QED BY <1>8, <2>1
<1>14. CASE SendFails
  <2>1. Ends
      BY <1>2, <1>5, <1>14 DEF SendFails, Step, Done, outside
  <2> QED BY <1>8, <2>1
<1> QED BY <1>6, <1>7, <1>9, <1>10, <1>11, <1>12, <1>13, <1>14

\* The first reading after a renumbering goes by the date, like the very first.
LEMMA ReadSteps ==
    ASSUME SchedInv, ReadMail \/ ReadAgain
    PROVE  SchedTyped' /\ Placed' /\ Paid' /\ Accounts'
<1>1. SchedTyped /\ Placed
    BY DEF SchedInv
<1>2. /\ UNCHANGED <<wall, box, validity, starts, since, place, told>>
      /\ loop.at \in {"reading", "again"} /\ place.uid \in Nat /\ validity \in Nat \ {0}
      /\ UNCHANGED <<outside, starts, since, place, told>>
    BY <1>1, SchedBounds DEF ReadMail, ReadAgain, Step, outside, SchedTyped
<1>3. CASE ReadAgain
  <2>1. Fetched(0) /\ loop.at = "again"
      BY <1>3 DEF ReadAgain, Step
  <2>2. place.validity # validity /\ 0 \in Nat
      BY <1>1, <2>1 DEF Placed
  <2> QED BY <1>2, <2>1, <2>2, FetchKeeps
<1>4. CASE ReadMail /\ ~Renewed
  <2>1. Fetched(place.uid) /\ place.validity \in {0, validity}
      BY <1>4 DEF ReadMail, Renewed
  <2>2. \/ place.validity # validity /\ place.uid = 0
        \/ place.validity = validity /\ place.uid = place.uid
      BY <1>1, <1>2, <2>1 DEF Placed
  <2> QED BY <1>2, <2>1, <2>2, FetchKeeps
<1>5. CASE ReadMail /\ Renewed
  <2>1. loop.at = "reading" /\ loop' = AtStep("again") /\ UNCHANGED <<mailRun, dropped, schedFaults>> /\ place.validity # validity
      BY <1>5 DEF ReadMail, Renewed, Step
  <2>2. mailRun = NoRun /\ schedFaults \in Nat /\ schedFaults <= schedFaults /\ wall \in Nat /\ starts \in Nat
        /\ since \in [sent : Nat, starts : Nat] /\ dropped \subseteq Mails
      BY <1>1, <2>1 DEF SchedTyped
  <2>3. SchedTyped'
      BY <1>2, <2>1, <2>2, TaskTyped
  <2>4. Mails' = Mails /\ Len(box)' = Len(box) /\ (\A m : Uid(m)' = Uid(m)) /\ loop'.at = "again"
      BY <1>2, <2>1 DEF Mails, Uid, AtStep
  <2>5. Placed'
      BY <1>1, <1>2, <2>1, <2>4 DEF Placed
  <2>6. \A m : Ahead(place, m)' <=> Ahead(place, m)
      BY <1>2, <2>4 DEF Ahead
  <2>7. \A m : ~InHand("sending", m)' /\ ~InHand("sending", m)
      BY <2>1, <2>4 DEF InHand
  <2>8. Accounts'
      BY <1>2, <2>1, <2>4, <2>6, <2>7 DEF SchedInv, Accounts, Accounted
  <2>9. Paid'
    <3> SUFFICES ASSUME NEW m \in 1 .. MaxMails PROVE Affordable(place, m, FALSE)'
        BY <2>4, <2>7 DEF Paid, Affordable
    <3>1. Affordable(place, m, FALSE)
        BY <2>7 DEF SchedInv, Paid, Affordable
    <3> QED BY <1>2, <2>1, <2>6, <3>1 DEF Affordable
  <2> QED BY <2>3, <2>5, <2>8, <2>9
<1> QED BY <1>3, <1>4, <1>5

\* A sleep begins before one of the times and ends after it, however long the machine is suspended.
LEMMA PunctualKeeps ==
    ASSUME SchedInv, SchedNext
    PROVE  Punctual'
<1>1. SchedTyped /\ Punctual
    BY DEF SchedInv
<1>2. /\ wall \in Nat /\ since.sent \in Nat /\ since.starts \in Nat /\ loop.left \in 0 .. DAY /\ DAY \in Nat
      /\ since \in [sent : Nat, starts : Nat]
      /\ loop \in [at : {"off", "waiting", "reading", "again", "sorting", "sending"}, left : 0 .. DAY]
    BY <1>1, SchedBounds DEF SchedTyped
<1>3. \E t \in wall + 1 .. wall + Wait : IsTime(t)
    BY <1>2, WaitFacts
<1>4. ASSUME NEW ticks \in Nat, Passing(ticks),
             loop' = loop \/ loop'.at # "waiting" \/ (ticks = 1 /\ loop.left > 0 /\ loop' = [loop EXCEPT !.left = @ - 1])
      PROVE  Punctual'
  <2>1. wall' = wall + ticks
      BY <1>4 DEF Passing
  <2>2. CASE \E t \in wall + 1 .. wall + ticks : IsTime(t)
    <3>1. since' = [sent |-> 0, starts |-> 0]
        BY <1>4, <2>2 DEF Passing
    <3> QED BY <3>1 DEF Punctual
  <2>3. CASE ~\E t \in wall + 1 .. wall + ticks : IsTime(t)
    <3>1. since' = since
        BY <1>4, <2>3 DEF Passing
    <3>2. CASE loop'.at # "waiting"
        BY <1>1, <3>1, <3>2 DEF Punctual
    <3>3. CASE since.sent <= since.starts
        BY <1>1, <3>1, <3>3 DEF Punctual
    <3>4. CASE loop'.at = "waiting" /\ ~(since.sent <= since.starts)
      <4>1. loop.at = "waiting" /\ loop'.left \in Nat /\ wall + loop.left <= wall' + loop'.left
        <5>1. CASE loop' = loop
            BY <1>2, <1>4, <2>1, <3>4, <5>1
        <5>2. CASE ticks = 1 /\ loop.left > 0 /\ loop' = [loop EXCEPT !.left = @ - 1]
          <6>1. loop'.at = loop.at /\ loop'.left = loop.left - 1
              BY <1>2, <5>2
          <6> QED BY <1>2, <2>1, <3>4, <5>2, <6>1
        <5> QED BY <1>4, <3>4, <5>1, <5>2
      <4>2. PICK t \in wall + 1 .. wall + loop.left : IsTime(t)
          BY <1>1, <3>4, <4>1 DEF Punctual
      <4>3. t \notin wall + 1 .. wall + ticks
          BY <2>3, <4>2
      <4>4. t \in wall' + 1 .. wall' + loop'.left
          BY <1>2, <2>1, <4>1, <4>2, <4>3
      <4> QED BY <1>1, <3>1, <4>2, <4>4 DEF Punctual, IsTime
    <3> QED BY <3>2, <3>3, <3>4
  <2> QED BY <2>2, <2>3
<1>5. ASSUME wall' = wall, since' = since, loop' = loop \/ loop' = Asleep \/ loop'.at # "waiting"
      PROVE  Punctual'
  <2>1. since'.sent <= 1 + since'.starts
      BY <1>1, <1>5 DEF Punctual
  <2>2. CASE loop' = loop
      BY <1>1, <1>5, <2>2 DEF Punctual, IsTime
  <2>3. CASE loop' = Asleep
    <3>1. loop'.left = Wait
        BY <2>3 DEF Asleep
    <3>2. PICK t \in wall + 1 .. wall + Wait : IsTime(t)
        BY <1>3
    <3> QED BY <1>5, <2>1, <3>1, <3>2 DEF Punctual, IsTime
  <2>4. CASE loop'.at # "waiting"
      BY <2>1, <2>4 DEF Punctual
  <2> QED BY <1>5, <2>2, <2>3, <2>4
<1>6. CASE Tick
    BY <1>4, <1>6 DEF Tick
<1>7. CASE Suspended
  <2>1. DAY \div 2 \in Nat
      BY <1>2
  <2> QED BY <1>4, <1>7, <2>1 DEF Suspended
<1>8. CASE StartLoop
  <2>1. since.sent <= 1 + since.starts
      BY <1>1 DEF Punctual
  <2>2. CASE loop' = AtStep("reading") /\ since' = [sent |-> since.sent + 1, starts |-> since.starts + 1]
    <3>1. loop'.at = "reading" /\ since'.sent = since.sent + 1 /\ since'.starts = since.starts + 1
        BY <2>2 DEF AtStep
    <3>2. since'.sent <= 1 + since'.starts
        BY <1>2, <2>1, <3>1
    <3> QED BY <3>1, <3>2 DEF Punctual
  <2>3. CASE loop' = Asleep /\ since' = [since EXCEPT !.starts = @ + 1]
    <3>1. since'.sent = since.sent /\ since'.starts = since.starts + 1
        BY <1>2, <2>3
    <3>2. since'.sent <= since'.starts /\ since'.sent <= 1 + since'.starts
        BY <1>2, <2>1, <3>1
    <3> QED BY <3>2 DEF Punctual
  <2> QED BY <1>8, <2>2, <2>3 DEF StartLoop
<1>9. CASE Fire
  <2>1. loop.at = "waiting" /\ loop.left = 0 /\ loop' = AtStep("reading") /\ since' = [since EXCEPT !.sent = @ + 1]
      BY <1>9 DEF Fire, Fires
  <2>2. wall + 1 .. wall + loop.left = {}
      BY <1>2, <2>1
  <2>3. since.sent <= since.starts
      BY <1>1, <2>1, <2>2 DEF Punctual
  <2>4. since'.sent = since.sent + 1 /\ since'.starts = since.starts /\ loop'.at = "reading"
      BY <1>2, <2>1 DEF AtStep
  <2>5. since'.sent <= 1 + since'.starts
      BY <1>2, <2>3, <2>4
  <2> QED BY <2>4, <2>5 DEF Punctual
<1>10. CASE Stop
    BY <1>5, <1>10 DEF Stop, Off_, outside
<1>11. CASE SwitchedOff \/ MailboxDown \/ Sent \/ SendFails
    BY <1>5, <1>11 DEF SwitchedOff, MailboxDown, Sent, SendFails, Step, Done, outside
<1>12. CASE Arrives \/ Renumbered
    BY <1>5, <1>12 DEF Arrives, Renumbered
<1>13. CASE ReadMail \/ ReadAgain
  <2>1. loop' = AtStep("again") \/ loop' = AtStep("sorting")
      BY <1>13 DEF ReadMail, ReadAgain, Fetched, Found, Unfetched
  <2>2. loop'.at # "waiting"
      BY <2>1 DEF AtStep
  <2> QED BY <1>5, <1>13, <2>2 DEF ReadMail, ReadAgain, Step, outside
<1>14. CASE Sorted
  <2>1. loop' = Asleep \/ loop'.at # "waiting"
      BY <1>14 DEF Sorted, Done, AtStep
  <2> QED BY <1>5, <1>14, <2>1 DEF Sorted, Step, outside
<1> QED BY <1>6, <1>7, <1>8, <1>9, <1>10, <1>11, <1>12, <1>13, <1>14 DEF SchedNext

LEMMA SchedInvariance == SchedSpec => []SchedInv
<1>1. SchedInv /\ [SchedNext]_schedVars => SchedInv'
  <2> SUFFICES ASSUME SchedInv, [SchedNext]_schedVars PROVE SchedInv'
      OBVIOUS
  <2>1. CASE SchedNext
    <3>1. SchedTyped' /\ Placed' /\ Paid' /\ Accounts'
      <4>1. CASE Tick \/ Suspended \/ StartLoop \/ Fire \/ Stop \/ SwitchedOff \/ MailboxDown \/ SendFails
          BY <4>1, TaskSteps
      <4>2. CASE Arrives
          BY <4>2, ArrivesKeeps
      <4>3. CASE Renumbered
          BY <4>3, RenumberedKeeps
      <4>4. CASE ReadMail \/ ReadAgain
          BY <4>4, ReadSteps
      <4>5. CASE Sorted
          BY <4>5, SortedKeeps
      <4>6. CASE Sent
          BY <4>6, SentKeeps
      <4> QED BY <2>1, <4>1, <4>2, <4>3, <4>4, <4>5, <4>6 DEF SchedNext
    <3>2. Punctual'
        BY <2>1, PunctualKeeps
    <3> QED BY <3>1, <3>2 DEF SchedInv
  <2>2. CASE UNCHANGED schedVars
    <3>1. UNCHANGED <<wall, loop, mailRun, box, validity, place, starts, schedFaults, told, dropped, since>>
        BY <2>2 DEF schedVars
    <3>2. schedFaults' \in Nat /\ schedFaults <= schedFaults'
        BY <3>1 DEF SchedInv, SchedTyped
    <3>3. Placed' /\ Paid' /\ Accounts'
        BY <3>1, <3>2, RestKeeps
    <3>4. SchedTyped' /\ Punctual'
        BY <3>1 DEF SchedInv, SchedTyped, Punctual, Mails, IsTime
    <3> QED BY <3>3, <3>4 DEF SchedInv
  <2> QED BY <2>1, <2>2
<1> QED BY <1>1, SchedStart, PTL DEF SchedSpec

\* SchedTypeOK, the types of daily.py's task and of the mail's run: no more than MAX_PER_RUN messages
\* are in hand, and none between runs.
THEOREM SchedulesTypeCorrect == SchedSpec => []SchedTypeOK
<1>1. SchedInv => SchedTypeOK
  <2> SUFFICES ASSUME SchedInv PROVE SchedTypeOK
      OBVIOUS
  <2> QED BY DEF SchedInv, SchedTyped, SchedTypeOK
<1> QED BY <1>1, SchedInvariance, PTL

\* DigestsComeOnce: daily.py and mail/service.py tell every message once and pass over none, but for
\* what a fault or a renumbering has paid for and what is known to be dropped; and no time of the day
\* and no start sends two messages.
THEOREM EveryMailIsToldOnce == SchedSpec => []DigestsComeOnce
<1>1. SchedInv => DigestsComeOnce
  <2> SUFFICES ASSUME SchedInv PROVE EachMailOnce /\ OneMessageATime
      BY DEF DigestsComeOnce
  <2>1. SchedTyped /\ Paid /\ Accounts /\ Punctual
      BY DEF SchedInv
  <2>2. OneMessageATime
      BY <2>1 DEF Punctual, OneMessageATime
  <2>3. Mails \subseteq 1 .. MaxMails
    <3>1. Len(box) \in Nat /\ Mails = 1 .. Len(box) /\ Len(box) <= MaxMails /\ MaxMails \in Nat
        BY <2>1, EntryFacts, SchedBounds DEF SchedTyped, Mails
    <3> QED BY <3>1
  <2>4. ASSUME NEW m \in Mails
        PROVE  /\ told[m] <= validity + schedFaults
               /\ loop.at # "sending" /\ place.validity = validity /\ Uid(m) <= place.uid
                      => told[m] > 0 \/ m \in dropped
    <3>1. told[m] <= validity + schedFaults
        BY <2>1, <2>3 DEF Paid, Affordable
    <3>2. Accounted(place, m, InHand("sending", m))
        BY <2>1 DEF Accounts
    <3>3. Uid(m) \in Nat /\ place.uid \in Nat
      <4>1. m \in Nat /\ validity \in 1 .. Generations
          BY <2>1, <2>3 DEF SchedTyped
      <4> QED BY <2>1, <4>1, UidFacts DEF SchedTyped
    <3>4. place.validity = validity /\ Uid(m) <= place.uid => ~Ahead(place, m)
        BY <3>3 DEF Ahead
    <3> QED BY <3>1, <3>2, <3>4 DEF Accounted, InHand
  <2> QED BY <2>2, <2>4 DEF EachMailOnce
<1> QED BY <1>1, SchedInvariance, PTL

----------------------------------------------------------------------------
(* VaultImport: the user's words stay, and what is the import's comes up to date *)

\* Every page is an area, a page or a book of the workspace.
LEMMA MigratedFacts ==
    ASSUME NEW w \in Workspaces
    PROVE  Migrated(w) \in Seq({p \in ToSet(w) : p.kind \in {"area", "page", "book"}})
<1> DEFINE K == {p \in ToSet(w) : p.kind \in {"area", "page", "book"}}
           those(kind) == {p \in ToSet(w) : p.kind = kind /\ (kind = "book" \/ p.id \notin Skipped(w))}
<1>1. w \in Seq(ToSet(w))
    BY WorkspacesAre
<1>2. ASSUME NEW kind \in {"area", "page", "book"} PROVE Chosen(w, those(kind)) \in Seq(K)
  <2>1. Chosen(w, those(kind)) \in Seq(ToSet(w) \cap those(kind))
    <3> HIDE DEF those
    <3> QED BY <1>1, ChosenFacts
  <2>2. ToSet(w) \cap those(kind) \subseteq K
      OBVIOUS
  <2> HIDE DEF those, K
  <2> QED BY <2>1, <2>2
<1>3. Chosen(w, those("area")) \in Seq(K) /\ Chosen(w, those("page")) \in Seq(K) /\ Chosen(w, those("book")) \in Seq(K)
    BY <1>2
<1>4. Migrated(w) = Chosen(w, those("area")) \o Chosen(w, those("page")) \o Chosen(w, those("book"))
    BY DEF Migrated
<1> HIDE DEF those, K
<1>5. Migrated(w) \in Seq(K)
    BY <1>3, <1>4
<1> QED BY <1>5 DEF K

\* No two pages have one name.
LEMMA NamesDiffer ==
    ASSUME NEW S, NEW ps \in Seq(S), NEW i \in DOMAIN ps, NEW j \in DOMAIN ps, i # j
    PROVE  NameOf(ps, i) # NameOf(ps, j)
<1> DEFINE Same(a) == {k \in 1 .. a : ps[k].title = ps[a].title}
<1>1. Len(ps) \in Nat /\ i \in 1 .. Len(ps) /\ j \in 1 .. Len(ps)
    BY EntryFacts
<1>2. ASSUME NEW a \in 1 .. Len(ps), NEW b \in 1 .. Len(ps), a < b, ps[a].title = ps[b].title
      PROVE  Cardinality(Same(a)) # Cardinality(Same(b))
  <2>1. IsFiniteSet(1 .. b)
      BY <1>1, FS_Interval
  <2>2. IsFiniteSet(Same(b))
      BY <2>1, FS_Subset
  <2>3. Same(a) \subseteq Same(b)
      BY <1>1, <1>2
  <2>4. b \in Same(b) /\ b \notin Same(a)
      BY <1>1, <1>2
  <2>5. Same(a) # Same(b)
      BY <2>4
  <2> HIDE DEF Same
  <2> QED BY <2>2, <2>3, <2>5, FS_Subset
<1>3. CASE ps[i].title = ps[j].title
  <2>1. Cardinality(Same(i)) # Cardinality(Same(j))
    <3>1. i < j \/ j < i
        BY <1>1
    <3> HIDE DEF Same
    <3> QED BY <1>1, <1>2, <1>3, <3>1
  <2> QED BY <2>1 DEF NameOf
<1>4. CASE ps[i].title # ps[j].title
    BY <1>4 DEF NameOf
<1> QED BY <1>3, <1>4

\* The plan of a run: every file of it may be put, the notes come first, and no other file is put where one is.
LEMMA PlanFacts ==
    ASSUME NEW w \in Workspaces
    PROVE  /\ VaultPlan(w) \in Seq(ImportFiles)
           /\ DOMAIN Notes(w) \subseteq DOMAIN VaultPlan(w)
           /\ \A i \in DOMAIN Notes(w) : VaultPlan(w)[i] = Notes(w)[i] /\ ~Notes(w)[i].download
           /\ \A i \in DOMAIN VaultPlan(w) : VaultPlan(w)[i].data # Nothing /\ VaultPlan(w)[i].data # Words
           /\ \A i \in DOMAIN Notes(w), j \in DOMAIN VaultPlan(w) : i # j => Notes(w)[i].path # VaultPlan(w)[j].path
<1> DEFINE K == {p \in ToSet(w) : p.kind \in {"area", "page", "book"}}
           ps == Migrated(w)
           note(i) ==
               [path |-> <<ps[i].kind, NameOf(ps, i), 0>>, download |-> FALSE,
                data |-> Contents(ps[i].id, ps[i].text, [n \in DOMAIN ps[i].images |-> PictureAt(ps, i, n)])]
           picture(i, n) ==
               [path |-> PictureAt(ps, i, n), download |-> TRUE, data |-> Contents(ps[i].images[n], "picture", <<>>)]
           inner == [i \in DOMAIN ps |-> [n \in DOMAIN ps[i].images |-> picture(i, n)]]
           A == {note(i) : i \in DOMAIN ps}
           B == UNION {{picture(i, n) : n \in DOMAIN ps[i].images} : i \in DOMAIN ps}
<1>a. \A i : /\ note(i).path = <<ps[i].kind, NameOf(ps, i), 0>> /\ ~note(i).download
             /\ note(i).data.of = ps[i].id
    BY DEF Contents
<1>b. \A i, n : picture(i, n).path = PictureAt(ps, i, n) /\ picture(i, n).data.of = ps[i].images[n]
    BY DEF Contents
<1>c. Nothing.of \in Unnamed /\ Words.of \in Unnamed
    BY DEF Nothing, Words, Contents, Unnamed
<1>1. ps \in Seq(K)
    BY MigratedFacts
<1>2. Len(ps) \in Nat /\ DOMAIN ps = 1 .. Len(ps) /\ \A i \in DOMAIN ps : ps[i] \in K
  <2> HIDE DEF ps, K
  <2> QED BY <1>1, EntryFacts
<1>3. ASSUME NEW i \in DOMAIN ps
      PROVE  /\ ps[i].kind \in {"area", "page", "book"} /\ ps[i].id \notin Unnamed
             /\ ps[i].images \in Seq(ToSet(ps[i].images)) /\ ToSet(ps[i].images) \cap Unnamed = {}
  <2>1. ps[i] \in ToSet(w) /\ ps[i].kind \in {"area", "page", "book"}
      BY <1>2
  <2> HIDE DEF ps
  <2> QED BY <2>1, WorkspacesAre
<1>4. Notes(w) = [i \in DOMAIN ps |-> note(i)]
    BY DEF Notes
<1>5. Downloads(w) = FlattenSeq(inner)
    BY DEF Downloads
<1> HIDE DEF K, ps, note, picture
<1>6. Notes(w) \in Seq(A) /\ DOMAIN Notes(w) = 1 .. Len(ps) /\ Len(Notes(w)) = Len(ps)
  <2>1. Notes(w) \in [1 .. Len(ps) -> A]
      BY <1>2, <1>4
  <2> HIDE DEF A
  <2> QED BY <1>2, <2>1
<1>7. inner \in Seq(Seq(B))
  <2>1. ASSUME NEW i \in DOMAIN ps PROVE [n \in DOMAIN ps[i].images |-> picture(i, n)] \in Seq(B)
    <3>1. Len(ps[i].images) \in Nat /\ DOMAIN ps[i].images = 1 .. Len(ps[i].images)
        BY <1>3, EntryFacts
    <3>2. \A n \in DOMAIN ps[i].images : picture(i, n) \in B
        OBVIOUS
    <3> HIDE DEF B
    <3>3. [n \in DOMAIN ps[i].images |-> picture(i, n)] \in [1 .. Len(ps[i].images) -> B]
        BY <3>1, <3>2
    <3> QED BY <3>1, <3>3
  <2> HIDE DEF B
  <2>2. inner \in [1 .. Len(ps) -> Seq(B)]
      BY <1>2, <2>1
  <2> HIDE DEF inner
  <2> QED BY <1>2, <2>2
<1>8. Downloads(w) \in Seq(B)
  <2> HIDE DEF B, inner
  <2> QED BY <1>5, <1>7, FlattenFacts
<1>9. /\ VaultPlan(w) \in Seq(A \cup B) /\ Len(VaultPlan(w)) = Len(Notes(w)) + Len(Downloads(w))
      /\ \A i \in 1 .. Len(Notes(w)) + Len(Downloads(w)) :
             VaultPlan(w)[i] = IF i <= Len(Notes(w)) THEN Notes(w)[i] ELSE Downloads(w)[i - Len(Notes(w))]
  <2> HIDE DEF A, B
  <2>1. Notes(w) \in Seq(A \cup B) /\ Downloads(w) \in Seq(A \cup B)
      BY <1>6, <1>8
  <2> QED BY <2>1, ConcatProperties DEF VaultPlan
<1>10. Len(Downloads(w)) \in Nat /\ DOMAIN Downloads(w) = 1 .. Len(Downloads(w)) /\ \A i \in DOMAIN Downloads(w) : Downloads(w)[i] \in B
  <2> HIDE DEF B
  <2> QED BY <1>8, EntryFacts
<1>11. DOMAIN VaultPlan(w) = 1 .. Len(Notes(w)) + Len(Downloads(w))
  <2>1. DOMAIN VaultPlan(w) = 1 .. Len(VaultPlan(w))
    <3> HIDE DEF A, B
    <3> QED BY <1>9, EntryFacts
  <2> QED BY <1>9, <2>1
<1>12. ASSUME NEW i \in DOMAIN Notes(w)
       PROVE  i \in DOMAIN VaultPlan(w) /\ VaultPlan(w)[i] = Notes(w)[i] /\ i \in DOMAIN ps /\ Notes(w)[i] = note(i)
  <2>1. i \in 1 .. Len(Notes(w)) + Len(Downloads(w)) /\ i <= Len(Notes(w))
      BY <1>2, <1>6, <1>10
  <2> QED BY <1>2, <1>4, <1>6, <1>9, <1>11, <2>1
<1>13. ASSUME NEW i \in DOMAIN VaultPlan(w), i \notin DOMAIN Notes(w)
       PROVE  \E p \in DOMAIN ps : \E n \in DOMAIN ps[p].images : VaultPlan(w)[i] = picture(p, n)
  <2>1. i \in 1 .. Len(Notes(w)) + Len(Downloads(w)) /\ ~(i <= Len(Notes(w))) /\ i - Len(Notes(w)) \in 1 .. Len(Downloads(w))
      BY <1>2, <1>6, <1>10, <1>11, <1>13
  <2>2. VaultPlan(w)[i] \in B
      BY <1>9, <1>10, <2>1
  <2> QED BY <2>2
<1>14. VaultPlan(w) \in Seq(ImportFiles)
  <2>1. ToSet(VaultPlan(w)) \subseteq ImportFiles
      BY DEF ImportFiles
  <2>2. VaultPlan(w) \in Seq(ToSet(VaultPlan(w)))
    <3>1. \A i \in DOMAIN VaultPlan(w) : VaultPlan(w)[i] \in ToSet(VaultPlan(w))
        BY DEF ToSet
    <3> HIDE DEF A, B
    <3> QED BY <1>9, <3>1
  <2> QED BY <2>1, <2>2
<1>15. ASSUME NEW i \in DOMAIN VaultPlan(w) PROVE VaultPlan(w)[i].data # Nothing /\ VaultPlan(w)[i].data # Words
  <2>1. CASE i \in DOMAIN Notes(w)
    <3>1. VaultPlan(w)[i].data.of = ps[i].id /\ ps[i].id \notin Unnamed
      <4>1. VaultPlan(w)[i] = note(i) /\ i \in DOMAIN ps
          BY <1>12, <2>1
      <4>2. note(i).data.of = ps[i].id
          BY <1>a
      <4> QED BY <1>3, <4>1, <4>2
    <3> QED BY <1>c, <3>1
  <2>2. CASE i \notin DOMAIN Notes(w)
    <3>1. PICK p \in DOMAIN ps : \E n \in DOMAIN ps[p].images : VaultPlan(w)[i] = picture(p, n)
        BY <1>13, <2>2
    <3>2. PICK n \in DOMAIN ps[p].images : VaultPlan(w)[i] = picture(p, n)
        BY <3>1
    <3>3. VaultPlan(w)[i].data.of = ps[p].images[n]
        BY <1>b, <3>2
    <3>4. ps[p].images[n] \in ToSet(ps[p].images)
        BY DEF ToSet
    <3>5. ps[p].images[n] \notin Unnamed
        BY <1>3, <3>4
    <3> QED BY <1>c, <3>3, <3>5
  <2> QED BY <2>1, <2>2
<1>16. ASSUME NEW i \in DOMAIN Notes(w), NEW j \in DOMAIN VaultPlan(w), i # j
       PROVE  Notes(w)[i].path # VaultPlan(w)[j].path
  <2>1. Notes(w)[i].path = <<ps[i].kind, NameOf(ps, i), 0>> /\ i \in DOMAIN ps
      BY <1>12, <1>a
  <2>2. CASE j \in DOMAIN Notes(w)
    <3>1. VaultPlan(w)[j].path = <<ps[j].kind, NameOf(ps, j), 0>> /\ j \in DOMAIN ps
        BY <1>12, <1>a, <2>2
    <3>2. NameOf(ps, i) # NameOf(ps, j)
        BY <1>1, <1>16, <2>1, <3>1, NamesDiffer
    <3> QED BY <2>1, <3>1, <3>2
  <2>3. CASE j \notin DOMAIN Notes(w)
    <3>1. PICK p \in DOMAIN ps : \E n \in DOMAIN ps[p].images : VaultPlan(w)[j] = picture(p, n)
        BY <1>13, <2>3
    <3>2. PICK n \in DOMAIN ps[p].images : VaultPlan(w)[j] = picture(p, n)
        BY <3>1
    <3>3. VaultPlan(w)[j].path = <<"file", NameOf(ps, p), n>>
        BY <1>b, <3>2 DEF PictureAt
    <3>4. ps[i].kind # "file"
        BY <1>3, <2>1
    <3> QED BY <2>1, <3>3, <3>4
  <2> QED BY <2>2, <2>3
<1>17. \A i \in DOMAIN Notes(w) : ~Notes(w)[i].download
    BY <1>12, <1>a
<1> QED BY <1>12, <1>14, <1>15, <1>16, <1>17

FileData == {f.data : f \in ImportFiles} \cup {Nothing, Words}
Books == UNION {[D -> FileData] : D \in SUBSET ImportPaths}
ImportRec ==
    [pc : {"idle", "putting", "loaded", "writing", "done"}, read : Workspaces \cup {<<>>}, todo : Seq(ImportFiles),
     held : Books, written : SUBSET ImportPaths, saw : FileData]
Running == import.pc \in {"putting", "loaded", "writing"}

ImportTyped ==
    /\ notion \in Workspaces
    /\ vault \in Books /\ manifest \in Books /\ byHand \in Books
    /\ import \in ImportRec
    /\ import.written \subseteq DOMAIN import.held

\* What is left of the files from the k-th on.
Left(files, k) == [i \in 1 .. Len(files) + 1 - k |-> files[k - 1 + i]]
UpToDate(note) ==
    \/ note.path \in DOMAIN vault /\ vault[note.path] = note.data
    \/ note.path \in DOMAIN byHand \cup orphans
\* The k-th file of the run's plan is at hand, and the notes before it are done.
AtFile(k) ==
    /\ k \in 1 .. Len(VaultPlan(import.read)) + 1
    /\ import.todo = Left(VaultPlan(import.read), k)
    /\ \A i \in DOMAIN Notes(import.read) : i < k => UpToDate(Notes(import.read)[i])
InOrder ==
    /\ import.pc # "idle" => import.read \in Workspaces /\ \E k \in Nat : AtFile(k)
    /\ import.pc \in {"loaded", "writing"} => import.todo # <<>>
    /\ import.pc = "done" => import.todo = <<>>

\* Of a file that neither the user nor a run that died has put there, both books know the contents:
\* the saved one, but for what the run at hand wrote, and the run's.
InBook(book, path) == path \in DOMAIN book /\ book[path] = vault[path]
Booked ==
    \A path \in DOMAIN vault : path \notin DOMAIN byHand /\ path \notin orphans =>
        /\ (Running /\ path \in import.written) \/ InBook(manifest, path)
        /\ Running => InBook(import.held, path)
\* The user's words are in no book, and a run that is about to write has not seen them.
WordsStay ==
    /\ \A path \in DOMAIN byHand : path \notin raced /\ byHand[path] = Words => path \in DOMAIN vault /\ vault[path] = Words
    /\ \A path \in DOMAIN manifest : manifest[path] # Words
    /\ \A path \in DOMAIN import.held : import.held[path] # Words
    /\ import.saw # Words
    /\ \A path \in DOMAIN vault : vault[path] # Nothing

ImportInv == ImportTyped /\ InOrder /\ Booked /\ WordsStay

LEMMA LeftFacts ==
    ASSUME NEW S, NEW files \in Seq(S), NEW k \in 1 .. Len(files) + 1
    PROVE  /\ Left(files, 1) = files /\ Len(files) \in Nat
           /\ Left(files, k) \in Seq(S)
           /\ Left(files, k) = <<>> <=> k = Len(files) + 1
           /\ k # Len(files) + 1 => /\ k \in DOMAIN files /\ Head(Left(files, k)) = files[k]
                                    /\ k + 1 \in 1 .. Len(files) + 1 /\ Tail(Left(files, k)) = Left(files, k + 1)
<1>1. Len(files) \in Nat /\ DOMAIN files = 1 .. Len(files) /\ \A i \in 1 .. Len(files) : files[i] \in S
    BY EntryFacts
<1>2. ASSUME NEW j \in 1 .. Len(files) + 1
      PROVE  /\ Left(files, j) \in Seq(S) /\ Len(Left(files, j)) = Len(files) + 1 - j
             /\ \A i \in 1 .. Len(files) + 1 - j : Left(files, j)[i] = files[j - 1 + i]
  <2>1. Len(files) + 1 - j \in Nat /\ \A i \in 1 .. Len(files) + 1 - j : j - 1 + i \in 1 .. Len(files)
      BY <1>1
  <2>2. Left(files, j) \in [1 .. Len(files) + 1 - j -> S]
      BY <1>1, <2>1 DEF Left
  <2>3. \A i \in 1 .. Len(files) + 1 - j : Left(files, j)[i] = files[j - 1 + i]
      BY DEF Left
  <2> DEFINE m == Len(files) + 1 - j
  <2>4. m \in Nat /\ Left(files, j) \in [1 .. m -> S]
      BY <2>1, <2>2
  <2>5. Left(files, j) \in Seq(S) /\ Len(Left(files, j)) = m
    <3> HIDE DEF m
    <3> QED BY <2>4
  <2> QED BY <2>3, <2>5
<1>3. Left(files, 1) = files
  <2>1. 1 \in 1 .. Len(files) + 1
      BY <1>1
  <2>2. Len(Left(files, 1)) = Len(files) /\ \A i \in 1 .. Len(files) : Left(files, 1)[i] = files[i]
    <3>1. Len(files) + 1 - 1 = Len(files) /\ \A i \in 1 .. Len(files) : 1 - 1 + i = i
      <4> DEFINE n == Len(files)
      <4>1. n \in Nat
          BY <1>1
      <4> HIDE DEF n
      <4>2. n + 1 - 1 = n /\ \A i \in 1 .. n : 1 - 1 + i = i
          BY <4>1
      <4> QED BY <4>2 DEF n
    <3>2. /\ Len(Left(files, 1)) = Len(files) + 1 - 1
          /\ \A i \in 1 .. Len(files) + 1 - 1 : Left(files, 1)[i] = files[1 - 1 + i]
        BY <1>2, <2>1
    <3> QED BY <3>1, <3>2
  <2> QED BY <1>2, <2>1, <2>2, SeqEqual
<1>4. Left(files, k) = <<>> <=> k = Len(files) + 1
    BY <1>1, <1>2, HeadFacts
<1>5. ASSUME k # Len(files) + 1
      PROVE  /\ k \in DOMAIN files /\ Head(Left(files, k)) = files[k]
             /\ k + 1 \in 1 .. Len(files) + 1 /\ Tail(Left(files, k)) = Left(files, k + 1)
  <2>1. k \in 1 .. Len(files) /\ k + 1 \in 1 .. Len(files) + 1 /\ 1 \in 1 .. Len(files) + 1 - k
      BY <1>1, <1>5
  <2>2. Left(files, k) # <<>> /\ Left(files, k) \in Seq(S) /\ Left(files, k + 1) \in Seq(S)
      BY <1>2, <1>4, <1>5, <2>1
  <2>3. Head(Left(files, k)) = Left(files, k)[1]
      BY <2>2, HeadFacts
  <2>4. Left(files, k)[1] = files[k - 1 + 1] /\ k - 1 + 1 = k
      BY <1>2, <2>1
  <2>5. /\ Tail(Left(files, k)) \in Seq(S) /\ Len(Tail(Left(files, k))) = Len(Left(files, k)) - 1
        /\ \A i \in 1 .. Len(Tail(Left(files, k))) : Tail(Left(files, k))[i] = Left(files, k)[i + 1]
      BY <2>2, HeadTailProperties
  <2>6. Len(Tail(Left(files, k))) = Len(files) - k /\ Len(Left(files, k + 1)) = Len(files) - k
    <3>1. Len(Left(files, k)) = Len(files) + 1 - k /\ Len(Left(files, k + 1)) = Len(files) + 1 - (k + 1)
        BY <1>2, <2>1
    <3>2. Len(Tail(Left(files, k))) = Len(files) + 1 - k - 1
        BY <2>5, <3>1
    <3>3. Len(files) + 1 - k - 1 = Len(files) - k /\ Len(files) + 1 - (k + 1) = Len(files) - k
      <4>1. Len(files) \in Nat /\ k \in Nat
          BY <1>1, <2>1
      <4> QED BY <4>1
    <3> QED BY <3>1, <3>2, <3>3
  <2>7. \A i \in 1 .. Len(files) - k : Tail(Left(files, k))[i] = Left(files, k + 1)[i]
    <3> SUFFICES ASSUME NEW i \in 1 .. Len(files) - k PROVE Tail(Left(files, k))[i] = Left(files, k + 1)[i]
        OBVIOUS
    <3>1. i \in 1 .. Len(files) + 1 - (k + 1) /\ i + 1 \in 1 .. Len(files) + 1 - k /\ k - 1 + (i + 1) = (k + 1) - 1 + i
        BY <1>1, <2>1
    <3>2. Left(files, k)[i + 1] = files[k - 1 + (i + 1)] /\ Left(files, k + 1)[i] = files[(k + 1) - 1 + i]
        BY <1>2, <2>1, <3>1
    <3> QED BY <2>5, <2>6, <3>1, <3>2
  <2> QED BY <1>1, <2>1, <2>2, <2>3, <2>4, <2>5, <2>6, <2>7, SeqEqual
<1> QED BY <1>1, <1>2, <1>3, <1>4, <1>5

\* A book with one more entry.
Putting(b, path, data) ==
    /\ With(b, path, data) \in Books
    /\ DOMAIN With(b, path, data) = DOMAIN b \cup {path} /\ With(b, path, data)[path] = data
    /\ \A p \in DOMAIN b : p # path => With(b, path, data)[p] = b[p]

LEMMA BookFacts ==
    /\ <<>> \in Books /\ DOMAIN <<>> = {}
    /\ \A b \in Books : DOMAIN b \subseteq ImportPaths /\ b \in [DOMAIN b -> FileData]
    /\ \A b \in Books, path \in ImportPaths, data \in FileData : Putting(b, path, data)
    /\ \A b \in Books, D \in SUBSET ImportPaths : D \subseteq DOMAIN b => [p \in D |-> b[p]] \in Books
<1>1. \A b : b \in Books <=> \E D \in SUBSET ImportPaths : b \in [D -> FileData]
    BY DEF Books
<1>2. \A b \in Books : DOMAIN b \subseteq ImportPaths /\ b \in [DOMAIN b -> FileData]
    BY <1>1
<1>3. DOMAIN <<>> = {}
    OBVIOUS
<1>4. <<>> \in [{} -> FileData]
    OBVIOUS
<1>5. <<>> \in Books
  <2>1. {} \in SUBSET ImportPaths
      OBVIOUS
  <2> QED BY <1>1, <1>4, <2>1
<1>6. ASSUME NEW b \in Books, NEW path \in ImportPaths, NEW data \in FileData
      PROVE  Putting(b, path, data)
  <2>1. \A p \in DOMAIN b : b[p] \in FileData
      BY <1>2
  <2>2. With(b, path, data) \in [DOMAIN b \cup {path} -> FileData]
      BY <2>1 DEF With
  <2>3. DOMAIN b \cup {path} \in SUBSET ImportPaths
      BY <1>2
  <2>4. With(b, path, data) \in Books
      BY <1>1, <2>2, <2>3
  <2> QED BY <2>4 DEF Putting, With
<1>7. ASSUME NEW b \in Books, NEW D \in SUBSET ImportPaths, D \subseteq DOMAIN b PROVE [p \in D |-> b[p]] \in Books
  <2>1. \A p \in D : b[p] \in FileData
      BY <1>2, <1>7
  <2>2. [p \in D |-> b[p]] \in [D -> FileData]
      BY <2>1
  <2> QED BY <1>1, <2>2
<1> QED BY <1>2, <1>3, <1>5, <1>6, <1>7

\* The file at hand, for the k-th of the plan.
HandFile(k) ==
    LET files == VaultPlan(import.read)  notes == Notes(import.read) IN
    /\ k \in DOMAIN files /\ k \in Nat /\ k + 1 \in 1 .. Len(files) + 1
    /\ Tail(import.todo) = Left(files, k + 1)
    /\ \A i \in DOMAIN notes : i \in Nat
    /\ \A i \in DOMAIN notes : i < k => UpToDate(notes[i])
    /\ \A i \in DOMAIN notes : i # k => notes[i].path # File_.path
    /\ k \in DOMAIN notes => File_ = notes[k] /\ ~File_.download

LEMMA HandFacts ==
    ASSUME ImportInv, import.pc # "idle", import.todo # <<>>
    PROVE  /\ \E k \in Nat : HandFile(k)
           /\ import.read \in Workspaces /\ Tail(import.todo) \in Seq(ImportFiles)
           /\ File_.path \in ImportPaths /\ File_.data \in FileData /\ File_.data # Nothing /\ File_.data # Words
<1> DEFINE files == VaultPlan(import.read)  notes == Notes(import.read)
<1>1. import.read \in Workspaces /\ \E k \in Nat : AtFile(k)
    BY DEF ImportInv, InOrder
<1>2. PICK k \in Nat : AtFile(k)
    BY <1>1
<1>3. /\ files \in Seq(ImportFiles) /\ DOMAIN notes \subseteq DOMAIN files
      /\ \A i \in DOMAIN notes : files[i] = notes[i] /\ ~notes[i].download
      /\ \A i \in DOMAIN files : files[i].data # Nothing /\ files[i].data # Words
      /\ \A i \in DOMAIN notes, j \in DOMAIN files : i # j => notes[i].path # files[j].path
  <2> DEFINE w == import.read
  <2>1. w \in Workspaces
      BY <1>1
  <2> HIDE DEF w
  <2>2. /\ VaultPlan(w) \in Seq(ImportFiles) /\ DOMAIN Notes(w) \subseteq DOMAIN VaultPlan(w)
        /\ \A i \in DOMAIN Notes(w) : VaultPlan(w)[i] = Notes(w)[i] /\ ~Notes(w)[i].download
        /\ \A i \in DOMAIN VaultPlan(w) : VaultPlan(w)[i].data # Nothing /\ VaultPlan(w)[i].data # Words
        /\ \A i \in DOMAIN Notes(w), j \in DOMAIN VaultPlan(w) : i # j => Notes(w)[i].path # VaultPlan(w)[j].path
      BY <2>1, PlanFacts
  <2> QED BY <2>2 DEF w
<1>4. /\ k \in 1 .. Len(files) + 1 /\ import.todo = Left(files, k)
      /\ \A i \in DOMAIN notes : i < k => UpToDate(notes[i])
    BY <1>2 DEF AtFile
<1> HIDE DEF files, notes
<1>5. k # Len(files) + 1
    BY <1>3, <1>4, LeftFacts
<1>6. /\ k \in DOMAIN files /\ Head(import.todo) = files[k]
      /\ k + 1 \in 1 .. Len(files) + 1 /\ Tail(import.todo) = Left(files, k + 1)
    BY <1>3, <1>4, <1>5, LeftFacts
<1>7. File_ = files[k]
    BY <1>6 DEF File_
<1>8. Tail(import.todo) \in Seq(ImportFiles)
  <2>1. \A j \in 1 .. Len(files) + 1 : Left(files, j) \in Seq(ImportFiles)
      BY <1>3, LeftFacts
  <2> QED BY <1>6, <2>1
<1>9. \A i \in DOMAIN files : i \in Nat /\ files[i] \in ImportFiles
    BY <1>3, EntryFacts
<1>10. File_.path \in ImportPaths /\ File_.data \in FileData
    BY <1>6, <1>7, <1>9 DEF ImportPaths, FileData
<1>11. HandFile(k)
    BY <1>3, <1>4, <1>6, <1>7, <1>9 DEF HandFile, files, notes
<1> QED BY <1>1, <1>3, <1>6, <1>7, <1>8, <1>10, <1>11

\* A note stays up to date as long as nobody but the user changes its file.
LEMMA NextFile ==
    ASSUME NEW k \in Nat, HandFile(k), import'.read = import.read, import'.todo = Tail(import.todo),
           \A i \in DOMAIN Notes(import.read) :
               i = k \/ UpToDate(Notes(import.read)[i]) => UpToDate(Notes(import.read)[i])'
    PROVE  AtFile(k + 1)'
<1>1. \A i \in DOMAIN Notes(import.read) : i < k + 1 => i < k \/ i = k
    BY DEF HandFile
<1> QED BY <1>1 DEF HandFile, AtFile

LEMMA SameFile ==
    ASSUME ImportInv, import.pc # "idle", import'.read = import.read, import'.todo = import.todo,
           \A i \in DOMAIN Notes(import.read) :
               UpToDate(Notes(import.read)[i]) => UpToDate(Notes(import.read)[i])'
    PROVE  import'.read \in Workspaces /\ \E k \in Nat : AtFile(k)'
<1>1. import.read \in Workspaces /\ \E k \in Nat : AtFile(k)
    BY DEF ImportInv, InOrder
<1>2. PICK k \in Nat : AtFile(k)
    BY <1>1
<1>3. AtFile(k)'
    BY <1>2 DEF AtFile
<1> QED BY <1>1, <1>3

LEMMA MoveFields ==
    ASSUME import \in ImportRec
    PROVE  /\ \A pc, saw : LET to == [import EXCEPT !.pc = pc, !.saw = saw] IN
                  to.pc = pc /\ to.saw = saw /\ to.read = import.read /\ to.todo = import.todo
                  /\ to.held = import.held /\ to.written = import.written
           /\ \A pc : LET to == [import EXCEPT !.pc = pc] IN
                  to.pc = pc /\ to.saw = import.saw /\ to.read = import.read /\ to.todo = import.todo
                  /\ to.held = import.held /\ to.written = import.written
           /\ Passed.pc = "putting" /\ Passed.saw = import.saw /\ Passed.read = import.read
           /\ Passed.todo = Tail(import.todo) /\ Passed.held = import.held /\ Passed.written = import.written
           /\ Remembering.pc = "putting" /\ Remembering.saw = import.saw /\ Remembering.read = import.read
           /\ Remembering.todo = Tail(import.todo) /\ Remembering.written = import.written
           /\ Remembering.held = With(import.held, File_.path, File_.data)
           /\ LET to == [Remembering EXCEPT !.written = @ \cup {File_.path}, !.saw = Nothing] IN
                  to.pc = "putting" /\ to.saw = Nothing /\ to.read = import.read /\ to.todo = Tail(import.todo)
                  /\ to.held = With(import.held, File_.path, File_.data) /\ to.written = import.written \cup {File_.path}
    BY DEF ImportRec, Passed, Remembering

LEMMA MoveTypes ==
    ASSUME import \in ImportRec
    PROVE  /\ \A pc \in {"idle", "putting", "loaded", "writing", "done"}, saw \in FileData :
                  [import EXCEPT !.pc = pc, !.saw = saw] \in ImportRec
           /\ \A pc \in {"idle", "putting", "loaded", "writing", "done"} : [import EXCEPT !.pc = pc] \in ImportRec
           /\ Tail(import.todo) \in Seq(ImportFiles) => Passed \in ImportRec
           /\ /\ Tail(import.todo) \in Seq(ImportFiles)
              /\ With(import.held, File_.path, File_.data) \in Books
              => Remembering \in ImportRec
           /\ /\ Tail(import.todo) \in Seq(ImportFiles) /\ File_.path \in ImportPaths
              /\ With(import.held, File_.path, File_.data) \in Books
              => [Remembering EXCEPT !.written = @ \cup {File_.path}, !.saw = Nothing] \in ImportRec
<1>1. Nothing \in FileData
    BY DEF FileData
<1>2. \A s \in SUBSET ImportPaths, p \in ImportPaths : s \cup {p} \in SUBSET ImportPaths
    OBVIOUS
<1> QED BY <1>1, <1>2 DEF ImportRec, Passed, Remembering

LEMMA ImportStart == ImportInit => ImportInv
<1> SUFFICES ASSUME ImportInit PROVE ImportInv
    OBVIOUS
<1>1. notion \in Workspaces /\ vault = <<>> /\ manifest = <<>> /\ import = NoImport /\ byHand = <<>>
    BY DEF ImportInit
<1>2. /\ NoImport.pc = "idle" /\ NoImport.held = <<>> /\ NoImport.written = {} /\ NoImport.saw = Nothing
      /\ NoImport \in ImportRec
  <2>1. <<>> \in Books /\ Nothing \in FileData /\ <<>> \in Seq(ImportFiles) /\ {} \in SUBSET ImportPaths
      BY BookFacts DEF FileData
  <2> QED BY <2>1 DEF NoImport, ImportRec
<1>3. ImportTyped
    BY <1>1, <1>2, BookFacts DEF ImportTyped
<1>4. InOrder
    BY <1>1, <1>2 DEF InOrder
<1>5. Booked
    BY <1>1, BookFacts DEF Booked
<1>6. WordsStay
  <2>1. Nothing # Words
      BY DEF Nothing, Words, Contents
  <2> QED BY <1>1, <1>2, <2>1, BookFacts DEF WordsStay
<1> QED BY <1>3, <1>4, <1>5, <1>6 DEF ImportInv

\* A run begins with the saved book as its own.
LEMMA StartKeeps ==
    ASSUME ImportInv, StartImport
    PROVE  ImportInv'
<1>1. /\ ImportTyped /\ InOrder /\ Booked /\ WordsStay
      /\ UNCHANGED <<notion, vault, manifest, byHand, orphans, raced>>
      /\ import' = [NoImport EXCEPT !.pc = "putting", !.read = notion, !.todo = VaultPlan(notion), !.held = manifest]
    BY DEF ImportInv, StartImport
<1>2. import.pc \in {"idle", "done"}
    BY DEF StartImport, Underway
<1>3. import' = [pc |-> "putting", read |-> notion, todo |-> VaultPlan(notion), held |-> manifest, written |-> {}, saw |-> Nothing]
    BY <1>1 DEF NoImport
<1>4. notion \in Workspaces /\ manifest \in Books
    BY <1>1 DEF ImportTyped
<1>5. VaultPlan(notion) \in Seq(ImportFiles) /\ DOMAIN Notes(notion) \subseteq DOMAIN VaultPlan(notion)
    BY <1>4, PlanFacts
<1>6. ImportTyped'
  <2>1. Nothing \in FileData /\ {} \in SUBSET ImportPaths
      BY DEF FileData
  <2>2. import' \in ImportRec
      BY <1>3, <1>4, <1>5, <2>1 DEF ImportRec
  <2>3. import'.written = {}
      BY <1>3
  <2>4. import'.written \subseteq DOMAIN import'.held
      BY <2>3
  <2> QED BY <1>1, <2>2, <2>4 DEF ImportTyped
<1>7. InOrder'
  <2> DEFINE files == VaultPlan(notion)
  <2>1. 1 \in 1 .. Len(files) + 1 /\ Left(files, 1) = files /\ \A i \in DOMAIN files : ~(i < 1)
    <3>1. Len(files) \in Nat /\ DOMAIN files = 1 .. Len(files)
      <4> HIDE DEF files
      <4> QED BY <1>5, EntryFacts DEF files
    <3>2. 1 \in 1 .. Len(files) + 1
        BY <3>1
    <3>3. Left(files, 1) = files
      <4> HIDE DEF files
      <4> QED BY <1>5, <3>2, LeftFacts DEF files
    <3> QED BY <3>1, <3>2, <3>3
  <2>2. AtFile(1)'
      BY <1>3, <1>5, <2>1 DEF AtFile
  <2>3. 1 \in Nat
      OBVIOUS
  <2>4. \E k \in Nat : AtFile(k)'
      BY <2>2, <2>3
  <2> QED BY <1>3, <1>4, <2>4 DEF InOrder
<1>8. Booked'
  <2>1. ~Running
      BY <1>2 DEF Running
  <2>2. ~(import'.pc = "idle") /\ import'.held = manifest
      BY <1>3
  <2> QED BY <1>1, <2>1, <2>2 DEF Booked, InBook
<1>9. WordsStay'
  <2>1. Nothing # Words
      BY DEF Nothing, Words, Contents
  <2>2. import'.held = manifest /\ import'.saw = Nothing
      BY <1>3
  <2> QED BY <1>1, <2>1, <2>2 DEF WordsStay
<1> QED BY <1>6, <1>7, <1>8, <1>9 DEF ImportInv

\* A step that changes no file and no book goes on to the next file or stays.
LEMMA QuietKeeps ==
    ASSUME ImportInv, UNCHANGED <<notion, vault, manifest, byHand, orphans, raced>>,
           import' \in ImportRec, import'.read = import.read, import'.held = import.held, import'.written = import.written,
           import'.pc \in {"putting", "loaded", "writing"}, import.pc \in {"putting", "loaded", "writing"},
           import'.saw # Words, import.todo # <<>>,
           \/ import'.todo = import.todo
           \/ /\ import'.todo = Tail(import.todo) /\ import'.pc = "putting"
              /\ \A k \in Nat : HandFile(k) /\ k \in DOMAIN Notes(import.read) => UpToDate(Notes(import.read)[k])
    PROVE  ImportInv'
<1>1. ImportTyped /\ InOrder /\ Booked /\ WordsStay
    BY DEF ImportInv
<1>2. ImportTyped'
    BY <1>1 DEF ImportTyped
<1>3. \A note : UpToDate(note) => UpToDate(note)'
    BY DEF UpToDate
<1>4. InOrder'
  <2>1. CASE import'.todo = import.todo
    <3>1. import.pc # "idle" /\ \A i \in DOMAIN Notes(import.read) :
               UpToDate(Notes(import.read)[i]) => UpToDate(Notes(import.read)[i])'
        BY <1>3
    <3>2. import'.read \in Workspaces /\ \E k \in Nat : AtFile(k)'
        BY <2>1, <3>1, SameFile
    <3> QED BY <2>1, <3>2 DEF InOrder
  <2>2. CASE /\ import'.todo = Tail(import.todo) /\ import'.pc = "putting"
             /\ \A k \in Nat : HandFile(k) /\ k \in DOMAIN Notes(import.read) => UpToDate(Notes(import.read)[k])
    <3>1. import.read \in Workspaces /\ \E k \in Nat : HandFile(k)
        BY HandFacts
    <3>2. PICK k \in Nat : HandFile(k)
        BY <3>1
    <3>3. \A i \in DOMAIN Notes(import.read) :
               i = k \/ UpToDate(Notes(import.read)[i]) => UpToDate(Notes(import.read)[i])'
        BY <1>3, <2>2, <3>2
    <3>4. AtFile(k + 1)'
        BY <2>2, <3>2, <3>3, NextFile
    <3>5. k + 1 \in Nat
        OBVIOUS
    <3>6. \E j \in Nat : AtFile(j)'
        BY <3>4, <3>5
    <3> QED BY <2>2, <3>1, <3>6 DEF InOrder
  <2> QED BY <2>1, <2>2
<1>5. Booked'
    BY <1>1 DEF Booked, InBook, Running
<1>6. WordsStay'
    BY <1>1 DEF WordsStay
<1> QED BY <1>2, <1>4, <1>5, <1>6 DEF ImportInv

LEMMA DownloadKeeps ==
    ASSUME ImportInv, Download
    PROVE  ImportInv'
<1>1. /\ import.pc = "putting" /\ import.todo # <<>> /\ File_.download
      /\ UNCHANGED <<notion, vault, manifest, byHand, orphans, raced>>
      /\ import' = Passed \/ import' = [import EXCEPT !.pc = "loaded"]
    BY DEF Download, outsideImport
<1>2. ImportTyped /\ WordsStay /\ import \in ImportRec /\ import.saw # Words
    BY DEF ImportInv, ImportTyped, WordsStay
<1>3. \A k \in Nat : HandFile(k) => k \notin DOMAIN Notes(import.read)
    BY <1>1 DEF HandFile
<1>4. Tail(import.todo) \in Seq(ImportFiles)
    BY <1>1, HandFacts
<1>5. CASE import' = Passed
  <2>1. import' \in ImportRec
      BY <1>2, <1>4, <1>5, MoveTypes
  <2>2. /\ import'.pc = "putting" /\ import'.saw = import.saw /\ import'.read = import.read
        /\ import'.todo = Tail(import.todo) /\ import'.held = import.held /\ import'.written = import.written
      BY <1>2, <1>5, MoveFields
  <2> QED BY <1>1, <1>2, <1>3, <2>1, <2>2, QuietKeeps
<1>6. CASE import' = [import EXCEPT !.pc = "loaded"]
  <2>1. import' \in ImportRec
      BY <1>2, <1>6, MoveTypes
  <2>2. /\ import'.pc = "loaded" /\ import'.saw = import.saw /\ import'.read = import.read
        /\ import'.todo = import.todo /\ import'.held = import.held /\ import'.written = import.written
      BY <1>2, <1>6, MoveFields
  <2> QED BY <1>1, <1>2, <2>1, <2>2, QuietKeeps
<1> QED BY <1>1, <1>5, <1>6

\* What the books are after a file has been put into one.
LEMMA PutFacts ==
    ASSUME ImportInv, import.pc # "idle", import.todo # <<>>, NEW b \in Books
    PROVE  LET put == With(b, File_.path, File_.data) IN
           /\ put \in Books /\ DOMAIN put = DOMAIN b \cup {File_.path} /\ put[File_.path] = File_.data
           /\ \A p \in DOMAIN b : p # File_.path => put[p] = b[p]
<1>1. File_.path \in ImportPaths /\ File_.data \in FileData
    BY HandFacts
<1>2. Putting(b, File_.path, File_.data)
    BY <1>1, BookFacts
<1> QED BY <1>2 DEF Putting

\* What is there already is written down; the user's is left alone; the import's is about to be replaced.
LEMMA LookKeeps ==
    ASSUME ImportInv, Look
    PROVE  ImportInv'
<1> DEFINE put == With(import.held, File_.path, File_.data)
<1>1. /\ import.pc \in {"putting", "loaded"} /\ import.todo # <<>>
      /\ UNCHANGED <<notion, vault, manifest, byHand, orphans, raced>>
  <2>1. ImportInv /\ import.pc = "loaded" => import.todo # <<>>
      BY DEF ImportInv, InOrder
  <2> QED BY <2>1 DEF Look, outsideImport
<1>2. \/ Current = File_.data /\ import' = Remembering
      \/ Current # File_.data /\ Foreign /\ import' = Passed
      \/ Current # File_.data /\ ~Foreign /\ import' = [import EXCEPT !.pc = "writing", !.saw = Current]
    BY DEF Look
<1>3. /\ ImportTyped /\ InOrder /\ Booked /\ WordsStay /\ import \in ImportRec /\ import.saw # Words
      /\ import.held \in Books /\ vault \in Books
    BY DEF ImportInv, ImportTyped, WordsStay, ImportRec
<1>4. /\ Tail(import.todo) \in Seq(ImportFiles) /\ File_.path \in ImportPaths
      /\ File_.data \in FileData /\ File_.data # Nothing /\ File_.data # Words
    BY <1>1, HandFacts
<1>5. CASE Current = File_.data /\ import' = Remembering
  <2>1. /\ put \in Books /\ DOMAIN put = DOMAIN import.held \cup {File_.path} /\ put[File_.path] = File_.data
        /\ \A p \in DOMAIN import.held : p # File_.path => put[p] = import.held[p]
      BY <1>1, <1>3, PutFacts
  <2>2. import' \in ImportRec
      BY <1>3, <1>4, <1>5, <2>1, MoveTypes
  <2>3. /\ import'.pc = "putting" /\ import'.saw = import.saw /\ import'.read = import.read
        /\ import'.todo = Tail(import.todo) /\ import'.held = put /\ import'.written = import.written
      BY <1>3, <1>5, MoveFields
  <2>4. File_.path \in DOMAIN vault /\ vault[File_.path] = File_.data
      BY <1>4, <1>5 DEF Current
  <2> HIDE DEF put
  <2>5. ImportTyped'
    <3>1. import.written \subseteq DOMAIN import.held
        BY <1>3 DEF ImportTyped
    <3>2. import'.written \subseteq DOMAIN import'.held
        BY <2>1, <2>3, <3>1
    <3> QED BY <1>1, <1>3, <2>2, <3>2 DEF ImportTyped
  <2>6. InOrder'
    <3>1. import.read \in Workspaces /\ \E k \in Nat : HandFile(k)
        BY <1>1, HandFacts
    <3>2. PICK k \in Nat : HandFile(k)
        BY <3>1
    <3>3. \A note : UpToDate(note) => UpToDate(note)'
        BY <1>1 DEF UpToDate
    <3>4. k \in DOMAIN Notes(import.read) => UpToDate(Notes(import.read)[k])
        BY <2>4, <3>2 DEF HandFile, UpToDate
    <3>5. \A i \in DOMAIN Notes(import.read) :
               i = k \/ UpToDate(Notes(import.read)[i]) => UpToDate(Notes(import.read)[i])'
        BY <2>3, <3>3, <3>4
    <3>6. AtFile(k + 1)'
        BY <2>3, <3>2, <3>5, NextFile
    <3>7. k + 1 \in Nat
        OBVIOUS
    <3>8. \E j \in Nat : AtFile(j)'
        BY <3>6, <3>7
    <3> QED BY <2>3, <3>1, <3>8 DEF InOrder
  <2>7. Booked'
    <3>1. Running
        BY <1>1 DEF Running
    <3>2. ASSUME NEW path \in DOMAIN vault, path \notin DOMAIN byHand, path \notin orphans
          PROVE  (path \in import.written \/ InBook(manifest, path)) /\ path \in DOMAIN put /\ put[path] = vault[path]
      <4>1. (path \in import.written \/ InBook(manifest, path)) /\ path \in DOMAIN import.held /\ import.held[path] = vault[path]
          BY <1>3, <3>1, <3>2 DEF Booked, InBook
      <4> QED BY <2>1, <2>4, <4>1
    <3>3. Running'
        BY <2>3 DEF Running
    <3> QED BY <1>1, <2>3, <3>2, <3>3 DEF Booked, InBook
  <2>8. WordsStay'
    <3>1. \A path \in DOMAIN put : put[path] # Words
        BY <1>3, <1>4, <2>1 DEF WordsStay
    <3> QED BY <1>1, <1>3, <2>3, <3>1 DEF WordsStay
  <2> QED BY <2>5, <2>6, <2>7, <2>8 DEF ImportInv
<1>6. CASE Current # File_.data /\ Foreign /\ import' = Passed
  <2>1. import' \in ImportRec
      BY <1>3, <1>4, <1>6, MoveTypes
  <2>2. /\ import'.pc = "putting" /\ import'.saw = import.saw /\ import'.read = import.read
        /\ import'.todo = Tail(import.todo) /\ import'.held = import.held /\ import'.written = import.written
      BY <1>3, <1>6, MoveFields
  <2>3. File_.path \in DOMAIN byHand \cup orphans
    <3>1. Running
        BY <1>1 DEF Running
    <3>2. /\ File_.path \in DOMAIN vault /\ Current = vault[File_.path]
          /\ File_.path \notin DOMAIN import.held \/ import.held[File_.path] # Current
        BY <1>6 DEF Foreign, Current
    <3>3. ~InBook(import.held, File_.path)
        BY <3>2 DEF InBook
    <3> QED BY <1>3, <3>1, <3>2, <3>3 DEF Booked
  <2>4. \A k \in Nat : HandFile(k) /\ k \in DOMAIN Notes(import.read) => UpToDate(Notes(import.read)[k])
      BY <2>3 DEF HandFile, UpToDate
  <2> QED BY <1>1, <1>3, <2>1, <2>2, <2>4, QuietKeeps
<1>7. CASE Current # File_.data /\ ~Foreign /\ import' = [import EXCEPT !.pc = "writing", !.saw = Current]
  <2>1. Current \in FileData /\ Current # Words
    <3>1. Nothing \in FileData /\ Nothing # Words
        BY DEF FileData, Nothing, Words, Contents
    <3>2. CASE Current = Nothing
        BY <3>1, <3>2
    <3>3. CASE Current # Nothing
      <4>1. File_.path \in DOMAIN import.held /\ import.held[File_.path] = Current
          BY <1>7, <3>3 DEF Foreign
      <4>2. \A p \in DOMAIN import.held : import.held[p] \in FileData /\ import.held[p] # Words
          BY <1>3, BookFacts DEF WordsStay
      <4> QED BY <4>1, <4>2
    <3> QED BY <3>2, <3>3
  <2>2. import' \in ImportRec
      BY <1>3, <1>7, <2>1, MoveTypes
  <2>3. /\ import'.pc = "writing" /\ import'.saw = Current /\ import'.read = import.read
        /\ import'.todo = import.todo /\ import'.held = import.held /\ import'.written = import.written
      BY <1>3, <1>7, MoveFields
  <2> QED BY <1>1, <2>1, <2>2, <2>3, QuietKeeps
<1> QED BY <1>2, <1>5, <1>6, <1>7

\* The import writes the file at hand.
LEMMA ReplaceKeeps ==
    ASSUME ImportInv, Replace
    PROVE  ImportInv'
<1> DEFINE path == File_.path
           put == With(import.held, File_.path, File_.data)
           there == With(vault, File_.path, File_.data)
           hands == {q \in DOMAIN byHand : q # File_.path \/ byHand[q] # Nothing}
<1>1. /\ import.pc = "writing" /\ import.todo # <<>>
      /\ UNCHANGED <<notion, manifest, orphans>>
      /\ vault' = there
      /\ import' = [Remembering EXCEPT !.written = @ \cup {File_.path}, !.saw = Nothing]
      /\ raced' = IF Current = import.saw THEN raced ELSE raced \cup {File_.path}
      /\ byHand' = [p \in hands |-> byHand[p]]
  <2>1. ImportInv /\ import.pc = "writing" => import.todo # <<>>
      BY DEF ImportInv, InOrder
  <2> QED BY <2>1 DEF Replace, outsideImport
<1>2. /\ ImportTyped /\ InOrder /\ Booked /\ WordsStay /\ import \in ImportRec /\ import.saw # Words
      /\ import.held \in Books /\ vault \in Books /\ manifest \in Books /\ byHand \in Books
      /\ import.written \subseteq DOMAIN import.held
    BY DEF ImportInv, ImportTyped, WordsStay, ImportRec
<1>3. /\ Tail(import.todo) \in Seq(ImportFiles) /\ path \in ImportPaths
      /\ File_.data \in FileData /\ File_.data # Nothing /\ File_.data # Words
    BY <1>1, HandFacts
<1>4. /\ put \in Books /\ DOMAIN put = DOMAIN import.held \cup {path} /\ put[path] = File_.data
      /\ \A p \in DOMAIN import.held : p # path => put[p] = import.held[p]
    BY <1>1, <1>2, PutFacts
<1>5. /\ there \in Books /\ DOMAIN there = DOMAIN vault \cup {path} /\ there[path] = File_.data
      /\ \A p \in DOMAIN vault : p # path => there[p] = vault[p]
    BY <1>1, <1>2, PutFacts
<1>6. /\ byHand' \in Books /\ DOMAIN byHand' = hands /\ \A p \in hands : byHand'[p] = byHand[p]
  <2>1. hands \subseteq DOMAIN byHand /\ DOMAIN byHand \subseteq ImportPaths
      BY <1>2, BookFacts
  <2>2. hands \in SUBSET ImportPaths
      BY <2>1
  <2>3. [p \in hands |-> byHand[p]] \in Books
      BY <1>2, <2>1, <2>2, BookFacts
  <2> QED BY <1>1, <2>3
<1>7. import' \in ImportRec
    BY <1>1, <1>2, <1>3, <1>4, MoveTypes
<1>8. /\ import'.pc = "putting" /\ import'.saw = Nothing /\ import'.read = import.read /\ import'.todo = Tail(import.todo)
      /\ import'.held = put /\ import'.written = import.written \cup {path}
    BY <1>1, <1>2, MoveFields
<1> HIDE DEF put, there
<1>9. ImportTyped'
  <2>1. import'.written \subseteq DOMAIN import'.held
      BY <1>2, <1>4, <1>8
  <2> QED BY <1>1, <1>2, <1>5, <1>6, <1>7, <2>1 DEF ImportTyped
<1>10. \A p \in DOMAIN byHand : p # path => p \in DOMAIN byHand' /\ byHand'[p] = byHand[p]
    BY <1>6
<1>11. InOrder'
  <2>1. import.read \in Workspaces /\ \E k \in Nat : HandFile(k)
      BY <1>1, HandFacts
  <2>2. PICK k \in Nat : HandFile(k)
      BY <2>1
  <2>3. ASSUME NEW i \in DOMAIN Notes(import.read), i = k \/ UpToDate(Notes(import.read)[i])
        PROVE  UpToDate(Notes(import.read)[i])'
    <3> DEFINE note == Notes(import.read)[i]
    <3>1. CASE i = k
      <4>1. note = File_
          BY <2>2, <3>1 DEF HandFile
      <4>2. note.path \in DOMAIN vault' /\ vault'[note.path] = note.data
          BY <1>1, <1>5, <4>1
      <4>3. Notes(import.read)' = Notes(import.read)
          BY <1>8
      <4> QED BY <4>2, <4>3 DEF UpToDate
    <3>2. CASE i # k
      <4>1. note.path # path /\ UpToDate(note)
          BY <2>2, <2>3, <3>2 DEF HandFile
      <4>2. \/ note.path \in DOMAIN vault' /\ vault'[note.path] = note.data
            \/ note.path \in DOMAIN byHand' \cup orphans'
          BY <1>1, <1>5, <1>10, <4>1 DEF UpToDate
      <4>3. Notes(import.read)' = Notes(import.read)
          BY <1>8
      <4> QED BY <4>2, <4>3 DEF UpToDate
    <3> QED BY <3>1, <3>2
  <2>4. AtFile(k + 1)'
      BY <1>8, <2>2, <2>3, NextFile
  <2>5. k + 1 \in Nat
      OBVIOUS
  <2>6. \E j \in Nat : AtFile(j)'
      BY <2>4, <2>5
  <2> QED BY <1>8, <2>1, <2>6 DEF InOrder
<1>12. Booked'
  <2>1. Running
      BY <1>1 DEF Running
  <2>2. ASSUME NEW p \in DOMAIN vault', p \notin DOMAIN byHand', p \notin orphans'
        PROVE  (p \in import'.written \/ (p \in DOMAIN manifest' /\ manifest'[p] = vault'[p]))
               /\ p \in DOMAIN import'.held /\ import'.held[p] = vault'[p]
    <3>1. CASE p = path
        BY <1>1, <1>4, <1>5, <1>8, <3>1
    <3>2. CASE p # path
      <4>1. p \in DOMAIN vault /\ p \notin DOMAIN byHand /\ p \notin orphans
          BY <1>1, <1>5, <1>10, <2>2, <3>2
      <4>2. (p \in import.written \/ (p \in DOMAIN manifest /\ manifest[p] = vault[p]))
            /\ p \in DOMAIN import.held /\ import.held[p] = vault[p]
          BY <1>2, <2>1, <4>1 DEF Booked, InBook
      <4> QED BY <1>1, <1>4, <1>5, <1>8, <3>2, <4>1, <4>2
    <3> QED BY <3>1, <3>2
  <2>3. Running'
      BY <1>8 DEF Running
  <2> QED BY <2>2, <2>3 DEF Booked, InBook
<1>13. WordsStay'
  <2>1. \A p \in DOMAIN import'.held : import'.held[p] # Words
      BY <1>2, <1>3, <1>4, <1>8 DEF WordsStay
  <2>2. import'.saw # Words
    <3>1. Nothing # Words
        BY DEF Nothing, Words, Contents
    <3> QED BY <1>8, <3>1
  <2>3. \A p \in DOMAIN vault' : vault'[p] # Nothing
      BY <1>1, <1>2, <1>3, <1>5 DEF WordsStay
  <2>4. ASSUME NEW p \in DOMAIN byHand', p \notin raced', byHand'[p] = Words
        PROVE  p \in DOMAIN vault' /\ vault'[p] = Words
    <3>1. p \in DOMAIN byHand /\ byHand[p] = Words /\ p \notin raced
        BY <1>1, <1>6, <2>4
    <3>2. p \in DOMAIN vault /\ vault[p] = Words
        BY <1>2, <3>1 DEF WordsStay
    <3>3. p # path
      <4>1. SUFFICES ASSUME p = path PROVE FALSE
          OBVIOUS
      <4>2. Current = Words
          BY <3>2, <4>1 DEF Current
      <4>3. Current # import.saw
          BY <1>2, <4>2
      <4> QED BY <1>1, <2>4, <4>1, <4>3
    <3> QED BY <1>1, <1>5, <3>2, <3>3
  <2>5. \A p \in DOMAIN manifest' : manifest'[p] # Words
      BY <1>1, <1>2 DEF WordsStay
  <2> QED BY <2>1, <2>2, <2>3, <2>4, <2>5 DEF WordsStay
<1> QED BY <1>9, <1>11, <1>12, <1>13 DEF ImportInv

LEMMA SaveKeeps ==
    ASSUME ImportInv, SaveManifest
    PROVE  ImportInv'
<1>1. /\ import.pc = "putting" /\ import.todo = <<>> /\ manifest' = import.held
      /\ import' = [import EXCEPT !.pc = "done"]
      /\ UNCHANGED <<notion, vault, byHand, orphans, raced>>
    BY DEF SaveManifest, outsideImport
<1>2. /\ ImportTyped /\ InOrder /\ Booked /\ WordsStay /\ import \in ImportRec /\ import.held \in Books
      /\ import.written \subseteq DOMAIN import.held
    BY DEF ImportInv, ImportTyped, ImportRec
<1>3. import' \in ImportRec
    BY <1>1, <1>2, MoveTypes
<1>4. /\ import'.pc = "done" /\ import'.saw = import.saw /\ import'.read = import.read
      /\ import'.todo = import.todo /\ import'.held = import.held /\ import'.written = import.written
    BY <1>1, <1>2, MoveFields
<1>5. ImportTyped'
    BY <1>1, <1>2, <1>3, <1>4 DEF ImportTyped
<1>6. InOrder'
  <2>1. import.pc # "idle" /\ \A i \in DOMAIN Notes(import.read) :
             UpToDate(Notes(import.read)[i]) => UpToDate(Notes(import.read)[i])'
    <3>1. \A note : UpToDate(note) => UpToDate(note)'
        BY <1>1 DEF UpToDate
    <3> QED BY <1>1, <1>4, <3>1
  <2>2. import'.read \in Workspaces /\ \E k \in Nat : AtFile(k)'
      BY <1>4, <2>1, SameFile
  <2> QED BY <1>1, <1>4, <2>2 DEF InOrder
<1>7. Booked'
  <2>1. Running /\ ~Running'
      BY <1>1, <1>4 DEF Running
  <2> QED BY <1>1, <1>2, <2>1 DEF Booked, InBook
<1>8. WordsStay'
    BY <1>1, <1>2, <1>4 DEF WordsStay
<1> QED BY <1>5, <1>6, <1>7, <1>8 DEF ImportInv

\* What a run had written when it died is in no book: it counts among the orphans.
LEMMA DeathKeeps ==
    ASSUME ImportInv, ImportDies
    PROVE  ImportInv'
<1>1. /\ import' = NoImport /\ orphans' = orphans \cup import.written
      /\ UNCHANGED <<notion, vault, manifest, byHand, raced>>
    BY DEF ImportDies
<1>2. ImportTyped /\ Booked /\ WordsStay
    BY DEF ImportInv
<1>3. /\ NoImport.pc = "idle" /\ NoImport.held = <<>> /\ NoImport.written = {} /\ NoImport.saw = Nothing
      /\ NoImport \in ImportRec
  <2>1. <<>> \in Books /\ Nothing \in FileData /\ <<>> \in Seq(ImportFiles) /\ {} \in SUBSET ImportPaths
      BY BookFacts DEF FileData
  <2> QED BY <2>1 DEF NoImport, ImportRec
<1>4. ImportTyped'
    BY <1>1, <1>2, <1>3 DEF ImportTyped
<1>5. InOrder'
    BY <1>1, <1>3 DEF InOrder
<1>6. Booked'
  <2>1. ~Running'
      BY <1>1, <1>3 DEF Running
  <2> QED BY <1>1, <1>2, <2>1 DEF Booked, InBook
<1>7. WordsStay'
  <2>1. Nothing # Words
      BY DEF Nothing, Words, Contents
  <2> QED BY <1>1, <1>2, <1>3, <2>1, BookFacts DEF WordsStay
<1> QED BY <1>4, <1>5, <1>6, <1>7 DEF ImportInv

\* The user changes one file: it is theirs from now on, and every note of it is excused.
LEMMA UserKeeps ==
    ASSUME ImportInv, NEW path \in ImportPaths, NEW contents \in FileData,
           UNCHANGED <<notion, manifest, import, orphans, raced>>,
           byHand' = With(byHand, path, contents), vault' \in Books,
           \A p \in DOMAIN vault : p # path => p \in DOMAIN vault' /\ vault'[p] = vault[p],
           \A p \in DOMAIN vault' : p = path \/ p \in DOMAIN vault,
           contents = Words => path \in DOMAIN vault' /\ vault'[path] = Words,
           path \in DOMAIN vault' => vault'[path] # Nothing
    PROVE  ImportInv'
<1>1. ImportTyped /\ InOrder /\ Booked /\ WordsStay /\ byHand \in Books
    BY DEF ImportInv, ImportTyped
<1>2. /\ byHand' \in Books /\ DOMAIN byHand' = DOMAIN byHand \cup {path} /\ byHand'[path] = contents
      /\ \A p \in DOMAIN byHand : p # path => byHand'[p] = byHand[p]
  <2>1. Putting(byHand, path, contents)
      BY <1>1, BookFacts
  <2> QED BY <2>1 DEF Putting
<1>3. ImportTyped'
    BY <1>1, <1>2 DEF ImportTyped
<1>4. \A note : UpToDate(note) => UpToDate(note)'
  <2> SUFFICES ASSUME NEW note, UpToDate(note) PROVE UpToDate(note)'
      OBVIOUS
  <2>1. CASE note.path \in DOMAIN byHand \cup orphans
      BY <1>2, <2>1 DEF UpToDate
  <2>2. CASE note.path \in DOMAIN vault /\ vault[note.path] = note.data
      BY <1>2, <2>2 DEF UpToDate
  <2> QED BY <2>1, <2>2 DEF UpToDate
<1>5. InOrder'
  <2>1. CASE import.pc = "idle"
      BY <1>1, <2>1 DEF InOrder
  <2>2. CASE import.pc # "idle"
    <3>1. import'.read \in Workspaces /\ \E k \in Nat : AtFile(k)'
        BY <1>4, <2>2, SameFile
    <3> QED BY <1>1, <3>1 DEF InOrder
  <2> QED BY <2>1, <2>2
<1>6. Booked'
  <2>1. ASSUME NEW p \in DOMAIN vault', p \notin DOMAIN byHand', p \notin orphans'
        PROVE  /\ (Running /\ p \in import.written) \/ (p \in DOMAIN manifest /\ manifest[p] = vault'[p])
               /\ Running => p \in DOMAIN import.held /\ import.held[p] = vault'[p]
    <3>1. p \in DOMAIN vault /\ p \notin DOMAIN byHand /\ p \notin orphans /\ vault'[p] = vault[p]
        BY <1>2, <2>1
    <3> QED BY <1>1, <3>1 DEF Booked, InBook
  <2>2. Running' <=> Running
      BY DEF Running
  <2> QED BY <2>1, <2>2 DEF Booked, InBook
<1>7. WordsStay'
  <2>1. ASSUME NEW p \in DOMAIN byHand', p \notin raced', byHand'[p] = Words
        PROVE  p \in DOMAIN vault' /\ vault'[p] = Words
    <3>1. CASE p = path
        BY <1>2, <2>1, <3>1
    <3>2. CASE p # path
        BY <1>1, <1>2, <2>1, <3>2 DEF WordsStay
    <3> QED BY <3>1, <3>2
  <2>2. \A p \in DOMAIN vault' : vault'[p] # Nothing
      BY <1>1 DEF WordsStay
  <2> QED BY <1>1, <2>1, <2>2 DEF WordsStay
<1> QED BY <1>3, <1>5, <1>6, <1>7 DEF ImportInv

LEMMA WriteKeeps ==
    ASSUME ImportInv, NEW path \in ImportPaths, WriteFile(path)
    PROVE  ImportInv'
<1>1. PICK contents \in {Words} \cup Versions[path] : vault' = With(vault, path, contents) /\ ByHand_(path, contents)
    BY DEF WriteFile
<1>2. contents \in FileData /\ contents # Nothing
  <2>1. CASE contents = Words
      BY <2>1 DEF FileData, Nothing, Words, Contents
  <2>2. CASE contents # Words
    <3>1. contents \in {f.data : f \in {g \in ImportFiles : g.path = path}}
        BY <1>1, <2>2 DEF Versions
    <3>2. PICK f \in ImportFiles : f.data = contents
        BY <3>1
    <3>3. PICK w \in Workspaces : f \in ToSet(VaultPlan(w))
        BY DEF ImportFiles
    <3>4. \A i \in DOMAIN VaultPlan(w) : VaultPlan(w)[i].data # Nothing
        BY PlanFacts
    <3>5. PICK i \in DOMAIN VaultPlan(w) : f = VaultPlan(w)[i]
        BY <3>3 DEF ToSet
    <3> QED BY <3>2, <3>4, <3>5 DEF FileData
  <2> QED BY <2>1, <2>2
<1>3. vault \in Books
    BY DEF ImportInv, ImportTyped
<1>4. /\ vault' \in Books /\ DOMAIN vault' = DOMAIN vault \cup {path} /\ vault'[path] = contents
      /\ \A p \in DOMAIN vault : p # path => vault'[p] = vault[p]
  <2>1. Putting(vault, path, contents)
      BY <1>2, <1>3, BookFacts
  <2> QED BY <1>1, <2>1 DEF Putting
<1>5. UNCHANGED <<notion, manifest, import, orphans, raced>> /\ byHand' = With(byHand, path, contents)
    BY <1>1 DEF ByHand_
<1> QED BY <1>2, <1>4, <1>5, UserKeeps

LEMMA DeleteKeeps ==
    ASSUME ImportInv, NEW path \in ImportPaths, DeleteFile(path)
    PROVE  ImportInv'
<1>1. /\ vault' = [p \in DOMAIN vault \ {path} |-> vault[p]]
      /\ UNCHANGED <<notion, manifest, import, orphans, raced>> /\ byHand' = With(byHand, path, Nothing)
    BY DEF DeleteFile, ByHand_
<1>2. Nothing \in FileData /\ Nothing # Words
    BY DEF FileData, Nothing, Words, Contents
<1>3. vault' \in Books
  <2>1. vault \in Books /\ DOMAIN vault \subseteq ImportPaths
      BY BookFacts DEF ImportInv, ImportTyped
  <2>2. DOMAIN vault \ {path} \in SUBSET ImportPaths /\ DOMAIN vault \ {path} \subseteq DOMAIN vault
      BY <2>1
  <2> QED BY <1>1, <2>1, <2>2, BookFacts
<1> QED BY <1>1, <1>2, <1>3, UserKeeps

\* A change in Notion touches no file and no book.
LEMMA ElsewhereKeeps ==
    ASSUME ImportInv, notion' \in Workspaces, UNCHANGED <<vault, manifest, import, byHand, orphans, raced>>
    PROVE  ImportInv'
<1>1. ImportTyped /\ InOrder /\ Booked /\ WordsStay
    BY DEF ImportInv
<1>2. ImportTyped'
    BY <1>1 DEF ImportTyped
<1>3. InOrder'
    BY <1>1 DEF InOrder, AtFile, UpToDate
<1>4. Booked'
    BY <1>1 DEF Booked, InBook, Running
<1>5. WordsStay'
    BY <1>1 DEF WordsStay
<1> QED BY <1>2, <1>3, <1>4, <1>5 DEF ImportInv

LEMMA ImportInvariance == ImportSpec => []ImportInv
<1>1. ImportInv /\ [ImportNext]_importVars => ImportInv'
  <2> SUFFICES ASSUME ImportInv, [ImportNext]_importVars PROVE ImportInv'
      OBVIOUS
  <2>1. CASE StartImport
      BY <2>1, StartKeeps
  <2>2. CASE Download
      BY <2>2, DownloadKeeps
  <2>3. CASE Look
      BY <2>3, LookKeeps
  <2>4. CASE Replace
      BY <2>4, ReplaceKeeps
  <2>5. CASE SaveManifest
      BY <2>5, SaveKeeps
  <2>6. CASE ImportDies
      BY <2>6, DeathKeeps
  <2>7. ASSUME NEW path \in ImportPaths, WriteFile(path) \/ DeleteFile(path) PROVE ImportInv'
      BY <2>7, WriteKeeps, DeleteKeeps
  <2>8. CASE NotionChanges
    <3>1. notion' \in Workspaces /\ UNCHANGED <<vault, manifest, import, byHand, orphans, raced>>
        BY <2>8 DEF NotionChanges
    <3> QED BY <3>1, ElsewhereKeeps
  <2>9. CASE UNCHANGED importVars
    <3>1. notion' \in Workspaces /\ UNCHANGED <<vault, manifest, import, byHand, orphans, raced>>
        BY <2>9 DEF importVars, ImportInv, ImportTyped
    <3> QED BY <3>1, ElsewhereKeeps
  <2> QED BY <2>1, <2>2, <2>3, <2>4, <2>5, <2>6, <2>7, <2>8, <2>9 DEF ImportNext
<1> QED BY <1>1, ImportStart, PTL DEF ImportSpec

\* The import's files, its two books and its list of what it wrote have the shapes that apply() keeps
\* them in: every entry is of a file the plan of some workspace names.
THEOREM ImportTypeCorrect == ImportSpec => []ImportTypeOK
<1>1. ImportInv => ImportTypeOK
  <2> SUFFICES ASSUME ImportInv PROVE ImportTypeOK
      OBVIOUS
  <2>1. /\ vault \in Books /\ manifest \in Books /\ import.held \in Books /\ import.written \subseteq DOMAIN import.held
        /\ import.pc \in {"idle", "putting", "loaded", "writing", "done"}
      BY DEF ImportInv, ImportTyped, ImportRec
  <2>2. import.pc \in {"loaded", "writing"} => import.todo # <<>>
      BY DEF ImportInv, InOrder
  <2> QED BY <2>1, <2>2, BookFacts DEF ImportTypeOK
<1> QED BY <1>1, ImportInvariance, PTL

\* apply() minds its own files: whatever Notion holds, however often it runs or dies and whatever the
\* user does meanwhile, the user's words stay, and a run that ends has brought every note up to date
\* that neither the user nor a run that died has touched.
THEOREM TheImportMindsItsOwn == ImportSpec => []ImportMindsItsOwn
<1>1. ImportInv => ImportMindsItsOwn
  <2> SUFFICES ASSUME ImportInv PROVE ImportMindsItsOwn
      OBVIOUS
  <2>1. \A path \in DOMAIN byHand \ raced :
            \/ byHand[path] = Nothing
            \/ path \in DOMAIN vault /\ vault[path] = byHand[path]
            \/ byHand[path] # Words
      BY DEF ImportInv, WordsStay
  <2>2. ASSUME import.pc = "done", NEW i \in DOMAIN Notes(import.read) PROVE UpToDate(Notes(import.read)[i])
    <3> DEFINE files == VaultPlan(import.read)
    <3>1. import.read \in Workspaces /\ (\E k \in Nat : AtFile(k)) /\ import.todo = <<>>
        BY <2>2 DEF ImportInv, InOrder
    <3>2. PICK k \in Nat : AtFile(k)
        BY <3>1
    <3>3. files \in Seq(ImportFiles) /\ DOMAIN Notes(import.read) \subseteq DOMAIN files
        BY <3>1, PlanFacts
    <3>4. k \in 1 .. Len(files) + 1 /\ import.todo = Left(files, k)
          /\ \A j \in DOMAIN Notes(import.read) : j < k => UpToDate(Notes(import.read)[j])
        BY <3>2 DEF AtFile
    <3> HIDE DEF files
    <3>5. k = Len(files) + 1
        BY <3>1, <3>3, <3>4, LeftFacts
    <3>6. i \in 1 .. Len(files) /\ Len(files) \in Nat
        BY <3>3, EntryFacts
    <3>7. i < k
        BY <3>5, <3>6
    <3> QED BY <3>4, <3>7
  <2> QED BY <2>1, <2>2 DEF ImportMindsItsOwn, UpToDate, ToSet
<1> QED BY <1>1, ImportInvariance, PTL

----------------------------------------------------------------------------
(* PageEdits: what stood on the page is safe                               *)

LEMMA SliceFacts ==
    ASSUME NEW S, NEW s \in Seq(S), NEW m \in Nat \ {0}, NEW n \in Nat, n <= Len(s), m <= n + 1
    PROVE  /\ SubSeq(s, m, n) \in Seq(S) /\ Len(SubSeq(s, m, n)) = n - m + 1
           /\ \A i \in 1 .. n - m + 1 : SubSeq(s, m, n)[i] = s[m + i - 1]
<1>1. Len(s) \in Nat /\ \A i \in 1 .. Len(s) : s[i] \in S
    BY EntryFacts
<1>2. \A i \in m .. n : s[i] \in S
  <2>1. \A i \in m .. n : i \in 1 .. Len(s)
      BY <1>1
  <2> QED BY <1>1, <2>1
<1>3. /\ SubSeq(s, m, n) \in Seq(S)
      /\ Len(SubSeq(s, m, n)) = IF m <= n THEN n - m + 1 ELSE 0
      /\ \A i \in 1 .. n - m + 1 : SubSeq(s, m, n)[i] = s[m + i - 1]
    BY <1>2, SubSeqProperties
<1>4. ~(m <= n) => n - m + 1 = 0
    OBVIOUS
<1> QED BY <1>3, <1>4

\* A sequence with another one put in behind the given place, and one with an entry taken out.
Spliced(s, at, t) == SubSeq(s, 1, at) \o t \o SubSeq(s, at + 1, Len(s))
LEMMA SpliceFacts ==
    ASSUME NEW S, NEW s \in Seq(S), NEW t \in Seq(S), NEW at \in 0 .. Len(s)
    PROVE  /\ Spliced(s, at, t) \in Seq(S) /\ Len(Spliced(s, at, t)) = Len(s) + Len(t)
           /\ \A i \in 1 .. Len(s) + Len(t) :
                  Spliced(s, at, t)[i] = IF i <= at THEN s[i] ELSE IF i <= at + Len(t) THEN t[i - at] ELSE s[i - Len(t)]
<1> DEFINE a == SubSeq(s, 1, at)  b == SubSeq(s, at + 1, Len(s))
<1>1. Len(s) \in Nat /\ Len(t) \in Nat /\ at \in Nat /\ at <= Len(s)
    BY EntryFacts
<1>2. a \in Seq(S) /\ Len(a) = at /\ \A i \in 1 .. at : a[i] = s[i]
  <2>1. /\ SubSeq(s, 1, at) \in Seq(S) /\ Len(SubSeq(s, 1, at)) = at - 1 + 1
        /\ \A i \in 1 .. at - 1 + 1 : SubSeq(s, 1, at)[i] = s[1 + i - 1]
      BY <1>1, SliceFacts
  <2>2. at - 1 + 1 = at /\ \A i \in 1 .. at : 1 + i - 1 = i
      BY <1>1
  <2> QED BY <2>1, <2>2
<1>3. b \in Seq(S) /\ Len(b) = Len(s) - at /\ \A i \in 1 .. Len(s) - at : b[i] = s[at + i]
  <2>1. at + 1 \in Nat \ {0} /\ at + 1 <= Len(s) + 1 /\ Len(s) <= Len(s)
      BY <1>1
  <2>2. /\ SubSeq(s, at + 1, Len(s)) \in Seq(S) /\ Len(SubSeq(s, at + 1, Len(s))) = Len(s) - (at + 1) + 1
        /\ \A i \in 1 .. Len(s) - (at + 1) + 1 : SubSeq(s, at + 1, Len(s))[i] = s[at + 1 + i - 1]
      BY <1>1, <2>1, SliceFacts
  <2>3. Len(s) - (at + 1) + 1 = Len(s) - at /\ \A i \in 1 .. Len(s) - at : at + 1 + i - 1 = at + i
      BY <1>1
  <2> QED BY <2>2, <2>3
<1> HIDE DEF a, b
<1>4. /\ a \o t \in Seq(S) /\ Len(a \o t) = at + Len(t)
      /\ \A i \in 1 .. at + Len(t) : (a \o t)[i] = IF i <= at THEN a[i] ELSE t[i - at]
    BY <1>2, ConcatProperties
<1>5. /\ (a \o t) \o b \in Seq(S) /\ Len((a \o t) \o b) = at + Len(t) + (Len(s) - at)
      /\ \A i \in 1 .. at + Len(t) + (Len(s) - at) :
             ((a \o t) \o b)[i] = IF i <= at + Len(t) THEN (a \o t)[i] ELSE b[i - (at + Len(t))]
  <2>1. /\ (a \o t) \o b \in Seq(S) /\ Len((a \o t) \o b) = Len(a \o t) + Len(b)
        /\ \A i \in 1 .. Len(a \o t) + Len(b) :
               ((a \o t) \o b)[i] = IF i <= Len(a \o t) THEN (a \o t)[i] ELSE b[i - Len(a \o t)]
      BY <1>3, <1>4, ConcatProperties
  <2>2. Len(a \o t) = at + Len(t) /\ Len(b) = Len(s) - at
      BY <1>3, <1>4
  <2> QED BY <2>1, <2>2
<1>6. at + Len(t) + (Len(s) - at) = Len(s) + Len(t)
    BY <1>1
<1>7. Spliced(s, at, t) = (a \o t) \o b
    BY DEF Spliced, a, b
<1>8. ASSUME NEW i \in 1 .. Len(s) + Len(t)
      PROVE  ((a \o t) \o b)[i] = IF i <= at THEN s[i] ELSE IF i <= at + Len(t) THEN t[i - at] ELSE s[i - Len(t)]
  <2>1. CASE i <= at
    <3>1. i \in 1 .. at /\ i \in 1 .. at + Len(t)
        BY <1>1, <2>1
    <3> QED BY <1>2, <1>4, <1>5, <1>6, <2>1, <3>1
  <2>2. CASE ~(i <= at) /\ i <= at + Len(t)
    <3>1. i \in 1 .. at + Len(t)
        BY <1>1, <2>2
    <3> QED BY <1>4, <1>5, <1>6, <2>2, <3>1
  <2>3. CASE ~(i <= at + Len(t))
    <3>1. i - (at + Len(t)) \in 1 .. Len(s) - at /\ at + (i - (at + Len(t))) = i - Len(t) /\ ~(i <= at)
        BY <1>1, <2>3
    <3> QED BY <1>3, <1>5, <1>6, <2>3, <3>1
  <2> QED BY <2>1, <2>2, <2>3
<1> QED BY <1>5, <1>6, <1>7, <1>8

LEMMA RemoveFacts ==
    ASSUME NEW S, NEW s \in Seq(S), NEW at \in 1 .. Len(s)
    PROVE  /\ RemoveAt(s, at) \in Seq(S) /\ Len(RemoveAt(s, at)) = Len(s) - 1
           /\ \A i \in 1 .. Len(s) - 1 : RemoveAt(s, at)[i] = IF i < at THEN s[i] ELSE s[i + 1]
<1> DEFINE a == SubSeq(s, 1, at - 1)  b == SubSeq(s, at + 1, Len(s))
<1>1. Len(s) \in Nat /\ at \in Nat \ {0} /\ at <= Len(s) /\ at - 1 \in Nat
    BY EntryFacts
<1>2. a \in Seq(S) /\ Len(a) = at - 1 /\ \A i \in 1 .. at - 1 : a[i] = s[i]
  <2>1. 1 \in Nat \ {0} /\ at - 1 <= Len(s) /\ 1 <= at - 1 + 1
      BY <1>1
  <2>2. /\ SubSeq(s, 1, at - 1) \in Seq(S) /\ Len(SubSeq(s, 1, at - 1)) = at - 1 - 1 + 1
        /\ \A i \in 1 .. at - 1 - 1 + 1 : SubSeq(s, 1, at - 1)[i] = s[1 + i - 1]
      BY <1>1, <2>1, SliceFacts
  <2>3. at - 1 - 1 + 1 = at - 1 /\ \A i \in 1 .. at - 1 : 1 + i - 1 = i
      BY <1>1
  <2> QED BY <2>2, <2>3
<1>3. b \in Seq(S) /\ Len(b) = Len(s) - at /\ \A i \in 1 .. Len(s) - at : b[i] = s[at + i]
  <2>1. at + 1 \in Nat \ {0} /\ at + 1 <= Len(s) + 1 /\ Len(s) <= Len(s)
      BY <1>1
  <2>2. /\ SubSeq(s, at + 1, Len(s)) \in Seq(S) /\ Len(SubSeq(s, at + 1, Len(s))) = Len(s) - (at + 1) + 1
        /\ \A i \in 1 .. Len(s) - (at + 1) + 1 : SubSeq(s, at + 1, Len(s))[i] = s[at + 1 + i - 1]
      BY <1>1, <2>1, SliceFacts
  <2>3. Len(s) - (at + 1) + 1 = Len(s) - at /\ \A i \in 1 .. Len(s) - at : at + 1 + i - 1 = at + i
      BY <1>1
  <2> QED BY <2>2, <2>3
<1> HIDE DEF a, b
<1>4. /\ a \o b \in Seq(S) /\ Len(a \o b) = at - 1 + (Len(s) - at)
      /\ \A i \in 1 .. at - 1 + (Len(s) - at) : (a \o b)[i] = IF i <= at - 1 THEN a[i] ELSE b[i - (at - 1)]
  <2>1. /\ a \o b \in Seq(S) /\ Len(a \o b) = Len(a) + Len(b)
        /\ \A i \in 1 .. Len(a) + Len(b) : (a \o b)[i] = IF i <= Len(a) THEN a[i] ELSE b[i - Len(a)]
      BY <1>2, <1>3, ConcatProperties
  <2>2. Len(a) = at - 1 /\ Len(b) = Len(s) - at
      BY <1>2, <1>3
  <2> QED BY <2>1, <2>2
<1>5. at - 1 + (Len(s) - at) = Len(s) - 1
    BY <1>1
<1>6. RemoveAt(s, at) = a \o b
    BY DEF RemoveAt, a, b
<1>7. ASSUME NEW i \in 1 .. Len(s) - 1
      PROVE  (a \o b)[i] = IF i < at THEN s[i] ELSE s[i + 1]
  <2>1. CASE i < at
    <3>1. i \in 1 .. at - 1 /\ i <= at - 1
        BY <1>1, <2>1
    <3> QED BY <1>2, <1>4, <1>5, <2>1, <3>1
  <2>2. CASE ~(i < at)
    <3>1. i - (at - 1) \in 1 .. Len(s) - at /\ at + (i - (at - 1)) = i + 1 /\ ~(i <= at - 1)
        BY <1>1, <2>2
    <3> QED BY <1>3, <1>4, <1>5, <2>2, <3>1
  <2> QED BY <2>1, <2>2
<1> QED BY <1>4, <1>5, <1>6, <1>7

----------------------------------------------------------------------------
\* The page and the trash, each block once, and every id that was given out.

Sheet(p, t, n) ==
    /\ p \in Seq(Block) /\ t \in SUBSET Block /\ n \in Nat
    /\ \A i, j \in DOMAIN p : p[i].id = p[j].id => i = j
    /\ \A b, c \in t : b.id = c.id => b = c
    /\ \A i \in DOMAIN p, b \in t : p[i].id # b.id
    /\ \A i \in DOMAIN p : p[i].id \in 1 .. n
    /\ \A b \in t : b.id \in 1 .. n
    /\ \A id \in 1 .. n : (\E i \in DOMAIN p : p[i].id = id) \/ (\E b \in t : b.id = id)

LEMMA PutIn ==
    ASSUME NEW p, NEW t, NEW n, Sheet(p, t, n), NEW new \in Seq(Block), NEW at \in 0 .. Len(p),
           \A i \in DOMAIN new : new[i].id = n + i
    PROVE  Sheet(Spliced(p, at, new), t, n + Len(new))
<1> DEFINE q == Spliced(p, at, new)
<1>1. /\ p \in Seq(Block) /\ n \in Nat /\ Len(p) \in Nat /\ DOMAIN p = 1 .. Len(p)
      /\ Len(new) \in Nat /\ DOMAIN new = 1 .. Len(new) /\ at \in Nat /\ at <= Len(p)
    BY EntryFacts DEF Sheet
<1>2. /\ q \in Seq(Block) /\ Len(q) = Len(p) + Len(new) /\ DOMAIN q = 1 .. Len(p) + Len(new)
      /\ \A i \in 1 .. Len(p) + Len(new) :
             q[i] = IF i <= at THEN p[i] ELSE IF i <= at + Len(new) THEN new[i - at] ELSE p[i - Len(new)]
  <2>1. /\ Spliced(p, at, new) \in Seq(Block) /\ Len(Spliced(p, at, new)) = Len(p) + Len(new)
        /\ \A i \in 1 .. Len(p) + Len(new) : Spliced(p, at, new)[i] =
               IF i <= at THEN p[i] ELSE IF i <= at + Len(new) THEN new[i - at] ELSE p[i - Len(new)]
    <3>1. p \in Seq(Block) /\ new \in Seq(Block) /\ at \in 0 .. Len(p)
        BY <1>1
    <3> QED BY <3>1, SpliceFacts
  <2> QED BY <2>1, EntryFacts
<1> HIDE DEF q
<1>3. \A i \in DOMAIN p : p[i].id \in 1 .. n
    BY DEF Sheet
<1>4. ASSUME NEW i \in DOMAIN q
      PROVE  \/ i <= at /\ i \in DOMAIN p /\ q[i] = p[i]
             \/ i > at /\ i <= at + Len(new) /\ i - at \in DOMAIN new /\ q[i] = new[i - at] /\ q[i].id = n + (i - at)
             \/ i > at + Len(new) /\ i - Len(new) \in DOMAIN p /\ q[i] = p[i - Len(new)]
  <2>1. CASE i <= at
      BY <1>1, <1>2, <2>1
  <2>2. CASE ~(i <= at) /\ i <= at + Len(new)
    <3>1. i - at \in DOMAIN new /\ i > at
        BY <1>1, <1>2, <2>2
    <3> QED BY <1>2, <2>2, <3>1
  <2>3. CASE ~(i <= at + Len(new))
    <3>1. i - Len(new) \in DOMAIN p /\ i > at + Len(new) /\ ~(i <= at)
        BY <1>1, <1>2, <2>3
    <3> QED BY <1>2, <2>3, <3>1
  <2> QED BY <2>1, <2>2, <2>3
<1>5. \A i \in DOMAIN q : i \in Nat
    BY <1>1, <1>2
<1>6. ASSUME NEW i \in DOMAIN q, NEW j \in DOMAIN q, q[i].id = q[j].id PROVE i = j
  <2>1. \A a, b \in DOMAIN p : p[a].id = p[b].id => a = b
      BY DEF Sheet
  <2>2. i \in Nat /\ j \in Nat
      BY <1>5
  <2>3. CASE i <= at /\ i \in DOMAIN p /\ q[i] = p[i]
    <3>1. q[i].id \in 1 .. n
        BY <1>3, <2>3
    <3>2. CASE j <= at /\ j \in DOMAIN p /\ q[j] = p[j]
        BY <1>6, <2>1, <2>3, <3>2
    <3>3. CASE j > at /\ j <= at + Len(new) /\ q[j].id = n + (j - at)
        BY <1>1, <1>6, <2>2, <3>1, <3>3
    <3>4. CASE j > at + Len(new) /\ j - Len(new) \in DOMAIN p /\ q[j] = p[j - Len(new)]
      <4>1. i = j - Len(new)
          BY <1>6, <2>1, <2>3, <3>4
      <4> QED BY <1>1, <2>2, <2>3, <3>4, <4>1
    <3> QED BY <1>4, <3>2, <3>3, <3>4
  <2>4. CASE i > at /\ i <= at + Len(new) /\ q[i].id = n + (i - at)
    <3>1. CASE j <= at /\ j \in DOMAIN p /\ q[j] = p[j]
      <4>1. q[j].id \in 1 .. n
          BY <1>3, <3>1
      <4> QED BY <1>1, <1>6, <2>2, <2>4, <4>1
    <3>2. CASE j > at /\ j <= at + Len(new) /\ q[j].id = n + (j - at)
      <4>1. n + (i - at) = n + (j - at) /\ n \in Nat /\ at \in Nat
          BY <1>1, <1>6, <2>4, <3>2
      <4> QED BY <2>2, <4>1
    <3>3. CASE j > at + Len(new) /\ j - Len(new) \in DOMAIN p /\ q[j] = p[j - Len(new)]
      <4>1. q[j].id \in 1 .. n
          BY <1>3, <3>3
      <4> QED BY <1>1, <1>6, <2>2, <2>4, <4>1
    <3> QED BY <1>4, <3>1, <3>2, <3>3
  <2>5. CASE i > at + Len(new) /\ i - Len(new) \in DOMAIN p /\ q[i] = p[i - Len(new)]
    <3>1. q[i].id \in 1 .. n
        BY <1>3, <2>5
    <3>2. CASE j <= at /\ j \in DOMAIN p /\ q[j] = p[j]
      <4>1. j = i - Len(new)
          BY <1>6, <2>1, <2>5, <3>2
      <4> QED BY <1>1, <2>2, <2>5, <3>2, <4>1
    <3>3. CASE j > at /\ j <= at + Len(new) /\ q[j].id = n + (j - at)
        BY <1>1, <1>6, <2>2, <3>1, <3>3
    <3>4. CASE j > at + Len(new) /\ j - Len(new) \in DOMAIN p /\ q[j] = p[j - Len(new)]
      <4>1. i - Len(new) = j - Len(new)
          BY <1>6, <2>1, <2>5, <3>4
      <4> QED BY <1>1, <2>2, <4>1
    <3> QED BY <1>4, <3>2, <3>3, <3>4
  <2> QED BY <1>4, <2>3, <2>4, <2>5
<1>7. ASSUME NEW i \in DOMAIN q PROVE q[i].id \in 1 .. n + Len(new) /\ \A b \in t : q[i].id # b.id
  <2>1. \A j \in DOMAIN p : p[j].id \in 1 .. n /\ \A b \in t : p[j].id # b.id
      BY DEF Sheet
  <2>2. \A b \in t : b.id \in 1 .. n
      BY DEF Sheet
  <2>3. CASE \E j \in DOMAIN p : q[i] = p[j]
    <3>1. PICK j \in DOMAIN p : q[i] = p[j]
        BY <2>3
    <3>2. q[i].id \in 1 .. n /\ \A b \in t : q[i].id # b.id
        BY <2>1, <3>1
    <3> QED BY <1>1, <3>2
  <2>4. CASE i - at \in DOMAIN new /\ q[i].id = n + (i - at)
      BY <1>1, <2>2, <2>4
  <2> QED BY <1>4, <2>3, <2>4
<1>8. \A b \in t : b.id \in 1 .. n + Len(new)
  <2>1. \A b \in t : b.id \in 1 .. n
      BY DEF Sheet
  <2> QED BY <1>1, <2>1
<1>9. ASSUME NEW id \in 1 .. n + Len(new) PROVE (\E i \in DOMAIN q : q[i].id = id) \/ (\E b \in t : b.id = id)
  <2>1. CASE id \in 1 .. n
    <3>1. (\E i \in DOMAIN p : p[i].id = id) \/ (\E b \in t : b.id = id)
        BY <2>1 DEF Sheet
    <3>2. ASSUME NEW i \in DOMAIN p, p[i].id = id PROVE \E j \in DOMAIN q : q[j].id = id
      <4>1. i \in Nat
          BY <1>1
      <4>2. CASE i <= at
        <5>1. i \in DOMAIN q /\ q[i] = p[i]
            BY <1>1, <1>2, <4>1, <4>2
        <5> QED BY <3>2, <5>1
      <4>3. CASE ~(i <= at)
        <5>1. i + Len(new) \in DOMAIN q /\ ~(i + Len(new) <= at) /\ ~(i + Len(new) <= at + Len(new)) /\ i + Len(new) - Len(new) = i
            BY <1>1, <1>2, <4>1, <4>3
        <5>2. q[i + Len(new)] = p[i]
            BY <1>2, <5>1
        <5> QED BY <3>2, <5>1, <5>2
      <4> QED BY <4>2, <4>3
    <3> QED BY <3>1, <3>2
  <2>2. CASE id \notin 1 .. n
    <3>1. id - n \in DOMAIN new /\ n + (id - n) = id
        BY <1>1, <2>2
    <3> DEFINE m == id - n
    <3>2. m \in DOMAIN new /\ n + m = id
        BY <3>1
    <3> HIDE DEF m
    <3>3. at + m \in DOMAIN q /\ ~(at + m <= at) /\ at + m <= at + Len(new) /\ at + m - at = m
        BY <1>1, <1>2, <3>2
    <3>4. q[at + m] = new[m]
      <4> DEFINE i == at + m
      <4>1. i \in DOMAIN q /\ ~(i <= at) /\ i <= at + Len(new) /\ i - at = m /\ i \in Nat
          BY <1>1, <1>5, <3>2, <3>3
      <4> HIDE DEF i
      <4>2. q[i] = new[i - at]
          BY <1>1, <1>4, <4>1
      <4> QED BY <4>1, <4>2 DEF i
    <3> QED BY <3>2, <3>3, <3>4
  <2> QED BY <2>1, <2>2
<1>10. n + Len(new) \in Nat /\ t \in SUBSET Block /\ \A b, c \in t : b.id = c.id => b = c
    BY <1>1 DEF Sheet
<1>11. Sheet(q, t, n + Len(new))
    BY <1>2, <1>6, <1>7, <1>8, <1>9, <1>10 DEF Sheet
<1> QED BY <1>11 DEF q

LEMMA TakeOut ==
    ASSUME NEW p, NEW t, NEW n, Sheet(p, t, n), NEW at \in DOMAIN p
    PROVE  Sheet(RemoveAt(p, at), t \cup {p[at]}, n)
<1> DEFINE q == RemoveAt(p, at)  u == t \cup {p[at]}
<1>1. /\ p \in Seq(Block) /\ n \in Nat /\ Len(p) \in Nat /\ DOMAIN p = 1 .. Len(p) /\ at \in 1 .. Len(p) /\ p[at] \in Block
      /\ t \in SUBSET Block
    BY EntryFacts DEF Sheet
<1>2. /\ q \in Seq(Block) /\ DOMAIN q = 1 .. Len(p) - 1
      /\ \A i \in 1 .. Len(p) - 1 : q[i] = IF i < at THEN p[i] ELSE p[i + 1]
  <2>1. /\ RemoveAt(p, at) \in Seq(Block) /\ Len(RemoveAt(p, at)) = Len(p) - 1
        /\ \A i \in 1 .. Len(p) - 1 : RemoveAt(p, at)[i] = IF i < at THEN p[i] ELSE p[i + 1]
      BY <1>1, RemoveFacts
  <2> QED BY <2>1, EntryFacts
<1> HIDE DEF q
<1>3. /\ \A i, j \in DOMAIN p : p[i].id = p[j].id => i = j
      /\ \A i \in DOMAIN p : p[i].id \in 1 .. n /\ \A b \in t : p[i].id # b.id
      /\ \A b, c \in t : b.id = c.id => b = c
      /\ \A b \in t : b.id \in 1 .. n
      /\ \A id \in 1 .. n : (\E i \in DOMAIN p : p[i].id = id) \/ (\E b \in t : b.id = id)
    BY DEF Sheet
<1>4. ASSUME NEW i \in DOMAIN q
      PROVE  \/ i < at /\ i \in DOMAIN p /\ q[i] = p[i]
             \/ ~(i < at) /\ i + 1 \in DOMAIN p /\ i + 1 # at /\ q[i] = p[i + 1]
  <2>1. i \in DOMAIN p /\ i + 1 \in DOMAIN p /\ (~(i < at) => i + 1 # at)
      BY <1>1, <1>2
  <2> QED BY <1>2, <2>1
<1>5. \A i \in DOMAIN q : i \in Nat
    BY <1>1, <1>2
<1>6. ASSUME NEW i \in DOMAIN q, NEW j \in DOMAIN q, q[i].id = q[j].id PROVE i = j
  <2>1. i \in Nat /\ j \in Nat /\ at \in Nat
      BY <1>1, <1>5
  <2>2. CASE q[i] = p[i] /\ i < at /\ i \in DOMAIN p
    <3>1. CASE q[j] = p[j] /\ j < at /\ j \in DOMAIN p
        BY <1>3, <1>6, <2>2, <3>1
    <3>2. CASE q[j] = p[j + 1] /\ ~(j < at) /\ j + 1 \in DOMAIN p
      <4>1. i = j + 1
          BY <1>3, <1>6, <2>2, <3>2
      <4> QED BY <2>1, <2>2, <3>2, <4>1
    <3> QED BY <1>4, <3>1, <3>2
  <2>3. CASE q[i] = p[i + 1] /\ ~(i < at) /\ i + 1 \in DOMAIN p
    <3>1. CASE q[j] = p[j] /\ j < at /\ j \in DOMAIN p
      <4>1. j = i + 1
          BY <1>3, <1>6, <2>3, <3>1
      <4> QED BY <2>1, <2>3, <3>1, <4>1
    <3>2. CASE q[j] = p[j + 1] /\ ~(j < at) /\ j + 1 \in DOMAIN p
      <4>1. i + 1 = j + 1
          BY <1>3, <1>6, <2>3, <3>2
      <4> QED BY <2>1, <4>1
    <3> QED BY <1>4, <3>1, <3>2
  <2> QED BY <1>4, <2>2, <2>3
<1>7. ASSUME NEW i \in DOMAIN q PROVE \E k \in DOMAIN p : k # at /\ q[i] = p[k]
  <2>1. at \in Nat /\ i \in Nat
      BY <1>1, <1>5
  <2> QED BY <1>4, <2>1
<1>8. ASSUME NEW k \in DOMAIN p, k # at PROVE \E i \in DOMAIN q : q[i] = p[k]
  <2>1. k \in Nat /\ at \in Nat
      BY <1>1
  <2>2. CASE k < at
    <3>1. k \in DOMAIN q
        BY <1>1, <1>2, <2>1, <2>2
    <3> QED BY <1>2, <2>2, <3>1
  <2>3. CASE ~(k < at)
    <3>1. k - 1 \in DOMAIN q /\ ~(k - 1 < at) /\ k - 1 + 1 = k
        BY <1>1, <1>2, <1>8, <2>1, <2>3
    <3> QED BY <1>2, <3>1
  <2> QED BY <2>2, <2>3
<1>9. u \in SUBSET Block /\ \A b \in u : b \in t \/ b = p[at]
    BY <1>1
<1>10. \A b, c \in u : b.id = c.id => b = c
    BY <1>3, <1>9
<1>11. \A i \in DOMAIN q, b \in u : q[i].id # b.id
    BY <1>3, <1>7, <1>9
<1>12. (\A i \in DOMAIN q : q[i].id \in 1 .. n) /\ \A b \in u : b.id \in 1 .. n
    BY <1>3, <1>7, <1>9
<1>13. ASSUME NEW id \in 1 .. n PROVE (\E i \in DOMAIN q : q[i].id = id) \/ (\E b \in u : b.id = id)
  <2>1. CASE \E b \in t : b.id = id
      BY <2>1
  <2>2. CASE \E k \in DOMAIN p : p[k].id = id
    <3>1. PICK k \in DOMAIN p : p[k].id = id
        BY <2>2
    <3>2. CASE k = at
        BY <3>1, <3>2
    <3>3. CASE k # at
        BY <1>8, <3>1, <3>3
    <3> QED BY <3>2, <3>3
  <2> QED BY <1>3, <2>1, <2>2
<1>14. Sheet(q, u, n)
    BY <1>1, <1>2, <1>6, <1>9, <1>10, <1>11, <1>12, <1>13 DEF Sheet
<1> QED BY <1>14 DEF q

LEMMA TakeBack ==
    ASSUME NEW p, NEW t, NEW n, Sheet(p, t, n), NEW b \in t
    PROVE  Sheet(Append(p, b), t \ {b}, n)
<1> DEFINE q == Append(p, b)  u == t \ {b}  k == Len(p) + 1
<1>1. p \in Seq(Block) /\ b \in Block /\ t \in SUBSET Block /\ n \in Nat
    BY DEF Sheet
<1>2. q \in Seq(Block) /\ DOMAIN q = DOMAIN p \cup {k} /\ k \notin DOMAIN p /\ q[k] = b /\ \A j \in DOMAIN p : q[j] = p[j]
    BY <1>1, GrowthFacts
<1> HIDE DEF q, k
<1>3. /\ \A i, j \in DOMAIN p : p[i].id = p[j].id => i = j
      /\ \A i \in DOMAIN p : p[i].id \in 1 .. n /\ \A c \in t : p[i].id # c.id
      /\ \A c, d \in t : c.id = d.id => c = d
      /\ \A c \in t : c.id \in 1 .. n
      /\ \A id \in 1 .. n : (\E i \in DOMAIN p : p[i].id = id) \/ (\E c \in t : c.id = id)
    BY DEF Sheet
<1>4. \A i, j \in DOMAIN q : q[i].id = q[j].id => i = j
    BY <1>2, <1>3
<1>5. \A i \in DOMAIN q : q[i].id \in 1 .. n /\ \A c \in u : q[i].id # c.id
    BY <1>2, <1>3
<1>6. \A id \in 1 .. n : (\E i \in DOMAIN q : q[i].id = id) \/ (\E c \in u : c.id = id)
    BY <1>2, <1>3
<1>7. u \in SUBSET Block /\ (\A c, d \in u : c.id = d.id => c = d) /\ \A c \in u : c.id \in 1 .. n
    BY <1>1, <1>3
<1>8. Sheet(q, u, n)
    BY <1>1, <1>2, <1>4, <1>5, <1>6, <1>7 DEF Sheet
<1> QED BY <1>8 DEF q

LEMMA Reworded ==
    ASSUME NEW p, NEW t, NEW n, Sheet(p, t, n), NEW at \in DOMAIN p, NEW words \in Text
    PROVE  Sheet([p EXCEPT ![at].text = words], t, n)
<1> DEFINE q == [p EXCEPT ![at].text = words]  new == [p[at] EXCEPT !.text = words]
<1>1. p \in Seq(Block) /\ p[at] \in Block
    BY EntryFacts DEF Sheet
<1>2. new \in Block /\ new.id = p[at].id
    BY <1>1 DEF Block
<1>3. q = [p EXCEPT ![at] = new]
    OBVIOUS
<1> HIDE DEF new
<1>4. q \in Seq(Block) /\ DOMAIN q = DOMAIN p /\ q[at] = new /\ \A j \in DOMAIN p : j # at => q[j] = p[j]
    BY <1>1, <1>2, <1>3, ChangeFacts
<1> HIDE DEF q
<1>5. \A i \in DOMAIN p : q[i].id = p[i].id
    BY <1>2, <1>4
<1>6. /\ \A i, j \in DOMAIN q : q[i].id = q[j].id => i = j
      /\ \A i \in DOMAIN q, b \in t : q[i].id # b.id
      /\ \A i \in DOMAIN q : q[i].id \in 1 .. n
    BY <1>4, <1>5 DEF Sheet
<1>7. ASSUME NEW id \in 1 .. n PROVE (\E i \in DOMAIN q : q[i].id = id) \/ (\E b \in t : b.id = id)
  <2>1. (\E i \in DOMAIN p : p[i].id = id) \/ (\E b \in t : b.id = id)
      BY DEF Sheet
  <2> QED BY <1>4, <1>5, <2>1
<1>8. t \in SUBSET Block /\ n \in Nat /\ (\A b, c \in t : b.id = c.id => b = c) /\ \A b \in t : b.id \in 1 .. n
    BY DEF Sheet
<1>9. Sheet(q, t, n)
    BY <1>4, <1>6, <1>7, <1>8 DEF Sheet
<1> QED BY <1>9 DEF q

----------------------------------------------------------------------------
\* The shapes of requests, edits, parts and of the command.

Line == [kind : Kinds, text : Text]
RequestRec ==
    [op : {"append", "update", "delete", "restore"}, id : Nat, part : Nat, kind : Kinds, blocks : Seq(Line),
     known : SUBSET Nat, got : Seq(Nat)]
EditRec == [op : {"replace", "insert", "delete"}, at : Nat, kind : Kinds, texts : Seq(Text)]
PartRec == [kind : {"added", "replaced", "deleted"}, ids : Seq(Nat), old : Text \cup {<<>>}]

\* What is the bot's own: none of the blocks that it has seen.
OwnIds == {id \in Nat : id \in 1 .. ids /\ id \notin IdsOf(Seen)}
SafeEdits ==
    {e \in EditRec :
        /\ e.at \in DOMAIN Seen
        /\ e.op = "replace" => Editable(Seen[e.at])
        /\ e.op = "delete" => Removable(Seen[e.at])
        /\ e.op # "delete" => e.texts # <<>>}
SafeRequests ==
    {r \in RequestRec :
        /\ r.op = "delete" => r.id \in OwnIds \cup Meant
        /\ r.op = "update" => r.blocks # <<>>
        /\ r.op = "append" => r.part = 0 /\ r.got \in Seq(OwnIds)}
\* A command's own requests, which it learns from: what it inserts among blocks it has seen, it can tell from them.
WorkRequests ==
    {r \in SafeRequests :
        /\ r.op = "update" => r.id \in IdsOf(Seen)
        /\ r.op = "append" => /\ r.blocks # <<>>
                              /\ r.id = Nowhere \/ (r.known = IdsOf(Seen) /\ r.known # {})}
SafeParts ==
    {p \in PartRec : (p.kind = "added" => p.ids \in Seq(OwnIds)) /\ (p.kind = "replaced" => p.old \in Text)}
JobRec ==
    [pc : {"idle", "thinking", "working", "done", "failed", "undoing", "undone"},
     cmd : {"none", "rewrite", "append", "edits", "text"},
     script : Seq(SafeEdits), todo : Seq(SafeRequests), done : Seq(SafeParts), ids : Seq(OwnIds)]

PageTyped ==
    /\ Sheet(page, trash, ids)
    /\ read \in Seq(Block) /\ \A i, j \in DOMAIN read : read[i].id = read[j].id => i = j
    /\ \A i \in DOMAIN read : read[i].id \in 1 .. ids
    /\ job \in JobRec
    /\ job.pc = "working" => job.todo \in Seq(WorkRequests)
    /\ tries \in [{"net", "server", "busy"} -> 0 .. MAX_RETRIES]
Staged ==
    /\ job.pc \in {"idle", "thinking"} =>
           job.todo = <<>> /\ job.done = <<>> /\ job.ids = <<>> /\ job.script = <<>> /\ binned = {}
    /\ job.pc = "idle" => job.cmd = "none"
    /\ job.pc = "thinking" => job.cmd \in {"rewrite", "append"}
    /\ job.pc \in {"working", "done", "undoing", "undone"} => job.cmd \in {"append", "edits", "text"}
    /\ job.todo # <<>> => job.pc \in {"working", "undoing"}
Harmless == binned \subseteq OwnIds \cup Meant
\* The new text is there, or nothing was taken away and it still comes first, or it never comes.
Written ==
    job.cmd = "text" =>
        \/ job.ids # <<>>
        \/ binned = {} /\ job.pc = "working" /\ job.todo # <<>> /\ Head(job.todo).op = "append"
        \/ binned = {} /\ job.pc = "failed"

PageInv == PageTyped /\ Staged /\ Harmless /\ Written

----------------------------------------------------------------------------
LEMMA MadeSeq ==
    ASSUME NEW S, NEW n \in Nat, NEW f \in [1 .. n -> S]
    PROVE  f \in Seq(S) /\ Len(f) = n /\ DOMAIN f = 1 .. n
OBVIOUS

\* Of a smaller number and a bound: the smaller.
LEMMA MinFacts ==
    ASSUME NEW a \in Nat, NEW b \in Nat
    PROVE  Min({a, b}) \in {a, b} /\ Min({a, b}) <= a /\ Min({a, b}) <= b /\ Min({a, b}) \in Nat
<1>1. \E x \in {a, b} : \A y \in {a, b} : x =< y
    OBVIOUS
<1>2. Min({a, b}) \in {a, b} /\ \A y \in {a, b} : Min({a, b}) =< y
    BY <1>1 DEF Min
<1> QED BY <1>2

LEMMA TextFacts ==
    /\ \A i \in Nat : <<"hand", i, 1>> \in Text
    /\ \A i, j \in Nat : <<"was", i, j>> \in Text /\ <<"part", i, j>> \in Text
    /\ \A text \in Text : text[2] \in Nat /\ text[3] \in Nat
    /\ \A i, j \in Nat : <<"new", i, j>> \in Text
BY DEF Text

LEMMA SeenFacts ==
    ASSUME PageTyped
    PROVE  /\ Seen \in Seq(Block) /\ DOMAIN Seen = 1 .. Len(Seen) /\ Len(Seen) \in Nat
           /\ \A i, j \in DOMAIN Seen : Seen[i].id = Seen[j].id => i = j
           /\ \A i \in DOMAIN Seen : Seen[i].id \in 1 .. ids /\ Seen[i] \in Block /\ i \in Nat \ {0}
           /\ IdsOf(Seen) \subseteq IdsOf(read)
<1> DEFINE bound == IF job.cmd = "append" THEN PAGE_SIZE ELSE MAX_PAGE_BLOCKS
           m == Min({Len(read), bound})
<1>1. /\ read \in Seq(Block) /\ Len(read) \in Nat /\ DOMAIN read = 1 .. Len(read)
      /\ \A i, j \in DOMAIN read : read[i].id = read[j].id => i = j
      /\ \A i \in DOMAIN read : read[i].id \in 1 .. ids
    BY EntryFacts DEF PageTyped
<1>2. m \in Nat /\ m <= Len(read)
  <2>1. bound \in Nat
      BY PageBounds
  <2> HIDE DEF bound
  <2> QED BY <1>1, <2>1, MinFacts
<1>3. Seen = SubSeq(read, 1, m)
    BY DEF Seen
<1> HIDE DEF m
<1>4. /\ SubSeq(read, 1, m) \in Seq(Block) /\ Len(SubSeq(read, 1, m)) = m - 1 + 1
      /\ \A i \in 1 .. m - 1 + 1 : SubSeq(read, 1, m)[i] = read[1 + i - 1]
  <2>1. 1 \in Nat \ {0} /\ 1 <= m + 1
      BY <1>2
  <2> QED BY <1>1, <1>2, <2>1, SliceFacts
<1>5. m - 1 + 1 = m /\ \A i \in 1 .. m : 1 + i - 1 = i
    BY <1>2
<1>6. Seen \in Seq(Block) /\ Len(Seen) = m /\ DOMAIN Seen = 1 .. m
    BY <1>3, <1>4, <1>5, EntryFacts
<1>7. \A i \in DOMAIN Seen : i \in DOMAIN read /\ Seen[i] = read[i]
  <2>1. \A i \in 1 .. m : i \in 1 .. Len(read)
      BY <1>1, <1>2
  <2> QED BY <1>1, <1>3, <1>4, <1>5, <1>6, <2>1
<1>8. \A i, j \in DOMAIN Seen : Seen[i].id = Seen[j].id => i = j
    BY <1>1, <1>7
<1>9. \A i \in DOMAIN Seen : Seen[i].id \in 1 .. ids /\ Seen[i] \in Block /\ i \in Nat \ {0}
    BY <1>1, <1>6, <1>7, EntryFacts
<1>10. IdsOf(Seen) \subseteq IdsOf(read)
    BY <1>7 DEF IdsOf
<1> QED BY <1>2, <1>6, <1>8, <1>9, <1>10

\* What the command saw, and what it was to take away, for what they depend on.
MeantBy(cmd, script, seen) ==
    CASE cmd = "edits" -> {seen[e.at].id : e \in {e \in ToSet(script) :
                              e.op = "delete" \/ (e.op = "replace" /\ e.kind # seen[e.at].kind)}}
      [] cmd = "text"  -> IdsOf(Chosen(seen, {line \in ToSet(seen) : Editable(line)}))
      [] OTHER         -> {}

LEMMA SeenStays ==
    ASSUME read' = read, (job.cmd)' = "append" <=> job.cmd = "append"
    PROVE  Seen' = Seen
<1>1. CASE job.cmd = "append"
    BY <1>1 DEF Seen
<1>2. CASE job.cmd # "append"
    BY <1>2 DEF Seen
<1> QED BY <1>1, <1>2

LEMMA MeantStays ==
    ASSUME read' = read, (job.cmd)' = job.cmd, (job.script)' = job.script
    PROVE  Seen' = Seen /\ Meant' = Meant
<1>1. Seen' = Seen
    BY SeenStays
<1>2. Meant = MeantBy(job.cmd, job.script, Seen)
    BY DEF Meant, MeantBy, Retyped, Replaceable
<1>3. Meant' = MeantBy((job.cmd)', (job.script)', Seen')
    BY DEF Meant, MeantBy, Retyped, Replaceable
<1> QED BY <1>1, <1>2, <1>3

\* The more ids there are, and the more a command is to take away, the more is safe.
WiderSets ==
    /\ OwnIds \subseteq OwnIds' /\ Seq(OwnIds) \subseteq Seq(OwnIds')
    /\ SafeEdits \subseteq SafeEdits' /\ Seq(SafeEdits) \subseteq Seq(SafeEdits')
    /\ SafeRequests \subseteq SafeRequests' /\ Seq(SafeRequests) \subseteq Seq(SafeRequests')
    /\ WorkRequests \subseteq WorkRequests' /\ Seq(WorkRequests) \subseteq Seq(WorkRequests')
    /\ SafeParts \subseteq SafeParts' /\ Seq(SafeParts) \subseteq Seq(SafeParts')
LEMMA Wider ==
    ASSUME ids \in Nat, ids' \in Nat, ids <= ids', Seen' = Seen, Meant \subseteq Meant'
    PROVE  WiderSets
<1>1. OwnIds \subseteq OwnIds'
    BY DEF OwnIds
<1>2. Seq(OwnIds) \subseteq Seq(OwnIds')
    BY <1>1, SeqMonotonic
<1>3. SafeEdits \subseteq SafeEdits'
    BY DEF SafeEdits
<1>4. SafeRequests \subseteq SafeRequests'
    BY <1>1, <1>2 DEF SafeRequests
<1>5. WorkRequests \subseteq WorkRequests'
    BY <1>4 DEF WorkRequests
<1>6. SafeParts \subseteq SafeParts'
    BY <1>2 DEF SafeParts
<1>7. /\ Seq(SafeEdits) \subseteq Seq(SafeEdits') /\ Seq(SafeRequests) \subseteq Seq(SafeRequests')
      /\ Seq(WorkRequests) \subseteq Seq(WorkRequests') /\ Seq(SafeParts) \subseteq Seq(SafeParts')
    BY <1>3, <1>4, <1>5, <1>6, SeqMonotonic
<1> QED BY <1>1, <1>2, <1>3, <1>4, <1>5, <1>6, <1>7 DEF WiderSets

LEMMA BatchFacts ==
    ASSUME NEW r \in RequestRec
    PROVE  /\ Batch(r) \in Seq(Line) /\ DOMAIN Batch(r) = 1 .. Len(Batch(r)) /\ Len(Batch(r)) \in Nat
           /\ Rest(r) \in Seq(Line)
           /\ r.blocks # <<>> => Len(Batch(r)) # 0
<1>1. r.blocks \in Seq(Line) /\ Len(r.blocks) \in Nat
    BY EntryFacts DEF RequestRec
<1> DEFINE m == Min({MAX_BLOCKS_PER_REQUEST, Len(r.blocks)})
<1>2. m \in {MAX_BLOCKS_PER_REQUEST, Len(r.blocks)} /\ m <= Len(r.blocks) /\ m \in Nat
    BY <1>1, PageBounds, MinFacts
<1>3. Batch(r) = [i \in 1 .. m |-> r.blocks[i]]
    BY DEF Batch
<1>4. \A i \in 1 .. m : r.blocks[i] \in Line
  <2>1. \A i \in 1 .. m : i \in 1 .. Len(r.blocks)
      BY <1>1, <1>2
  <2> QED BY <1>1, <2>1, EntryFacts
<1> HIDE DEF m
<1>5. Batch(r) \in Seq(Line) /\ Len(Batch(r)) = m /\ DOMAIN Batch(r) = 1 .. m
  <2>1. Batch(r) \in [1 .. m -> Line]
      BY <1>3, <1>4
  <2> QED BY <1>2, <2>1, MadeSeq
<1>6. Rest(r) \in Seq(Line)
  <2>1. Rest(r) = SubSeq(r.blocks, m + 1, Len(r.blocks))
      BY <1>5 DEF Rest
  <2>2. m + 1 \in Nat \ {0} /\ Len(r.blocks) <= Len(r.blocks) /\ m + 1 <= Len(r.blocks) + 1
      BY <1>1, <1>2
  <2> QED BY <1>1, <2>1, <2>2, SliceFacts
<1>7. r.blocks # <<>> => m # 0
  <2>1. r.blocks # <<>> => Len(r.blocks) # 0
      BY <1>1, HeadFacts
  <2> QED BY <1>2, <2>1, PageBounds
<1> QED BY <1>2, <1>5, <1>6, <1>7

\* A block that is on the page has its place there.
LEMMA PositionFacts ==
    ASSUME NEW id, OnPage(id)
    PROVE  Position(id) \in DOMAIN page /\ page[Position(id)].id = id
BY DEF OnPage, IdsOf, Position

LEMMA AppendApplied ==
    ASSUME PageTyped, NEW r \in RequestRec, r.op = "append", Possible(r), Applied(r)
    PROVE  /\ Sheet(page', trash', ids') /\ ids' = ids + Len(Batch(r)) /\ binned' = binned
<1> DEFINE at == IF r.id = Nowhere THEN Len(page) ELSE Position(r.id)
           new == Created(r)
<1>1. /\ page' = SubSeq(page, 1, at) \o new \o SubSeq(page, at + 1, Len(page))
      /\ ids' = ids + Len(Batch(r)) /\ trash' = trash /\ binned' = binned
    BY DEF Applied
<1>2. page \in Seq(Block) /\ Len(page) \in Nat /\ DOMAIN page = 1 .. Len(page) /\ ids \in Nat /\ Sheet(page, trash, ids)
    BY EntryFacts DEF PageTyped, Sheet
<1>3. at \in 0 .. Len(page)
  <2>1. CASE r.id = Nowhere
      BY <1>2, <2>1
  <2>2. CASE r.id # Nowhere
    <3>1. OnPage(r.id)
        BY <2>2 DEF Possible
    <3> QED BY <1>2, <2>2, <3>1, PositionFacts
  <2> QED BY <2>1, <2>2
<1>4. Batch(r) \in Seq(Line) /\ Len(Batch(r)) \in Nat /\ DOMAIN Batch(r) = 1 .. Len(Batch(r))
    BY BatchFacts
<1>5. new \in Seq(Block) /\ Len(new) = Len(Batch(r)) /\ DOMAIN new = 1 .. Len(Batch(r))
  <2>1. \A i \in 1 .. Len(Batch(r)) : [id |-> ids + i, kind |-> Batch(r)[i].kind, text |-> Batch(r)[i].text] \in Block
    <3> SUFFICES ASSUME NEW i \in 1 .. Len(Batch(r))
                 PROVE  [id |-> ids + i, kind |-> Batch(r)[i].kind, text |-> Batch(r)[i].text] \in Block
        OBVIOUS
    <3>1. Batch(r)[i] \in Line
        BY <1>4, EntryFacts
    <3>2. ids + i \in Nat /\ Batch(r)[i].kind \in Kinds /\ Batch(r)[i].text \in Text
        BY <1>2, <1>4, <3>1 DEF Line
    <3> QED BY <3>2 DEF Block
  <2>2. new \in [1 .. Len(Batch(r)) -> Block]
      BY <1>4, <2>1 DEF Created
  <2> HIDE DEF new
  <2> QED BY <1>4, <2>2, MadeSeq
<1>6. \A i \in DOMAIN new : new[i].id = ids + i
    BY <1>4, <1>5 DEF Created
<1> HIDE DEF at, new
<1>7. page' = Spliced(page, at, new)
    BY <1>1 DEF Spliced
<1>8. Sheet(Spliced(page, at, new), trash, ids + Len(new))
    BY <1>2, <1>3, <1>5, <1>6, PutIn
<1> QED BY <1>1, <1>5, <1>7, <1>8

LEMMA AppliedFacts ==
    ASSUME PageTyped, NEW r \in SafeRequests, Possible(r), Applied(r)
    PROVE  /\ Sheet(page', trash', ids') /\ ids \in Nat /\ ids' \in Nat /\ ids <= ids'
           /\ r.op = "append" => ids' = ids + Len(Batch(r))
           /\ binned' \subseteq binned \cup (IF r.op = "delete" THEN {r.id} ELSE {})
<1>1. Sheet(page, trash, ids) /\ ids \in Nat /\ r \in RequestRec /\ page \in Seq(Block)
    BY DEF PageTyped, Sheet, SafeRequests
<1>2. r.op \in {"append", "update", "delete", "restore"}
    BY <1>1 DEF RequestRec
<1>3. CASE r.op = "append"
  <2>1. Sheet(page', trash', ids') /\ ids' = ids + Len(Batch(r)) /\ binned' = binned
      BY <1>1, <1>3, AppendApplied
  <2>2. Len(Batch(r)) \in Nat
      BY <1>1, BatchFacts
  <2> QED BY <1>1, <1>3, <2>1, <2>2
<1>4. CASE r.op = "update"
  <2>1. page' = [page EXCEPT ![Position(r.id)].text = r.blocks[1].text] /\ trash' = trash /\ ids' = ids /\ binned' = binned
      BY <1>4 DEF Applied
  <2>2. OnPage(r.id)
      BY <1>4 DEF Possible
  <2>3. r.blocks[1].text \in Text
    <3>1. r.blocks \in Seq(Line) /\ r.blocks # <<>>
        BY <1>1, <1>4 DEF RequestRec, SafeRequests
    <3>2. r.blocks[1] \in Line
        BY <3>1, HeadFacts, ElementOfSeq
    <3> QED BY <3>2 DEF Line
  <2> DEFINE words == r.blocks[1].text  at == Position(r.id)
  <2>4. at \in DOMAIN page
      BY <2>2, PositionFacts
  <2>5. words \in Text /\ page' = [page EXCEPT ![at].text = words]
      BY <2>1, <2>3
  <2> HIDE DEF words, at
  <2>6. Sheet([page EXCEPT ![at].text = words], trash, ids)
      BY <1>1, <2>4, <2>5, Reworded
  <2>7. trash' = trash /\ ids' = ids /\ binned' = binned
      BY <2>1
  <2>8. Sheet(page', trash', ids')
      BY <2>5, <2>6, <2>7
  <2> QED BY <1>1, <1>4, <2>7, <2>8
<1>5. CASE r.op = "delete" /\ OnPage(r.id)
  <2>1. /\ page' = RemoveAt(page, Position(r.id)) /\ trash' = trash \cup {page[Position(r.id)]}
        /\ binned' = binned \cup {r.id} /\ ids' = ids
      BY <1>5 DEF Applied
  <2>2. Sheet(RemoveAt(page, Position(r.id)), trash \cup {page[Position(r.id)]}, ids)
      BY <1>1, <1>5, PositionFacts, TakeOut
  <2> QED BY <1>1, <1>5, <2>1, <2>2
<1>6. CASE r.op = "restore" /\ ~OnPage(r.id)
  <2> DEFINE b == CHOOSE b \in trash : b.id = r.id
  <2>1. page' = Append(page, b) /\ trash' = trash \ {b} /\ ids' = ids /\ binned' = binned
      BY <1>6 DEF Applied
  <2>2. b \in trash
      BY <1>6 DEF Possible, Trashed
  <2> HIDE DEF b
  <2>3. Sheet(Append(page, b), trash \ {b}, ids)
      BY <1>1, <2>2, TakeBack
  <2> QED BY <1>1, <1>6, <2>1, <2>3
<1>7. CASE (r.op = "delete" /\ ~OnPage(r.id)) \/ (r.op = "restore" /\ OnPage(r.id))
  <2>1. page' = page /\ trash' = trash /\ ids' = ids /\ binned' = binned
      BY <1>7 DEF Applied
  <2> QED BY <1>1, <1>7, <2>1
<1> QED BY <1>2, <1>3, <1>4, <1>5, <1>6, <1>7

\* The ids that the answer to an append gives are those of blocks that it made.
LEMMA FreshFacts ==
    ASSUME PageTyped, NEW r \in WorkRequests, r.op = "append", Possible(r),
           ids' = ids + Len(Batch(r)), Seen' = Seen
    PROVE  FreshIds(r) \in Seq(OwnIds') /\ FreshIds(r) # <<>>
<1> DEFINE m == Len(Batch(r))
           new == [i \in DOMAIN Batch(r) |-> ids + i]
           all == 1 .. ids + m
<1>1. /\ r \in SafeRequests /\ r \in RequestRec /\ r.blocks # <<>> /\ r.got \in Seq(OwnIds) /\ ids \in Nat
      /\ page \in Seq(Block) /\ Len(page) \in Nat /\ DOMAIN page = 1 .. Len(page)
      /\ \A i \in DOMAIN page : page[i].id \in 1 .. ids
    BY EntryFacts DEF PageTyped, Sheet, WorkRequests, SafeRequests
<1>2. m \in Nat \ {0} /\ DOMAIN Batch(r) = 1 .. m
    BY <1>1, BatchFacts
<1>3. IdsOf(Seen) \subseteq 1 .. ids
    BY SeenFacts DEF IdsOf
<1>4. \A i \in 1 .. m : ids + i \in OwnIds' /\ ids + i \in all /\ ids + i \notin IdsOf(Seen) /\ ids + i \notin 1 .. ids
  <2> SUFFICES ASSUME NEW i \in 1 .. m
               PROVE  ids + i \in OwnIds' /\ ids + i \in all /\ ids + i \notin IdsOf(Seen) /\ ids + i \notin 1 .. ids
      OBVIOUS
  <2>1. ids + i \in all /\ ids + i \notin 1 .. ids
      BY <1>1, <1>2
  <2>2. ids + i \notin IdsOf(Seen) /\ ids + i \in Nat /\ 1 .. ids' = all
      BY <1>3, <2>1
  <2> QED BY <2>1, <2>2 DEF OwnIds
<1>5. new \in Seq(OwnIds') /\ new \in Seq(all) /\ Len(new) = m /\ \A i \in 1 .. m : new[i] = ids + i
  <2>1. new \in [1 .. m -> OwnIds'] /\ new \in [1 .. m -> all]
    <3> HIDE DEF all, m
    <3> QED BY <1>2, <1>4
  <2>2. \A i \in 1 .. m : new[i] = ids + i
      BY <1>2
  <2> HIDE DEF new, all
  <2> QED BY <1>2, <2>1, <2>2, MadeSeq
<1>6. new # <<>>
  <2> HIDE DEF new
  <2> QED BY <1>2, <1>5, HeadFacts
<1>7. CASE r.id = Nowhere
  <2>1. FreshIds(r) = new
      BY <1>7 DEF FreshIds, Results
  <2> QED BY <1>5, <1>6, <2>1
<1>8. CASE r.id # Nowhere
  <2>1. OnPage(r.id)
      BY <1>8 DEF Possible
  <2>2. Position(r.id) \in 1 .. Len(page)
      BY <1>1, <2>1, PositionFacts
  <2> DEFINE at == Position(r.id)
             below == [i \in 1 .. Len(page) - at |-> page[at + i].id]
             those == Nat \ (r.known \cup ToSet(r.got))
  <2>3. below \in Seq(all) /\ Len(below) \in Nat
    <3>1. at \in 1 .. Len(page)
        BY <2>2
    <3> HIDE DEF at
    <3>2. Len(page) - at \in Nat
        BY <1>1, <3>1
    <3>3. \A i \in 1 .. Len(page) - at : at + i \in 1 .. Len(page)
        BY <1>1, <3>1
    <3>4. 1 .. ids \subseteq all
        BY <1>1, <1>2
    <3>5. below \in [1 .. Len(page) - at -> all]
      <4> HIDE DEF all
      <4>1. \A i \in 1 .. Len(page) - at : page[at + i].id \in all
          BY <1>1, <3>3, <3>4
      <4> QED BY <4>1
    <3> HIDE DEF below, all
    <3> QED BY <3>2, <3>5, MadeSeq
  <2>4. Results(r) = new \o below
      BY <1>8 DEF Results
  <2>5. r.known = IdsOf(Seen) /\ r.known # {}
      BY <1>8 DEF WorkRequests
  <2>6. FreshIds(r) = Chosen(new \o below, those)
      BY <1>8, <2>4, <2>5 DEF FreshIds
  <2>7. ToSet(r.got) \subseteq OwnIds
      BY <1>1, EntryFacts DEF ToSet
  <2>8. ids + 1 \in those
    <3>1. 1 \in 1 .. m
        BY <1>2
    <3>2. ids + 1 \notin IdsOf(Seen) /\ ids + 1 \notin 1 .. ids /\ ids + 1 \in Nat
        BY <1>1, <1>4, <3>1
    <3>3. ids + 1 \notin OwnIds
        BY <3>2 DEF OwnIds
    <3> QED BY <2>5, <2>7, <3>2, <3>3
  <2> HIDE DEF new, below, those, all
  <2>9. new \o below \in Seq(all) /\ 1 \in DOMAIN (new \o below) /\ (new \o below)[1] = ids + 1
    <3>1. /\ new \o below \in Seq(all) /\ Len(new \o below) = Len(new) + Len(below)
          /\ \A i \in 1 .. Len(new) + Len(below) : (new \o below)[i] = IF i <= Len(new) THEN new[i] ELSE below[i - Len(new)]
        BY <1>5, <2>3, ConcatProperties
    <3>2. 1 \in 1 .. Len(new) + Len(below) /\ 1 <= Len(new) /\ 1 \in 1 .. m
        BY <1>2, <1>5, <2>3
    <3>3. DOMAIN (new \o below) = 1 .. Len(new) + Len(below)
        BY <3>1, EntryFacts
    <3> QED BY <1>5, <3>1, <3>2, <3>3
  <2>10. Chosen(new \o below, those) \in Seq(all \cap those) /\ Chosen(new \o below, those) # <<>>
      BY <2>8, <2>9, ChosenFacts
  <2>11. all \cap those \subseteq OwnIds'
    <3>1. 1 .. ids' = all /\ \A id \in all : id \in Nat
        BY DEF all
    <3>2. \A id \in those : id \notin IdsOf(Seen)
        BY <2>5 DEF those
    <3> QED BY <3>1, <3>2 DEF OwnIds
  <2> QED BY <2>6, <2>10, <2>11, SeqMonotonic
<1> QED BY <1>7, <1>8

\* What becomes of the command when a request of it was answered, or failed.
Onward ==
    /\ job' \in JobRec' /\ (job'.pc = "working" => job'.todo \in Seq(WorkRequests'))
    /\ job'.cmd = job.cmd /\ job'.script = job.script
    /\ job'.pc \in {job.pc, "done", "failed"}
    /\ job'.todo # <<>> => job'.pc = job.pc

LEMMA JobFacts ==
    ASSUME PageTyped
    PROVE  /\ job = [pc |-> job.pc, cmd |-> job.cmd, script |-> job.script, todo |-> job.todo, done |-> job.done, ids |-> job.ids]
           /\ job.pc \in {"idle", "thinking", "working", "done", "failed", "undoing", "undone"}
           /\ job.cmd \in {"none", "rewrite", "append", "edits", "text"}
           /\ job.script \in Seq(SafeEdits) /\ job.todo \in Seq(SafeRequests) /\ job.done \in Seq(SafeParts)
           /\ job.ids \in Seq(OwnIds)
           /\ job.pc = "working" => job.todo \in Seq(WorkRequests)
BY DEF PageTyped, JobRec

LEMMA JobMade ==
    ASSUME PageTyped, WiderSets,
           NEW pc \in {"idle", "thinking", "working", "done", "failed", "undoing", "undone"}, NEW todo \in Seq(SafeRequests'),
           NEW done \in Seq(SafeParts'), NEW own \in Seq(OwnIds'),
           job' = [pc |-> pc, cmd |-> job.cmd, script |-> job.script, todo |-> todo, done |-> done, ids |-> own]
    PROVE  /\ job' \in JobRec' /\ job'.cmd = job.cmd /\ job'.script = job.script
           /\ job'.pc = pc /\ job'.todo = todo /\ job'.done = done /\ job'.ids = own
<1>1. job.script \in Seq(SafeEdits') /\ job.cmd \in {"none", "rewrite", "append", "edits", "text"}
    BY JobFacts DEF WiderSets
<1> QED BY <1>1 DEF JobRec

LEMMA RaisedFacts ==
    ASSUME PageTyped, WiderSets, Busy, job' = Raised(Head(job.todo))
    PROVE  /\ Onward /\ job'.ids = job.ids
           /\ Head(job.todo).op = "append" /\ job.pc = "working" => job'.pc = "failed"
<1> DEFINE r == Head(job.todo)
           rest == Chosen(job.todo, {q \in ToSet(job.todo) : q.part # r.part})
<1>1. /\ job.todo \in Seq(SafeRequests) /\ (job.pc = "working" => job.todo \in Seq(WorkRequests)) /\ job.todo # <<>>
      /\ job.pc \in {"working", "undoing"} /\ job.done \in Seq(SafeParts') /\ job.ids \in Seq(OwnIds')
      /\ job = [pc |-> job.pc, cmd |-> job.cmd, script |-> job.script, todo |-> job.todo, done |-> job.done, ids |-> job.ids]
    BY JobFacts DEF Busy, WiderSets
<1>2. r \in SafeRequests
    BY <1>1, HeadTailProperties
<1>3. rest \in Seq(SafeRequests') /\ (job.pc = "working" => rest \in Seq(WorkRequests'))
  <2> DEFINE those == {q \in ToSet(job.todo) : q.part # r.part}
  <2> HIDE DEF those
  <2>1. \A S : job.todo \in Seq(S) => Chosen(job.todo, those) \in Seq(S)
    <3> SUFFICES ASSUME NEW S, job.todo \in Seq(S) PROVE Chosen(job.todo, those) \in Seq(S)
        OBVIOUS
    <3>1. Chosen(job.todo, those) \in Seq(S \cap those)
        BY ChosenFacts
    <3> QED BY <3>1, SeqMonotonic
  <2>2. rest = Chosen(job.todo, those)
      BY DEF those
  <2>3. /\ Chosen(job.todo, those) \in Seq(SafeRequests)
        /\ job.pc = "working" => Chosen(job.todo, those) \in Seq(WorkRequests)
      BY <1>1, <2>1
  <2> HIDE DEF rest
  <2> QED BY <2>2, <2>3 DEF WiderSets
<1>4. <<>> \in Seq(SafeRequests') /\ <<>> \in Seq(WorkRequests')
    BY EmptySeq
<1>5. CASE r.part # 0
  <2>1. job' = [pc |-> job.pc, cmd |-> job.cmd, script |-> job.script, todo |-> rest, done |-> job.done, ids |-> job.ids]
    <3>1. job' = [job EXCEPT !.todo = rest]
        BY <1>5 DEF Raised
    <3> HIDE DEF rest
    <3> QED BY <1>1, <3>1
  <2>2. r.op # "append"
      BY <1>2, <1>5 DEF SafeRequests
  <2> HIDE DEF rest, r
  <2>3. /\ job' \in JobRec' /\ job'.cmd = job.cmd /\ job'.script = job.script
        /\ job'.pc = job.pc /\ job'.todo = rest /\ job'.done = job.done /\ job'.ids = job.ids
      BY <1>1, <1>3, <2>1, JobMade
  <2> QED BY <1>3, <2>2, <2>3 DEF Onward, r
<1>6. CASE r.part = 0 /\ job.pc = "undoing"
  <2>1. job' = [pc |-> "done", cmd |-> job.cmd, script |-> job.script, todo |-> <<>>, done |-> job.done, ids |-> job.ids]
    <3>1. job' = [job EXCEPT !.pc = "done", !.todo = <<>>]
        BY <1>6 DEF Raised
    <3> QED BY <1>1, <3>1
  <2>2. /\ job' \in JobRec' /\ job'.cmd = job.cmd /\ job'.script = job.script
        /\ job'.pc = "done" /\ job'.todo = <<>> /\ job'.done = job.done /\ job'.ids = job.ids
      BY <1>1, <1>4, <2>1, JobMade
  <2> QED BY <1>6, <2>2 DEF Onward
<1>7. CASE r.part = 0 /\ job.pc # "undoing"
  <2>1. job' = [pc |-> "failed", cmd |-> job.cmd, script |-> job.script, todo |-> <<>>, done |-> job.done, ids |-> job.ids]
    <3>1. job' = [job EXCEPT !.pc = "failed", !.todo = <<>>]
        BY <1>7 DEF Raised
    <3> QED BY <1>1, <3>1
  <2>2. /\ job' \in JobRec' /\ job'.cmd = job.cmd /\ job'.script = job.script
        /\ job'.pc = "failed" /\ job'.todo = <<>> /\ job'.done = job.done /\ job'.ids = job.ids
      BY <1>1, <1>4, <2>1, JobMade
  <2> QED BY <1>7, <2>2 DEF Onward
<1> QED BY <1>5, <1>6, <1>7

\* What an answer leaves of the requests: all but the first, or the first with what is left of its blocks.
LEMMA HeadReplaced ==
    ASSUME NEW S, NEW T, S \subseteq T, NEW todo \in Seq(S), todo # <<>>, NEW q \in T
    PROVE  <<q>> \o Tail(todo) \in Seq(T) /\ Head(<<q>> \o Tail(todo)) = q /\ <<q>> \o Tail(todo) # <<>>
<1>1. Tail(todo) \in Seq(T)
    BY HeadTailProperties, SeqMonotonic
<1>2. <<q>> \in Seq(T) /\ Len(<<q>>) = 1 /\ <<q>>[1] = q
    OBVIOUS
<1> DEFINE s == <<q>>  u == Tail(todo)
<1>3. s \in Seq(T) /\ Len(s) = 1 /\ s[1] = q /\ u \in Seq(T)
    BY <1>1, <1>2
<1> HIDE DEF s, u
<1>4. /\ s \o u \in Seq(T) /\ Len(s \o u) = Len(s) + Len(u)
      /\ \A i \in 1 .. Len(s) + Len(u) : (s \o u)[i] = IF i <= Len(s) THEN s[i] ELSE u[i - Len(s)]
    BY <1>3, ConcatProperties
<1>5. Len(s \o u) # 0 /\ (s \o u)[1] = q
  <2>1. Len(u) \in Nat
      BY <1>3, LenProperties
  <2>2. 1 \in 1 .. Len(s) + Len(u) /\ 1 <= Len(s)
      BY <1>3, <2>1
  <2> QED BY <1>3, <1>4, <2>1, <2>2
<1>6. s \o u # <<>> /\ Head(s \o u) = q
    BY <1>4, <1>5, HeadFacts
<1> QED BY <1>4, <1>6 DEF s, u

\* What was found on the page at first.
LEMMA OldTextFacts ==
    ASSUME PageTyped, NEW id \in IdsOf(Seen)
    PROVE  OldText(id) \in Text
<1>1. \E b \in ToSet(Seen) : b.id = id
    BY DEF IdsOf, ToSet
<1>2. \A b \in ToSet(Seen) : b \in Block
    BY SeenFacts DEF ToSet
<1>3. (CHOOSE b \in ToSet(Seen) : b.id = id) \in Block
    BY <1>1, <1>2
<1> QED BY <1>3 DEF OldText, Block

\* A request some of whose blocks are still to be sent.
SendsOn(q, r, got) ==
    q = [r EXCEPT !.blocks = Rest(r), !.got = got, !.id = IF r.id # Nowhere THEN Last(got) ELSE r.id]
LEMMA StillToSend ==
    ASSUME PageTyped, WiderSets, Seen' = Seen, NEW r \in WorkRequests, r.op = "append", Rest(r) # <<>>,
           NEW got \in Seq(OwnIds'), got # <<>>,
           NEW q, SendsOn(q, r, got)
    PROVE  q \in WorkRequests' /\ q.op = "append"
<1>1. r \in RequestRec /\ r.part = 0 /\ Rest(r) \in Seq(Line) /\ r.id \in Nat
  <2>1. r \in RequestRec /\ r.part = 0
      BY DEF WorkRequests, SafeRequests
  <2> QED BY <2>1, BatchFacts DEF RequestRec
<1>2. got \in Seq(Nat) /\ Last(got) \in Nat
  <2>1. OwnIds' \subseteq Nat
      BY DEF OwnIds
  <2>2. got \in Seq(Nat)
      BY <2>1, SeqMonotonic
  <2>3. Len(got) \in 1 .. Len(got)
      BY <2>2, EmptySeq
  <2> QED BY <2>2, <2>3, ElementOfSeq DEF Last
<1> DEFINE id == IF r.id # Nowhere THEN Last(got) ELSE r.id
<1>3. id \in Nat
    BY <1>1, <1>2
<1>4. q = [r EXCEPT !.blocks = Rest(r), !.got = got, !.id = id]
    BY DEF SendsOn
<1>5. /\ q.op = "append" /\ q.part = 0 /\ q.blocks = Rest(r) /\ q.got = got /\ q.id = id /\ q.known = r.known /\ q.kind = r.kind
      /\ q = [op |-> q.op, id |-> q.id, part |-> q.part, kind |-> q.kind, blocks |-> q.blocks, known |-> q.known, got |-> q.got]
  <2> HIDE DEF id
  <2> QED BY <1>1, <1>4 DEF RequestRec
<1>6. q \in RequestRec
  <2> HIDE DEF id
  <2>1. r.known \in SUBSET Nat /\ r.kind \in Kinds
      BY <1>1 DEF RequestRec
  <2> QED BY <1>1, <1>2, <1>3, <1>5, <2>1 DEF RequestRec
<1>7. q.id = Nowhere \/ (q.known = IdsOf(Seen') /\ q.known # {})
  <2>1. r.id = Nowhere \/ (r.known = IdsOf(Seen) /\ r.known # {})
      BY DEF WorkRequests
  <2> QED BY <1>5, <2>1
<1> HIDE DEF id
<1>8. q \in SafeRequests'
    BY <1>5, <1>6 DEF SafeRequests
<1> QED BY <1>5, <1>7, <1>8 DEF WorkRequests

LEMMA PartFacts ==
    ASSUME NEW kind \in {"added", "replaced", "deleted"}, NEW list \in Seq(Nat), NEW old \in Text \cup {<<>>},
           kind = "added" => list \in Seq(OwnIds'), kind = "replaced" => old \in Text
    PROVE  Part(kind, list, old) \in SafeParts'
BY DEF Part, SafeParts, PartRec

LEMMA KeptFacts ==
    ASSUME PageTyped, WiderSets, Seen' = Seen, job.pc = "working", job.todo # <<>>,
           Head(job.todo).op = "append" => FreshIds(Head(job.todo)) \in Seq(OwnIds') /\ FreshIds(Head(job.todo)) # <<>>,
           job' = Kept(Head(job.todo))
    PROVE  /\ Onward
           /\ Head(job.todo).op = "append" =>
                  \/ job'.ids # <<>>
                  \/ job'.ids = job.ids /\ job'.pc = "working" /\ job'.todo # <<>> /\ Head(job'.todo).op = "append"
           /\ Head(job.todo).op # "append" => job'.ids = job.ids
<1> DEFINE r == Head(job.todo)
<1>1. /\ job.todo \in Seq(SafeRequests) /\ job.todo \in Seq(WorkRequests)
      /\ job.done \in Seq(SafeParts') /\ job.ids \in Seq(OwnIds') /\ job.pc \in {"working", "undoing"}
      /\ job = [pc |-> job.pc, cmd |-> job.cmd, script |-> job.script, todo |-> job.todo, done |-> job.done, ids |-> job.ids]
    BY JobFacts DEF WiderSets
<1>2. r \in WorkRequests /\ r \in SafeRequests /\ r \in RequestRec
    BY <1>1, HeadTailProperties DEF WorkRequests, SafeRequests
<1>3. Tail(job.todo) \in Seq(WorkRequests') /\ Tail(job.todo) \in Seq(SafeRequests')
  <2>1. Tail(job.todo) \in Seq(WorkRequests) /\ Tail(job.todo) \in Seq(SafeRequests)
      BY <1>1, HeadTailProperties
  <2> QED BY <2>1 DEF WiderSets
<1>a. WorkRequests' \subseteq SafeRequests' /\ OwnIds' \subseteq Nat
    BY DEF WorkRequests, OwnIds
<1>4. CASE r.op = "append" /\ Rest(r) # <<>>
  <2> DEFINE got == r.got \o FreshIds(r)
             id == IF r.id # Nowhere THEN Last(got) ELSE r.id
             q == [r EXCEPT !.blocks = Rest(r), !.got = got, !.id = id]
  <2>1. got \in Seq(OwnIds') /\ got # <<>>
    <3>1. r.got \in Seq(OwnIds')
        BY <1>2, <1>4 DEF SafeRequests, WiderSets
    <3> QED BY <1>4, <3>1, ConcatProperties, ConcatEqualIffEmpty
  <2>2. job' = [job EXCEPT !.todo = <<[r EXCEPT !.blocks = Rest(r), !.got = got,
                      !.id = IF r.id # Nowhere /\ got # <<>> THEN Last(got) ELSE r.id]>> \o Tail(@)]
      BY <1>4 DEF Kept
  <2>3. q = [r EXCEPT !.blocks = Rest(r), !.got = got, !.id = IF r.id # Nowhere /\ got # <<>> THEN Last(got) ELSE r.id]
    <3> HIDE DEF got
    <3> QED BY <2>1
  <2> DEFINE todo == <<q>> \o Tail(job.todo)
  <2>4. job' = [pc |-> job.pc, cmd |-> job.cmd, script |-> job.script, todo |-> todo, done |-> job.done, ids |-> job.ids]
    <3> HIDE DEF q, got
    <3> QED BY <1>1, <2>2, <2>3
  <2> HIDE DEF got
  <2>b. SendsOn(q, r, got)
      BY DEF SendsOn
  <2>5. q \in WorkRequests' /\ q.op = "append"
    <3> HIDE DEF r, q, id
    <3> QED BY <2>b, <1>2, <1>4, <2>1, StillToSend
  <2> HIDE DEF q, r
  <2>6. todo \in Seq(WorkRequests') /\ Head(todo) = q /\ todo # <<>> /\ todo \in Seq(SafeRequests')
    <3>1. WorkRequests \subseteq WorkRequests'
        BY DEF WiderSets
    <3>2. todo \in Seq(WorkRequests') /\ Head(todo) = q /\ todo # <<>>
        BY <1>1, <2>5, <3>1, HeadReplaced
    <3> HIDE DEF todo
    <3> QED BY <1>a, <3>2, SeqMonotonic
  <2> HIDE DEF todo
  <2>7. /\ job' \in JobRec' /\ job'.cmd = job.cmd /\ job'.script = job.script
        /\ job'.pc = job.pc /\ job'.todo = todo /\ job'.done = job.done /\ job'.ids = job.ids
      BY <1>1, <2>4, <2>6, JobMade
  <2>8. Onward
      BY <2>6, <2>7 DEF Onward
  <2>9. job'.ids = job.ids /\ job'.pc = "working" /\ job'.todo # <<>> /\ Head(job'.todo).op = "append"
      BY <2>5, <2>6, <2>7
  <2> QED BY <1>4, <2>8, <2>9 DEF r
<1>5. CASE r.op = "append" /\ Rest(r) = <<>>
  <2> DEFINE got == r.got \o FreshIds(r)
             done == Append(job.done, Part("added", got, <<>>))
  <2>1. got \in Seq(OwnIds') /\ got # <<>>
    <3>1. r.got \in Seq(OwnIds')
        BY <1>2, <1>5 DEF SafeRequests, WiderSets
    <3> QED BY <1>5, <3>1, ConcatProperties, ConcatEqualIffEmpty
  <2>2. job' = [job EXCEPT !.todo = Tail(@), !.ids = got, !.done = done]
      BY <1>5, <2>1 DEF Kept
  <2> HIDE DEF got
  <2>3. done \in Seq(SafeParts')
    <3>1. got \in Seq(Nat)
        BY <1>a, <2>1, SeqMonotonic
    <3>2. Part("added", got, <<>>) \in SafeParts'
        BY <2>1, <3>1, PartFacts
    <3> QED BY <1>1, <3>2, AppendFacts
  <2> HIDE DEF done
  <2>4. job' = [pc |-> job.pc, cmd |-> job.cmd, script |-> job.script, todo |-> Tail(job.todo), done |-> done, ids |-> got]
      BY <1>1, <2>2
  <2>5. /\ job' \in JobRec' /\ job'.cmd = job.cmd /\ job'.script = job.script
        /\ job'.pc = job.pc /\ job'.todo = Tail(job.todo) /\ job'.done = done /\ job'.ids = got
    <3>1. job.pc \in {"idle", "thinking", "working", "done", "failed", "undoing", "undone"}
        OBVIOUS
    <3> QED BY <1>3, <2>1, <2>3, <2>4, <3>1, JobMade
  <2>6. Onward
      BY <1>3, <2>5 DEF Onward
  <2> QED BY <1>5, <2>1, <2>5, <2>6
<1>6. ASSUME r.op # "append", NEW done \in Seq(SafeParts'), job' = [job EXCEPT !.todo = Tail(@), !.done = done]
      PROVE  Onward /\ job'.ids = job.ids
  <2>1. job' = [pc |-> job.pc, cmd |-> job.cmd, script |-> job.script, todo |-> Tail(job.todo), done |-> done, ids |-> job.ids]
      BY <1>1, <1>6
  <2>2. /\ job' \in JobRec' /\ job'.cmd = job.cmd /\ job'.script = job.script
        /\ job'.pc = job.pc /\ job'.todo = Tail(job.todo) /\ job'.done = done /\ job'.ids = job.ids
      BY <1>1, <1>3, <1>6, <2>1, JobMade
  <2> QED BY <1>3, <2>2 DEF Onward
<1>7. r.id \in Nat /\ <<r.id>> \in Seq(Nat) /\ <<>> \in Text \cup {<<>>}
    BY <1>2 DEF RequestRec
<1>8. CASE r.op = "update"
  <2>1. job' = [job EXCEPT !.todo = Tail(@), !.done = Append(@, Part("replaced", <<r.id>>, OldText(r.id)))]
      BY <1>8 DEF Kept
  <2>2. OldText(r.id) \in Text
      BY <1>2, <1>8, OldTextFacts DEF WorkRequests
  <2>3. Part("replaced", <<r.id>>, OldText(r.id)) \in SafeParts'
      BY <1>7, <2>2, PartFacts
  <2>4. Append(job.done, Part("replaced", <<r.id>>, OldText(r.id))) \in Seq(SafeParts')
      BY <1>1, <2>3, AppendFacts
  <2>5. job' = [job EXCEPT !.todo = Tail(@), !.done = Append(job.done, Part("replaced", <<r.id>>, OldText(r.id)))]
      BY <2>1
  <2> QED BY <1>6, <1>8, <2>4, <2>5
<1>9. CASE r.op = "delete" /\ job.cmd = "edits"
  <2>1. job' = [job EXCEPT !.todo = Tail(@), !.done = Append(@, Part("deleted", <<r.id>>, <<>>))]
      BY <1>9 DEF Kept
  <2>2. Part("deleted", <<r.id>>, <<>>) \in SafeParts'
      BY <1>7, PartFacts
  <2>3. Append(job.done, Part("deleted", <<r.id>>, <<>>)) \in Seq(SafeParts')
      BY <1>1, <2>2, AppendFacts
  <2>4. job' = [job EXCEPT !.todo = Tail(@), !.done = Append(job.done, Part("deleted", <<r.id>>, <<>>))]
      BY <2>1
  <2> QED BY <1>6, <1>9, <2>3, <2>4
<1>10. CASE r.op \notin {"append", "update"} /\ ~(r.op = "delete" /\ job.cmd = "edits")
  <2>1. job' = [job EXCEPT !.todo = Tail(@)]
      BY <1>10 DEF Kept
  <2>2. job' = [job EXCEPT !.todo = Tail(@), !.done = job.done]
      BY <1>1, <2>1
  <2> QED BY <1>1, <1>6, <1>10, <2>2
<1> QED BY <1>4, <1>5, <1>8, <1>9, <1>10

LEMMA UndoingFacts ==
    ASSUME PageTyped, WiderSets, job.pc = "undoing", job.todo # <<>>, job' = Progress(Head(job.todo))
    PROVE  Onward /\ job'.ids = job.ids
<1> DEFINE r == Head(job.todo)
<1>1. /\ job.todo \in Seq(SafeRequests) /\ job.done \in Seq(SafeParts') /\ job.ids \in Seq(OwnIds') /\ job.pc \in {"working", "undoing"}
      /\ job = [pc |-> job.pc, cmd |-> job.cmd, script |-> job.script, todo |-> job.todo, done |-> job.done, ids |-> job.ids]
    BY JobFacts DEF WiderSets
<1>2. r \in SafeRequests /\ r \in RequestRec
    BY <1>1, HeadTailProperties DEF SafeRequests
<1>3. SafeRequests \subseteq SafeRequests'
    BY DEF WiderSets
<1>4. CASE r.op = "append" /\ Rest(r) # <<>>
  <2> DEFINE q == [r EXCEPT !.blocks = Rest(r)]
             todo == <<q>> \o Tail(job.todo)
  <2>1. q \in SafeRequests'
    <3>1. Rest(r) \in Seq(Line)
        BY <1>2, BatchFacts
    <3>2. q \in RequestRec /\ q.op = "append" /\ q.part = r.part /\ q.got = r.got
        BY <1>2, <1>4, <3>1 DEF RequestRec
    <3>3. r.part = 0 /\ r.got \in Seq(OwnIds')
        BY <1>2, <1>4 DEF SafeRequests, WiderSets
    <3> HIDE DEF q
    <3> QED BY <3>2, <3>3 DEF SafeRequests
  <2>3. job' = [job EXCEPT !.todo = <<q>> \o Tail(@)]
      BY <1>4 DEF Progress
  <2>4. job' = [pc |-> job.pc, cmd |-> job.cmd, script |-> job.script, todo |-> todo, done |-> job.done, ids |-> job.ids]
    <3> HIDE DEF q
    <3> QED BY <1>1, <2>3
  <2> HIDE DEF q
  <2>5. todo \in Seq(SafeRequests') /\ todo # <<>>
      BY <1>1, <1>3, <2>1, HeadReplaced
  <2> HIDE DEF todo
  <2>6. /\ job' \in JobRec' /\ job'.cmd = job.cmd /\ job'.script = job.script
        /\ job'.pc = job.pc /\ job'.todo = todo /\ job'.done = job.done /\ job'.ids = job.ids
      BY <1>1, <2>4, <2>5, JobMade
  <2> QED BY <2>5, <2>6 DEF Onward
<1>5. CASE ~(r.op = "append" /\ Rest(r) # <<>>)
  <2>1. job' = [job EXCEPT !.todo = Tail(@)]
      BY <1>5 DEF Progress
  <2>2. job' = [pc |-> job.pc, cmd |-> job.cmd, script |-> job.script, todo |-> Tail(job.todo), done |-> job.done, ids |-> job.ids]
      BY <1>1, <2>1
  <2>3. Tail(job.todo) \in Seq(SafeRequests')
    <3>1. Tail(job.todo) \in Seq(SafeRequests)
        BY <1>1, HeadTailProperties
    <3> QED BY <3>1 DEF WiderSets
  <2> DEFINE todo == Tail(job.todo)
  <2>4. /\ todo \in Seq(SafeRequests')
        /\ job' = [pc |-> job.pc, cmd |-> job.cmd, script |-> job.script, todo |-> todo, done |-> job.done, ids |-> job.ids]
      BY <2>2, <2>3
  <2> HIDE DEF todo
  <2>5. /\ job' \in JobRec' /\ job'.cmd = job.cmd /\ job'.script = job.script
        /\ job'.pc = job.pc /\ job'.todo = todo /\ job'.done = job.done /\ job'.ids = job.ids
      BY <1>1, <2>4, JobMade
  <2>6. todo = Tail(job.todo)
      BY DEF todo
  <2> QED BY <2>5, <2>6 DEF Onward
<1> QED BY <1>4, <1>5

\* When ids are only added, what the command has read and was to take away stays what it was.
LEMMA WhatItMeantStays ==
    ASSUME PageTyped, ids' \in Nat, ids <= ids', read' = read, job'.cmd = job.cmd, job'.script = job.script
    PROVE  WiderSets /\ Seen' = Seen /\ Meant' = Meant
<1>1. ids \in Nat
    BY DEF PageTyped, Sheet
<1>2. Seen' = Seen /\ Meant' = Meant
    BY MeantStays
<1> QED BY <1>1, <1>2, Wider

LEMMA ReadStays ==
    ASSUME PageTyped, ids' \in Nat, ids <= ids', read' = read \/ (read' = page /\ ids' = ids)
    PROVE  /\ read' \in Seq(Block) /\ \A i, j \in DOMAIN read' : read'[i].id = read'[j].id => i = j
           /\ \A i \in DOMAIN read' : read'[i].id \in 1 .. ids'
<1>1. ids \in Nat
    BY DEF PageTyped, Sheet
<1>2. CASE read' = read
  <2>1. \A i \in DOMAIN read : read[i].id \in 1 .. ids
      BY DEF PageTyped
  <2>2. 1 .. ids \subseteq 1 .. ids'
      BY <1>1
  <2> QED BY <1>2, <2>1, <2>2 DEF PageTyped
<1>3. CASE read' = page /\ ids' = ids
    BY <1>3 DEF PageTyped, Sheet
<1> QED BY <1>2, <1>3

LEMMA RequestedFacts ==
    ASSUME PageInv, Busy, Sheet(page', trash', ids'), ids' \in Nat, ids <= ids',
           binned' \subseteq binned \cup (IF Head(job.todo).op = "delete" THEN {Head(job.todo).id} ELSE {}),
           read' = read, Onward, tries' \in [{"net", "server", "busy"} -> 0 .. MAX_RETRIES], Written'
    PROVE  PageInv'
<1>1. PageTyped /\ Staged /\ Harmless
    BY DEF PageInv
<1>2. WiderSets /\ Seen' = Seen /\ Meant' = Meant
    BY <1>1, WhatItMeantStays DEF Onward
<1>3. PageTyped'
    BY <1>1, ReadStays DEF PageTyped, Onward
<1>4. Staged'
    BY <1>1 DEF Staged, Onward, Busy
<1>5. Harmless'
  <2>1. Head(job.todo) \in SafeRequests
      BY <1>1, JobFacts, HeadTailProperties DEF Busy
  <2>2. Head(job.todo).op = "delete" => Head(job.todo).id \in OwnIds \cup Meant
      BY <2>1 DEF SafeRequests
  <2>3. binned' \subseteq OwnIds \cup Meant
      BY <1>1, <2>2 DEF Harmless
  <2> QED BY <1>2, <2>3 DEF Harmless, WiderSets
<1> QED BY <1>3, <1>4, <1>5 DEF PageInv

LEMMA AnswerKeeps ==
    ASSUME PageInv, Answer
    PROVE  PageInv'
<1> DEFINE r == Head(job.todo)
<1>1. PageTyped /\ Staged /\ Harmless /\ Written /\ Busy /\ Possible(r) /\ Applied(r) /\ job' = Progress(r) /\ read' = read /\ tries' = NoTries
    BY DEF PageInv, Answer
<1>2. r \in SafeRequests /\ job.todo # <<>> /\ job.pc \in {"working", "undoing"}
    BY <1>1, JobFacts, HeadTailProperties DEF Busy
<1>3. /\ Sheet(page', trash', ids') /\ ids \in Nat /\ ids' \in Nat /\ ids <= ids'
      /\ r.op = "append" => ids' = ids + Len(Batch(r))
      /\ binned' \subseteq binned \cup (IF r.op = "delete" THEN {r.id} ELSE {})
    BY <1>1, <1>2, AppliedFacts
<1>4. tries' \in [{"net", "server", "busy"} -> 0 .. MAX_RETRIES]
    BY <1>1, PageBounds DEF NoTries
<1>5. job'.cmd = job.cmd /\ job'.script = job.script
  <2>1. job = [pc |-> job.pc, cmd |-> job.cmd, script |-> job.script, todo |-> job.todo, done |-> job.done, ids |-> job.ids]
      BY <1>1, JobFacts
  <2>2. CASE job.pc = "undoing"
    <3>1. PICK todo : job' = [job EXCEPT !.todo = todo]
        BY <1>1, <2>2 DEF Progress
    <3> QED BY <2>1, <3>1
  <2>3. CASE job.pc # "undoing"
    <3>1. job' = Kept(r) /\ r.op \in {"append", "update", "delete", "restore"}
        BY <1>1, <1>2, <2>3 DEF Progress, SafeRequests, RequestRec
    <3> HIDE DEF r
    <3>2. CASE r.op = "append"
        BY <2>1, <3>1, <3>2 DEF Kept
    <3>3. CASE r.op = "update"
        BY <2>1, <3>1, <3>3 DEF Kept
    <3>4. CASE r.op = "delete" /\ job.cmd = "edits"
        BY <2>1, <3>1, <3>4 DEF Kept
    <3>5. CASE (r.op = "delete" /\ job.cmd # "edits") \/ r.op = "restore"
        BY <2>1, <3>1, <3>5 DEF Kept
    <3> QED BY <3>1, <3>2, <3>3, <3>4, <3>5
  <2> QED BY <2>2, <2>3
<1>6. WiderSets /\ Seen' = Seen
    BY <1>1, <1>3, <1>5, WhatItMeantStays
<1>7. CASE job.pc = "undoing"
  <2>1. Onward /\ job'.ids = job.ids
      BY <1>1, <1>2, <1>6, <1>7, UndoingFacts
  <2>2. Written'
      BY <1>1, <1>7, <2>1 DEF Written, Onward
  <2> HIDE DEF r
  <2> QED BY <1>1, <1>3, <1>4, <2>1, <2>2, RequestedFacts DEF r
<1>8. CASE job.pc = "working"
  <2>1. r.op = "append" => FreshIds(r) \in Seq(OwnIds') /\ FreshIds(r) # <<>>
    <3>1. r \in WorkRequests
        BY <1>1, <1>2, <1>8, JobFacts, HeadTailProperties
    <3> HIDE DEF r
    <3> QED BY <1>1, <1>3, <1>6, <3>1, FreshFacts
  <2>2. job' = Kept(r)
      BY <1>1, <1>8 DEF Progress
  <2>3. /\ Onward
        /\ r.op = "append" =>
               \/ job'.ids # <<>>
               \/ job'.ids = job.ids /\ job'.pc = "working" /\ job'.todo # <<>> /\ Head(job'.todo).op = "append"
        /\ r.op # "append" => job'.ids = job.ids
      BY <1>1, <1>2, <1>6, <1>8, <2>1, <2>2, KeptFacts
  <2>4. Written'
    <3>1. SUFFICES ASSUME job.cmd = "text", job'.ids = <<>>
                   PROVE  binned' = {} /\ job'.pc = "working" /\ job'.todo # <<>> /\ Head(job'.todo).op = "append"
        BY <1>5 DEF Written
    <3>2. job.ids = <<>>
        BY <2>3, <3>1
    <3>3. binned = {} /\ r.op = "append"
        BY <1>1, <1>8, <3>1, <3>2 DEF Written
    <3> QED BY <1>3, <2>3, <3>1, <3>3
  <2> HIDE DEF r
  <2> QED BY <1>1, <1>3, <1>4, <2>3, <2>4, RequestedFacts DEF r
<1> QED BY <1>2, <1>7, <1>8

LEMMA GivenUpKeeps ==
    ASSUME PageInv, Busy, Sheet(page', trash', ids'), ids' \in Nat, ids <= ids',
           binned' \subseteq binned \cup (IF Head(job.todo).op = "delete" THEN {Head(job.todo).id} ELSE {}),
           read' = read, job' = job \/ job' = Raised(Head(job.todo)),
           tries' \in [{"net", "server", "busy"} -> 0 .. MAX_RETRIES]
    PROVE  PageInv'
<1>1. PageTyped /\ Staged /\ Harmless /\ Written
    BY DEF PageInv
<1>2. CASE job' = job
  <2>1. WiderSets /\ Seen' = Seen /\ Meant' = Meant
      BY <1>1, <1>2, WhatItMeantStays
  <2>2. Onward
    <3>1. job' \in JobRec'
        BY <1>1, <1>2, <2>1 DEF PageTyped, JobRec, WiderSets
    <3>2. job.pc = "working" => job.todo \in Seq(WorkRequests')
        BY <1>1, <2>1 DEF PageTyped, WiderSets
    <3> QED BY <1>2, <3>1, <3>2 DEF Onward
  <2>3. Written'
      BY <1>1, <1>2 DEF Written, Busy
  <2> QED BY <2>2, <2>3, RequestedFacts
<1>3. CASE job' = Raised(Head(job.todo))
  <2>1. job'.cmd = job.cmd /\ job'.script = job.script
    <3>1. job = [pc |-> job.pc, cmd |-> job.cmd, script |-> job.script, todo |-> job.todo, done |-> job.done, ids |-> job.ids]
        BY <1>1, JobFacts
    <3> DEFINE r == Head(job.todo)
    <3> HIDE DEF r
    <3>2. job' = Raised(r)
        BY <1>3 DEF r
    <3>3. CASE r.part # 0
        BY <3>1, <3>2, <3>3 DEF Raised
    <3>4. CASE r.part = 0 /\ job.pc = "undoing"
        BY <3>1, <3>2, <3>4 DEF Raised
    <3>5. CASE r.part = 0 /\ job.pc # "undoing"
        BY <3>1, <3>2, <3>5 DEF Raised
    <3> QED BY <3>3, <3>4, <3>5
  <2>2. WiderSets
      BY <1>1, <2>1, WhatItMeantStays
  <2>3. /\ Onward /\ job'.ids = job.ids
        /\ Head(job.todo).op = "append" /\ job.pc = "working" => job'.pc = "failed"
      BY <1>1, <1>3, <2>2, RaisedFacts
  <2>4. Written'
    <3>1. SUFFICES ASSUME job.cmd = "text", job.ids = <<>> PROVE binned' = {} /\ job'.pc = "failed"
        BY <2>1, <2>3 DEF Written
    <3>2. binned = {} /\ job.pc = "working" /\ Head(job.todo).op = "append"
        BY <1>1, <3>1 DEF Written, Busy
    <3> QED BY <2>3, <3>2
  <2> QED BY <2>3, <2>4, RequestedFacts
<1> QED BY <1>2, <1>3

LEMMA TriesFacts ==
    ASSUME PageTyped, NEW why \in {"net", "server", "busy"}, Retried(why)
    PROVE  /\ tries' \in [{"net", "server", "busy"} -> 0 .. MAX_RETRIES]
           /\ job' = job \/ job' = Raised(Head(job.todo))
<1>1. MAX_RETRIES \in Nat /\ tries \in [{"net", "server", "busy"} -> 0 .. MAX_RETRIES]
    BY PageBounds DEF PageTyped
<1>2. Attempts[why] \in Nat /\ Attempts[why] <= MAX_RETRIES
  <2>1. Min({MAX_RETRIES, 2}) \in Nat /\ Min({MAX_RETRIES, 2}) <= MAX_RETRIES
      BY <1>1, MinFacts
  <2> QED BY <1>1, <2>1 DEF Attempts
<1>3. NoTries \in [{"net", "server", "busy"} -> 0 .. MAX_RETRIES]
    BY <1>1 DEF NoTries
<1>4. CASE tries[why] < Attempts[why]
  <2>1. tries' = [tries EXCEPT ![why] = @ + 1] /\ job' = job
      BY <1>4 DEF Retried
  <2>2. tries[why] + 1 \in 0 .. MAX_RETRIES
      BY <1>1, <1>2, <1>4
  <2> QED BY <1>1, <2>1, <2>2
<1>5. CASE ~(tries[why] < Attempts[why])
    BY <1>3, <1>5 DEF Retried
<1> QED BY <1>4, <1>5

LEMMA FailuresKeep ==
    ASSUME PageInv, NotThere \/ Rejected \/ Unapplied \/ AnswerLost
    PROVE  PageInv'
<1> DEFINE r == Head(job.todo)
<1>1. PageTyped /\ Busy
    BY DEF PageInv, NotThere, Rejected, Unapplied, AnswerLost, RequestFails
<1>2. r \in SafeRequests /\ Sheet(page, trash, ids) /\ ids \in Nat
    BY <1>1, JobFacts, HeadTailProperties DEF Busy, PageTyped, Sheet
<1>3. CASE NotThere \/ Rejected
  <2>1. /\ page' = page /\ trash' = trash /\ ids' = ids /\ binned' = binned /\ read' = read
        /\ tries' = NoTries /\ job' = Raised(r)
      BY <1>3 DEF NotThere, Rejected, onNotion
  <2>2. tries' \in [{"net", "server", "busy"} -> 0 .. MAX_RETRIES]
      BY <2>1, PageBounds DEF NoTries
  <2> HIDE DEF r
  <2>3. Sheet(page', trash', ids') /\ ids' \in Nat /\ ids <= ids'
      BY <1>2, <2>1
  <2> QED BY <1>1, <2>1, <2>2, <2>3, GivenUpKeeps DEF r
<1>4. CASE Unapplied
  <2>1. PICK why \in {"net", "server", "busy"} : RequestFails(why) /\ UNCHANGED onNotion
      BY <1>4 DEF Unapplied
  <2>2. page' = page /\ trash' = trash /\ ids' = ids /\ binned' = binned /\ read' = read /\ Retried(why)
      BY <2>1 DEF RequestFails, onNotion
  <2>3. Sheet(page', trash', ids') /\ ids' \in Nat /\ ids <= ids'
      BY <1>2, <2>2
  <2>4. /\ tries' \in [{"net", "server", "busy"} -> 0 .. MAX_RETRIES]
        /\ job' = job \/ job' = Raised(r)
      BY <1>1, <2>2, TriesFacts
  <2> HIDE DEF r
  <2> QED BY <1>1, <2>2, <2>3, <2>4, GivenUpKeeps DEF r
<1>5. CASE AnswerLost
  <2>1. PICK why \in {"net", "server", "busy"} : RequestFails(why) /\ Applied(r)
      BY <1>5 DEF AnswerLost
  <2>2. Possible(r) /\ read' = read /\ Retried(why)
      BY <1>5, <2>1 DEF AnswerLost, RequestFails
  <2>3. /\ Sheet(page', trash', ids') /\ ids \in Nat /\ ids' \in Nat /\ ids <= ids'
        /\ binned' \subseteq binned \cup (IF r.op = "delete" THEN {r.id} ELSE {})
      BY <1>1, <1>2, <2>1, <2>2, AppliedFacts
  <2>4. /\ tries' \in [{"net", "server", "busy"} -> 0 .. MAX_RETRIES]
        /\ job' = job \/ job' = Raised(r)
      BY <1>1, <2>2, TriesFacts
  <2> HIDE DEF r
  <2> QED BY <1>1, <2>2, <2>3, <2>4, GivenUpKeeps DEF r
<1> QED BY <1>3, <1>4, <1>5

\* The user's own edits, and a step that changes nothing here.
LEMMA OwnEditsKeep ==
    ASSUME PageInv, Sheet(page', trash', ids'), ids' \in Nat, ids <= ids', binned' = binned, job' = job, read' = read,
           tries' = tries
    PROVE  PageInv'
<1>1. PageTyped /\ Staged /\ Harmless /\ Written
    BY DEF PageInv
<1>2. WiderSets /\ Seen' = Seen /\ Meant' = Meant
    BY <1>1, WhatItMeantStays
<1>3. job' \in JobRec' /\ (job.pc = "working" => job.todo \in Seq(WorkRequests'))
    BY <1>1, <1>2 DEF PageTyped, JobRec, WiderSets
<1>4. PageTyped'
    BY <1>1, <1>3, ReadStays DEF PageTyped
<1>5. Staged' /\ Written'
    BY <1>1 DEF Staged, Written
<1>6. Harmless'
    BY <1>1, <1>2 DEF Harmless, WiderSets
<1> QED BY <1>4, <1>5, <1>6 DEF PageInv

LEMMA ByHandKeeps ==
    ASSUME PageInv, WriteByHand \/ DeleteByHand
    PROVE  PageInv'
<1>1. /\ Sheet(page, trash, ids) /\ ids \in Nat /\ page \in Seq(Block) /\ Len(page) \in Nat
    BY EntryFacts DEF PageInv, PageTyped, Sheet
<1>2. binned' = binned /\ job' = job /\ read' = read /\ tries' = tries
    BY DEF WriteByHand, DeleteByHand, ByHand
<1>3. CASE WriteByHand
  <2> DEFINE b == [id |-> ids + 1, kind |-> "para", text |-> <<"hand", ids + 1, 1>>]
             new == <<b>>
  <2>1. PICK at \in 0 .. Len(page) : page' = SubSeq(page, 1, at) \o <<b>> \o SubSeq(page, at + 1, Len(page))
      BY <1>3 DEF WriteByHand
  <2>2. ids' = ids + 1 /\ trash' = trash
      BY <1>3 DEF WriteByHand
  <2>3. b \in Block /\ b.id = ids + 1
    <3>1. ids + 1 \in Nat
        BY <1>1
    <3> DEFINE n == ids + 1
    <3> HIDE DEF n
    <3>2. n \in Nat /\ <<"hand", n, 1>> \in Text
      <4>1. n \in Nat
          BY <3>1 DEF n
      <4> QED BY <4>1, TextFacts
    <3>3. b = [id |-> n, kind |-> "para", text |-> <<"hand", n, 1>>]
        BY DEF n
    <3>4. b \in Block /\ b.id = n
        BY <3>2, <3>3 DEF Block, Kinds
    <3> QED BY <3>4 DEF n
  <2> HIDE DEF b
  <2>4. new \in Seq(Block) /\ Len(new) = 1 /\ \A i \in DOMAIN new : new[i].id = ids + i
      BY <2>3
  <2>5. page' = Spliced(page, at, new)
      BY <2>1 DEF Spliced
  <2> HIDE DEF new
  <2>6. Sheet(Spliced(page, at, new), trash, ids + Len(new))
      BY <1>1, <2>4, PutIn
  <2>7. Sheet(page', trash', ids') /\ ids' \in Nat /\ ids <= ids'
      BY <1>1, <2>2, <2>4, <2>5, <2>6
  <2> QED BY <1>2, <2>7, OwnEditsKeep
<1>4. CASE DeleteByHand
  <2>1. PICK at \in DOMAIN page : page' = RemoveAt(page, at) /\ trash' = trash \cup {page[at]}
      BY <1>4 DEF DeleteByHand
  <2>2. ids' = ids
      BY <1>4 DEF DeleteByHand
  <2>3. Sheet(RemoveAt(page, at), trash \cup {page[at]}, ids)
      BY <1>1, TakeOut
  <2>4. Sheet(page', trash', ids') /\ ids' \in Nat /\ ids <= ids'
      BY <1>1, <2>1, <2>2, <2>3
  <2> QED BY <1>2, <2>4, OwnEditsKeep
<1> QED BY <1>3, <1>4

\* A command that reads, and one that has made its plan, or given up.
Planning(pc, cmd, script, todo) ==
    /\ script \in Seq(SafeEdits') /\ todo \in Seq(SafeRequests')
    /\ \/ pc = "thinking" /\ cmd \in {"rewrite", "append"} /\ todo = <<>> /\ script = <<>>
       \/ pc = "failed" /\ cmd = "rewrite" /\ todo = <<>>
       \/ pc = "working" /\ cmd \in {"append", "edits"} /\ todo \in Seq(WorkRequests')
       \/ pc = "working" /\ cmd = "text" /\ todo \in Seq(WorkRequests') /\ todo # <<>> /\ Head(todo).op = "append"
    /\ job' = [job EXCEPT !.pc = pc, !.cmd = cmd, !.script = script, !.todo = todo]
LEMMA PlannedKeeps ==
    ASSUME PageInv, job.pc \in {"idle", "thinking"}, UNCHANGED <<onNotion, tries>>, read' = read \/ read' = page,
           NEW pc, NEW cmd, NEW script, NEW todo, Planning(pc, cmd, script, todo)
    PROVE  PageInv'
<1>1. /\ PageTyped /\ Staged /\ Harmless /\ ids \in Nat
      /\ page' = page /\ trash' = trash /\ ids' = ids /\ binned' = binned /\ tries' = tries
    BY DEF PageInv, onNotion, PageTyped, Sheet
<1>2. job.todo = <<>> /\ job.done = <<>> /\ job.ids = <<>> /\ job.script = <<>> /\ binned = {}
    BY <1>1 DEF Staged
<1>3. job' = [pc |-> pc, cmd |-> cmd, script |-> script, todo |-> todo, done |-> <<>>, ids |-> <<>>]
  <2>1. job = [pc |-> job.pc, cmd |-> job.cmd, script |-> job.script, todo |-> job.todo, done |-> job.done, ids |-> job.ids]
      BY <1>1, JobFacts
  <2> QED BY <1>2, <2>1 DEF Planning
<1>4. /\ pc \in {"thinking", "failed", "working"} /\ cmd \in {"rewrite", "append", "edits", "text"}
      /\ script \in Seq(SafeEdits') /\ todo \in Seq(SafeRequests')
      /\ pc = "working" => todo \in Seq(WorkRequests') /\ cmd \in {"append", "edits", "text"}
      /\ pc = "thinking" => cmd \in {"rewrite", "append"} /\ todo = <<>> /\ script = <<>>
      /\ todo # <<>> => pc = "working"
      /\ cmd = "text" => pc = "working" /\ todo # <<>> /\ Head(todo).op = "append"
    BY DEF Planning
<1>5. job' \in JobRec'
  <2>1. <<>> \in Seq(SafeParts') /\ <<>> \in Seq(OwnIds')
      OBVIOUS
  <2> QED BY <1>3, <1>4, <2>1 DEF JobRec
<1>6. job'.pc = pc /\ job'.cmd = cmd /\ job'.script = script /\ job'.todo = todo /\ job'.done = <<>> /\ job'.ids = <<>>
    BY <1>3
<1>7. PageTyped'
  <2>1. /\ read' \in Seq(Block) /\ \A i, j \in DOMAIN read' : read'[i].id = read'[j].id => i = j
        /\ \A i \in DOMAIN read' : read'[i].id \in 1 .. ids'
      BY <1>1, ReadStays
  <2>2. Sheet(page', trash', ids') /\ tries' \in [{"net", "server", "busy"} -> 0 .. MAX_RETRIES]
      BY <1>1 DEF PageTyped
  <2> QED BY <1>4, <1>5, <1>6, <2>1, <2>2 DEF PageTyped
<1>8. Staged'
    BY <1>1, <1>2, <1>4, <1>6 DEF Staged
<1>9. Harmless' /\ Written'
    BY <1>1, <1>2, <1>4, <1>6 DEF Harmless, Written
<1> QED BY <1>7, <1>8, <1>9 DEF PageInv

LEMMA ThinkingFacts ==
    ASSUME PageInv, job.pc = "thinking"
    PROVE  /\ PageTyped /\ job.todo = <<>> /\ job.script = <<>> /\ Meant = {} /\ job.cmd \in {"rewrite", "append"}
           /\ job = [pc |-> job.pc, cmd |-> job.cmd, script |-> job.script, todo |-> job.todo, done |-> job.done, ids |-> job.ids]
<1>1. PageTyped /\ Staged
    BY DEF PageInv
<1>2. job.todo = <<>> /\ job.script = <<>> /\ job.cmd \in {"rewrite", "append"}
    BY <1>1 DEF Staged
<1> QED BY <1>1, <1>2, JobFacts DEF Meant

LEMMA NewTextFacts ==
    ASSUME NEW n \in Nat \ {0}, NEW kind \in Kinds
    PROVE  NewText(n, kind) \in Seq(Line) /\ NewText(n, kind) # <<>>
<1> DEFINE s == [j \in 1 .. n |-> [kind |-> kind, text |-> <<"new", 1, j>>]]
<1>1. \A j \in 1 .. n : [kind |-> kind, text |-> <<"new", 1, j>>] \in Line
  <2>1. \A j \in 1 .. n : <<"new", 1, j>> \in Text
    <3>1. 1 \in Nat /\ \A j \in 1 .. n : j \in Nat
        OBVIOUS
    <3> QED BY <3>1, TextFacts
  <2> QED BY <2>1 DEF Line
<1>2. s \in [1 .. n -> Line]
    BY <1>1
<1> HIDE DEF s
<1>3. s \in Seq(Line) /\ Len(s) = n
    BY <1>2, MadeSeq
<1>4. s # <<>>
    BY <1>3, HeadFacts
<1> QED BY <1>3, <1>4 DEF NewText, s

LEMMA AppendFilled ==
    ASSUME NEW op, NEW id, NEW part, NEW kind, NEW none, NEW nobody, NEW got, NEW blocks, NEW known
    PROVE  [[op |-> op, id |-> id, part |-> part, kind |-> kind, blocks |-> none, known |-> nobody, got |-> got]
                EXCEPT !.blocks = blocks, !.known = known]
             = [op |-> op, id |-> id, part |-> part, kind |-> kind, blocks |-> blocks, known |-> known, got |-> got]
<1> DEFINE x == [op |-> op, id |-> id, part |-> part, kind |-> kind, blocks |-> none, known |-> nobody, got |-> got]
           y == [op |-> op, id |-> id, part |-> part, kind |-> kind, blocks |-> blocks, known |-> nobody, got |-> got]
<1>1. [x EXCEPT !.blocks = blocks, !.known = known] = [[x EXCEPT !.blocks = blocks] EXCEPT !.known = known]
    OBVIOUS
<1>2. [x EXCEPT !.blocks = blocks] = y
    OBVIOUS
<1>3. [y EXCEPT !.known = known]
        = [op |-> op, id |-> id, part |-> part, kind |-> kind, blocks |-> blocks, known |-> known, got |-> got]
    OBVIOUS
<1> QED BY <1>1, <1>2, <1>3

LEMMA AppendIsWork ==
    ASSUME NEW after \in Nat, NEW blocks \in Seq(Line), blocks # <<>>, NEW known \in SUBSET Nat,
           after = Nowhere \/ (known = IdsOf(Seen') /\ known # {})
    PROVE  /\ Append_(after, blocks, known) \in WorkRequests' /\ Append_(after, blocks, known) \in SafeRequests'
           /\ Append_(after, blocks, known).op = "append"
<1> DEFINE r == Append_(after, blocks, known)
<1>1. r = [op |-> "append", id |-> after, part |-> 0, kind |-> "para", blocks |-> blocks, known |-> known, got |-> <<>>]
  <2>1. r = [[op |-> "append", id |-> after, part |-> 0, kind |-> "para", blocks |-> <<>>, known |-> {}, got |-> <<>>]
                EXCEPT !.blocks = blocks, !.known = known]
      BY Zenon DEF Append_, Request
  <2> HIDE DEF r
  <2> QED BY <2>1, AppendFilled, Zenon
<1> HIDE DEF r
<1>2. r \in RequestRec
    BY <1>1 DEF RequestRec, Kinds
<1>a. r.op = "append" /\ r.id = after /\ r.part = 0 /\ r.blocks = blocks /\ r.known = known /\ r.got = <<>>
    BY <1>1
<1>b. <<>> \in Seq(OwnIds')
    OBVIOUS
<1>3. r \in SafeRequests'
    BY <1>a, <1>b, <1>2 DEF SafeRequests
<1>4. r \in WorkRequests'
    BY <1>a, <1>3 DEF WorkRequests
<1> QED BY <1>a, <1>3, <1>4 DEF r

LEMMA OneAppend ==
    ASSUME NEW after \in Nat, NEW blocks \in Seq(Line), blocks # <<>>, NEW known \in SUBSET Nat,
           after = Nowhere \/ (known = IdsOf(Seen') /\ known # {})
    PROVE  <<Append_(after, blocks, known)>> \in Seq(WorkRequests') /\ <<Append_(after, blocks, known)>> \in Seq(SafeRequests')
<1>1. Append_(after, blocks, known) \in WorkRequests' /\ Append_(after, blocks, known) \in SafeRequests'
    BY AppendIsWork
<1> QED BY <1>1

LEMMA ReadKeeps ==
    ASSUME PageInv, Read
    PROVE  PageInv'
<1>1. PICK cmd \in {"rewrite", "append"} : job' = [job EXCEPT !.pc = "thinking", !.cmd = cmd]
    BY DEF Read
<1>2. job.pc = "idle" /\ read' = page /\ UNCHANGED <<onNotion, tries>>
    BY DEF Read
<1>3. /\ job.todo = <<>> /\ job.script = <<>>
      /\ job = [pc |-> job.pc, cmd |-> job.cmd, script |-> job.script, todo |-> job.todo, done |-> job.done, ids |-> job.ids]
    BY <1>2, JobFacts DEF PageInv, Staged
<1>4. job' = [job EXCEPT !.pc = "thinking", !.cmd = cmd, !.script = <<>>, !.todo = <<>>]
    BY <1>1, <1>3
<1>5. Planning("thinking", cmd, <<>>, <<>>)
    BY <1>4 DEF Planning
<1> QED BY <1>2, <1>5, PlannedKeeps

LEMMA AppendsKeep ==
    ASSUME PageInv, AppendUnread \/ AppendRead
    PROVE  PageInv'
<1>1. /\ UNCHANGED <<onNotion, tries>> /\ job.pc \in {"idle", "thinking"} /\ (read' = read \/ read' = page)
    BY DEF AppendUnread, AppendRead
<1>2. /\ job.script = <<>> /\ PageTyped
      /\ job = [pc |-> job.pc, cmd |-> job.cmd, script |-> job.script, todo |-> job.todo, done |-> job.done, ids |-> job.ids]
  <2>1. PageTyped /\ Staged
      BY DEF PageInv
  <2>2. job.script = <<>>
      BY <1>1, <2>1 DEF Staged
  <2> QED BY <2>1, <2>2, JobFacts
<1>3. "para" \in Kinds /\ "item" \in Kinds /\ Nowhere = 0 /\ Nowhere \in Nat
    BY DEF Kinds, Nowhere
<1>4. MaxLines \in Nat
    BY PageBounds
<1>5. \A n \in 1 .. MaxLines : AtTheEnd(n) \in Seq(WorkRequests') /\ AtTheEnd(n) \in Seq(SafeRequests')
  <2> SUFFICES ASSUME NEW n \in 1 .. MaxLines
               PROVE  AtTheEnd(n) \in Seq(WorkRequests') /\ AtTheEnd(n) \in Seq(SafeRequests')
      OBVIOUS
  <2>1. NewText(n, "para") \in Seq(Line) /\ NewText(n, "para") # <<>>
      BY <1>3, <1>4, NewTextFacts
  <2>2. {} \in SUBSET Nat
      OBVIOUS
  <2> QED BY <1>3, <2>1, <2>2, OneAppend DEF AtTheEnd
<1>6. \E todo : /\ todo \in Seq(WorkRequests') /\ todo \in Seq(SafeRequests')
                /\ job' = [job EXCEPT !.pc = "working", !.cmd = "append", !.todo = todo]
  <2>1. CASE AppendUnread
      BY <1>5, <2>1 DEF AppendUnread
  <2>2. CASE AppendRead
    <3>1. PICK n \in 1 .. MaxLines :
              \E todo \in IF n > MAX_MATCHED_LINES \/ ListTails = {} THEN {AtTheEnd(n)}
                          ELSE {JoinList(n, tail) : tail \in ListTails} :
                  job' = [job EXCEPT !.pc = "working", !.todo = todo]
        BY <2>2 DEF AppendRead
    <3>2. PICK todo : /\ todo = AtTheEnd(n) \/ \E tail \in ListTails : todo = JoinList(n, tail)
                      /\ job' = [job EXCEPT !.pc = "working", !.todo = todo]
        BY <3>1
    <3>3. job.cmd = "append"
        BY <2>2 DEF AppendRead
    <3>4. job' = [job EXCEPT !.pc = "working", !.cmd = "append", !.todo = todo]
        BY <1>2, <3>2, <3>3
    <3>5. Seen' = Seen
      <4>1. read' = read
          BY <2>2 DEF AppendRead
      <4>2. job'.cmd = "append"
          BY <1>2, <3>4
      <4> QED BY <3>3, <4>1, <4>2, SeenStays
    <3>6. ASSUME NEW tail \in ListTails PROVE JoinList(n, tail) \in Seq(WorkRequests') /\ JoinList(n, tail) \in Seq(SafeRequests')
      <4>1. tail \in DOMAIN Seen
          BY DEF ListTails
      <4>2. Seen[tail].id \in Nat /\ IdsOf(Seen) \in SUBSET Nat /\ IdsOf(Seen) # {}
          BY <1>2, <4>1, SeenFacts DEF IdsOf
      <4>3. NewText(n, "item") \in Seq(Line) /\ NewText(n, "item") # <<>>
          BY <1>3, <1>4, NewTextFacts
      <4>4. IdsOf(Seen) = IdsOf(Seen')
          BY <3>5
      <4> QED BY <4>2, <4>3, <4>4, OneAppend DEF JoinList
    <3> QED BY <1>5, <3>2, <3>4, <3>6
  <2> QED BY <2>1, <2>2
<1>7. PICK todo : /\ todo \in Seq(WorkRequests') /\ todo \in Seq(SafeRequests')
                  /\ job' = [job EXCEPT !.pc = "working", !.cmd = "append", !.todo = todo]
    BY <1>6
<1>8. job' = [job EXCEPT !.pc = "working", !.cmd = "append", !.script = <<>>, !.todo = todo]
    BY <1>2, <1>7
<1>9. Planning("working", "append", <<>>, todo)
    BY <1>7, <1>8 DEF Planning
<1> QED BY <1>1, <1>9, PlannedKeeps

LEMMA RefusedKeeps ==
    ASSUME PageInv, Refused
    PROVE  PageInv'
<1>1. job.pc = "thinking" /\ job.cmd = "rewrite" /\ UNCHANGED <<onNotion, tries>> /\ read' = read /\ job' = [job EXCEPT !.pc = "failed"]
    BY DEF Refused
<1>2. /\ job.todo = <<>> /\ job.script = <<>>
      /\ job = [pc |-> job.pc, cmd |-> job.cmd, script |-> job.script, todo |-> job.todo, done |-> job.done, ids |-> job.ids]
    BY <1>1, ThinkingFacts
<1>3. job' = [job EXCEPT !.pc = "failed", !.cmd = "rewrite", !.script = <<>>, !.todo = <<>>]
    BY <1>1, <1>2
<1>4. Planning("failed", "rewrite", <<>>, <<>>)
    BY <1>3 DEF Planning
<1> QED BY <1>1, <1>4, PlannedKeeps

LEMMA EachIn ==
    ASSUME NEW S, NEW s \in Seq(S), NEW T, \A i \in DOMAIN s : s[i] \in T
    PROVE  s \in Seq(T)
<1>1. Len(s) \in Nat /\ s \in [1 .. Len(s) -> S] /\ DOMAIN s = 1 .. Len(s)
    BY LenProperties
<1>2. s \in [1 .. Len(s) -> T]
    BY <1>1
<1> QED BY <1>1, <1>2, MadeSeq

LEMMA DeleteIsWork ==
    ASSUME NEW id \in Nat, NEW part \in Nat, id \in OwnIds' \/ id \in Meant'
    PROVE  Delete(id, part) \in WorkRequests' /\ Delete(id, part) \in SafeRequests'
<1> DEFINE r == Delete(id, part)
<1>1. r = [op |-> "delete", id |-> id, part |-> part, kind |-> "para", blocks |-> <<>>, known |-> {}, got |-> <<>>]
    BY DEF Delete, Request
<1> HIDE DEF r
<1>2. r \in RequestRec
    BY <1>1 DEF RequestRec, Kinds
<1>3. r.op = "delete" /\ r.id = id
    BY <1>1
<1>4. r \in SafeRequests'
    BY <1>2, <1>3 DEF SafeRequests
<1>5. r \in WorkRequests'
    BY <1>3, <1>4 DEF WorkRequests
<1> QED BY <1>4, <1>5 DEF r

LEMMA ReplaceableFacts ==
    ASSUME PageTyped
    PROVE  /\ Replaceable \in Seq(Block) /\ Replaceable \in Seq({line \in ToSet(Seen) : Editable(line)})
           /\ Len(Replaceable) \in Nat /\ DOMAIN Replaceable = 1 .. Len(Replaceable)
           /\ IdsOf(Replaceable) \subseteq Nat
<1> DEFINE those == {line \in ToSet(Seen) : Editable(line)}
<1>1. Replaceable \in Seq(Block \cap those)
    BY SeenFacts, ChosenFacts DEF Replaceable
<1>2. Replaceable \in Seq(Block) /\ Replaceable \in Seq(those)
    BY <1>1, SeqMonotonic
<1>3. IdsOf(Replaceable) \subseteq Nat
  <2>1. \A i \in DOMAIN Replaceable : Replaceable[i] \in Block
      BY <1>2, EntryFacts
  <2> QED BY <2>1 DEF IdsOf, Block
<1> QED BY <1>2, <1>3, EntryFacts

LEMMA BeforeFacts ==
    ASSUME PageTyped, Replaceable # <<>>
    PROVE  Before \in Nat /\ IdsOf(Seen) # {} /\ IdsOf(Seen) \in SUBSET Nat
<1> DEFINE T == {i \in DOMAIN Seen : Editable(Seen[i])}
<1>1. \E i \in DOMAIN Seen : Editable(Seen[i])
  <2>1. 1 \in 1 .. Len(Replaceable)
      BY ReplaceableFacts, HeadFacts
  <2>2. Replaceable[1] \in {line \in ToSet(Seen) : Editable(line)}
      BY <2>1, ReplaceableFacts, ElementOfSeq
  <2> QED BY <2>2 DEF ToSet
<1>2. DOMAIN Seen = 1 .. Len(Seen) /\ Len(Seen) \in Nat /\ \A i \in DOMAIN Seen : Seen[i].id \in Nat /\ i \in Nat
  <2>1. ids \in Nat
      BY DEF PageTyped, Sheet
  <2> QED BY <2>1, SeenFacts
<1>3. T \in SUBSET Nat /\ T # {}
    BY <1>1, <1>2
<1>4. PICK k \in T : \A j \in T : k <= j
  <2> HIDE DEF T
  <2> QED BY <1>3, Least
<1>5. k \in DOMAIN Seen /\ Editable(Seen[k]) /\ \A j \in 1 .. k - 1 : ~Editable(Seen[j])
  <2>1. k \in 1 .. Len(Seen)
      BY <1>2
  <2>2. ASSUME NEW j \in 1 .. k - 1, Editable(Seen[j]) PROVE FALSE
    <3>1. j \in DOMAIN Seen /\ ~(k <= j)
        BY <1>2, <2>1
    <3> QED BY <1>4, <2>2, <3>1
  <2> QED BY <2>2
<1> DEFINE first == CHOOSE i \in DOMAIN Seen : Editable(Seen[i]) /\ \A j \in 1 .. i - 1 : ~Editable(Seen[j])
<1>6. first \in DOMAIN Seen
    BY <1>5
<1>7. Before = IF first = 1 THEN Nowhere ELSE Seen[first - 1].id
    BY DEF Before
<1> HIDE DEF first
<1>8. first # 1 => first - 1 \in DOMAIN Seen
    BY <1>2, <1>6
<1>9. IdsOf(Seen) # {} /\ IdsOf(Seen) \in SUBSET Nat
    BY <1>2, <1>6 DEF IdsOf
<1> QED BY <1>2, <1>7, <1>8, <1>9 DEF Nowhere

LEMMA PlanTextKeeps ==
    ASSUME PageInv, PlanText
    PROVE  PageInv'
<1>1. PICK n \in 1 .. MaxLines : job' = [job EXCEPT !.pc = "working", !.cmd = "text", !.todo = ReplaceText(n)]
    BY DEF PlanText
<1>2. job.pc = "thinking" /\ job.cmd = "rewrite" /\ read' = read /\ UNCHANGED <<onNotion, tries>> /\ Replaceable # <<>>
    BY DEF PlanText
<1>3. /\ PageTyped /\ job.script = <<>>
      /\ job = [pc |-> job.pc, cmd |-> job.cmd, script |-> job.script, todo |-> job.todo, done |-> job.done, ids |-> job.ids]
    BY <1>2, ThinkingFacts
<1> DEFINE todo == ReplaceText(n)
           first == Append_(Before, NewText(n, "para"), IdsOf(Seen))
<1>4. job' = [job EXCEPT !.pc = "working", !.cmd = "text", !.script = <<>>, !.todo = todo]
  <2> HIDE DEF todo
  <2>1. job' = [job EXCEPT !.pc = "working", !.cmd = "text", !.todo = todo]
      BY <1>1 DEF todo
  <2> QED BY <1>3, <2>1
<1>5. job'.cmd = "text"
  <2> HIDE DEF todo
  <2> QED BY <1>3, <1>4
<1>6. Seen' = Seen
    BY <1>2, <1>5, SeenStays
<1>7. Meant' = IdsOf(Replaceable)
  <2>1. Replaceable' = Replaceable
      BY <1>6 DEF Replaceable
  <2> HIDE DEF todo
  <2> QED BY <1>5, <2>1 DEF Meant, IdsOf
<1>8. first \in WorkRequests' /\ first.op = "append"
  <2>1. n \in Nat \ {0} /\ "para" \in Kinds
      BY PageBounds DEF Kinds
  <2>2. NewText(n, "para") \in Seq(Line) /\ NewText(n, "para") # <<>>
      BY <2>1, NewTextFacts
  <2>3. Before \in Nat /\ IdsOf(Seen) # {} /\ IdsOf(Seen) \in SUBSET Nat
      BY <1>2, <1>3, BeforeFacts
  <2>4. IdsOf(Seen) = IdsOf(Seen')
      BY <1>6
  <2> QED BY <2>2, <2>3, <2>4, AppendIsWork
<1>9. Archive \in Seq(WorkRequests')
  <2>1. \A i \in 1 .. Len(Replaceable) : Delete(Replaceable[i].id, i) \in WorkRequests'
    <3> SUFFICES ASSUME NEW i \in 1 .. Len(Replaceable) PROVE Delete(Replaceable[i].id, i) \in WorkRequests'
        OBVIOUS
    <3>1. Replaceable[i].id \in IdsOf(Replaceable) /\ i \in Nat
        BY <1>3, ReplaceableFacts DEF IdsOf
    <3>2. Replaceable[i].id \in Nat /\ Replaceable[i].id \in Meant'
        BY <1>3, <1>7, <3>1, ReplaceableFacts
    <3> QED BY <3>1, <3>2, DeleteIsWork
  <2>2. Archive \in [1 .. Len(Replaceable) -> WorkRequests']
      BY <1>3, <2>1, ReplaceableFacts DEF Archive
  <2> QED BY <1>3, <2>2, ReplaceableFacts, MadeSeq
<1> HIDE DEF first
<1>10. todo \in Seq(WorkRequests') /\ todo # <<>> /\ Head(todo) = first
  <2>1. todo = <<first>> \o Archive
      BY DEF ReplaceText, first
  <2> DEFINE s == <<first>>
  <2>2. s \in Seq(WorkRequests') /\ Len(s) = 1 /\ s[1] = first
      BY <1>8
  <2> HIDE DEF s
  <2>3. /\ s \o Archive \in Seq(WorkRequests') /\ Len(s \o Archive) = Len(s) + Len(Archive) /\ Len(Archive) \in Nat
        /\ \A i \in 1 .. Len(s) + Len(Archive) : (s \o Archive)[i] = IF i <= Len(s) THEN s[i] ELSE Archive[i - Len(s)]
      BY <1>9, <2>2, ConcatProperties, LenProperties
  <2>4. 1 \in 1 .. Len(s) + Len(Archive) /\ 1 <= Len(s)
      BY <2>2, <2>3
  <2>5. (s \o Archive)[1] = first /\ Len(s \o Archive) # 0
      BY <2>2, <2>3, <2>4
  <2>6. s \o Archive # <<>> /\ Head(s \o Archive) = first
      BY <2>3, <2>5, HeadFacts
  <2> HIDE DEF todo
  <2> QED BY <2>1, <2>3, <2>6 DEF s
<1>11. todo \in Seq(SafeRequests')
  <2>1. WorkRequests' \subseteq SafeRequests'
      BY DEF WorkRequests
  <2> HIDE DEF todo
  <2> QED BY <1>10, <2>1, SeqMonotonic
<1> HIDE DEF todo
<1>12. Planning("working", "text", <<>>, todo)
  <2>1. <<>> \in Seq(SafeEdits')
      OBVIOUS
  <2> QED BY <1>4, <1>8, <1>10, <1>11, <2>1 DEF Planning
<1> QED BY <1>2, <1>12, PlannedKeeps

LEMMA EndsKeep ==
    ASSUME PageInv, Finish \/ Undone
    PROVE  PageInv'
<1>1. PageTyped /\ Staged /\ Harmless /\ Written /\ Sheet(page, trash, ids) /\ ids \in Nat
    BY DEF PageInv, PageTyped, Sheet
<1>2. /\ page' = page /\ trash' = trash /\ ids' = ids /\ binned' = binned /\ tries' = tries /\ read' = read
      /\ job.todo = <<>> /\ job.pc \in {"working", "undoing"}
    BY DEF Finish, Undone, onNotion
<1>3. PICK pc \in {"done", "failed", "undone"} :
          /\ job' = [job EXCEPT !.pc = pc]
          /\ pc = "undone" \/ job.pc = "working"
  <2>1. CASE Finish
      BY <2>1 DEF Finish
  <2>2. CASE Undone
      BY <2>2 DEF Undone
  <2> QED BY <2>1, <2>2
<1>4. /\ job' = [pc |-> pc, cmd |-> job.cmd, script |-> job.script, todo |-> job.todo, done |-> job.done, ids |-> job.ids]
  <2>1. job = [pc |-> job.pc, cmd |-> job.cmd, script |-> job.script, todo |-> job.todo, done |-> job.done, ids |-> job.ids]
      BY <1>1, JobFacts
  <2> QED BY <1>3, <2>1
<1>5. job'.cmd = job.cmd /\ job'.script = job.script
    BY <1>4
<1>6. WiderSets /\ Seen' = Seen /\ Meant' = Meant
    BY <1>1, <1>2, <1>5, WhatItMeantStays
<1>7. /\ job' \in JobRec' /\ job'.cmd = job.cmd /\ job'.script = job.script
      /\ job'.pc = pc /\ job'.todo = job.todo /\ job'.done = job.done /\ job'.ids = job.ids
  <2>1. job.todo \in Seq(SafeRequests') /\ job.done \in Seq(SafeParts') /\ job.ids \in Seq(OwnIds')
      BY <1>1, <1>6, JobFacts DEF WiderSets
  <2> QED BY <1>1, <1>4, <1>6, <2>1, JobMade
<1>8. PageTyped'
    BY <1>1, <1>2, <1>7, ReadStays DEF PageTyped
<1>9. Staged'
    BY <1>1, <1>2, <1>7 DEF Staged
<1>10. Harmless'
    BY <1>1, <1>2, <1>6 DEF Harmless, WiderSets
<1>11. Written'
    BY <1>1, <1>2, <1>7 DEF Written
<1> QED BY <1>8, <1>9, <1>10, <1>11 DEF PageInv

LEMMA UpdateFilled ==
    ASSUME NEW op, NEW id, NEW part, NEW any, NEW none, NEW known, NEW got, NEW kind, NEW blocks
    PROVE  [[op |-> op, id |-> id, part |-> part, kind |-> any, blocks |-> none, known |-> known, got |-> got]
                EXCEPT !.kind = kind, !.blocks = blocks]
             = [op |-> op, id |-> id, part |-> part, kind |-> kind, blocks |-> blocks, known |-> known, got |-> got]
<1> DEFINE x == [op |-> op, id |-> id, part |-> part, kind |-> any, blocks |-> none, known |-> known, got |-> got]
           y == [op |-> op, id |-> id, part |-> part, kind |-> kind, blocks |-> none, known |-> known, got |-> got]
<1>1. [x EXCEPT !.kind = kind, !.blocks = blocks] = [[x EXCEPT !.kind = kind] EXCEPT !.blocks = blocks]
    OBVIOUS
<1>2. [x EXCEPT !.kind = kind] = y
    OBVIOUS
<1>3. [y EXCEPT !.blocks = blocks]
        = [op |-> op, id |-> id, part |-> part, kind |-> kind, blocks |-> blocks, known |-> known, got |-> got]
    OBVIOUS
<1> QED BY <1>1, <1>2, <1>3

RequestIs(r, op, id, part, kind, blocks, known, got) ==
    r = [op |-> op, id |-> id, part |-> part, kind |-> kind, blocks |-> blocks, known |-> known, got |-> got]
LEMMA PartFilled ==
    ASSUME NEW op, NEW id, NEW whole, NEW kind, NEW blocks, NEW known, NEW got, NEW part,
           NEW r, RequestIs(r, op, id, whole, kind, blocks, known, got)
    PROVE  RequestIs([r EXCEPT !.part = part], op, id, part, kind, blocks, known, got)
BY DEF RequestIs

LEMMA UpdateFacts ==
    ASSUME NEW id \in Nat, NEW kind \in Kinds, NEW text \in Text
    PROVE  /\ Update(id, kind, text) \in SafeRequests'
           /\ id \in IdsOf(Seen') => Update(id, kind, text) \in WorkRequests'
           /\ \A i \in Nat : [Update(id, kind, text) EXCEPT !.part = i] \in SafeRequests'
<1> DEFINE r == Update(id, kind, text)
           blocks == <<[kind |-> kind, text |-> text]>>
<1>1. r = [op |-> "update", id |-> id, part |-> 0, kind |-> kind, blocks |-> blocks, known |-> {}, got |-> <<>>]
  <2>1. r = [[op |-> "update", id |-> id, part |-> 0, kind |-> "para", blocks |-> <<>>, known |-> {}, got |-> <<>>]
                EXCEPT !.kind = kind, !.blocks = blocks]
      BY Zenon DEF Update, Request
  <2> HIDE DEF r, blocks
  <2> QED BY <2>1, UpdateFilled, Zenon
<1>2. blocks \in Seq(Line) /\ blocks # <<>>
  <2> DEFINE line == [kind |-> kind, text |-> text]
  <2>1. line \in Line
      BY DEF Line
  <2> HIDE DEF line
  <2>2. <<line>> \in Seq(Line) /\ <<line>> # <<>>
      BY <2>1
  <2> QED BY <2>2 DEF line
<1> HIDE DEF r, blocks
<1>3. \A part \in Nat : [op |-> "update", id |-> id, part |-> part, kind |-> kind, blocks |-> blocks, known |-> {}, got |-> <<>>] \in SafeRequests'
  <2> SUFFICES ASSUME NEW part \in Nat
               PROVE  [op |-> "update", id |-> id, part |-> part, kind |-> kind, blocks |-> blocks, known |-> {}, got |-> <<>>] \in SafeRequests'
      OBVIOUS
  <2> DEFINE q == [op |-> "update", id |-> id, part |-> part, kind |-> kind, blocks |-> blocks, known |-> {}, got |-> <<>>]
  <2>1. q \in RequestRec
      BY <1>2 DEF RequestRec
  <2>2. q.op = "update" /\ q.blocks = blocks
      OBVIOUS
  <2> HIDE DEF q
  <2>3. q \in SafeRequests'
      BY <1>2, <2>1, <2>2 DEF SafeRequests
  <2> QED BY <2>3 DEF q
<1>4. r \in SafeRequests'
    BY <1>1, <1>3
<1>5. r.op = "update" /\ r.id = id
    BY <1>1
<1>6. id \in IdsOf(Seen') => r \in WorkRequests'
    BY <1>4, <1>5 DEF WorkRequests
<1>7. ASSUME NEW i \in Nat
      PROVE  [r EXCEPT !.part = i] = [op |-> "update", id |-> id, part |-> i, kind |-> kind, blocks |-> blocks, known |-> {}, got |-> <<>>]
  <2>1. RequestIs(r, "update", id, 0, kind, blocks, {}, <<>>)
      BY <1>1 DEF RequestIs
  <2>2. RequestIs([r EXCEPT !.part = i], "update", id, i, kind, blocks, {}, <<>>)
      BY <2>1, PartFilled
  <2> QED BY <2>2 DEF RequestIs
<1> QED BY <1>3, <1>4, <1>6, <1>7 DEF r

LEMMA RestoreIsSafe ==
    ASSUME NEW id \in Nat, NEW part \in Nat
    PROVE  Restore(id, part) \in SafeRequests'
<1> DEFINE r == Restore(id, part)
<1>1. r = [op |-> "restore", id |-> id, part |-> part, kind |-> "para", blocks |-> <<>>, known |-> {}, got |-> <<>>]
    BY DEF Restore, Request
<1> HIDE DEF r
<1>2. r \in RequestRec
    BY <1>1 DEF RequestRec, Kinds
<1>3. r.op = "restore"
    BY <1>1
<1> QED BY <1>2, <1>3 DEF SafeRequests, r

LEMMA UneditFacts ==
    ASSUME NEW part \in SafeParts', NEW i \in Nat
    PROVE  Unedit(part, i) \in Seq(SafeRequests')
<1>1. /\ part.ids \in Seq(Nat) /\ part.kind \in {"added", "replaced", "deleted"}
      /\ part.kind = "added" => part.ids \in Seq(OwnIds') /\ OwnIds' \subseteq Nat
      /\ part.kind = "replaced" => part.old \in Text
    BY DEF SafeParts, PartRec, OwnIds
<1>2. Len(part.ids) \in Nat /\ DOMAIN part.ids = 1 .. Len(part.ids) /\ \A j \in DOMAIN part.ids : part.ids[j] \in Nat
    BY <1>1, EntryFacts
<1> DEFINE one(j) == CASE part.kind = "replaced" -> [Update(part.ids[j], "para", part.old) EXCEPT !.part = i]
                       [] part.kind = "added"    -> Delete(part.ids[j], i)
                       [] part.kind = "deleted"  -> Restore(part.ids[j], i)
<1>3. ASSUME NEW j \in 1 .. Len(part.ids) PROVE one(j) \in SafeRequests'
  <2>1. part.ids[j] \in Nat
      BY <1>2
  <2>2. CASE part.kind = "replaced"
    <3>1. [Update(part.ids[j], "para", part.old) EXCEPT !.part = i] \in SafeRequests'
      <4>1. "para" \in Kinds
          BY DEF Kinds
      <4> QED BY <1>1, <2>1, <2>2, <4>1, UpdateFacts
    <3>2. one(j) = [Update(part.ids[j], "para", part.old) EXCEPT !.part = i]
        BY <2>2
    <3> QED BY <3>1, <3>2
  <2>3. CASE part.kind = "added"
    <3>1. part.ids[j] \in OwnIds'
        BY <1>1, <1>2, <2>3, EntryFacts
    <3>2. Delete(part.ids[j], i) \in SafeRequests'
        BY <2>1, <3>1, DeleteIsWork
    <3>3. one(j) = Delete(part.ids[j], i)
        BY <2>3
    <3> QED BY <3>2, <3>3
  <2>4. CASE part.kind = "deleted"
    <3>1. Restore(part.ids[j], i) \in SafeRequests'
        BY <2>1, RestoreIsSafe
    <3>2. one(j) = Restore(part.ids[j], i)
        BY <2>4
    <3> QED BY <3>1, <3>2
  <2> QED BY <1>1, <2>2, <2>3, <2>4
<1>4. Unedit(part, i) = [j \in 1 .. Len(part.ids) |-> one(j)]
    BY <1>2 DEF Unedit
<1> HIDE DEF one
<1>5. Unedit(part, i) \in [1 .. Len(part.ids) -> SafeRequests']
    BY <1>3, <1>4
<1> QED BY <1>2, <1>5, MadeSeq

LEMMA RemovalsFacts ==
    ASSUME PageTyped, WiderSets
    PROVE  Removals \in Seq(SafeRequests')
<1>1. job.ids \in Seq(OwnIds') /\ OwnIds' \subseteq Nat
    BY JobFacts DEF WiderSets, OwnIds
<1>2. Len(job.ids) \in Nat /\ DOMAIN job.ids = 1 .. Len(job.ids) /\ \A i \in DOMAIN job.ids : job.ids[i] \in OwnIds'
    BY <1>1, EntryFacts
<1>3. \A i \in 1 .. Len(job.ids) : Delete(job.ids[i], i) \in SafeRequests'
  <2> SUFFICES ASSUME NEW i \in 1 .. Len(job.ids) PROVE Delete(job.ids[i], i) \in SafeRequests'
      OBVIOUS
  <2>a. i \in DOMAIN job.ids /\ i \in Nat
      BY <1>2
  <2>b. job.ids[i] \in OwnIds'
      BY <1>2, <2>a
  <2>1. job.ids[i] \in OwnIds' /\ job.ids[i] \in Nat /\ i \in Nat
      BY <1>1, <2>a, <2>b
  <2> QED BY <2>1, DeleteIsWork
<1>4. Removals \in [1 .. Len(job.ids) -> SafeRequests']
    BY <1>2, <1>3 DEF Removals
<1> QED BY <1>2, <1>4, MadeSeq

LEMMA RereadFacts ==
    ASSUME NEW line \in Block
    PROVE  Reread(line) \in Seq(Line)
<1> DEFINE which == line.text[2]
           count == line.text[3]
           piece(k) == [kind |-> IF k = 1 THEN line.kind ELSE "para",
                        text |-> IF count = 1 THEN line.text ELSE <<"part", which, k>>]
<1>1. line.kind \in Kinds /\ "para" \in Kinds /\ line.text \in Text /\ which \in Nat /\ count \in Nat
    BY TextFacts DEF Block, Kinds
<1>2. Reread(line) = [k \in 1 .. count |-> piece(k)]
    BY DEF Reread
<1> HIDE DEF which, count
<1>3. \A k \in 1 .. count : piece(k) \in Line
  <2>1. \A k \in 1 .. count : k \in Nat
      BY <1>1
  <2>2. \A k \in Nat : <<"part", which, k>> \in Text
      BY <1>1, TextFacts
  <2> QED BY <1>1, <2>1, <2>2 DEF Line
<1> HIDE DEF piece
<1>4. Reread(line) \in [1 .. count -> Line]
    BY <1>2, <1>3
<1> QED BY <1>1, <1>4, MadeSeq

LEMMA OldTextAgain ==
    ASSUME PageTyped
    PROVE  PutBack \in Seq(SafeRequests')
<1> DEFINE blocks == OldMarkdown
           r == Append_(Nowhere, blocks, {})
<1>1. blocks \in Seq(Line)
  <2> DEFINE each == [i \in DOMAIN Replaceable |-> Reread(Replaceable[i])]
  <2>1. \A i \in 1 .. Len(Replaceable) : Reread(Replaceable[i]) \in Seq(Line)
    <3>1. \A i \in 1 .. Len(Replaceable) : Replaceable[i] \in Block
        BY ReplaceableFacts, EntryFacts
    <3> QED BY <3>1, RereadFacts
  <2>2. each \in [1 .. Len(Replaceable) -> Seq(Line)]
      BY <2>1, ReplaceableFacts
  <2> HIDE DEF each
  <2>3. each \in Seq(Seq(Line))
      BY <2>2, ReplaceableFacts, MadeSeq
  <2>4. FlattenSeq(each) \in Seq(Line)
      BY <2>3, FlattenFacts
  <2> QED BY <2>4 DEF OldMarkdown, each
<1> HIDE DEF blocks
<1>2. r = [op |-> "append", id |-> Nowhere, part |-> 0, kind |-> "para", blocks |-> blocks, known |-> {}, got |-> <<>>]
  <2>1. r = [[op |-> "append", id |-> Nowhere, part |-> 0, kind |-> "para", blocks |-> <<>>, known |-> {}, got |-> <<>>]
                EXCEPT !.blocks = blocks, !.known = {}]
      BY Zenon DEF Append_, Request
  <2> HIDE DEF r
  <2> QED BY <2>1, AppendFilled, Zenon
<1> HIDE DEF r
<1>3. r \in RequestRec
    BY <1>1, <1>2 DEF RequestRec, Kinds, Nowhere
<1>4. r.op = "append" /\ r.part = 0 /\ r.got = <<>> /\ <<>> \in Seq(OwnIds')
    BY <1>2
<1>5. r \in SafeRequests'
    BY <1>3, <1>4 DEF SafeRequests
<1>6. <<r>> \in Seq(SafeRequests')
    BY <1>5
<1>7. PutBack = <<>> \/ PutBack = <<r>>
  <2>1. PutBack = IF blocks = <<>> THEN <<>> ELSE <<r>>
      BY Zenon DEF PutBack, r, blocks
  <2> QED BY <2>1
<1>8. <<>> \in Seq(SafeRequests')
    OBVIOUS
<1>9. CASE PutBack = <<>>
    BY <1>8, <1>9
<1>10. CASE PutBack = <<r>>
    BY <1>6, <1>10
<1> QED BY <1>7, <1>9, <1>10

LEMMA UndoKeeps ==
    ASSUME PageInv, Undo
    PROVE  PageInv'
<1>1. PageTyped /\ Staged /\ Harmless /\ Written /\ Sheet(page, trash, ids) /\ ids \in Nat
    BY DEF PageInv, PageTyped, Sheet
<1> DEFINE todo == UndoRequests
<1>2. /\ page' = page /\ trash' = trash /\ ids' = ids /\ binned' = binned /\ tries' = tries /\ read' = read
      /\ job.pc = "done" /\ job' = [job EXCEPT !.pc = "undoing", !.todo = todo]
    BY DEF Undo, onNotion
<1> HIDE DEF todo
<1>3. job' = [pc |-> "undoing", cmd |-> job.cmd, script |-> job.script, todo |-> todo, done |-> job.done, ids |-> job.ids]
  <2>1. job = [pc |-> job.pc, cmd |-> job.cmd, script |-> job.script, todo |-> job.todo, done |-> job.done, ids |-> job.ids]
      BY <1>1, JobFacts
  <2> QED BY <1>2, <2>1
<1>4. job'.cmd = job.cmd /\ job'.script = job.script
    BY <1>3
<1>5. WiderSets /\ Seen' = Seen /\ Meant' = Meant
    BY <1>1, <1>2, <1>4, WhatItMeantStays
<1>6. job.cmd \in {"append", "edits", "text"}
    BY <1>1, <1>2 DEF Staged
<1>7. todo \in Seq(SafeRequests')
  <2>1. CASE job.cmd = "edits"
    <3>1. todo = FlattenSeq(Unedits)
        BY <2>1 DEF todo, UndoRequests
    <3> DEFINE n == Len(job.done)
               each == [i \in DOMAIN job.done |-> Unedit(job.done[i], i)]
    <3>2. n \in Nat /\ DOMAIN job.done = 1 .. n /\ \A i \in 1 .. n : job.done[i] \in SafeParts' /\ i \in Nat
      <4>1. job.done \in Seq(SafeParts')
          BY <1>1, <1>5, JobFacts DEF WiderSets
      <4> QED BY <4>1, EntryFacts
    <3>3. each \in [1 .. n -> Seq(SafeRequests')]
      <4>1. \A i \in 1 .. n : Unedit(job.done[i], i) \in Seq(SafeRequests')
          BY <3>2, UneditFacts
      <4> QED BY <3>2, <4>1
    <3> HIDE DEF each
    <3>4. each \in Seq(Seq(SafeRequests')) /\ Len(each) = n
      <4> HIDE DEF n
      <4> QED BY <3>2, <3>3, MadeSeq
    <3>5. Unedits = [i \in 1 .. n |-> each[n - i + 1]]
        BY <3>4 DEF Unedits, each, Reverse
    <3>6. \A i \in 1 .. n : n - i + 1 \in 1 .. n
        BY <3>2
    <3> HIDE DEF n
    <3>7. Unedits \in [1 .. n -> Seq(SafeRequests')]
        BY <3>3, <3>5, <3>6
    <3>8. Unedits \in Seq(Seq(SafeRequests'))
        BY <3>2, <3>7, MadeSeq
    <3> QED BY <3>1, <3>8, FlattenFacts
  <2>2. CASE job.cmd = "append"
    <3>1. todo = Removals
        BY <2>2 DEF todo, UndoRequests
    <3> QED BY <1>1, <1>5, <3>1, RemovalsFacts
  <2>3. CASE job.cmd = "text"
    <3> DEFINE again == PutBack
    <3>1. todo = Removals \o again
        BY <2>3 DEF todo, UndoRequests
    <3>2. again \in Seq(SafeRequests') /\ Removals \in Seq(SafeRequests')
        BY <1>1, <1>5, OldTextAgain, RemovalsFacts
    <3> HIDE DEF again
    <3> QED BY <3>1, <3>2, ConcatProperties
  <2> QED BY <1>6, <2>1, <2>2, <2>3
<1>8. /\ job' \in JobRec' /\ job'.cmd = job.cmd /\ job'.script = job.script
      /\ job'.pc = "undoing" /\ job'.todo = todo /\ job'.done = job.done /\ job'.ids = job.ids
  <2>1. job.done \in Seq(SafeParts') /\ job.ids \in Seq(OwnIds')
      BY <1>1, <1>5, JobFacts DEF WiderSets
  <2> QED BY <1>1, <1>3, <1>5, <1>7, <2>1, JobMade
<1>9. PageTyped'
    BY <1>1, <1>2, <1>8, ReadStays DEF PageTyped
<1>10. Staged'
    BY <1>1, <1>2, <1>6, <1>8 DEF Staged
<1>11. Harmless'
    BY <1>1, <1>2, <1>5 DEF Harmless, WiderSets
<1>12. Written'
    BY <1>1, <1>2, <1>8 DEF Written
<1> QED BY <1>9, <1>10, <1>11, <1>12 DEF PageInv

LEMMA AtFilled ==
    ASSUME NEW op, NEW any, NEW kind, NEW texts, NEW n
    PROVE  [[op |-> op, at |-> any, kind |-> kind, texts |-> texts] EXCEPT !.at = n]
             = [op |-> op, at |-> n, kind |-> kind, texts |-> texts]
OBVIOUS

LEMMA OpFacts ==
    ASSUME PageTyped, NEW e \in Ops
    PROVE  /\ e.op \in {"replace", "insert", "delete"} /\ e.at \in Nat /\ e.to \in Nat /\ e.lines \in Nat /\ e.kind \in Kinds
           /\ e.op # "delete" => e.lines # 0
<1>1. Len(page) \in Nat /\ MaxLines \in Nat
    BY PageBounds, EntryFacts DEF PageTyped, Sheet
<1> DEFINE at == 0 .. Len(page) + 1
<1>2. \A n \in at : n \in Nat
    BY <1>1
<1> HIDE DEF at
<1>3. \/ \E n \in at, kind \in {"para", "head"} : e = Op("replace", n, 0, 1, kind)
      \/ \E n \in at, k \in 1 .. MaxLines : e = Op("insert", n, 0, k, "para")
      \/ \E n \in at : e = Op("insert", n, 0, 1, "media")
      \/ \E n \in at, m \in at : e = Op("delete", n, m, 0, "para")
    BY DEF Ops, at
<1>4. CASE \E n \in at, kind \in {"para", "head"} : e = Op("replace", n, 0, 1, kind)
    BY <1>2, <1>4 DEF Op, Kinds
<1>5. CASE \E n \in at, k \in 1 .. MaxLines : e = Op("insert", n, 0, k, "para")
    BY <1>1, <1>2, <1>5 DEF Op, Kinds
<1>6. CASE \E n \in at : e = Op("insert", n, 0, 1, "media")
    BY <1>2, <1>6 DEF Op, Kinds
<1>7. CASE \E n \in at, m \in at : e = Op("delete", n, m, 0, "para")
    BY <1>2, <1>7 DEF Op, Kinds
<1> QED BY <1>3, <1>4, <1>5, <1>6, <1>7

LEMMA EditFacts ==
    ASSUME PageTyped, NEW e \in Ops, NEW k \in Nat, NEW n \in DOMAIN Seen,
           e.op = "replace" => Editable(Seen[n]), e.op = "delete" => Removable(Seen[n])
    PROVE  [Edit(e, k) EXCEPT !.at = n] \in SafeEdits /\ (n = e.at => Edit(e, k) \in SafeEdits)
<1>1. /\ e.op \in {"replace", "insert", "delete"} /\ e.at \in Nat /\ e.lines \in Nat /\ e.kind \in Kinds
      /\ e.op # "delete" => e.lines # 0
    BY OpFacts
<1> DEFINE texts == [j \in 1 .. e.lines |-> <<"new", k, j>>]
           op == e.op  kind == e.kind  lines == e.lines
           q == [op |-> op, at |-> n, kind |-> kind, texts |-> texts]
<1>2. texts \in Seq(Text) /\ Len(texts) = lines
  <2>1. \A j \in 1 .. lines : <<"new", k, j>> \in Text
    <3>1. \A j \in 1 .. lines : j \in Nat
        BY <1>1
    <3> QED BY <3>1, TextFacts
  <2>2. texts \in [1 .. lines -> Text]
      BY <2>1
  <2> HIDE DEF texts, lines
  <2>3. lines \in Nat
      BY <1>1 DEF lines
  <2> QED BY <2>2, <2>3, MadeSeq
<1>3. Edit(e, k) = [op |-> op, at |-> e.at, kind |-> kind, texts |-> texts]
    BY DEF Edit
<1> HIDE DEF texts
<1>4. [Edit(e, k) EXCEPT !.at = n] = q
  <2> HIDE DEF op, kind, q
  <2>1. [[op |-> op, at |-> e.at, kind |-> kind, texts |-> texts] EXCEPT !.at = n] = [op |-> op, at |-> n, kind |-> kind, texts |-> texts]
      BY AtFilled
  <2> QED BY <1>3, <2>1 DEF q
<1>5. n = e.at => Edit(e, k) = q
    BY <1>3
<1>6. q \in SafeEdits
  <2>1. n \in Nat
      BY SeenFacts
  <2>2. op # "delete" => texts # <<>>
    <3>1. lines = 0 \/ texts # <<>>
        BY <1>2, HeadFacts
    <3> QED BY <1>1, <3>1
  <2>3. op \in {"replace", "insert", "delete"} /\ kind \in Kinds
      BY <1>1
  <2>4. q \in EditRec
    <3> HIDE DEF op, kind
    <3> QED BY <1>2, <2>1, <2>3 DEF EditRec
  <2>5. q.op = op /\ q.at = n /\ q.texts = texts
      OBVIOUS
  <2> HIDE DEF q
  <2> QED BY <2>2, <2>4, <2>5 DEF SafeEdits
<1> HIDE DEF q
<1> QED BY <1>4, <1>5, <1>6

LEMMA AllowedFacts ==
    ASSUME PageTyped, DOMAIN Seen # {}, NEW e \in Ops, NEW k \in Nat
    PROVE  Allowed(e, k) \in Seq(SafeEdits)
<1>1. e.op \in {"replace", "insert", "delete"} /\ e.at \in Nat
    BY OpFacts
<1>2. DOMAIN Seen = 1 .. Len(Seen) /\ Len(Seen) \in Nat
    BY SeenFacts
<1>3. CASE e.op = "replace"
  <2>1. CASE Exists(e.at) /\ Editable(Seen[e.at])
    <3>1. Edit(e, k) \in SafeEdits
        BY <1>3, <2>1, EditFacts DEF Exists
    <3>2. Allowed(e, k) = <<Edit(e, k)>>
        BY <1>3, <2>1 DEF Allowed
    <3> QED BY <3>1, <3>2
  <2>2. CASE ~(Exists(e.at) /\ Editable(Seen[e.at]))
    <3>1. Allowed(e, k) = <<>>
        BY <1>3, <2>2 DEF Allowed
    <3> QED BY <3>1
  <2> QED BY <2>1, <2>2
<1>4. CASE e.op = "insert"
  <2>1. Anchor(e.at) \in DOMAIN Seen
      BY <1>1, <1>2 DEF Anchor, Exists
  <2>2. [Edit(e, k) EXCEPT !.at = Anchor(e.at)] \in SafeEdits
      BY <1>4, <2>1, EditFacts
  <2>3. Allowed(e, k) = <<[Edit(e, k) EXCEPT !.at = Anchor(e.at)]>>
      BY <1>4 DEF Allowed
  <2> DEFINE q == [Edit(e, k) EXCEPT !.at = Anchor(e.at)]
  <2> HIDE DEF q
  <2>4. q \in SafeEdits /\ Allowed(e, k) = <<q>>
      BY <2>2, <2>3 DEF q
  <2> QED BY <2>4
<1>5. CASE e.op = "delete"
  <2> DEFINE lines == [n \in DOMAIN Seen |-> n]
             those == {n \in Span(e) : Exists(n) /\ Removable(Seen[n])}
             keep == Chosen(lines, those)
  <2>1. Allowed(e, k) = [i \in DOMAIN keep |-> [Edit(e, k) EXCEPT !.at = keep[i]]]
      BY <1>5 DEF Allowed
  <2>2. lines \in Seq(Nat)
    <3>1. lines \in [1 .. Len(Seen) -> Nat]
        BY <1>2
    <3> HIDE DEF lines
    <3> QED BY <1>2, <3>1, MadeSeq
  <2> HIDE DEF lines
  <2>3. keep \in Seq(Nat \cap those)
    <3> HIDE DEF those
    <3> QED BY <2>2, ChosenFacts
  <2> HIDE DEF keep
  <2>4. Len(keep) \in Nat /\ DOMAIN keep = 1 .. Len(keep) /\ \A i \in DOMAIN keep : keep[i] \in those
      BY <2>3, EntryFacts
  <2>5. \A n \in those : n \in DOMAIN Seen /\ Removable(Seen[n])
      BY DEF Exists
  <2>6. \A i \in 1 .. Len(keep) : [Edit(e, k) EXCEPT !.at = keep[i]] \in SafeEdits
    <3> SUFFICES ASSUME NEW i \in 1 .. Len(keep) PROVE [Edit(e, k) EXCEPT !.at = keep[i]] \in SafeEdits
        OBVIOUS
    <3>1. keep[i] \in DOMAIN Seen /\ Removable(Seen[keep[i]])
        BY <2>4, <2>5
    <3> QED BY <1>5, <3>1, EditFacts
  <2>7. Allowed(e, k) \in [1 .. Len(keep) -> SafeEdits]
      BY <2>1, <2>4, <2>6
  <2> QED BY <2>4, <2>7, MadeSeq
<1> QED BY <1>1, <1>3, <1>4, <1>5

LEMMA CheckFacts ==
    ASSUME PageTyped, DOMAIN Seen # {}, NEW script \in Scripts
    PROVE  Check(script) \in Seq(SafeEdits)
<1>1. PICK n \in 1 .. MaxOps : script \in [1 .. n -> Ops]
    BY DEF Scripts
<1>2. n \in Nat
    BY PageBounds
<1> DEFINE each == [k \in DOMAIN script |-> Allowed(script[k], k)]
<1>3. each \in Seq(Seq(SafeEdits))
  <2>1. \A k \in 1 .. n : Allowed(script[k], k) \in Seq(SafeEdits)
    <3> SUFFICES ASSUME NEW k \in 1 .. n PROVE Allowed(script[k], k) \in Seq(SafeEdits)
        OBVIOUS
    <3>1. script[k] \in Ops /\ k \in Nat
        BY <1>1, <1>2
    <3> QED BY <3>1, AllowedFacts
  <2>2. each \in [1 .. n -> Seq(SafeEdits)]
      BY <1>1, <2>1
  <2> HIDE DEF each
  <2> QED BY <1>2, <2>2, MadeSeq
<1>4. FlattenSeq(each) \in Seq(SafeEdits)
  <2> HIDE DEF each
  <2> QED BY <1>3, FlattenFacts
<1>5. Check(script) = IF TooMany(FlattenSeq(each)) THEN <<>> ELSE FlattenSeq(each)
    BY DEF Check
<1> HIDE DEF each
<1>6. <<>> \in Seq(SafeEdits)
    OBVIOUS
<1>7. CASE TooMany(FlattenSeq(each))
    BY <1>5, <1>6, <1>7
<1>8. CASE ~TooMany(FlattenSeq(each))
    BY <1>4, <1>5, <1>8
<1> QED BY <1>7, <1>8

LEMMA OfFacts ==
    ASSUME NEW S, NEW plan \in Seq(S), NEW op
    PROVE  Of(plan, op) \in Seq({e \in S : e.op = op})
<1> DEFINE those == {e \in ToSet(plan) : e.op = op}
<1>1. Chosen(plan, those) \in Seq(S \cap those)
  <2> HIDE DEF those
  <2> QED BY ChosenFacts
<1>2. S \cap those \subseteq {e \in S : e.op = op}
    OBVIOUS
<1>3. Of(plan, op) = Chosen(plan, those)
    BY DEF Of
<1> HIDE DEF those
<1> QED BY <1>1, <1>2, <1>3, SeqMonotonic

LEMMA BottomUpFacts ==
    ASSUME PageTyped, NEW S, NEW plan \in Seq(S)
    PROVE  BottomUp(plan) \in Seq(S)
<1> DEFINE those(i) == {e \in ToSet(plan) : e.at = Len(Seen) + 1 - i}
           each == [i \in DOMAIN Seen |-> Chosen(plan, those(i))]
<1>1. DOMAIN Seen = 1 .. Len(Seen) /\ Len(Seen) \in Nat
    BY SeenFacts
<1>2. \A t : Chosen(plan, t) \in Seq(S)
  <2> SUFFICES ASSUME NEW t PROVE Chosen(plan, t) \in Seq(S)
      OBVIOUS
  <2>1. Chosen(plan, t) \in Seq(S \cap t)
      BY ChosenFacts
  <2> QED BY <2>1, SeqMonotonic
<1>3. BottomUp(plan) = FlattenSeq(each)
    BY DEF BottomUp
<1> HIDE DEF those
<1>4. each \in [1 .. Len(Seen) -> Seq(S)]
    BY <1>1, <1>2
<1> HIDE DEF each
<1>5. each \in Seq(Seq(S))
    BY <1>1, <1>4, MadeSeq
<1> QED BY <1>3, <1>5, FlattenFacts

\* The blocks that a script takes away, and its edits with every change of a block's type taken apart.
TakenBy(plan) ==
    {Seen[e.at].id : e \in {e \in ToSet(plan) : e.op = "delete" \/ (e.op = "replace" /\ Retyped(e))}}
SwappedEdits(plan) ==
    {e \in EditRec :
        /\ e.at \in DOMAIN Seen
        /\ e.op # "delete" => e.texts # <<>>
        /\ e.op = "delete" => Seen[e.at].id \in TakenBy(plan)}

LEMMA OtherOp ==
    ASSUME NEW e \in EditRec, NEW op \in {"replace", "insert", "delete"}
    PROVE  /\ [e EXCEPT !.op = op] \in EditRec /\ [e EXCEPT !.op = op].op = op
           /\ [e EXCEPT !.op = op].at = e.at /\ [e EXCEPT !.op = op].texts = e.texts
BY DEF EditRec

LEMMA SwappedFacts ==
    ASSUME NEW plan \in Seq(SafeEdits)
    PROVE  Swapped(plan) \in Seq(SwappedEdits(plan))
<1> DEFINE S == SwappedEdits(plan)
           pair(i) == IF plan[i].op = "replace" /\ Retyped(plan[i])
                      THEN <<[plan[i] EXCEPT !.op = "insert"], [plan[i] EXCEPT !.op = "delete"]>> ELSE <<>>
           each == [i \in DOMAIN plan |-> pair(i)]
<1>1. /\ DOMAIN plan = 1 .. Len(plan) /\ Len(plan) \in Nat
      /\ \A i \in DOMAIN plan : plan[i] \in SafeEdits /\ plan[i] \in ToSet(plan)
    BY EntryFacts DEF ToSet
<1>2. \A i \in DOMAIN plan : /\ plan[i] \in EditRec /\ plan[i].at \in DOMAIN Seen
                             /\ plan[i].op # "delete" => plan[i].texts # <<>>
    BY <1>1 DEF SafeEdits
<1>3. \A i \in DOMAIN plan :
          plan[i].op = "delete" \/ (plan[i].op = "replace" /\ Retyped(plan[i])) => Seen[plan[i].at].id \in TakenBy(plan)
    BY <1>1 DEF TakenBy
<1>4. plan \in Seq(S)
  <2>1. ASSUME NEW i \in DOMAIN plan PROVE plan[i] \in S
    <3> DEFINE e == plan[i]
    <3>1. /\ e \in EditRec /\ e.at \in DOMAIN Seen /\ (e.op # "delete" => e.texts # <<>>)
          /\ e.op = "delete" => Seen[e.at].id \in TakenBy(plan)
        BY <1>2, <1>3
    <3> HIDE DEF e
    <3>2. e \in S
        BY <3>1 DEF SwappedEdits
    <3> QED BY <3>2 DEF e
  <2> HIDE DEF S
  <2> QED BY <2>1, EachIn
<1>5. \A i \in 1 .. Len(plan) : pair(i) \in Seq(S)
  <2> SUFFICES ASSUME NEW i \in 1 .. Len(plan) PROVE pair(i) \in Seq(S)
      OBVIOUS
  <2>1. CASE plan[i].op = "replace" /\ Retyped(plan[i])
    <3> DEFINE p == [plan[i] EXCEPT !.op = "insert"]
               q == [plan[i] EXCEPT !.op = "delete"]
               e == plan[i]
    <3>b. e \in EditRec /\ e.at \in DOMAIN Seen /\ e.texts # <<>> /\ Seen[e.at].id \in TakenBy(plan)
        BY <1>1, <1>2, <1>3, <2>1
    <3> HIDE DEF e
    <3>a. [e EXCEPT !.op = "insert"] = p /\ [e EXCEPT !.op = "delete"] = q
        BY DEF e
    <3> HIDE DEF p, q
    <3>1. p \in EditRec /\ p.op = "insert" /\ p.at = e.at /\ p.texts = e.texts
        BY <3>b, <3>a, OtherOp
    <3>2. q \in EditRec /\ q.op = "delete" /\ q.at = e.at /\ q.texts = e.texts
        BY <3>b, <3>a, OtherOp
    <3>3. pair(i) = <<p, q>>
        BY <2>1 DEF p, q
    <3> HIDE DEF pair
    <3>4. p \in S /\ q \in S
        BY <3>b, <3>1, <3>2 DEF SwappedEdits
    <3> HIDE DEF S
    <3> QED BY <3>3, <3>4
  <2>2. CASE ~(plan[i].op = "replace" /\ Retyped(plan[i]))
    <3>1. pair(i) = <<>>
        BY <2>2
    <3> QED BY <3>1
  <2> QED BY <2>1, <2>2
<1>6. Swapped(plan) = plan \o FlattenSeq(each)
    BY DEF Swapped
<1> HIDE DEF pair, S
<1>7. each \in Seq(Seq(S))
  <2>1. each \in [1 .. Len(plan) -> Seq(S)]
      BY <1>1, <1>5
  <2> HIDE DEF each
  <2> QED BY <1>1, <2>1, MadeSeq
<1> HIDE DEF each
<1>8. FlattenSeq(each) \in Seq(S)
    BY <1>7, FlattenFacts
<1> QED BY <1>4, <1>6, <1>8, ConcatProperties DEF S

LEMMA BlocksOfFacts ==
    ASSUME NEW e \in EditRec
    PROVE  BlocksOf(e) \in Seq(Line) /\ (e.texts # <<>> => BlocksOf(e) # <<>>)
<1>1. e.kind \in Kinds /\ e.texts \in Seq(Text) /\ Len(e.texts) \in Nat /\ DOMAIN e.texts = 1 .. Len(e.texts)
    BY EntryFacts DEF EditRec
<1>2. \A j \in DOMAIN e.texts : [kind |-> e.kind, text |-> e.texts[j]] \in Line
    BY <1>1, EntryFacts DEF Line
<1>3. BlocksOf(e) \in [1 .. Len(e.texts) -> Line]
    BY <1>1, <1>2 DEF BlocksOf
<1>4. BlocksOf(e) \in Seq(Line) /\ Len(BlocksOf(e)) = Len(e.texts)
    BY <1>1, <1>3, MadeSeq
<1> QED BY <1>1, <1>4, HeadFacts

LEMMA ApplyFacts ==
    ASSUME PageTyped, DOMAIN Seen # {}, NEW plan \in Seq(SafeEdits), Seen' = Seen, TakenBy(plan) \subseteq Meant'
    PROVE  Apply(plan) \in Seq(WorkRequests')
<1>1. /\ \A i \in DOMAIN Seen : Seen[i].id \in Nat
      /\ IdsOf(Seen) = IdsOf(Seen') /\ IdsOf(Seen) # {} /\ IdsOf(Seen) \in SUBSET Nat
  <2>1. \A i \in DOMAIN Seen : Seen[i].id \in Nat
      BY SeenFacts DEF Block
  <2> QED BY <2>1 DEF IdsOf
<1>2. Updates(plan) \in Seq(WorkRequests')
  <2> DEFINE those == {e \in ToSet(plan) : e.op = "replace" /\ ~Retyped(e)}
             list == Chosen(plan, those)
  <2>1. Updates(plan) = [i \in DOMAIN list |-> Update(Seen[list[i].at].id, list[i].kind, list[i].texts[1])]
      BY DEF Updates
  <2>2. list \in Seq(SafeEdits \cap those)
    <3> HIDE DEF those
    <3> QED BY ChosenFacts
  <2>3. \A e \in those : e.op = "replace"
      OBVIOUS
  <2> HIDE DEF list, those
  <2>4. /\ Len(list) \in Nat /\ DOMAIN list = 1 .. Len(list)
        /\ \A i \in DOMAIN list : list[i] \in SafeEdits /\ list[i].op = "replace"
      BY <2>2, <2>3, EntryFacts
  <2>5. \A i \in 1 .. Len(list) : Update(Seen[list[i].at].id, list[i].kind, list[i].texts[1]) \in WorkRequests'
    <3> SUFFICES ASSUME NEW i \in 1 .. Len(list)
                 PROVE  Update(Seen[list[i].at].id, list[i].kind, list[i].texts[1]) \in WorkRequests'
        OBVIOUS
    <3>1. list[i].at \in DOMAIN Seen /\ list[i].texts # <<>> /\ list[i].kind \in Kinds /\ list[i].texts \in Seq(Text)
        BY <2>4 DEF SafeEdits, EditRec
    <3>2. list[i].texts[1] \in Text
        BY <3>1, HeadFacts
    <3>3. Seen[list[i].at].id \in Nat /\ Seen[list[i].at].id \in IdsOf(Seen')
      <4>1. Seen[list[i].at].id \in IdsOf(Seen)
          BY <3>1 DEF IdsOf
      <4> QED BY <1>1, <3>1, <4>1
    <3> QED BY <3>1, <3>2, <3>3, UpdateFacts
  <2>6. Updates(plan) \in [1 .. Len(list) -> WorkRequests']
      BY <2>1, <2>4, <2>5
  <2> QED BY <2>4, <2>6, MadeSeq
<1>3. Swapped(plan) \in Seq(SwappedEdits(plan))
    BY SwappedFacts
<1>4. Inserts(plan) \in Seq(WorkRequests')
  <2> DEFINE sorted == BottomUp(Of(Swapped(plan), "insert"))
             S == {e \in SwappedEdits(plan) : e.op = "insert"}
  <2>1. Inserts(plan) = [i \in DOMAIN sorted |-> Append_(Seen[sorted[i].at].id, BlocksOf(sorted[i]), IdsOf(Seen))]
      BY DEF Inserts
  <2>2. sorted \in Seq(S)
    <3>1. Of(Swapped(plan), "insert") \in Seq(S)
        BY <1>3, OfFacts
    <3> HIDE DEF S
    <3> QED BY <3>1, BottomUpFacts
  <2>3. \A e \in S : e \in EditRec /\ e.at \in DOMAIN Seen /\ e.texts # <<>>
      BY DEF SwappedEdits
  <2> HIDE DEF sorted, S
  <2>4. Len(sorted) \in Nat /\ DOMAIN sorted = 1 .. Len(sorted) /\ \A i \in DOMAIN sorted : sorted[i] \in S
      BY <2>2, EntryFacts
  <2>5. \A i \in 1 .. Len(sorted) : Append_(Seen[sorted[i].at].id, BlocksOf(sorted[i]), IdsOf(Seen)) \in WorkRequests'
    <3> SUFFICES ASSUME NEW i \in 1 .. Len(sorted)
                 PROVE  Append_(Seen[sorted[i].at].id, BlocksOf(sorted[i]), IdsOf(Seen)) \in WorkRequests'
        OBVIOUS
    <3>1. sorted[i] \in EditRec /\ sorted[i].at \in DOMAIN Seen /\ sorted[i].texts # <<>>
        BY <2>3, <2>4
    <3>2. BlocksOf(sorted[i]) \in Seq(Line) /\ BlocksOf(sorted[i]) # <<>>
        BY <3>1, BlocksOfFacts
    <3>3. Seen[sorted[i].at].id \in Nat
        BY <1>1, <3>1
    <3> QED BY <1>1, <3>2, <3>3, AppendIsWork
  <2>6. Inserts(plan) \in [1 .. Len(sorted) -> WorkRequests']
      BY <2>1, <2>4, <2>5
  <2> QED BY <2>4, <2>6, MadeSeq
<1>5. Deletes(plan) \in Seq(WorkRequests')
  <2> DEFINE sorted == BottomUp(Of(Swapped(plan), "delete"))
             S == {e \in SwappedEdits(plan) : e.op = "delete"}
  <2>1. Deletes(plan) = [i \in DOMAIN sorted |-> Delete(Seen[sorted[i].at].id, i)]
      BY DEF Deletes
  <2>2. sorted \in Seq(S)
    <3>1. Of(Swapped(plan), "delete") \in Seq(S)
        BY <1>3, OfFacts
    <3> HIDE DEF S
    <3> QED BY <3>1, BottomUpFacts
  <2>3. \A e \in S : e.at \in DOMAIN Seen /\ Seen[e.at].id \in TakenBy(plan)
      BY DEF SwappedEdits
  <2> HIDE DEF sorted, S
  <2>4. Len(sorted) \in Nat /\ DOMAIN sorted = 1 .. Len(sorted) /\ \A i \in DOMAIN sorted : sorted[i] \in S
      BY <2>2, EntryFacts
  <2>5. \A i \in 1 .. Len(sorted) : Delete(Seen[sorted[i].at].id, i) \in WorkRequests'
    <3> SUFFICES ASSUME NEW i \in 1 .. Len(sorted) PROVE Delete(Seen[sorted[i].at].id, i) \in WorkRequests'
        OBVIOUS
    <3>1. sorted[i].at \in DOMAIN Seen /\ Seen[sorted[i].at].id \in TakenBy(plan) /\ i \in Nat
        BY <2>3, <2>4
    <3>2. Seen[sorted[i].at].id \in Nat /\ Seen[sorted[i].at].id \in Meant'
        BY <1>1, <3>1
    <3> QED BY <3>1, <3>2, DeleteIsWork
  <2>6. Deletes(plan) \in [1 .. Len(sorted) -> WorkRequests']
      BY <2>1, <2>4, <2>5
  <2> QED BY <2>4, <2>6, MadeSeq
<1>6. Updates(plan) \o Inserts(plan) \in Seq(WorkRequests')
    BY <1>2, <1>4, ConcatProperties
<1>7. Updates(plan) \o Inserts(plan) \o Deletes(plan) \in Seq(WorkRequests')
    BY <1>5, <1>6, ConcatProperties
<1> QED BY <1>7 DEF Apply

LEMMA PlanEditsKeeps ==
    ASSUME PageInv, PlanEdits
    PROVE  PageInv'
<1>1. PICK s \in Scripts : job' = [job EXCEPT !.pc = "working", !.cmd = "edits", !.script = Check(s), !.todo = Apply(Check(s))]
    BY DEF PlanEdits
<1>2. job.pc = "thinking" /\ job.cmd = "rewrite" /\ read' = read /\ UNCHANGED <<onNotion, tries>>
    BY DEF PlanEdits
<1>3. /\ PageTyped /\ Meant = {} /\ ids \in Nat /\ ids' = ids
      /\ job = [pc |-> job.pc, cmd |-> job.cmd, script |-> job.script, todo |-> job.todo, done |-> job.done, ids |-> job.ids]
    BY <1>2, ThinkingFacts DEF onNotion, PageTyped, Sheet
<1>4. DOMAIN Seen # {}
    BY DEF PlanEdits, ToSet
<1> DEFINE script == Check(s)
           todo == Apply(script)
<1>5. script \in Seq(SafeEdits)
    BY <1>3, <1>4, CheckFacts
<1>6. job' = [job EXCEPT !.pc = "working", !.cmd = "edits", !.script = script, !.todo = todo]
    BY <1>1
<1> HIDE DEF todo
<1>7. job'.cmd = "edits" /\ job'.script = script
  <2> HIDE DEF script
  <2> QED BY <1>3, <1>6
<1>8. Seen' = Seen
    BY <1>2, <1>7, SeenStays
<1>9. Meant' = TakenBy(script)
  <2>1. Meant' = MeantBy(job'.cmd, job'.script, Seen')
      BY DEF Meant, MeantBy, Retyped, Replaceable
  <2>2. Meant' = MeantBy("edits", script, Seen)
      BY <1>7, <1>8, <2>1
  <2>3. MeantBy("edits", script, Seen) = TakenBy(script)
      BY DEF MeantBy, TakenBy, Retyped
  <2> QED BY <2>2, <2>3
<1>10. WiderSets
    BY <1>3, <1>8, Wider
<1>11. todo \in Seq(WorkRequests')
  <2> HIDE DEF script
  <2> QED BY <1>3, <1>4, <1>5, <1>8, <1>9, ApplyFacts DEF todo
<1>12. todo \in Seq(SafeRequests') /\ script \in Seq(SafeEdits')
  <2>1. WorkRequests' \subseteq SafeRequests'
      BY DEF WorkRequests
  <2> HIDE DEF script
  <2> QED BY <1>5, <1>10, <1>11, <2>1, SeqMonotonic DEF WiderSets
<1> HIDE DEF script
<1>13. Planning("working", "edits", script, todo)
    BY <1>6, <1>11, <1>12 DEF Planning
<1> QED BY <1>2, <1>13, PlannedKeeps

LEMMA PageInitially ==
    ASSUME PageInit
    PROVE  PageInv
<1>1. PICK start \in StartPages :
          /\ page = [i \in DOMAIN start |->
                        [id |-> i, kind |-> start[i].kind, text |-> <<"was", i, start[i].lines>>]]
          /\ ids = Len(start)
    BY DEF PageInit
<1>2. start \in Seq(StartBlock) /\ Len(start) \in Nat /\ DOMAIN start = 1 .. Len(start)
  <2>1. start \in Seq(StartBlock)
      BY PagesAreBlocks
  <2> QED BY <2>1, EntryFacts
<1>3. \A i \in 1 .. Len(start) : [id |-> i, kind |-> start[i].kind, text |-> <<"was", i, start[i].lines>>] \in Block
  <2> SUFFICES ASSUME NEW i \in 1 .. Len(start)
               PROVE  [id |-> i, kind |-> start[i].kind, text |-> <<"was", i, start[i].lines>>] \in Block
      OBVIOUS
  <2>1. i \in Nat /\ start[i].kind \in Kinds /\ start[i].lines \in Nat
    <3>1. start[i] \in StartBlock
        BY <1>2, EntryFacts
    <3> QED BY <3>1 DEF StartBlock
  <2>2. <<"was", i, start[i].lines>> \in Text
      BY <2>1, TextFacts
  <2> QED BY <2>1, <2>2 DEF Block
<1>4. page \in Seq(Block) /\ DOMAIN page = 1 .. Len(start) /\ \A i \in DOMAIN page : page[i].id = i
  <2>1. page \in [1 .. Len(start) -> Block]
      BY <1>1, <1>2, <1>3
  <2>2. page \in Seq(Block) /\ DOMAIN page = 1 .. Len(start)
      BY <1>2, <2>1, MadeSeq
  <2> QED BY <1>1, <1>2, <2>2
<1>5. /\ trash = {} /\ read = <<>> /\ binned = {} /\ tries = NoTries /\ job = NoJob
    BY DEF PageInit
<1>6. Sheet(page, trash, ids)
    BY <1>1, <1>2, <1>4, <1>5 DEF Sheet
<1>7. /\ job.pc = "idle" /\ job.cmd = "none" /\ job.script = <<>> /\ job.todo = <<>> /\ job.done = <<>> /\ job.ids = <<>>
      /\ job \in JobRec
  <2>1. /\ <<>> \in Seq(SafeEdits) /\ <<>> \in Seq(SafeRequests) /\ <<>> \in Seq(SafeParts) /\ <<>> \in Seq(OwnIds)
      OBVIOUS
  <2> QED BY <1>5, <2>1 DEF NoJob, JobRec
<1>8. tries \in [{"net", "server", "busy"} -> 0 .. MAX_RETRIES]
  <2>1. MAX_RETRIES \in Nat
      BY PageBounds
  <2> QED BY <1>5, <2>1 DEF NoTries
<1>9. read \in Seq(Block) /\ DOMAIN read = {}
    BY <1>5
<1> QED BY <1>5, <1>6, <1>7, <1>8, <1>9 DEF PageInv, PageTyped, Staged, Harmless, Written

LEMMA PageSteps ==
    ASSUME PageInv, [PageNext]_pageVars
    PROVE  PageInv'
<1>1. CASE Read
    BY <1>1, ReadKeeps
<1>2. CASE AppendUnread \/ AppendRead
    BY <1>2, AppendsKeep
<1>3. CASE Refused
    BY <1>3, RefusedKeeps
<1>4. CASE PlanEdits
    BY <1>4, PlanEditsKeeps
<1>5. CASE PlanText
    BY <1>5, PlanTextKeeps
<1>6. CASE Answer
    BY <1>6, AnswerKeeps
<1>7. CASE NotThere \/ Rejected \/ Unapplied \/ AnswerLost
    BY <1>7, FailuresKeep
<1>8. CASE Finish \/ Undone
    BY <1>8, EndsKeep
<1>9. CASE Undo
    BY <1>9, UndoKeeps
<1>10. CASE WriteByHand \/ DeleteByHand
    BY <1>10, ByHandKeeps
<1>11. CASE UNCHANGED pageVars
  <2>1. Sheet(page, trash, ids) /\ ids \in Nat
      BY DEF PageInv, PageTyped, Sheet
  <2>2. /\ page' = page /\ trash' = trash /\ ids' = ids /\ binned' = binned /\ job' = job /\ read' = read
        /\ tries' = tries
      BY <1>11 DEF pageVars
  <2>3. Sheet(page', trash', ids') /\ ids' \in Nat /\ ids <= ids'
      BY <2>1, <2>2
  <2> QED BY <2>2, <2>3, OwnEditsKeep
<1> QED BY <1>1, <1>2, <1>3, <1>4, <1>5, <1>6, <1>7, <1>8, <1>9, <1>10, <1>11 DEF PageNext

LEMMA PageInvariance == PageSpec => []PageInv
<1>1. PageInit => PageInv
    BY PageInitially
<1>2. PageInv /\ [PageNext]_pageVars => PageInv'
    BY PageSteps
<1> QED BY <1>1, <1>2, PTL DEF PageSpec

LEMMA WhatItMeansIsNoSubPage ==
    ASSUME PageInv, NEW i \in DOMAIN Seen, Seen[i].id \in Meant
    PROVE  Seen[i].kind # "kept"
<1>1. /\ PageTyped /\ job.script \in Seq(SafeEdits)
      /\ \A j, k \in DOMAIN Seen : Seen[j].id = Seen[k].id => j = k
    BY JobFacts, SeenFacts DEF PageInv
<1>2. \A line : Editable(line) \/ Removable(line) => line.kind # "kept"
    BY DEF Editable, Removable, Rewritable
<1>3. CASE job.cmd = "edits"
  <2>1. PICK e \in ToSet(job.script) : /\ e.op = "delete" \/ e.op = "replace"
                                       /\ Seen[e.at].id = Seen[i].id
      BY <1>3 DEF Meant
  <2>2. e \in SafeEdits
    <3>1. PICK k \in DOMAIN job.script : e = job.script[k]
        BY DEF ToSet
    <3> QED BY <1>1, <3>1, EntryFacts
  <2>3. e.at = i /\ (Editable(Seen[e.at]) \/ Removable(Seen[e.at]))
      BY <1>1, <2>1, <2>2 DEF SafeEdits
  <2> QED BY <1>2, <2>3
<1>4. CASE job.cmd = "text"
  <2>1. PICK k \in DOMAIN Replaceable : Replaceable[k].id = Seen[i].id
      BY <1>4 DEF Meant, IdsOf
  <2>2. Replaceable[k] \in {line \in ToSet(Seen) : Editable(line)}
      BY <1>1, ReplaceableFacts, EntryFacts
  <2>3. PICK j \in DOMAIN Seen : Replaceable[k] = Seen[j] /\ Editable(Seen[j])
      BY <2>2 DEF ToSet
  <2> QED BY <1>1, <1>2, <2>1, <2>3
<1>5. job.cmd \in {"edits", "text"}
    BY DEF Meant
<1> QED BY <1>3, <1>4, <1>5

\* The page and the trash hold every block once, however the bot's requests and the user's own edits
\* fall between each other, and the requests that are left are those of the command at hand.
THEOREM PageTypeCorrect == PageSpec => []PageTypeOK
<1>1. PageInv => PageTypeOK
  <2> SUFFICES ASSUME PageInv PROVE PageTypeOK
      OBVIOUS
  <2>1. PageTyped /\ Staged /\ Sheet(page, trash, ids)
      BY DEF PageInv, PageTyped
  <2>2. page \in Seq(Block) /\ trash \subseteq Block
      BY <2>1 DEF Sheet
  <2>3. IsInjective([i \in DOMAIN page |-> page[i].id])
      BY <2>1 DEF IsInjective, Sheet
  <2>4. IdsOf(page) \cap {b.id : b \in trash} = {} /\ IdsOf(page) \cup {b.id : b \in trash} \subseteq 1 .. ids
      BY <2>1 DEF IdsOf, Sheet
  <2>5. job.pc \in {"idle", "thinking", "working", "done", "failed", "undoing", "undone"}
      BY <2>1, JobFacts
  <2>6. job.todo # <<>> => job.pc \in {"working", "undoing"}
      BY <2>1 DEF Staged
  <2>7. \A why \in DOMAIN tries : tries[why] <= MAX_RETRIES
    <3>1. MAX_RETRIES \in Nat /\ tries \in [{"net", "server", "busy"} -> 0 .. MAX_RETRIES]
        BY <2>1, PageBounds DEF PageTyped
    <3> QED BY <3>1
  <2> QED BY <2>2, <2>3, <2>4, <2>5, <2>6, <2>7 DEF PageTypeOK
<1> QED BY <1>1, PageInvariance, PTL

\* Whatever the bot does to a page and wherever it stops, what stood there is safe: of the blocks that
\* a command has read it moves to the trash only those its script or its new text replaces, never a
\* sub-page, its Undo included; and a text's old blocks go only once the new ones are there.
THEOREM WhatStoodThereIsSafe == PageSpec => []BlocksAreSafe
<1>1. PageInv => BlocksAreSafe
  <2> SUFFICES ASSUME PageInv PROVE BlocksAreSafe
      OBVIOUS
  <2>1. PageTyped /\ Harmless /\ Written /\ Sheet(page, trash, ids)
      BY DEF PageInv, PageTyped
  <2>2. binned \cap IdsOf(Seen) \subseteq Meant
      BY <2>1 DEF Harmless, OwnIds
  <2>3. \A i \in DOMAIN Seen : Seen[i].kind = "kept" => Seen[i].id \notin binned
    <3> SUFFICES ASSUME NEW i \in DOMAIN Seen, Seen[i].id \in binned PROVE Seen[i].kind # "kept"
        OBVIOUS
    <3>1. Seen[i].id \in IdsOf(Seen)
        BY DEF IdsOf
    <3>2. Seen[i].id \in Meant
        BY <2>2, <3>1
    <3> QED BY <3>2, WhatItMeansIsNoSubPage
  <2>4. \A id \in ToSet(job.ids) : OnPage(id) \/ Trashed(id)
    <3> SUFFICES ASSUME NEW k \in DOMAIN job.ids PROVE OnPage(job.ids[k]) \/ Trashed(job.ids[k])
        BY DEF ToSet
    <3>1. job.ids[k] \in OwnIds
        BY <2>1, JobFacts, EntryFacts
    <3>2. job.ids[k] \in 1 .. ids
        BY <3>1 DEF OwnIds
    <3>3. (\E i \in DOMAIN page : page[i].id = job.ids[k]) \/ (\E b \in trash : b.id = job.ids[k])
        BY <2>1, <3>2 DEF Sheet
    <3> QED BY <3>3 DEF OnPage, Trashed, IdsOf
  <2>5. TooMuchRatherThanTooLittle
      BY <2>1, <2>4 DEF TooMuchRatherThanTooLittle, Written
  <2> QED BY <2>2, <2>3, <2>5 DEF BlocksAreSafe, ReadBlocksAreSafe
<1> QED BY <1>1, PageInvariance, PTL

----------------------------------------------------------------------------
(* Updater: its state, and how many backups there are                      *)

UpdKinds ==
    /\ tree \in [Items -> Numbers] /\ tree["manifest"] \in Releases
    /\ DOMAIN backups = Numbers
    /\ \A v \in Numbers : backups[v] = Absent \/ backups[v] \in [Items -> Numbers]
    /\ upd \in UpdRec

UpdDisk ==
    schema \subseteq ToSet(Migrations) /\ venv \in {LockOf[v] : v \in Releases}

\* A backup is begun before anything is copied to it, and a rollback has only what the backup holds.
UpdStages ==
    /\ upd.pc \notin {"off", "rollback"} => upd.new \in Releases
    /\ upd.pc = "backup" => backups[tree["VERSION"]] # Absent
    /\ upd.pc = "rollback" => \A i \in ToSet(upd.todo) : backups[upd.new][i] > 0
    /\ upd.todo # <<>> => upd.pc \in {"backup", "extract", "rollback"}

UpdCount ==
    stops \in Nat /\ Cardinality(Backups) <= KEEP_BACKUPS + stops + (IF upd.pc = "backup" THEN 1 ELSE 0)

UpdInv == UpdKinds /\ UpdDisk /\ UpdStages /\ UpdCount

\* Old backups go until no more are left than are kept.
LEMMA FewAreKept ==
    ASSUME NEW set \in SUBSET Numbers
    PROVE  IsFiniteSet(set) /\ Cardinality(set \ Pruned(set)) <= KEEP_BACKUPS
<1> DEFINE left == set \ Pruned(set)
<1>1. Numbers \subseteq Nat /\ IsFiniteSet(Numbers)
    BY ReleaseFacts, FS_Interval DEF Numbers
<1>2. IsFiniteSet(set) /\ IsFiniteSet(left) /\ left \subseteq Nat
    BY <1>1, FS_Subset
<1>3. KEEP_BACKUPS \in Nat /\ Cardinality(left) \in Nat
    BY <1>2, FS_CardinalityType, ReleasesAre
<1>4. CASE left = {}
  <2>1. Cardinality(left) = 0
      BY <1>4, FS_EmptySet
  <2> QED BY <1>2, <1>3, <2>1
<1>5. CASE left # {}
  <2>1. PICK m \in left : \A y \in left : m <= y
    <3> HIDE DEF left
    <3> QED BY <1>2, <1>5, Least
  <2> DEFINE above == {w \in set : w > m}
             rest == left \ {m}
  <2>2. m \in set /\ m \notin Pruned(set)
      OBVIOUS
  <2>3. ~(Cardinality(above) >= KEEP_BACKUPS)
      BY <2>2 DEF Pruned
  <2>4. rest \subseteq above
    <3> SUFFICES ASSUME NEW w \in rest PROVE w > m
        OBVIOUS
    <3>1. w \in left /\ w # m /\ m <= w
        BY <2>1
    <3>2. w \in Nat /\ m \in Nat
        BY <3>1, <1>2
    <3> QED BY <3>1, <3>2
  <2>5. IsFiniteSet(above)
      BY <1>2, FS_Subset
  <2>6. Cardinality(rest) <= Cardinality(above) /\ Cardinality(above) \in Nat
      BY <2>4, <2>5, FS_Subset, FS_CardinalityType
  <2>7. Cardinality(rest) = Cardinality(left) - 1
    <3> HIDE DEF left
    <3> QED BY <1>2, <2>1, FS_RemoveElement
  <2> HIDE DEF left, rest, above
  <2>8. Cardinality(left) <= KEEP_BACKUPS
      BY <1>3, <2>3, <2>6, <2>7
  <2> QED BY <1>2, <2>8 DEF left
<1> QED BY <1>4, <1>5

LEMMA NumberFacts ==
    /\ Numbers \subseteq Int /\ 0 \in Numbers /\ Releases \subseteq Numbers /\ 1 \in Releases
    /\ \A v \in Numbers : v > 0 => v \in Releases
    /\ NoItems \in [Items -> Numbers]
    /\ \A f \in [Items -> Numbers] : f # Absent
    /\ "VERSION" \in Items /\ "manifest" \in Items /\ "manifest" # "VERSION"
<1>1. Numbers \subseteq Int /\ 0 \in Numbers /\ Releases \subseteq Numbers /\ 1 \in Releases
    BY ReleaseFacts DEF Numbers
<1>2. \A v \in Numbers : v > 0 => v \in Releases
    BY ReleaseFacts DEF Numbers
<1>3. NoItems \in [Items -> Numbers]
    BY <1>1 DEF NoItems
<1>4. ASSUME NEW f \in [Items -> Numbers] PROVE f # Absent
  <2>1. "VERSION" \in Items
      BY ReleaseFacts
  <2>2. f["VERSION"] \in 0 .. Len(Shipped) /\ Absent["VERSION"] = -1
      BY <2>1 DEF Absent, Numbers
  <2>3. f["VERSION"] # -1
      BY <2>2, ReleaseFacts
  <2> QED BY <2>2, <2>3
<1> QED BY <1>1, <1>2, <1>3, <1>4, ReleaseFacts

LEMMA UpdaterBegins == UpdaterInit => UpdInv
<1> SUFFICES ASSUME UpdaterInit PROVE UpdInv
    OBVIOUS
<1>0. /\ tree = Full(1) /\ venv = LockOf[1] /\ schema = ToSet(Migrations) \cap FilesOf(1)
      /\ backups = [v \in Numbers |-> Absent] /\ upd = Off /\ stops = 0
    BY DEF UpdaterInit, Numbers
<1>1. tree \in [Items -> Numbers] /\ tree["manifest"] = 1
    BY <1>0, NumberFacts DEF Full
<1>2. UpdKinds
    BY <1>0, <1>1, NumberFacts, OffFacts DEF UpdKinds
<1>3. UpdDisk
    BY <1>0, NumberFacts DEF UpdDisk
<1>4. UpdStages
    BY <1>0, OffFacts DEF UpdStages
<1>5. Backups = {}
    BY <1>0 DEF Backups
<1>6. Cardinality(Backups) = 0
    BY <1>5, FS_EmptySet
<1>7. UpdCount
    BY <1>0, <1>6, OffFacts, ReleasesAre DEF UpdCount
<1> QED BY <1>2, <1>3, <1>4, <1>7 DEF UpdInv

\* A step after which there are the same backups.
LEMMA SameBackups ==
    ASSUME UpdInv, Backups' = Backups, stops' \in Nat, stops' >= stops,
           upd.pc = "backup" => upd'.pc = "backup" \/ stops' > stops
    PROVE  UpdCount'
<1>1. IsFiniteSet(Backups)
  <2>1. Backups \in SUBSET Numbers
      BY DEF Backups, UpdInv, UpdKinds
  <2> QED BY <2>1, FewAreKept
<1>2. Cardinality(Backups) \in Nat /\ KEEP_BACKUPS \in Nat /\ stops \in Nat
    BY <1>1, FS_CardinalityType, ReleasesAre DEF UpdInv, UpdCount
<1>3. Cardinality(Backups) <= KEEP_BACKUPS + stops + (IF upd.pc = "backup" THEN 1 ELSE 0)
    BY DEF UpdInv, UpdCount
<1>4. CASE upd.pc = "backup"
  <2>1. Cardinality(Backups) <= KEEP_BACKUPS + stops + 1
      BY <1>3, <1>4
  <2>2. CASE upd'.pc = "backup"
    <3>1. Cardinality(Backups) <= KEEP_BACKUPS + stops' + 1
        BY <1>2, <2>1
    <3> QED BY <2>2, <3>1 DEF UpdCount
  <2>3. CASE upd'.pc # "backup"
    <3>1. stops' > stops
        BY <1>4, <2>3
    <3>2. Cardinality(Backups) <= KEEP_BACKUPS + stops' + 0
        BY <1>2, <2>1, <3>1
    <3> QED BY <2>3, <3>2 DEF UpdCount
  <2> QED BY <2>2, <2>3
<1>5. CASE upd.pc # "backup"
  <2>1. Cardinality(Backups) <= KEEP_BACKUPS + stops + 0
      BY <1>3, <1>5
  <2>2. Cardinality(Backups) <= KEEP_BACKUPS + stops' + 0 /\ Cardinality(Backups) <= KEEP_BACKUPS + stops' + 1
      BY <1>2, <2>1
  <2> QED BY <2>2 DEF UpdCount
<1> QED BY <1>4, <1>5

\* A step that leaves the tree and the backups as they are, and begins no backup and no rollback.
LEMMA QuietMoves ==
    ASSUME UpdInv, UNCHANGED <<tree, backups>>, UpdDisk', stops' \in Nat, stops' >= stops,
           \/ upd' = upd
           \/ upd' = Off /\ (upd.pc = "backup" => stops' > stops)
           \/ /\ upd'.pc \in Laying /\ upd'.new = upd.new /\ upd'.todo = upd.todo /\ upd' \in UpdRec
              /\ upd.pc \in {"extract"} \cup Laying /\ upd.todo = <<>>
    PROVE  UpdInv'
<1>1. UpdKinds'
    BY OffFacts DEF UpdInv, UpdKinds
<1>2. Backups' = Backups
    BY DEF Backups
<1>3. upd.pc = "backup" => upd'.pc = "backup" \/ stops' > stops
    BY DEF Laying
<1>4. UpdCount'
    BY <1>2, <1>3, SameBackups
<1>5. UpdStages'
  <2>1. CASE upd' = upd
      BY <2>1 DEF UpdInv, UpdStages
  <2>2. CASE upd' = Off
      BY <2>2, OffFacts DEF UpdStages
  <2>3. CASE /\ upd'.pc \in Laying /\ upd'.new = upd.new /\ upd'.todo = upd.todo
             /\ upd.pc \in {"extract"} \cup Laying /\ upd.todo = <<>>
      BY <2>3 DEF UpdInv, UpdStages, Laying
  <2> QED BY <2>1, <2>2, <2>3
<1> QED BY <1>1, <1>4, <1>5 DEF UpdInv

\* The stages of an update that lay nothing, and every way for one to end.
LEMMA StageKept ==
    ASSUME UpdInv,
           \/ ExtractDone \/ PruneDone \/ SyncRuntime \/ Migrate \/ MigrateDone
           \/ StepFails \/ Dies \/ RollbackDone \/ StartBot \/ StopBot
    PROVE  UpdInv'
<1>0. /\ UNCHANGED <<tree, backups>> /\ upd \in UpdRec /\ stops \in Nat
    BY DEF ExtractDone, PruneDone, SyncRuntime, Migrate, MigrateDone, StepFails, Dies, RollbackDone,
           StartBot, StopBot, Doing, disk, past, UpdInv, UpdKinds, UpdCount
<1>1. UpdDisk /\ (UNCHANGED <<schema, venv>> => UpdDisk')
    BY DEF UpdInv, UpdDisk
<1>2. CASE ExtractDone \/ PruneDone \/ MigrateDone
  <2>1. /\ UNCHANGED <<schema, venv, stops>>
        /\ upd.pc \in {"extract", "prune", "migrate"} /\ (upd.pc = "extract" => upd.todo = <<>>)
        /\ \E p \in Laying : upd' = [upd EXCEPT !.pc = p]
    <3>1. CASE ExtractDone
        BY <3>1 DEF ExtractDone, Doing, disk, Laying
    <3>2. CASE PruneDone
        BY <3>2 DEF PruneDone, Doing, disk, Laying
    <3>3. CASE MigrateDone
        BY <3>3 DEF MigrateDone, Doing, disk, Laying
    <3> QED BY <1>2, <3>1, <3>2, <3>3
  <2>2. upd.todo = <<>>
      BY <2>1 DEF UpdInv, UpdStages
  <2>3. /\ upd'.pc \in Laying /\ upd'.new = upd.new /\ upd'.todo = upd.todo /\ upd' \in UpdRec
        /\ upd.pc \in {"extract"} \cup Laying
      BY <1>0, <2>1 DEF UpdRec, UpdPcs, Laying
  <2>4. stops' \in Nat /\ stops' >= stops
      BY <1>0, <2>1
  <2> QED BY <1>0, <1>1, <2>1, <2>2, <2>3, <2>4, QuietMoves
<1>3. CASE SyncRuntime
  <2>1. /\ UNCHANGED <<schema, stops>> /\ upd.pc = "sync" /\ venv' = LockOf[upd.new]
        /\ upd' = [upd EXCEPT !.pc = "migrate"]
      BY <1>3 DEF SyncRuntime, Doing
  <2>2. upd.todo = <<>> /\ upd.new \in Releases
      BY <2>1 DEF UpdInv, UpdStages
  <2>3. /\ upd'.pc \in Laying /\ upd'.new = upd.new /\ upd'.todo = upd.todo /\ upd' \in UpdRec
        /\ upd.pc \in {"extract"} \cup Laying
      BY <1>0, <2>1 DEF UpdRec, UpdPcs, Laying
  <2>4. stops' \in Nat /\ stops' >= stops
      BY <1>0, <2>1
  <2>5. UpdDisk'
      BY <1>1, <2>1, <2>2 DEF UpdDisk
  <2> QED BY <1>0, <2>2, <2>3, <2>4, <2>5, QuietMoves
<1>4. CASE Migrate
  <2>1. UNCHANGED <<venv, stops, upd>> /\ Pending # {} /\ schema' = schema \cup {Lowest(Pending)}
      BY <1>4 DEF Migrate, Doing
  <2>2. Lowest(Pending) \in ToSet(Migrations)
    <3>1. Migrations \in Seq(Files)
        BY ReleasesAre
    <3>2. \E i \in DOMAIN Migrations : Migrations[i] \in Pending
        BY <2>1 DEF Pending, ToSet
    <3>3. Chosen(Migrations, Pending) \in Seq(Files \cap Pending) /\ Chosen(Migrations, Pending) # <<>>
        BY <3>1, <3>2, ChosenFacts
    <3>4. Chosen(Migrations, Pending)[1] \in Files \cap Pending
      <4> DEFINE c == Chosen(Migrations, Pending)
                 R == Files \cap Pending
      <4>1. c \in Seq(R) /\ c # <<>>
          BY <3>3
      <4> HIDE DEF c, R
      <4>2. c[1] \in R
          BY <4>1, EmptySeq, LenProperties
      <4> QED BY <4>2 DEF c, R
    <3> QED BY <3>4 DEF Lowest, Pending
  <2>3. UpdDisk'
      BY <1>1, <2>1, <2>2 DEF UpdDisk
  <2>4. stops' \in Nat /\ stops' >= stops
      BY <1>0, <2>1
  <2> QED BY <1>0, <2>1, <2>3, <2>4, QuietMoves
<1>5. CASE StepFails \/ Dies \/ RollbackDone
  <2>1. /\ UNCHANGED <<schema, venv>> /\ upd' = Off
        /\ (stops' = stops + 1 \/ (stops' = stops /\ upd.pc = "rollback"))
      BY <1>5 DEF StepFails, Dies, RollbackDone, Doing, disk
  <2>2. stops' \in Nat /\ stops' >= stops /\ (upd.pc = "backup" => stops' > stops)
      BY <1>0, <2>1
  <2> QED BY <1>0, <1>1, <2>1, <2>2, QuietMoves
<1>6. CASE StartBot \/ StopBot
  <2>1. UNCHANGED <<schema, venv, upd, stops>>
      BY <1>6 DEF StartBot, StopBot, disk
  <2>2. stops' \in Nat /\ stops' >= stops
      BY <1>0, <2>1
  <2> QED BY <1>0, <1>1, <2>1, <2>2, QuietMoves
<1> QED BY <1>2, <1>3, <1>4, <1>5, <1>6

\* Items are laid, taken away, and VERSION is written: no backup is touched.
LEMMA LayingKept ==
    ASSUME UpdInv, ExtractItem \/ PruneItem \/ EmptyVersion \/ WriteVersion
    PROVE  UpdInv'
<1>0. /\ UNCHANGED <<backups, venv, schema, stops>> /\ upd \in UpdRec
      /\ tree \in [Items -> Numbers] /\ tree["manifest"] \in Releases
      /\ upd.pc \in {"extract", "prune", "version", "written"} /\ upd.new \in Releases
    BY DEF ExtractItem, PruneItem, EmptyVersion, WriteVersion, Doing, past, UpdInv, UpdKinds, UpdStages
<1>1. Backups' = Backups /\ stops' \in Nat /\ stops' >= stops /\ UpdDisk'
    BY <1>0 DEF Backups, UpdInv, UpdCount, UpdDisk
<1>2. UpdCount'
    BY <1>0, <1>1, SameBackups
<1>3. upd.new \in Numbers /\ 0 \in Numbers
    BY <1>0, NumberFacts
<1>4. CASE ExtractItem
  <2> DEFINE h == Head(upd.todo)
  <2>1. /\ upd.pc = "extract" /\ upd.todo # <<>> /\ upd.todo \in Seq(Items)
        /\ tree' = [tree EXCEPT ![h] = upd.new] /\ upd' = [upd EXCEPT !.todo = Tail(@)]
      BY <1>0, <1>4 DEF ExtractItem, Doing, Moved, Item, UpdRec
  <2>2. h \in Items /\ Tail(upd.todo) \in Seq(Items)
      BY <2>1, ListFacts
  <2>3. tree' \in [Items -> Numbers] /\ tree'["manifest"] \in Releases
    <3> HIDE DEF h
    <3> QED BY <1>0, <1>3, <2>1, <2>2, NumberFacts
  <2>4. upd' \in UpdRec /\ upd'.pc = "extract" /\ upd'.new = upd.new
      BY <1>0, <2>1, <2>2 DEF UpdRec
  <2>5. UpdKinds'
      BY <1>0, <2>3, <2>4 DEF UpdInv, UpdKinds
  <2>6. UpdStages'
      BY <1>0, <2>4 DEF UpdStages
  <2> QED BY <1>1, <1>2, <2>5, <2>6 DEF UpdInv
<1>5. CASE PruneItem
  <2>1. upd.pc = "prune" /\ upd' = upd
      BY <1>5 DEF PruneItem, Doing
  <2>2. PICK h \in Stale : tree' = [tree EXCEPT ![h] = 0]
      BY <1>5 DEF PruneItem
  <2>3. h # "manifest"
      BY ReleaseFacts DEF FilesOf, Stale
  <2>4. tree' \in [Items -> Numbers] /\ tree'["manifest"] \in Releases
      BY <1>0, <1>3, <2>2, <2>3, NumberFacts
  <2>5. UpdKinds'
      BY <1>0, <2>1, <2>4 DEF UpdInv, UpdKinds
  <2>6. UpdStages'
      BY <1>0, <2>1 DEF UpdInv, UpdStages
  <2> QED BY <1>1, <1>2, <2>5, <2>6 DEF UpdInv
<1>6. CASE EmptyVersion
  <2>1. /\ tree' = [tree EXCEPT !["VERSION"] = 0] /\ upd' = [upd EXCEPT !.pc = "written"]
        /\ upd.pc = "version"
      BY <1>6 DEF EmptyVersion, Doing
  <2>2. upd.todo = <<>>
      BY <2>1 DEF UpdInv, UpdStages
  <2>3. tree' \in [Items -> Numbers] /\ tree'["manifest"] \in Releases
      BY <1>0, <1>3, <2>1, NumberFacts
  <2>4. upd' \in UpdRec /\ upd'.pc = "written" /\ upd'.new = upd.new /\ upd'.todo = <<>>
      BY <1>0, <2>1, <2>2 DEF UpdRec, UpdPcs
  <2>5. UpdKinds'
      BY <1>0, <2>3, <2>4 DEF UpdInv, UpdKinds
  <2>6. UpdStages'
      BY <1>0, <2>4 DEF UpdStages
  <2> QED BY <1>1, <1>2, <2>5, <2>6 DEF UpdInv
<1>7. CASE WriteVersion
  <2>1. tree' = [tree EXCEPT !["VERSION"] = upd.new] /\ upd' = Off
      BY <1>7 DEF WriteVersion
  <2>2. tree' \in [Items -> Numbers] /\ tree'["manifest"] \in Releases
      BY <1>0, <1>3, <2>1, NumberFacts
  <2>3. UpdKinds'
      BY <1>0, <2>1, <2>2, OffFacts DEF UpdInv, UpdKinds
  <2>4. UpdStages'
      BY <2>1, OffFacts DEF UpdStages
  <2> QED BY <1>1, <1>2, <2>3, <2>4 DEF UpdInv
<1> QED BY <1>4, <1>5, <1>6, <1>7

\* A backup is made item by item, and then those of the oldest releases go.
LEMMA BackupKeptTyped ==
    ASSUME UpdInv, BackupItem \/ BackupDone
    PROVE  UpdInv'
<1> DEFINE W == tree["VERSION"]
<1>0. /\ UNCHANGED <<tree, venv, schema, stops>> /\ upd \in UpdRec /\ upd.pc = "backup"
      /\ tree \in [Items -> Numbers] /\ tree["manifest"] \in Releases /\ DOMAIN backups = Numbers
      /\ \A v \in Numbers : backups[v] = Absent \/ backups[v] \in [Items -> Numbers]
      /\ upd.new \in Releases /\ backups[W] # Absent
    BY DEF BackupItem, BackupDone, Doing, past, UpdInv, UpdKinds, UpdStages
<1>1. stops' \in Nat /\ stops' >= stops /\ UpdDisk'
    BY <1>0 DEF UpdInv, UpdCount, UpdDisk
<1>2. W \in Numbers /\ backups[W] \in [Items -> Numbers]
    BY <1>0, NumberFacts
<1>3. CASE BackupItem
  <2> DEFINE h == Head(upd.todo)
             row == [backups[W] EXCEPT ![h] = tree[h]]
  <2>1. /\ upd.todo # <<>> /\ upd.todo \in Seq(Items)
        /\ upd' = [upd EXCEPT !.todo = Tail(@)]
        /\ backups' = [backups EXCEPT ![W] = row]
      BY <1>0, <1>3 DEF BackupItem, Moved, Item, UpdRec
  <2>2. h \in Items /\ Tail(upd.todo) \in Seq(Items)
      BY <2>1, ListFacts
  <2>3. row \in [Items -> Numbers]
    <3>1. tree[h] \in Numbers
        BY <1>0, <2>2
    <3> HIDE DEF h, W
    <3> QED BY <1>2, <2>2, <3>1
  <2>4. upd' \in UpdRec /\ upd'.pc = "backup" /\ upd'.new = upd.new
      BY <1>0, <2>1, <2>2 DEF UpdRec
  <2> HIDE DEF row
  <2>5. /\ DOMAIN backups' = Numbers /\ backups'[W] = row
        /\ \A v \in Numbers : v # W => backups'[v] = backups[v]
      BY <1>0, <1>2, <2>1
  <2>6. row # Absent
      BY <2>3, NumberFacts
  <2>7. \A v \in Numbers : backups'[v] = Absent \/ backups'[v] \in [Items -> Numbers]
      BY <1>0, <2>3, <2>5
  <2>8. UpdKinds'
      BY <1>0, <2>4, <2>5, <2>7 DEF UpdKinds
  <2>9. UpdStages'
      BY <1>0, <2>4, <2>5, <2>6 DEF UpdStages
  <2>10. Backups' = Backups
    <3>1. \A v \in Numbers : (backups'[v] # Absent) <=> (backups[v] # Absent)
        BY <1>0, <2>5, <2>6
    <3> QED BY <1>0, <2>5, <3>1 DEF Backups
  <2>11. UpdCount'
      BY <1>1, <2>4, <2>10, SameBackups
  <2> QED BY <1>1, <2>8, <2>9, <2>11 DEF UpdInv
<1>4. CASE BackupDone
  <2>1. /\ backups' = [v \in DOMAIN backups |-> IF v \in Pruned(Backups) THEN Absent ELSE backups[v]]
        /\ upd' = [upd EXCEPT !.pc = "extract", !.todo = Extracted(upd.new)]
      BY <1>4 DEF BackupDone
  <2>2. Extracted(upd.new) \in Seq(Items)
      BY <1>0, ExtractedFacts
  <2>3. upd' \in UpdRec /\ upd'.pc = "extract" /\ upd'.new = upd.new
      BY <1>0, <2>1, <2>2 DEF UpdRec, UpdPcs
  <2>4. /\ DOMAIN backups' = Numbers
        /\ \A v \in Numbers : backups'[v] = IF v \in Pruned(Backups) THEN Absent ELSE backups[v]
      BY <1>0, <2>1
  <2>5. UpdKinds'
      BY <1>0, <2>3, <2>4 DEF UpdKinds
  <2>6. UpdStages'
      BY <1>0, <2>3 DEF UpdStages
  <2>7. Backups' = Backups \ Pruned(Backups)
    <3>1. Backups = {v \in Numbers : backups[v] # Absent} /\ Backups' = {v \in Numbers : backups'[v] # Absent}
        BY <1>0, <2>4 DEF Backups
    <3> QED BY <2>4, <3>1
  <2>8. Backups \in SUBSET Numbers
      BY <1>0 DEF Backups
  <2>9. Cardinality(Backups') <= KEEP_BACKUPS /\ IsFiniteSet(Backups')
    <3>1. Cardinality(Backups \ Pruned(Backups)) <= KEEP_BACKUPS /\ IsFiniteSet(Backups)
        BY <2>8, FewAreKept
    <3>2. IsFiniteSet(Backups \ Pruned(Backups))
        BY <3>1, FS_Subset
    <3> QED BY <2>7, <3>1, <3>2
  <2>10. Cardinality(Backups') \in Nat /\ KEEP_BACKUPS \in Nat
      BY <2>9, FS_CardinalityType, ReleasesAre
  <2>11. Cardinality(Backups') <= KEEP_BACKUPS + stops' + 0
      BY <1>1, <2>9, <2>10
  <2>12. UpdCount'
      BY <1>1, <2>3, <2>11 DEF UpdCount
  <2> QED BY <1>1, <2>5, <2>6, <2>12 DEF UpdInv
<1> QED BY <1>3, <1>4

\* An update begins, with a backup of one release more or with none.
LEMMA ApplyKept ==
    ASSUME UpdInv, NEW new \in Releases, NEW force \in BOOLEAN, Apply_(new, force)
    PROVE  UpdInv'
<1> DEFINE W == tree["VERSION"]
           M == tree["manifest"]
           all == Shipped[M] \o <<"VERSION", "manifest">>
<1>0. /\ UNCHANGED <<tree, venv, schema, stops>> /\ upd.pc = "off"
      /\ tree \in [Items -> Numbers] /\ M \in Releases /\ DOMAIN backups = Numbers
      /\ \A v \in Numbers : backups[v] = Absent \/ backups[v] \in [Items -> Numbers]
    BY DEF Apply_, UpdInv, UpdKinds
<1>1. stops' \in Nat /\ stops' >= stops /\ UpdDisk' /\ UpdDisk
    BY <1>0 DEF UpdInv, UpdCount, UpdDisk
<1>2. W \in Numbers /\ M \in Numbers /\ new \in Numbers /\ M # 0
  <2>1. W \in Numbers /\ M \in Numbers /\ new \in Numbers
      BY <1>0, NumberFacts
  <2>2. M >= 1
      BY <1>0, ReleaseFacts
  <2> QED BY <2>1, <2>2
<1>3. Extracted(new) \in Seq(Items) /\ all \in Seq(Items)
    BY <1>0, ExtractedFacts, BackedUpFacts
<1>4. (M = 0 \/ LockOf[new] # LockOf[M]) \in BOOLEAN
    OBVIOUS
<1>5. CASE BackupKept
  <2>1. /\ upd' = [pc |-> "extract", new |-> new, old |-> M,
                   sync |-> M = 0 \/ LockOf[new] # LockOf[M], todo |-> Extracted(new)]
        /\ backups' = backups
      BY <1>5 DEF Apply_
  <2>2. upd' \in UpdRec /\ upd'.pc = "extract" /\ upd'.new = new
      BY <1>2, <1>3, <1>4, <2>1 DEF UpdRec, UpdPcs
  <2>3. UpdKinds'
      BY <1>0, <2>1, <2>2 DEF UpdKinds
  <2>4. UpdStages'
      BY <2>2 DEF UpdStages
  <2>5. Backups' = Backups
      BY <2>1 DEF Backups
  <2>6. UpdCount'
      BY <1>0, <1>1, <2>5, SameBackups
  <2> QED BY <1>1, <2>3, <2>4, <2>6 DEF UpdInv
<1>6. CASE ~BackupKept
  <2>1. /\ upd' = [pc |-> "backup", new |-> new, old |-> M,
                   sync |-> M = 0 \/ LockOf[new] # LockOf[M], todo |-> all]
        /\ backups' = [backups EXCEPT ![W] = NoItems]
      BY <1>2, <1>6 DEF Apply_
  <2> HIDE DEF all
  <2>2. upd' \in UpdRec /\ upd'.pc = "backup" /\ upd'.new = new
      BY <1>2, <1>3, <1>4, <2>1 DEF UpdRec, UpdPcs
  <2>3. NoItems \in [Items -> Numbers] /\ NoItems # Absent
      BY NumberFacts
  <2>4. /\ DOMAIN backups' = Numbers /\ backups'[W] = NoItems
        /\ \A v \in Numbers : v # W => backups'[v] = backups[v]
      BY <1>0, <1>2, <2>1
  <2>5. \A v \in Numbers : backups'[v] = Absent \/ backups'[v] \in [Items -> Numbers]
      BY <1>0, <2>3, <2>4
  <2>6. UpdKinds'
      BY <1>0, <2>2, <2>4, <2>5 DEF UpdKinds
  <2>7. UpdStages'
      BY <1>0, <2>2, <2>3, <2>4 DEF UpdStages
  <2>8. Backups' = Backups \cup {W}
    <3>1. Backups = {v \in Numbers : backups[v] # Absent} /\ Backups' = {v \in Numbers : backups'[v] # Absent}
        BY <1>0, <2>4 DEF Backups
    <3> QED BY <1>2, <2>3, <2>4, <3>1
  <2>9. IsFiniteSet(Backups)
    <3>1. Backups \in SUBSET Numbers
        BY <1>0 DEF Backups
    <3> QED BY <3>1, FewAreKept
  <2>10. Cardinality(Backups) \in Nat /\ KEEP_BACKUPS \in Nat /\ stops \in Nat
      BY <2>9, FS_CardinalityType, ReleasesAre DEF UpdInv, UpdCount
  <2>11. Cardinality(Backups') <= Cardinality(Backups) + 1
    <3>1. Cardinality(Backups \cup {W}) = IF W \in Backups THEN Cardinality(Backups) ELSE Cardinality(Backups) + 1
        BY <2>9, FS_AddElement
    <3>2. CASE W \in Backups
        BY <2>8, <2>10, <3>1, <3>2
    <3>3. CASE W \notin Backups
        BY <2>8, <2>10, <3>1, <3>3
    <3> QED BY <3>2, <3>3
  <2>12. Cardinality(Backups) <= KEEP_BACKUPS + stops + 0
      BY <1>0 DEF UpdInv, UpdCount
  <2>13. Cardinality(Backups') \in Nat
    <3>1. IsFiniteSet(Backups \cup {W})
        BY <2>9, FS_AddElement
    <3> QED BY <2>8, <3>1, FS_CardinalityType
  <2>14. Cardinality(Backups') <= KEEP_BACKUPS + stops' + 1
      BY <1>0, <1>1, <2>10, <2>11, <2>12, <2>13
  <2>15. UpdCount'
      BY <1>1, <2>2, <2>14 DEF UpdCount
  <2> QED BY <1>1, <2>6, <2>7, <2>15 DEF UpdInv
<1> QED BY <1>5, <1>6

\* A rollback puts back what the newest backup holds, and nothing else.
LEMMA RollbackKept ==
    ASSUME UpdInv, Rollback \/ RestoreItem
    PROVE  UpdInv'
<1>0. /\ UNCHANGED <<backups, venv, schema, stops>> /\ upd \in UpdRec /\ upd.pc # "backup"
      /\ tree \in [Items -> Numbers] /\ tree["manifest"] \in Releases /\ DOMAIN backups = Numbers
      /\ \A v \in Numbers : backups[v] = Absent \/ backups[v] \in [Items -> Numbers]
    BY DEF Rollback, RestoreItem, Doing, disk, past, UpdInv, UpdKinds
<1>1. Backups' = Backups /\ stops' \in Nat /\ stops' >= stops /\ UpdDisk'
    BY <1>0 DEF Backups, UpdInv, UpdCount, UpdDisk
<1>2. UpdCount'
    BY <1>0, <1>1, SameBackups
<1>3. CASE Rollback
  <2>1. /\ Backups # {} /\ UNCHANGED tree
        /\ \E order \in SetToSeqs({i \in Items : backups[Newest_][i] > 0}) :
               upd' = [Off EXCEPT !.pc = "rollback", !.new = Newest_, !.todo = order]
      BY <1>3 DEF Rollback, disk
  <2>2. Newest_ \in Numbers
    <3>1. Backups \in SUBSET (0 .. Len(Shipped)) /\ Len(Shipped) \in Nat
        BY <1>0, ReleaseFacts DEF Backups, Numbers
    <3>2. PICK x \in Backups : \A y \in Backups : y <= x
        BY <2>1, <3>1, Greatest
    <3>3. \A y \in Backups : x >= y
        BY <3>1, <3>2
    <3>4. Newest_ \in Backups
        BY <3>3 DEF Newest_, Max
    <3> QED BY <3>1, <3>4 DEF Numbers
  <2> DEFINE held == {i \in Items : backups[Newest_][i] > 0}
  <2>3. PICK order \in SetToSeqs(held) : upd' = [Off EXCEPT !.pc = "rollback", !.new = Newest_, !.todo = order]
      BY <2>1
  <2>4. IsFiniteSet(held)
      BY ItemsAreFinite, FS_Subset
  <2>5. order \in Seq(held) /\ ToSet(order) = held
      BY <2>4, OrderFacts
  <2>6. order \in Seq(Items)
      BY <2>5
  <2>7. upd' \in UpdRec /\ upd'.pc = "rollback" /\ upd'.new = Newest_ /\ upd'.todo = order
      BY <2>2, <2>3, <2>6, OffFacts DEF UpdRec, UpdPcs
  <2>8. UpdKinds'
      BY <1>0, <2>1, <2>7 DEF UpdKinds
  <2>9. UpdStages'
      BY <1>0, <2>5, <2>7 DEF UpdStages
  <2> QED BY <1>1, <1>2, <2>8, <2>9 DEF UpdInv
<1>4. CASE RestoreItem
  <2> DEFINE h == Head(upd.todo)
             row == backups[upd.new]
  <2>1. /\ upd.pc = "rollback" /\ upd.todo # <<>> /\ upd.todo \in Seq(Items) /\ upd.new \in Numbers
        /\ tree' = [tree EXCEPT ![h] = row[h]] /\ upd' = [upd EXCEPT !.todo = Tail(@)]
      BY <1>0, <1>4 DEF RestoreItem, Doing, Moved, Item, UpdRec
  <2>2. /\ h \in Items /\ Tail(upd.todo) \in Seq(Items)
        /\ ToSet(upd.todo) = ToSet(Tail(upd.todo)) \cup {h}
      BY <2>1, ListFacts
  <2>3. \A i \in ToSet(upd.todo) : row[i] > 0
      BY <2>1 DEF UpdInv, UpdStages
  <2>4. row[h] \in Numbers /\ row[h] > 0
    <3>1. row = Absent \/ row \in [Items -> Numbers]
        BY <1>0, <2>1
    <3>2. row[h] > 0
        BY <2>2, <2>3
    <3>3. row # Absent
      <4> SUFFICES ASSUME row = Absent PROVE FALSE
          OBVIOUS
      <4>1. row[h] = -1
          BY <2>2 DEF Absent
      <4> QED BY <3>2, <4>1
    <3>4. row \in [Items -> Numbers]
        BY <3>1, <3>3
    <3>5. row[h] \in Numbers
        BY <2>2, <3>4
    <3> QED BY <3>2, <3>5
  <2>5. row[h] \in Releases
      BY <2>4, NumberFacts
  <2>6. tree' \in [Items -> Numbers] /\ tree'["manifest"] \in Releases
    <3> HIDE DEF h, row
    <3> QED BY <1>0, <2>1, <2>2, <2>4, <2>5, NumberFacts
  <2>7. upd' \in UpdRec /\ upd'.pc = "rollback" /\ upd'.new = upd.new /\ upd'.todo = Tail(upd.todo)
      BY <1>0, <2>1, <2>2 DEF UpdRec
  <2>8. UpdKinds'
      BY <1>0, <2>6, <2>7 DEF UpdKinds
  <2>9. UpdStages'
      BY <1>0, <2>2, <2>3, <2>7 DEF UpdStages
  <2> QED BY <1>1, <1>2, <2>8, <2>9 DEF UpdInv
<1> QED BY <1>3, <1>4

LEMMA UpdaterKept == UpdaterSpec => []UpdInv
<1>1. ASSUME UpdInv, [UpdaterNext]_updVars PROVE UpdInv'
  <2>1. CASE UNCHANGED updVars
      BY <1>1, <2>1 DEF updVars, UpdInv, UpdKinds, UpdDisk, UpdStages, UpdCount, Backups
  <2>2. CASE UpdaterNext
      BY <1>1, <2>2, StageKept, LayingKept, BackupKeptTyped, ApplyKept, RollbackKept DEF UpdaterNext
  <2> QED BY <1>1, <2>1, <2>2
<1> QED BY <1>1, UpdaterBegins, PTL DEF UpdaterSpec

\* Whatever releases there are, and wherever updates and rollbacks fail, die or are tried again:
\* nothing stands in the tree, a backup or the list of migrations that no release ships, nothing is
\* left to do outside the stages that copy, and there are no more backups than are kept, but for one
\* that is being made and one for every run that has died.
THEOREM UpdaterTypeCorrect == UpdaterSpec => []UpdaterTypeOK
<1>1. ASSUME UpdInv PROVE UpdaterTypeOK
  <2>1. DOMAIN backups = Numbers /\ tree \in [Items -> 0 .. Len(Shipped)]
      BY <1>1 DEF UpdInv, UpdKinds, Numbers
  <2>2. \A v \in DOMAIN backups : backups[v] = Absent \/ backups[v] \in [Items -> 0 .. Len(Shipped)]
      BY <1>1, <2>1 DEF UpdInv, UpdKinds, Numbers
  <2>3. upd.pc \in UpdPcs
      BY <1>1 DEF UpdInv, UpdKinds, UpdRec
  <2> QED BY <1>1, <2>1, <2>2, <2>3 DEF UpdInv, UpdDisk, UpdStages, UpdCount, UpdPcs, UpdaterTypeOK
<1> QED BY <1>1, UpdaterKept, PTL

----------------------------------------------------------------------------
(* Groceries: one line for every product                                   *)

Entry == [at : Nat, name : Products, done : BOOLEAN]
Accs == [lines : Seq(Lines), known : Seq(Entry), added : Seq(Products)]

\* The one line that a name means has that name, or a form of it; a name that stands on the page
\* once is never without its line.
LEMMA MatchFacts ==
    ASSUME NEW known \in Seq(Entry), NEW name
    PROVE  /\ MatchingLine(name, known) # <<>> =>
                  /\ MatchingLine(name, known)[1] \in ToSet(known)
                  /\ SameProduct(name, MatchingLine(name, known)[1].name)
           /\ MatchingLine(name, known) = <<>> =>
                  Len(Chosen(known, {l \in ToSet(known) : l.name = name})) # 1
<1> DEFINE A == {l \in ToSet(known) : l.name = name}
           B == {l \in ToSet(known) : SameProduct(name, l.name)}
           exact == Chosen(known, A)
           close == Chosen(known, B)
           hits == IF exact # <<>> THEN exact ELSE close
<1>1. exact \in Seq(Entry \cap A) /\ close \in Seq(Entry \cap B)
    BY ChosenFacts
<1>2. MatchingLine(name, known) = IF Len(hits) = 1 THEN hits ELSE <<>>
    BY DEF MatchingLine
<1>3. \A l \in A \cup B : l \in ToSet(known) /\ SameProduct(name, l.name)
    BY DEF SameProduct
<1> HIDE DEF A, B, exact, close
<1>4. exact # <<>> => Len(exact) \in Nat /\ (Len(exact) = 1 => exact[1] \in A)
  <2> DEFINE R == Entry \cap A
  <2>1. exact \in Seq(R) /\ \A e \in R : e \in A
      BY <1>1
  <2> HIDE DEF R
  <2> QED BY <2>1, EntryFacts
<1>5. Len(close) = 1 => close[1] \in B
  <2> DEFINE R == Entry \cap B
  <2>1. close \in Seq(R) /\ \A e \in R : e \in B
      BY <1>1
  <2> HIDE DEF R
  <2> QED BY <2>1, EntryFacts
<1>6. Len(<<>>) = 0
    OBVIOUS
<1>7. MatchingLine(name, known) # <<>> => MatchingLine(name, known)[1] \in A \cup B
    BY <1>2, <1>4, <1>5
<1>8. MatchingLine(name, known) = <<>> => Len(exact) # 1
    BY <1>2, <1>6
<1> QED BY <1>3, <1>7, <1>8 DEF A, exact

\* No two of the names are forms of one product.
Apart(names) == \A i, j \in DOMAIN names : SameProduct(names[i], names[j]) => i = j

\* What the loop over the names keeps to: it changes the lines that were asked for, in their places;
\* what it has yet to add was asked for, once, and did not stand on the page once.
Held(acc, lines, names, done) ==
    /\ acc \in Accs
    /\ Len(acc.lines) = Len(lines) /\ Len(acc.known) = Len(lines)
    /\ \A i \in 1 .. Len(lines) :
           /\ acc.known[i].at = i /\ acc.known[i].name = lines[i].name /\ acc.lines[i].name = lines[i].name
           /\ \/ acc.lines[i] = lines[i]
              \/ acc.lines[i].done = done /\ \E n \in ToSet(names) : SameProduct(n, lines[i].name)
    /\ \A m \in ToSet(acc.added) : m \in ToSet(names) /\ TimesListed(m, lines) # 1
    /\ Apart(acc.added)

\* A name of which the page has what was asked for, or will have it.
Met(acc, name, lines, done) ==
    \/ \E i \in 1 .. Len(lines) : SameProduct(name, lines[i].name) /\ acc.lines[i].done = done
    \/ \E other \in ToSet(acc.added) : SameProduct(name, other)

LEMMA OneNameFacts ==
    ASSUME NEW lines \in Seq(Lines), NEW names \in Seq(Products), NEW done \in BOOLEAN,
           NEW acc, Held(acc, lines, names, done), NEW name \in ToSet(names)
    PROVE  /\ Held(OneName(acc, name, done), lines, names, done)
           /\ Met(OneName(acc, name, done), name, lines, done)
           /\ \A m : Met(acc, m, lines, done) => Met(OneName(acc, name, done), m, lines, done)
<1> DEFINE n == Len(lines)
           found == MatchingLine(name, acc.known)
           next == OneName(acc, name, done)
<1>1. n \in Nat /\ DOMAIN lines = 1 .. n /\ \A i \in 1 .. n : lines[i] \in Lines
    BY EntryFacts
<1>2. /\ acc.lines \in Seq(Lines) /\ acc.known \in Seq(Entry) /\ acc.added \in Seq(Products)
      /\ acc = [lines |-> acc.lines, known |-> acc.known, added |-> acc.added]
      /\ Len(acc.lines) = n /\ Len(acc.known) = n
    BY DEF Held, Accs
<1>3. /\ \A i \in 1 .. n :
             /\ acc.known[i].at = i /\ acc.known[i].name = lines[i].name /\ acc.lines[i].name = lines[i].name
             /\ \/ acc.lines[i] = lines[i]
                \/ acc.lines[i].done = done /\ \E p \in ToSet(names) : SameProduct(p, lines[i].name)
      /\ \A m \in ToSet(acc.added) : m \in ToSet(names) /\ TimesListed(m, lines) # 1
      /\ Apart(acc.added)
    BY DEF Held
<1>4. /\ DOMAIN acc.lines = 1 .. n /\ DOMAIN acc.known = 1 .. n
      /\ \A i \in 1 .. n : acc.lines[i] \in Lines /\ acc.known[i] \in Entry
    BY <1>2, EntryFacts
<1>5. name \in Products
  <2>1. \A i \in DOMAIN names : names[i] \in Products
      BY EntryFacts
  <2> QED BY <2>1 DEF ToSet
<1>6. /\ found # <<>> => found[1] \in ToSet(acc.known) /\ SameProduct(name, found[1].name)
      /\ found = <<>> => Len(Chosen(acc.known, {l \in ToSet(acc.known) : l.name = name})) # 1
    BY <1>2, MatchFacts
<1>7. CASE found # <<>>
  <2>1. PICK i \in 1 .. n : acc.known[i] = found[1]
      BY <1>4, <1>6, <1>7 DEF ToSet
  <2>2. found[1].at = i /\ found[1].name = lines[i].name /\ SameProduct(name, lines[i].name)
      BY <1>3, <1>6, <1>7, <2>1
  <2> DEFINE line == ProductLine(found[1].name, done)
             known == [j \in DOMAIN acc.known |->
                          IF acc.known[j].at = found[1].at THEN [acc.known[j] EXCEPT !.done = done] ELSE acc.known[j]]
  <2>3. next = [acc EXCEPT !.lines[found[1].at] = line, !.known = known]
      BY <1>7 DEF OneName
  <2>4. line \in Lines /\ line.name = lines[i].name /\ line.done = done
    <3>1. lines[i].name \in Products
        BY <1>1 DEF Lines
    <3> QED BY <2>2, <3>1 DEF ProductLine, Lines
  <2>5. /\ known \in Seq(Entry) /\ Len(known) = n
        /\ \A j \in 1 .. n : known[j].at = j /\ known[j].name = lines[j].name
    <3>1. ASSUME NEW j \in 1 .. n PROVE known[j] \in Entry /\ known[j].at = j /\ known[j].name = lines[j].name
      <4>1. acc.known[j] \in Entry
          BY <1>4
      <4>2. /\ [acc.known[j] EXCEPT !.done = done] \in Entry
            /\ [acc.known[j] EXCEPT !.done = done].at = acc.known[j].at
            /\ [acc.known[j] EXCEPT !.done = done].name = acc.known[j].name
          BY <4>1 DEF Entry
      <4> QED BY <1>3, <1>4, <4>1, <4>2
    <3>2. known \in [1 .. n -> Entry]
      <4>1. DOMAIN known = 1 .. n /\ known = [j \in 1 .. n |-> known[j]]
          BY <1>4
      <4> QED BY <3>1, <4>1
    <3> HIDE DEF known
    <3> QED BY <1>1, <3>1, <3>2, SeqDef, LenProperties
  <2> DEFINE text == [acc.lines EXCEPT ![i] = line]
  <2>6. /\ text \in Seq(Lines) /\ DOMAIN text = 1 .. n /\ Len(text) = n
        /\ text[i] = line /\ \A j \in 1 .. n : j # i => text[j] = acc.lines[j]
    <3> HIDE DEF line
    <3>1. /\ text \in Seq(Lines) /\ DOMAIN text = 1 .. n
          /\ text[i] = line /\ \A j \in 1 .. n : j # i => text[j] = acc.lines[j]
        BY <1>2, <1>4, <2>4, ChangeFacts
    <3> QED BY <1>1, <3>1, LenProperties
  <2> HIDE DEF line, known
  <2>7. next = [lines |-> text, known |-> known, added |-> acc.added]
      BY <1>2, <2>2, <2>3
  <2>8. next.lines = text /\ next.known = known /\ next.added = acc.added /\ next \in Accs
    <3> HIDE DEF text
    <3> QED BY <1>2, <2>5, <2>6, <2>7 DEF Accs
  <2> HIDE DEF text, next
  <2>9. ASSUME NEW j \in 1 .. n
        PROVE  /\ text[j].name = lines[j].name
               /\ text[j] = lines[j] \/ (text[j].done = done /\ \E p \in ToSet(names) : SameProduct(p, lines[j].name))
               /\ acc.lines[j].done = done => text[j].done = done
    <3>1. CASE j = i
        BY <2>2, <2>4, <2>6, <3>1
    <3>2. CASE j # i
        BY <1>3, <2>6, <3>2
    <3> QED BY <3>1, <3>2
  <2>10. Held(next, lines, names, done)
      BY <1>3, <2>5, <2>6, <2>8, <2>9 DEF Held
  <2>11. Met(next, name, lines, done)
      BY <2>2, <2>4, <2>6, <2>8 DEF Met
  <2>12. \A m : Met(acc, m, lines, done) => Met(next, m, lines, done)
      BY <2>8, <2>9 DEF Met
  <2> QED BY <2>10, <2>11, <2>12 DEF next
<1>8. CASE found = <<>> /\ \E other \in ToSet(acc.added) : SameProduct(name, other)
  <2>1. next = acc
      BY <1>8 DEF OneName
  <2>2. Met(next, name, lines, done)
      BY <1>8, <2>1 DEF Met
  <2> QED BY <2>1, <2>2
<1>9. CASE found = <<>> /\ ~ \E other \in ToSet(acc.added) : SameProduct(name, other)
  <2> DEFINE added == Append(acc.added, name)
  <2>1. next = [acc EXCEPT !.added = added]
      BY <1>9 DEF OneName
  <2>2. added \in Seq(Products) /\ ToSet(added) = ToSet(acc.added) \cup {name} /\ Apart(added)
    <3>1. /\ added \in Seq(Products) /\ DOMAIN added = DOMAIN acc.added \cup {Len(acc.added) + 1}
          /\ added[Len(acc.added) + 1] = name /\ \A j \in DOMAIN acc.added : added[j] = acc.added[j]
        BY <1>2, <1>5, GrowthFacts
    <3> HIDE DEF added
    <3>2. \A j \in DOMAIN acc.added : ~ SameProduct(name, acc.added[j]) /\ ~ SameProduct(acc.added[j], name)
      <4>1. \A j \in DOMAIN acc.added : acc.added[j] \in ToSet(acc.added)
          BY DEF ToSet
      <4>2. \A m : SameProduct(m, name) => SameProduct(name, m)
          BY DEF SameProduct
      <4> QED BY <1>9, <4>1, <4>2
    <3>3. Apart(added)
        BY <1>3, <3>1, <3>2 DEF Apart
    <3> QED BY <3>1, <3>3 DEF ToSet
  <2> HIDE DEF added
  <2>3. next.lines = acc.lines /\ next.known = acc.known /\ next.added = added /\ next \in Accs
      BY <1>2, <2>1, <2>2 DEF Accs
  <2>4. TimesListed(name, lines) # 1
    <3> DEFINE A == {l \in ToSet(acc.known) : l.name = name}
               B == {l \in Lines : l.name = name}
    <3>1. \A k \in 1 .. n : acc.known[k] \in A <=> lines[k] \in B
        BY <1>1, <1>3, <1>4 DEF ToSet
    <3>2. Len(Chosen(acc.known, A)) # 1
        BY <1>6, <1>9
    <3>3. TimesListed(name, lines) = Len(Chosen(lines, B))
        BY DEF TimesListed
    <3> HIDE DEF A, B
    <3>4. Len(Chosen(acc.known, A)) = Len(Chosen(lines, B))
        BY <1>2, <3>1, ChosenAlike
    <3> QED BY <3>2, <3>3, <3>4
  <2>5. SameProduct(name, name)
      BY DEF SameProduct
  <2> HIDE DEF next
  <2>6. Held(next, lines, names, done)
      BY <1>2, <1>3, <2>2, <2>3, <2>4 DEF Held
  <2>7. Met(next, name, lines, done)
      BY <2>2, <2>3, <2>5 DEF Met
  <2>8. \A m : Met(acc, m, lines, done) => Met(next, m, lines, done)
      BY <2>2, <2>3 DEF Met
  <2> QED BY <2>6, <2>7, <2>8 DEF next
<1> QED BY <1>7, <1>8, <1>9

\* The loop over all the names.
LEMMA LoopedFacts ==
    ASSUME NEW lines \in Seq(Lines), NEW names \in Seq(Products), NEW done \in BOOLEAN
    PROVE  /\ Held(Looped(lines, names, done), lines, names, done)
           /\ \A name \in ToSet(names) : Met(Looped(lines, names, done), name, lines, done)
<1> DEFINE n == Len(names)
           S == {acc \in Accs : Held(acc, lines, names, done)}
           first == [lines |-> lines, known |-> KnownLines(lines), added |-> <<>>]
           Next_(acc, k) == OneName(acc, names[k], done)
           Def(f) == [k \in 0 .. n |-> IF k = 0 THEN first ELSE OneName(f[k - 1], names[k], done)]
           step == [p \in (1 .. n) \X S |-> Next_(p[2], p[1])]
<1>1. n \in Nat /\ DOMAIN names = 1 .. n
    BY EntryFacts
<1>2. \A k \in 1 .. n : names[k] \in ToSet(names)
    BY <1>1 DEF ToSet
<1>3. first \in S
  <2>1. Len(lines) \in Nat /\ DOMAIN lines = 1 .. Len(lines) /\ \A i \in 1 .. Len(lines) : lines[i] \in Lines
      BY EntryFacts
  <2> DEFINE known == KnownLines(lines)
  <2>2. known = [i \in 1 .. Len(lines) |-> [at |-> i, name |-> lines[i].name, done |-> lines[i].done]]
      BY <2>1 DEF KnownLines
  <2>3. \A i \in 1 .. Len(lines) :
            [at |-> i, name |-> lines[i].name, done |-> lines[i].done] \in Entry
      BY <2>1 DEF Entry, Lines
  <2>4. known \in [1 .. Len(lines) -> Entry]
      BY <2>2, <2>3
  <2>5. known \in Seq(Entry) /\ Len(known) = Len(lines)
    <3> HIDE DEF known
    <3> QED BY <2>1, <2>4, SeqDef, LenProperties
  <2>6. \A i \in 1 .. Len(lines) : known[i].at = i /\ known[i].name = lines[i].name
      BY <2>2
  <2> HIDE DEF known
  <2>7. first.lines = lines /\ first.known = known /\ first.added = <<>> /\ <<>> \in Seq(Products) /\ ToSet(<<>>) = {}
      BY DEF known, ToSet
  <2>8. first \in Accs
      BY <2>5, <2>7 DEF Accs, known
  <2> HIDE DEF first
  <2>9. Apart(<<>>)
      BY DEF Apart
  <2> QED BY <2>5, <2>6, <2>7, <2>8, <2>9 DEF Held
<1>4. ASSUME NEW k \in 1 .. n, NEW acc \in S
      PROVE  /\ Next_(acc, k) \in S
             /\ Met(Next_(acc, k), names[k], lines, done)
             /\ \A m : Met(acc, m, lines, done) => Met(Next_(acc, k), m, lines, done)
  <2>1. Held(acc, lines, names, done) /\ names[k] \in ToSet(names)
      BY <1>2
  <2>2. /\ Held(OneName(acc, names[k], done), lines, names, done)
        /\ Met(OneName(acc, names[k], done), names[k], lines, done)
        /\ \A m : Met(acc, m, lines, done) => Met(OneName(acc, names[k], done), m, lines, done)
      BY <2>1, OneNameFacts
  <2> QED BY <2>2 DEF Held
<1> HIDE DEF S, first, Next_
<1>5. step \in [(1 .. n) \X S -> S]
    BY <1>4
<1>6. PICK F \in [0 .. n -> S] : F[0] = first /\ \A i \in 1 .. n : F[i] = step[<<i, F[i - 1]>>]
  <2>1. \E F \in [0 .. n -> S] : Recurs(F, n, first, step)
    <3> HIDE DEF n, step
    <3> QED BY <1>1, <1>3, <1>5, Recursion
  <2> QED BY <2>1 DEF Recurs
<1>7. ASSUME NEW k \in 1 .. n PROVE F[k] = Next_(F[k - 1], k) /\ F[k - 1] \in S
  <2>1. k - 1 \in 0 .. n
      BY <1>1
  <2>2. <<k, F[k - 1]>> \in (1 .. n) \X S
      BY <2>1
  <2> QED BY <1>6, <2>2
<1>8. \E f : f = Def(f)
  <2>1. ASSUME NEW k \in 0 .. n PROVE F[k] = IF k = 0 THEN first ELSE OneName(F[k - 1], names[k], done)
    <3>1. k # 0 => k \in 1 .. n
        BY <1>1
    <3> QED BY <1>6, <1>7, <3>1 DEF Next_
  <2>2. F = Def(F)
      BY <2>1
  <2> HIDE DEF Def
  <2> QED BY <2>2
<1> DEFINE f == CHOOSE g : g = Def(g)
<1>9. f = Def(f)
  <2> HIDE DEF Def
  <2> QED BY <1>8
<1>10. Looped(lines, names, done) = f[n]
    BY DEF Looped, first
<1> HIDE DEF f
<1>11. f[0] = first /\ \A k \in 1 .. n : f[k] = Next_(f[k - 1], k)
  <2>1. \A k \in 0 .. n : f[k] = IF k = 0 THEN first ELSE OneName(f[k - 1], names[k], done)
      BY <1>9
  <2>2. 0 \in 0 .. n /\ \A k \in 1 .. n : k \in 0 .. n /\ k # 0
      BY <1>1
  <2> QED BY <2>1, <2>2 DEF Next_
<1> DEFINE T == {k \in 0 .. n : f[k] \in S /\ \A j \in 1 .. k : Met(f[k], names[j], lines, done)}
<1>12. 0 \in T
    BY <1>1, <1>3, <1>11
<1>13. ASSUME NEW k \in 1 .. n, k - 1 \in T PROVE k \in T
  <2>1. f[k - 1] \in S /\ f[k] = Next_(f[k - 1], k) /\ \A j \in 1 .. k - 1 : Met(f[k - 1], names[j], lines, done)
      BY <1>11, <1>13
  <2>2. /\ f[k] \in S /\ Met(f[k], names[k], lines, done)
        /\ \A m : Met(f[k - 1], m, lines, done) => Met(f[k], m, lines, done)
      BY <1>4, <2>1
  <2>3. \A j \in 1 .. k : j = k \/ j \in 1 .. k - 1
      OBVIOUS
  <2>4. k \in 0 .. n
      BY <1>1
  <2> QED BY <2>1, <2>2, <2>3, <2>4
<1>14. \A k \in 0 .. n : k \in T
  <2> HIDE DEF T
  <2> QED BY <1>1, <1>12, <1>13, Climb
<1>15. f[n] \in S /\ \A j \in 1 .. n : Met(f[n], names[j], lines, done)
  <2>1. n \in 0 .. n
      BY <1>1
  <2> QED BY <1>14, <2>1
<1> QED BY <1>1, <1>10, <1>15 DEF S, ToSet

\* A line put in where it sorts: no other is changed or moved.
LEMMA SortedFacts ==
    ASSUME NEW lines \in Seq(Lines), NEW new \in Lines
    PROVE  /\ InsertSorted(lines, new) \in Seq(Lines)
           /\ ToSet(InsertSorted(lines, new)) = ToSet(lines) \cup {new}
           /\ \A A : /\ new \notin A => Chosen(InsertSorted(lines, new), A) = Chosen(lines, A)
                     /\ new \in A => Len(Chosen(InsertSorted(lines, new), A)) = Len(Chosen(lines, A)) + 1
<1> DEFINE behind == {i \in DOMAIN lines : SortKey(lines[i].name) > SortKey(new.name)}
           slot == IF behind = {} THEN Len(lines) + 1 ELSE CHOOSE i \in behind : \A j \in behind : i <= j
<1>1. Len(lines) \in Nat /\ DOMAIN lines = 1 .. Len(lines)
    BY EntryFacts
<1>2. behind \subseteq DOMAIN lines
    OBVIOUS
<1>3. InsertSorted(lines, new) = InsertAt(lines, slot, new)
    BY DEF InsertSorted
<1> HIDE DEF behind
<1>4. slot \in 1 .. Len(lines) + 1
  <2>1. CASE behind = {}
      BY <1>1, <2>1
  <2>2. CASE behind # {}
    <3>1. behind \in SUBSET Nat
        BY <1>1, <1>2
    <3>2. \E i \in behind : \A j \in behind : i <= j
        BY <2>2, <3>1, Least
    <3>3. (CHOOSE i \in behind : \A j \in behind : i <= j) \in behind
        BY <3>2
    <3> QED BY <1>1, <1>2, <2>2, <3>3
  <2> QED BY <2>1, <2>2
<1> HIDE DEF slot
<1> QED BY <1>3, <1>4, InsertFacts, ChosenInsert

\* The new products, put in one after the other.
LEMMA WithNewFacts ==
    ASSUME NEW lines \in Seq(Lines), NEW names \in Seq(Products), NEW done \in BOOLEAN
    PROVE  /\ WithNew(lines, names, done) \in Seq(Lines)
           /\ ToSet(WithNew(lines, names, done)) = ToSet(lines) \cup {ProductLine(m, done) : m \in ToSet(names)}
           /\ \A A : Len(Chosen(WithNew(lines, names, done), A)) >= Len(Chosen(lines, A))
           /\ \A A : (\A m \in ToSet(names) : ProductLine(m, done) \notin A)
                        => Chosen(WithNew(lines, names, done), A) = Chosen(lines, A)
           /\ \A A : (\A i, j \in DOMAIN names :
                         ProductLine(names[i], done) \in A /\ ProductLine(names[j], done) \in A => i = j)
                        => Len(Chosen(WithNew(lines, names, done), A)) <= Len(Chosen(lines, A)) + 1
<1> DEFINE n == Len(names)
           new(k) == ProductLine(names[k], done)
           Def(f) == [k \in 0 .. n |-> IF k = 0 THEN lines ELSE InsertSorted(f[k - 1], ProductLine(names[k], done))]
           R == Seq(Lines)
           step == [p \in (1 .. n) \X R |-> InsertSorted(p[2], new(p[1]))]
<1>1. n \in Nat /\ DOMAIN names = 1 .. n /\ \A k \in 1 .. n : names[k] \in Products
    BY EntryFacts
<1>2. \A k \in 1 .. n : new(k) \in Lines
    BY <1>1 DEF ProductLine, Lines
<1>3. ASSUME NEW k \in 1 .. n, NEW page_ \in R PROVE InsertSorted(page_, new(k)) \in R
    BY <1>2, SortedFacts
<1> HIDE DEF R, new
<1>4. step \in [(1 .. n) \X R -> R]
    BY <1>3
<1>5. lines \in R
    BY DEF R
<1>6. PICK F \in [0 .. n -> R] : F[0] = lines /\ \A i \in 1 .. n : F[i] = step[<<i, F[i - 1]>>]
  <2>1. \E F \in [0 .. n -> R] : Recurs(F, n, lines, step)
    <3> HIDE DEF n, step
    <3> QED BY <1>1, <1>4, <1>5, Recursion
  <2> QED BY <2>1 DEF Recurs
<1>7. ASSUME NEW k \in 1 .. n PROVE F[k] = InsertSorted(F[k - 1], new(k))
  <2>1. k - 1 \in 0 .. n
      BY <1>1
  <2>2. <<k, F[k - 1]>> \in (1 .. n) \X R
      BY <2>1
  <2> QED BY <1>6, <2>2
<1>8. \E f : f = Def(f)
  <2>1. ASSUME NEW k \in 0 .. n
        PROVE  F[k] = IF k = 0 THEN lines ELSE InsertSorted(F[k - 1], ProductLine(names[k], done))
    <3>1. k # 0 => k \in 1 .. n
        BY <1>1
    <3> QED BY <1>6, <1>7, <3>1 DEF new
  <2>2. F = Def(F)
      BY <2>1
  <2> HIDE DEF Def
  <2> QED BY <2>2
<1> DEFINE f == CHOOSE g : g = Def(g)
<1>9. f = Def(f)
  <2> HIDE DEF Def
  <2> QED BY <1>8
<1>10. WithNew(lines, names, done) = f[n]
    BY DEF WithNew
<1> HIDE DEF f
<1>11. f[0] = lines /\ \A k \in 1 .. n : f[k] = InsertSorted(f[k - 1], new(k))
  <2>1. \A k \in 0 .. n : f[k] = IF k = 0 THEN lines ELSE InsertSorted(f[k - 1], ProductLine(names[k], done))
      BY <1>9
  <2>2. 0 \in 0 .. n /\ \A k \in 1 .. n : k \in 0 .. n /\ k # 0
      BY <1>1
  <2> QED BY <2>1, <2>2 DEF new
<1> DEFINE Grown(k) ==
               /\ f[k] \in R
               /\ ToSet(f[k]) = ToSet(lines) \cup {new(j) : j \in 1 .. k}
               /\ \A A : Len(Chosen(f[k], A)) \in Nat /\ Len(Chosen(f[k], A)) >= Len(Chosen(lines, A))
               /\ \A A : (\A j \in 1 .. k : new(j) \notin A) => Chosen(f[k], A) = Chosen(lines, A)
               /\ \A A : (\A i, j \in 1 .. k : new(i) \in A /\ new(j) \in A => i = j)
                            => Len(Chosen(f[k], A)) <= Len(Chosen(lines, A)) + 1
           T == {k \in 0 .. n : Grown(k)}
<1>12. ASSUME NEW s \in R, NEW A PROVE Len(Chosen(s, A)) \in Nat
  <2>1. s \in Seq(Lines)
      BY DEF R
  <2>2. Chosen(s, A) \in Seq(Lines \cap A)
      BY <2>1, ChosenFacts
  <2> DEFINE L == Lines \cap A
  <2> HIDE DEF L
  <2>3. Chosen(s, A) \in Seq(L)
      BY <2>2 DEF L
  <2> QED BY <2>3, EntryFacts
<1>13. 0 \in T
  <2>1. 0 \in 0 .. n /\ {new(j) : j \in 1 .. 0} = {}
      BY <1>1
  <2>2. ASSUME NEW A
        PROVE  /\ Len(Chosen(f[0], A)) \in Nat /\ Len(Chosen(f[0], A)) >= Len(Chosen(lines, A))
               /\ Len(Chosen(f[0], A)) <= Len(Chosen(lines, A)) + 1 /\ Chosen(f[0], A) = Chosen(lines, A)
    <3>1. Len(Chosen(lines, A)) \in Nat /\ f[0] = lines
        BY <1>5, <1>11, <1>12
    <3> QED BY <3>1
  <2>3. Grown(0)
      BY <1>5, <1>11, <2>1, <2>2
  <2> QED BY <2>1, <2>3
<1>14. ASSUME NEW k \in 1 .. n, k - 1 \in T PROVE k \in T
  <2>1. Grown(k - 1) /\ f[k] = InsertSorted(f[k - 1], new(k)) /\ new(k) \in Lines /\ f[k - 1] \in Seq(Lines)
      BY <1>2, <1>11, <1>14 DEF R, new
  <2>2. /\ f[k] \in R
        /\ ToSet(f[k]) = ToSet(f[k - 1]) \cup {new(k)}
        /\ \A A : /\ new(k) \notin A => Chosen(f[k], A) = Chosen(f[k - 1], A)
                  /\ new(k) \in A => Len(Chosen(f[k], A)) = Len(Chosen(f[k - 1], A)) + 1
    <3> DEFINE old == f[k - 1]
               e == new(k)
               page_ == InsertSorted(old, e)
    <3>1. old \in Seq(Lines) /\ e \in Lines /\ f[k] = page_
        BY <2>1
    <3> HIDE DEF old, e
    <3>2. /\ page_ \in Seq(Lines)
          /\ ToSet(page_) = ToSet(old) \cup {e}
          /\ \A A : /\ e \notin A => Chosen(page_, A) = Chosen(old, A)
                    /\ e \in A => Len(Chosen(page_, A)) = Len(Chosen(old, A)) + 1
        BY <3>1, SortedFacts
    <3> HIDE DEF page_
    <3> QED BY <3>1, <3>2 DEF R, old, e
  <2>3. k \in 0 .. n /\ k \in 1 .. k /\ (\A j \in 1 .. k - 1 : j \in 1 .. k) /\ \A j \in 1 .. k : j = k \/ j \in 1 .. k - 1
      BY <1>1
  <2>4. {new(j) : j \in 1 .. k} = {new(j) : j \in 1 .. k - 1} \cup {new(k)}
      BY <2>3
  <2>5. ToSet(f[k]) = ToSet(lines) \cup {new(j) : j \in 1 .. k}
      BY <2>1, <2>2, <2>4
  <2>6. ASSUME NEW A PROVE Len(Chosen(f[k], A)) \in Nat /\ Len(Chosen(f[k], A)) >= Len(Chosen(lines, A))
    <3>1. /\ Len(Chosen(f[k], A)) \in Nat /\ Len(Chosen(f[k - 1], A)) \in Nat /\ Len(Chosen(lines, A)) \in Nat
          /\ Len(Chosen(f[k - 1], A)) >= Len(Chosen(lines, A))
        BY <1>5, <1>12, <2>1, <2>2
    <3>2. Len(Chosen(f[k], A)) = Len(Chosen(f[k - 1], A)) \/ Len(Chosen(f[k], A)) = Len(Chosen(f[k - 1], A)) + 1
        BY <2>2
    <3> QED BY <3>1, <3>2
  <2>7. ASSUME NEW A, \A j \in 1 .. k : new(j) \notin A PROVE Chosen(f[k], A) = Chosen(lines, A)
      BY <2>1, <2>2, <2>3, <2>7
  <2>8. ASSUME NEW A, \A i, j \in 1 .. k : new(i) \in A /\ new(j) \in A => i = j
        PROVE  Len(Chosen(f[k], A)) <= Len(Chosen(lines, A)) + 1
    <3>1. Len(Chosen(lines, A)) \in Nat
        BY <1>5, <1>12
    <3>2. CASE new(k) \in A
      <4>1. \A j \in 1 .. k - 1 : j # k /\ j \in 1 .. k
          OBVIOUS
      <4>2. \A j \in 1 .. k - 1 : new(j) \notin A
          BY <2>3, <2>8, <3>2, <4>1
      <4>3. Chosen(f[k - 1], A) = Chosen(lines, A)
          BY <2>1, <4>2
      <4>4. Len(Chosen(f[k], A)) = Len(Chosen(lines, A)) + 1
          BY <2>2, <3>2, <4>3
      <4> QED BY <3>1, <4>4
    <3>3. CASE new(k) \notin A
      <4>1. Len(Chosen(f[k - 1], A)) <= Len(Chosen(lines, A)) + 1
          BY <2>1, <2>3, <2>8
      <4> QED BY <2>2, <3>3, <4>1
    <3> QED BY <3>2, <3>3
  <2> QED BY <2>2, <2>3, <2>5, <2>6, <2>7, <2>8
<1>15. \A k \in 0 .. n : k \in T
  <2> HIDE DEF T
  <2> QED BY <1>1, <1>13, <1>14, Climb
<1>16. Grown(n)
  <2>1. n \in 0 .. n
      BY <1>1
  <2> QED BY <1>15, <2>1
<1>17. {new(j) : j \in 1 .. n} = {ProductLine(m, done) : m \in ToSet(names)}
    BY <1>1 DEF new, ToSet
<1>18. ASSUME NEW A, \A m \in ToSet(names) : ProductLine(m, done) \notin A PROVE \A j \in 1 .. n : new(j) \notin A
    BY <1>1, <1>18 DEF new, ToSet
<1>19. ASSUME NEW A, \A i, j \in DOMAIN names :
                        ProductLine(names[i], done) \in A /\ ProductLine(names[j], done) \in A => i = j
       PROVE  \A i, j \in 1 .. n : new(i) \in A /\ new(j) \in A => i = j
    BY <1>1, <1>19 DEF new
<1> HIDE DEF n
<1> QED BY <1>10, <1>16, <1>17, <1>18, <1>19 DEF R

\* A message that is worked out on a page.
LEMMA MessageFacts ==
    ASSUME NEW lines \in Seq(Lines), NEW names \in Seq(Products), NEW done \in BOOLEAN
    PROVE  LET text == ApplyNames(lines, names, done) IN
           /\ text \in Seq(Lines)
           /\ \A n \in ToSet(names) : \E l \in ToSet(text) : SameProduct(n, l.name) /\ l.done = done
           /\ Besides(text, names) = Besides(lines, names)
           /\ \A n \in Products : TimesListed(n, text) >= TimesListed(n, lines)
           /\ \A n \in Products : TimesListed(n, lines) = 1 => TimesListed(n, text) = 1
           /\ \A n, m \in Products :
                  /\ TimesListed(n, lines) = 0 /\ TimesListed(n, text) > 0
                  /\ TimesListed(m, lines) = 0 /\ TimesListed(m, text) > 0
                  /\ SameProduct(n, m)
                  => n = m /\ TimesListed(n, text) = 1
<1> DEFINE acc == Looped(lines, names, done)
           text == ApplyNames(lines, names, done)
           n == Len(lines)
<1>1. Held(acc, lines, names, done) /\ \A name \in ToSet(names) : Met(acc, name, lines, done)
    BY LoopedFacts
<1>2. text = WithNew(acc.lines, acc.added, done)
    BY DEF ApplyNames
<1> HIDE DEF acc, text
<1>3. /\ acc.lines \in Seq(Lines) /\ acc.added \in Seq(Products) /\ Len(acc.lines) = n
      /\ \A i \in 1 .. n :
             /\ acc.lines[i].name = lines[i].name
             /\ acc.lines[i] = lines[i] \/ \E m \in ToSet(names) : SameProduct(m, lines[i].name)
      /\ \A m \in ToSet(acc.added) : m \in ToSet(names) /\ TimesListed(m, lines) # 1
      /\ Apart(acc.added)
    BY <1>1 DEF Held, Accs
<1>4. /\ text \in Seq(Lines)
      /\ ToSet(text) = ToSet(acc.lines) \cup {ProductLine(m, done) : m \in ToSet(acc.added)}
      /\ \A A : Len(Chosen(text, A)) >= Len(Chosen(acc.lines, A))
      /\ \A A : (\A m \in ToSet(acc.added) : ProductLine(m, done) \notin A) => Chosen(text, A) = Chosen(acc.lines, A)
      /\ \A A : (\A i, j \in DOMAIN acc.added :
                    ProductLine(acc.added[i], done) \in A /\ ProductLine(acc.added[j], done) \in A => i = j)
                   => Len(Chosen(text, A)) <= Len(Chosen(acc.lines, A)) + 1
  <2> DEFINE ls == acc.lines
             ms == acc.added
             page_ == WithNew(ls, ms, done)
  <2>1. ls \in Seq(Lines) /\ ms \in Seq(Products)
      BY <1>3
  <2> HIDE DEF ls, ms
  <2>2. /\ page_ \in Seq(Lines)
        /\ ToSet(page_) = ToSet(ls) \cup {ProductLine(m, done) : m \in ToSet(ms)}
        /\ \A A : Len(Chosen(page_, A)) >= Len(Chosen(ls, A))
        /\ \A A : (\A m \in ToSet(ms) : ProductLine(m, done) \notin A) => Chosen(page_, A) = Chosen(ls, A)
        /\ \A A : (\A i, j \in DOMAIN ms :
                      ProductLine(ms[i], done) \in A /\ ProductLine(ms[j], done) \in A => i = j)
                     => Len(Chosen(page_, A)) <= Len(Chosen(ls, A)) + 1
      BY <2>1, WithNewFacts
  <2> QED BY <1>2, <2>2 DEF ls, ms
<1>5. n \in Nat /\ DOMAIN lines = 1 .. n /\ DOMAIN acc.lines = 1 .. n
      /\ \A i \in 1 .. n : lines[i] \in Lines /\ acc.lines[i] \in Lines
    BY <1>3, EntryFacts
<1>6. ASSUME NEW name \in ToSet(names) PROVE \E l \in ToSet(text) : SameProduct(name, l.name) /\ l.done = done
  <2>1. CASE \E i \in 1 .. n : SameProduct(name, lines[i].name) /\ acc.lines[i].done = done
    <3>1. PICK i \in 1 .. n : SameProduct(name, lines[i].name) /\ acc.lines[i].done = done
        BY <2>1
    <3>2. acc.lines[i] \in ToSet(text) /\ acc.lines[i].name = lines[i].name
        BY <1>3, <1>4, <1>5 DEF ToSet
    <3> QED BY <3>1, <3>2
  <2>2. CASE \E other \in ToSet(acc.added) : SameProduct(name, other)
    <3>1. PICK other \in ToSet(acc.added) : SameProduct(name, other)
        BY <2>2
    <3>2. ProductLine(other, done) \in ToSet(text)
        BY <1>4
    <3>3. ProductLine(other, done).name = other /\ ProductLine(other, done).done = done
        BY DEF ProductLine
    <3> QED BY <3>1, <3>2, <3>3
  <2> QED BY <1>1, <2>1, <2>2 DEF Met
<1>7. Besides(text, names) = Besides(lines, names)
  <2> DEFINE A == {l \in Lines : \A m \in ToSet(names) : ~ SameProduct(m, l.name)}
  <2>1. \A i \in 1 .. n : /\ acc.lines[i] \in A <=> lines[i] \in A
                          /\ acc.lines[i] \in A => acc.lines[i] = lines[i]
      BY <1>3, <1>5
  <2>2. \A m \in ToSet(acc.added) : ProductLine(m, done) \notin A
      BY <1>3 DEF ProductLine, SameProduct
  <2>3. Besides(text, names) = Chosen(text, A) /\ Besides(lines, names) = Chosen(lines, A)
      BY DEF Besides
  <2> HIDE DEF A
  <2>4. Chosen(acc.lines, A) = Chosen(lines, A)
    <3> DEFINE ls == acc.lines
    <3>1. /\ ls \in Seq(Lines) /\ Len(ls) = Len(lines)
          /\ \A i \in 1 .. Len(ls) : ls[i] \in A <=> lines[i] \in A
          /\ \A i \in 1 .. Len(ls) : ls[i] \in A => ls[i] = lines[i]
        BY <1>3, <2>1
    <3> HIDE DEF ls
    <3>2. Chosen(ls, A) = Chosen(lines, A)
        BY <3>1, ChosenAlike
    <3> QED BY <3>2 DEF ls
  <2>5. Chosen(text, A) = Chosen(acc.lines, A)
      BY <1>4, <2>2
  <2> QED BY <2>3, <2>4, <2>5
<1>8. ASSUME NEW name \in Products
      PROVE  /\ TimesListed(name, text) >= TimesListed(name, lines)
             /\ TimesListed(name, lines) = 1 => TimesListed(name, text) = 1
             /\ TimesListed(name, lines) \in Nat /\ TimesListed(name, text) \in Nat
             /\ TimesListed(name, text) <= TimesListed(name, lines) + 1
             /\ TimesListed(name, lines) # TimesListed(name, text) => name \in ToSet(acc.added)
  <2> DEFINE A == {l \in Lines : l.name = name}
  <2>1. \A i \in 1 .. n : acc.lines[i] \in A <=> lines[i] \in A
      BY <1>3, <1>5
  <2>2. TimesListed(name, text) = Len(Chosen(text, A)) /\ TimesListed(name, lines) = Len(Chosen(lines, A))
      BY DEF TimesListed
  <2>3. TimesListed(name, lines) = 1 => \A m \in ToSet(acc.added) : ProductLine(m, done) \notin A
      BY <1>3 DEF ProductLine
  <2> HIDE DEF A
  <2>4. Len(Chosen(acc.lines, A)) = Len(Chosen(lines, A))
      BY <1>3, <2>1, ChosenAlike
  <2>5. Len(Chosen(text, A)) >= Len(Chosen(acc.lines, A))
      BY <1>4
  <2>6. TimesListed(name, lines) = 1 => Chosen(text, A) = Chosen(acc.lines, A)
      BY <1>4, <2>3
  <2>7. Len(Chosen(text, A)) <= Len(Chosen(acc.lines, A)) + 1
    <3>1. \A i, j \in DOMAIN acc.added :
              ProductLine(acc.added[i], done) \in A /\ ProductLine(acc.added[j], done) \in A => i = j
        BY <1>3 DEF A, ProductLine, Apart, SameProduct
    <3> QED BY <1>4, <3>1
  <2>8. Len(Chosen(text, A)) # Len(Chosen(acc.lines, A)) => name \in ToSet(acc.added)
    <3>1. (\A m \in ToSet(acc.added) : m # name) => \A m \in ToSet(acc.added) : ProductLine(m, done) \notin A
        BY DEF A, ProductLine
    <3> QED BY <1>4, <3>1
  <2>9. Len(Chosen(lines, A)) \in Nat /\ Len(Chosen(text, A)) \in Nat
      BY <1>4, ChosenLength
  <2> QED BY <2>2, <2>4, <2>5, <2>6, <2>7, <2>8, <2>9
<1>9. ASSUME NEW a \in Products, NEW b \in Products,
             TimesListed(a, lines) = 0, TimesListed(a, text) > 0,
             TimesListed(b, lines) = 0, TimesListed(b, text) > 0, SameProduct(a, b)
      PROVE  a = b /\ TimesListed(a, text) = 1
  <2>1. a \in ToSet(acc.added) /\ b \in ToSet(acc.added)
      BY <1>8, <1>9
  <2>2. PICK i \in DOMAIN acc.added : acc.added[i] = a
      BY <2>1 DEF ToSet
  <2>3. PICK j \in DOMAIN acc.added : acc.added[j] = b
      BY <2>1 DEF ToSet
  <2>4. i = j
      BY <1>3, <1>9, <2>2, <2>3 DEF Apart
  <2>5. TimesListed(a, text) = 1
    <3>1. TimesListed(a, text) \in Nat /\ TimesListed(a, text) <= TimesListed(a, lines) + 1
        BY <1>8
    <3> QED BY <1>9, <3>1
  <2> QED BY <2>2, <2>3, <2>4, <2>5
<1> QED BY <1>4, <1>6, <1>7, <1>8, <1>9 DEF text

----------------------------------------------------------------------------
Texts == Seq(Lines) \cup Seq(Products)
Errands ==
    [pc : {"idle", "filed", "writing", "done"}, action : {"none", "task", "update", "grocery"},
     names : Seq(Products), done : BOOLEAN, saw : Texts, text : Texts]

\* A text that waits to be written was worked out from the one that was read.
Worked(s) ==
    /\ s \in Errands
    /\ s.pc = "writing" /\ s.action = "grocery" => s.saw \in Seq(Lines) /\ s.text = ApplyNames(s.saw, s.names, s.done)
    /\ s.pc = "writing" /\ s.action # "grocery" => s.text \in Seq(Products)

\* The tool's texts, too; and once it has put the page down, all that it takes from the task file
\* is on the page, or was lost when another text was put over it.
Prepared(s, known) ==
    /\ s \in [pc : {"off", "page", "chores"}, products : Seq(Lines), chores : Seq(Products),
              saw : Seq(Lines), sawChores : Seq(Products)]
    /\ s.pc = "page" => s.products = ApplyNames(s.saw, MovedFrom(s.sawChores), TRUE)
    /\ s.pc # "off" => s.chores = KeptOf(s.sawChores)
    /\ s.pc = "chores" => \A n \in ToSet(MovedFrom(s.sawChores)) : \E m \in known : SameProduct(n, m)

EverListed == Listed(products) \cup overwritten

GroceriesInv ==
    /\ products \in Seq(Lines) /\ chores \in Seq(Products)
    /\ DOMAIN shopper = Shoppers /\ \A t \in Shoppers : Worked(shopper[t])
    /\ Prepared(setup, EverListed)
    /\ overwritten \subseteq Products
    /\ setups \in 0 .. MaxSetups /\ groceryHand \in 0 .. MaxGroceryHand

LEMMA ListedFacts ==
    ASSUME NEW lines \in Seq(Lines)
    PROVE  Listed(lines) \subseteq Products
<1>1. \A i \in DOMAIN lines : lines[i] \in Lines
    BY EntryFacts
<1> QED BY <1>1 DEF Listed, ToSet, Lines

\* A product that was known stays known.
LEMMA PreparedStays ==
    ASSUME NEW s, NEW one, NEW two, Prepared(s, one), one \subseteq two
    PROVE  Prepared(s, two)
BY DEF Prepared

\* The page after a text is put over it.
LEMMA PutPageFacts ==
    ASSUME GroceriesInv, NEW text \in Seq(Lines), PutPage(text)
    PROVE  /\ products' = text /\ products' \in Seq(Lines) /\ overwritten' \subseteq Products
           /\ EverListed \subseteq EverListed'
<1>1. products' = text /\ overwritten' = overwritten \cup (Listed(products) \ Listed(text))
    BY DEF PutPage
<1>2. Listed(products)' = Listed(text)
    BY <1>1 DEF Listed
<1>3. EverListed' = Listed(text) \cup overwritten'
    BY <1>2 DEF EverListed
<1>4. Listed(products) \subseteq Products
    BY ListedFacts DEF GroceriesInv
<1> QED BY <1>1, <1>3, <1>4 DEF EverListed, GroceriesInv

\* A turn's own entry.
LEMMA TurnFacts ==
    ASSUME GroceriesInv, NEW t \in Shoppers, NEW s, Worked(s), shopper' = [shopper EXCEPT ![t] = s]
    PROVE  DOMAIN shopper' = Shoppers /\ \A u \in Shoppers : Worked(shopper'[u])
BY DEF GroceriesInv

LEMMA CheckedFacts ==
    ASSUME NEW raw \in Askable, NEW pantry
    PROVE  \A a \in CheckedActions(raw, pantry) :
               a \in [action : {"task", "update", "grocery"}, names : Seq(Products), done : BOOLEAN]
<1> DEFINE A == {n \in ToSet(raw.names) : MatchingLine(n, pantry) # <<>>}
           onPage == Chosen(raw.names, A)
<1>1. raw.action \in {"task", "update", "grocery"} /\ raw.done \in BOOLEAN /\ raw.names \in Seq(Products)
    BY AskableIsHeard
<1>2. onPage \in Seq(Products)
  <2> HIDE DEF A
  <2>1. Chosen(raw.names, A) \in Seq(Products \cap A) /\ Products \cap A \subseteq Products
      BY <1>1, ChosenFacts
  <2> QED BY <2>1, SeqMonotonic
<1>3. AsGrocery(raw, pantry) =
          IF raw.action = "task" /\ ~raw.dated /\ onPage # <<>>
          THEN [action |-> "grocery", names |-> raw.names, done |-> FALSE]
          ELSE IF raw.action = "update" /\ raw.done /\ onPage # <<>>
          THEN [action |-> "grocery", names |-> <<Head(onPage)>>, done |-> TRUE]
          ELSE [action |-> raw.action, names |-> raw.names, done |-> raw.done]
    BY DEF AsGrocery, Asked
<1> HIDE DEF onPage
<1>4. onPage # <<>> => <<Head(onPage)>> \in Seq(Products)
  <2>1. onPage # <<>> => Head(onPage) \in Products
      BY <1>2
  <2> QED BY <2>1
<1> DEFINE a == AsGrocery(raw, pantry)
           Checked_ == [action : {"task", "update", "grocery"}, names : Seq(Products), done : BOOLEAN]
<1>5. a \in Checked_ /\ (a.action = "update" => a.names = raw.names)
    BY <1>1, <1>3, <1>4
<1>6. CheckedActions(raw, pantry) \subseteq {a} \cup {Asked("task", <<Head(raw.names)>>, FALSE)}
    BY <1>5 DEF CheckedActions
<1>7. Asked("task", <<Head(raw.names)>>, FALSE) \in Checked_
  <2>1. Head(raw.names) \in Products
      BY <1>1, AskableIsHeard
  <2>2. <<Head(raw.names)>> \in Seq(Products)
      BY <2>1
  <2> QED BY <2>2 DEF Asked
<1> HIDE DEF a
<1> QED BY <1>5, <1>6, <1>7

\* The text that a message makes of a page is a page.
LEMMA AppliedPage ==
    ASSUME NEW lines \in Seq(Lines), NEW names \in Seq(Products), NEW done \in BOOLEAN
    PROVE  ApplyNames(lines, names, done) \in Seq(Lines)
<1> DEFINE text == ApplyNames(lines, names, done)
<1>1. /\ text \in Seq(Lines)
      /\ \A n \in ToSet(names) : \E l \in ToSet(text) : SameProduct(n, l.name) /\ l.done = done
    BY MessageFacts
<1> QED BY <1>1

\* What the tool takes from a task file, and what it leaves.
LEMMA MoveFacts ==
    ASSUME NEW lines \in Seq(Products)
    PROVE  /\ MovedFrom(lines) \in Seq(Products) /\ KeptOf(lines) \in Seq(Products)
           /\ ToSet(lines) \ ToSet(KeptOf(lines)) \subseteq ToSet(MovedFrom(lines))
<1> DEFINE K == Products \ ToMove
           M == ToMove
<1>1. MovedFrom(lines) = Chosen(lines, M) /\ KeptOf(lines) = Chosen(lines, K)
    BY DEF MovedFrom, KeptOf
<1>2. \A i \in DOMAIN lines : lines[i] \in Products /\ (lines[i] \in K \/ lines[i] \in M)
    BY EntryFacts
<1> HIDE DEF K, M
<1>3. ASSUME NEW A PROVE Chosen(lines, A) \in Seq(Products)
  <2>1. Chosen(lines, A) \in Seq(Products \cap A) /\ Products \cap A \subseteq Products
      BY ChosenFacts
  <2> QED BY <2>1, SeqMonotonic
<1>4. ASSUME NEW A, NEW i \in DOMAIN lines, lines[i] \in A PROVE lines[i] \in ToSet(Chosen(lines, A))
  <2>1. \E j \in DOMAIN Chosen(lines, A) : Chosen(lines, A)[j] = lines[i]
      BY <1>4, ChosenAll
  <2> QED BY <2>1 DEF ToSet
<1>5. ASSUME NEW e \in ToSet(lines), e \notin ToSet(Chosen(lines, K)) PROVE e \in ToSet(Chosen(lines, M))
  <2>1. PICK i \in DOMAIN lines : lines[i] = e
      BY DEF ToSet
  <2>2. lines[i] \notin K
      BY <1>4, <1>5, <2>1
  <2>3. lines[i] \in M
      BY <1>2, <2>2
  <2> QED BY <1>4, <2>1, <2>3
<1> QED BY <1>1, <1>3, <1>5

LEMMA GroceriesInitially == GroceriesInit => GroceriesInv
<1> SUFFICES ASSUME GroceriesInit PROVE GroceriesInv
    OBVIOUS
<1> USE DEF GroceriesInit
<1>1. products \in Seq(Lines) /\ chores \in Seq(Products)
    BY NamesAreKnown
<1>2. Worked(Idle)
  <2>1. <<>> \in Texts /\ <<>> \in Seq(Products)
      BY DEF Texts
  <2> QED BY <2>1 DEF Worked, Idle, Errands
<1>3. DOMAIN shopper = Shoppers /\ \A t \in Shoppers : Worked(shopper[t])
    BY <1>2
<1>4. Prepared(setup, EverListed)
  <2>1. <<>> \in Seq(Lines) /\ <<>> \in Seq(Products)
      OBVIOUS
  <2> QED BY <2>1 DEF Prepared, NoSetup
<1>5. setups \in 0 .. MaxSetups /\ groceryHand \in 0 .. MaxGroceryHand
    BY GroceryBounds
<1> QED BY <1>1, <1>3, <1>4, <1>5 DEF GroceriesInv

\* A step that leaves the page, the task file and the tool alone.
LEMMA ShopperAlone ==
    ASSUME GroceriesInv, NEW t \in Shoppers, NEW s, Worked(s), shopper' = [shopper EXCEPT ![t] = s],
           UNCHANGED <<products, chores, setup, setups, groceryHand, overwritten>>
    PROVE  GroceriesInv'
<1>1. DOMAIN shopper' = Shoppers /\ \A u \in Shoppers : Worked(shopper'[u])
    BY TurnFacts
<1>2. EverListed' = EverListed
    BY DEF EverListed, Listed
<1> QED BY <1>1, <1>2 DEF GroceriesInv

LEMMA FiledStep == ASSUME GroceriesInv, NEW t \in Shoppers, Filed(t) PROVE GroceriesInv'
<1>1. PICK raw \in Askable : \E a \in CheckedActions(raw, KnownLines(products)) :
          shopper' = [shopper EXCEPT ![t] = [Idle EXCEPT !.pc = IF a.action = "update" THEN "done" ELSE "filed",
                                                        !.action = a.action, !.names = a.names, !.done = a.done]]
    BY DEF Filed
<1>2. PICK a \in CheckedActions(raw, KnownLines(products)) :
          shopper' = [shopper EXCEPT ![t] = [Idle EXCEPT !.pc = IF a.action = "update" THEN "done" ELSE "filed",
                                                        !.action = a.action, !.names = a.names, !.done = a.done]]
    BY <1>1
<1>3. a \in [action : {"task", "update", "grocery"}, names : Seq(Products), done : BOOLEAN]
  <2> DEFINE pantry == KnownLines(products)
  <2>1. a \in CheckedActions(raw, pantry)
      BY <1>2
  <2> HIDE DEF pantry
  <2> QED BY <2>1, CheckedFacts
<1> DEFINE pc_ == IF a.action = "update" THEN "done" ELSE "filed"
           s == [Idle EXCEPT !.pc = pc_, !.action = a.action, !.names = a.names, !.done = a.done]
<1>4. Worked(s)
  <2>1. <<>> \in Texts
      BY DEF Texts
  <2>2. pc_ \in {"filed", "done"}
      OBVIOUS
  <2> HIDE DEF pc_
  <2>3. Idle \in Errands
      BY <2>1 DEF Idle, Errands, Texts
  <2>4. s \in Errands /\ s.pc = pc_
      BY <1>3, <2>2, <2>3 DEF Errands
  <2> HIDE DEF s
  <2> QED BY <2>2, <2>4 DEF Worked
<1>5. shopper' = [shopper EXCEPT ![t] = s]
    BY <1>2
<1>6. UNCHANGED <<products, chores, setup, setups, groceryHand, overwritten>>
    BY DEF Filed
<1> HIDE DEF s
<1> QED BY <1>4, <1>5, <1>6, ShopperAlone

LEMMA WorksOutStep == ASSUME GroceriesInv, NEW t \in Shoppers, WorksOut(t) PROVE GroceriesInv'
<1> DEFINE old == shopper[t]
           saw == IF old.action = "grocery" THEN products ELSE chores
           text == IF old.action = "grocery" THEN ApplyNames(saw, old.names, old.done) ELSE saw \o old.names
           s == [old EXCEPT !.pc = IF text = saw THEN "done" ELSE "writing", !.saw = saw, !.text = text]
<1>1. old \in Errands /\ old.pc = "filed"
    BY DEF GroceriesInv, Worked, WorksOut
<1>2. products \in Seq(Lines) /\ chores \in Seq(Products) /\ DOMAIN shopper = Shoppers
    BY DEF GroceriesInv
<1>3. old.names \in Seq(Products) /\ old.done \in BOOLEAN /\ old.action \in {"none", "task", "update", "grocery"}
    BY <1>1 DEF Errands
<1>4. shopper' = [shopper EXCEPT ![t] = s]
  <2>1. shopper' = [shopper EXCEPT ![t].pc = IF text = saw THEN "done" ELSE "writing",
                                   ![t].saw = saw, ![t].text = text]
      BY DEF WorksOut
  <2> HIDE DEF saw, text
  <2> QED BY <1>2, <2>1
<1> DEFINE names == old.names
           done == old.done
<1>5. names \in Seq(Products) /\ done \in BOOLEAN
    BY <1>3
<1>6. ASSUME old.action = "grocery" PROVE Worked(s)
  <2> DEFINE page_ == products
             new == ApplyNames(page_, names, done)
  <2>1. saw = page_ /\ text = new /\ page_ \in Seq(Lines)
      BY <1>2, <1>6
  <2> HIDE DEF page_, names, done
  <2>2. new \in Seq(Lines)
      BY <1>5, <2>1, AppliedPage
  <2> HIDE DEF saw, text, old, new
  <2>3. s \in Errands
      BY <1>1, <2>1, <2>2 DEF Errands, Texts
  <2>4. s.saw = page_ /\ s.text = new /\ s.names = names /\ s.done = done /\ s.action = "grocery"
      BY <1>1, <1>6, <2>1 DEF Errands, names, done
  <2> HIDE DEF s
  <2> QED BY <2>1, <2>3, <2>4 DEF Worked, new
<1>7. ASSUME old.action # "grocery" PROVE Worked(s)
  <2>1. saw = chores /\ text = chores \o names
      BY <1>7
  <2> DEFINE tasks == chores
  <2>2. text \in Seq(Products)
    <3>1. tasks \in Seq(Products) /\ names \in Seq(Products)
        BY <1>2, <1>5
    <3> HIDE DEF tasks, names
    <3>2. tasks \o names \in Seq(Products)
        BY <3>1
    <3> QED BY <2>1, <3>2 DEF tasks, names
  <2> HIDE DEF saw, text, old
  <2>3. s \in Errands
      BY <1>1, <1>2, <2>1, <2>2 DEF Errands, Texts
  <2>4. s.text = text /\ s.action # "grocery"
      BY <1>1, <1>7 DEF Errands
  <2> HIDE DEF s
  <2> QED BY <2>2, <2>3, <2>4 DEF Worked
<1>8. Worked(s)
    BY <1>6, <1>7
<1>9. UNCHANGED <<products, chores, setup, setups, groceryHand, overwritten>>
    BY DEF WorksOut
<1> HIDE DEF s
<1> QED BY <1>4, <1>8, <1>9, ShopperAlone

LEMMA PutsDownStep == ASSUME GroceriesInv, NEW t \in Shoppers, PutsDown(t) PROVE GroceriesInv'
<1> DEFINE old == shopper[t]
           s == [old EXCEPT !.pc = "done"]
<1>1. Worked(old) /\ old \in Errands /\ old.pc = "writing"
    BY DEF GroceriesInv, Worked, PutsDown
<1>2. shopper' = [shopper EXCEPT ![t] = s]
    BY DEF PutsDown, GroceriesInv
<1>3. Worked(s)
    BY <1>1 DEF Worked, Errands
<1> HIDE DEF s
<1>4. DOMAIN shopper' = Shoppers /\ \A u \in Shoppers : Worked(shopper'[u])
    BY <1>2, <1>3, TurnFacts
<1>5. UNCHANGED <<setup, setups, groceryHand>>
    BY DEF PutsDown
<1>6. products' \in Seq(Lines) /\ chores' \in Seq(Products) /\ overwritten' \subseteq Products /\ EverListed \subseteq EverListed'
  <2>1. CASE old.action = "grocery"
    <3>1. PutPage(old.text) /\ chores' = chores
        BY <2>1 DEF PutsDown
    <3>2. old.text \in Seq(Lines)
      <4>1. /\ old.saw \in Seq(Lines) /\ old.names \in Seq(Products) /\ old.done \in BOOLEAN
            /\ old.text = ApplyNames(old.saw, old.names, old.done)
          BY <1>1, <2>1 DEF Worked, Errands
      <4> DEFINE lines == old.saw
                 names == old.names
                 done == old.done
      <4>2. lines \in Seq(Lines) /\ names \in Seq(Products) /\ done \in BOOLEAN
          BY <4>1
      <4> HIDE DEF lines, names, done
      <4>3. ApplyNames(lines, names, done) \in Seq(Lines)
          BY <4>2, AppliedPage
      <4> QED BY <4>1, <4>3 DEF lines, names, done
    <3> DEFINE text == old.text
    <3>3. PutPage(text) /\ text \in Seq(Lines)
        BY <3>1, <3>2
    <3> HIDE DEF text
    <3>4. products' \in Seq(Lines) /\ overwritten' \subseteq Products /\ EverListed \subseteq EverListed'
        BY <3>3, PutPageFacts
    <3> QED BY <3>1, <3>4 DEF GroceriesInv
  <2>2. CASE old.action # "grocery"
    <3>1. chores' = old.text /\ products' = products /\ overwritten' = overwritten
        BY <2>2 DEF PutsDown
    <3>2. old.text \in Seq(Products)
        BY <1>1, <2>2 DEF Worked
    <3>3. EverListed' = EverListed
        BY <3>1 DEF EverListed, Listed
    <3> QED BY <3>1, <3>2, <3>3 DEF GroceriesInv
  <2> QED BY <2>1, <2>2
<1>7. Prepared(setup, EverListed')
  <2> DEFINE one == EverListed
             two == EverListed'
             tool == setup
  <2>1. Prepared(tool, one) /\ one \subseteq two
      BY <1>6 DEF GroceriesInv
  <2> HIDE DEF one, two, tool
  <2>2. Prepared(tool, two)
      BY <2>1, PreparedStays
  <2> QED BY <2>2 DEF two, tool
<1> QED BY <1>4, <1>5, <1>6, <1>7 DEF GroceriesInv

\* A step of the tool or of the user: no turn's entry changes, and nothing that was known is forgotten.
LEMMA PageAlone ==
    ASSUME GroceriesInv, shopper' = shopper,
           products' \in Seq(Lines), chores' \in Seq(Products), overwritten' \subseteq Products,
           Prepared(setup', EverListed'), setups' \in 0 .. MaxSetups, groceryHand' \in 0 .. MaxGroceryHand
    PROVE  GroceriesInv'
BY DEF GroceriesInv

LEMMA SetupReadsStep == ASSUME GroceriesInv, SetupReads PROVE GroceriesInv'
<1> DEFINE tasks == chores
           page_ == products
           moved == MovedFrom(tasks)
           new == ApplyNames(page_, moved, TRUE)
           kept == KeptOf(tasks)
           s == [pc |-> "page", saw |-> page_, sawChores |-> tasks, products |-> new, chores |-> kept]
<1>1. tasks \in Seq(Products) /\ page_ \in Seq(Lines)
    BY DEF GroceriesInv
<1>2. moved \in Seq(Products) /\ kept \in Seq(Products)
  <2> HIDE DEF tasks
  <2> QED BY <1>1, MoveFacts
<1>3. new \in Seq(Lines)
  <2> HIDE DEF page_, moved
  <2> QED BY <1>1, <1>2, AppliedPage
<1>4. setup' = s /\ UNCHANGED <<products, chores, shopper, groceryHand, overwritten>>
    BY DEF SetupReads
<1> DEFINE known == EverListed'
<1>5. Prepared(s, known)
  <2> HIDE DEF tasks, page_, new, kept, known
  <2> QED BY <1>1, <1>2, <1>3 DEF Prepared, new, kept
<1>6. setups' \in 0 .. MaxSetups
    BY GroceryBounds DEF GroceriesInv, SetupReads
<1> HIDE DEF s
<1> QED BY <1>4, <1>5, <1>6, PageAlone DEF GroceriesInv

\* What the tool has worked out, of a page of which it read all the lines.
LEMMA ToolFacts ==
    ASSUME NEW s, NEW known, Prepared(s, known), s.pc = "page"
    PROVE  /\ s.products \in Seq(Lines) /\ s.saw \in Seq(Lines) /\ s.sawChores \in Seq(Products)
           /\ MovedFrom(s.sawChores) \in Seq(Products)
           /\ s.products = ApplyNames(s.saw, MovedFrom(s.sawChores), TRUE)
           /\ \A n \in ToSet(MovedFrom(s.sawChores)) : \E m \in Listed(s.products) : SameProduct(n, m)
<1> DEFINE lines == s.saw
           tasks == s.sawChores
           moved == MovedFrom(tasks)
           text == s.products
<1>1. /\ lines \in Seq(Lines) /\ tasks \in Seq(Products) /\ text \in Seq(Lines)
      /\ text = ApplyNames(lines, moved, TRUE)
    BY DEF Prepared
<1> HIDE DEF lines, tasks, text
<1>2. moved \in Seq(Products)
    BY <1>1, MoveFacts
<1> HIDE DEF moved
<1>3. \A n \in ToSet(moved) : \E l \in ToSet(text) : SameProduct(n, l.name) /\ l.done = TRUE
    BY <1>1, <1>2, MessageFacts
<1>4. \A n \in ToSet(moved) : \E m \in Listed(text) : SameProduct(n, m)
    BY <1>3 DEF Listed
<1> QED BY <1>1, <1>2, <1>4 DEF lines, tasks, moved, text

LEMMA SetupWritesPageStep == ASSUME GroceriesInv, SetupWritesPage PROVE GroceriesInv'
<1> DEFINE old == setup
           text == old.products
           s == [old EXCEPT !.pc = "chores"]
           known == EverListed
           moved == MovedFrom(old.sawChores)
<1>1. Prepared(old, known) /\ old.pc = "page"
    BY DEF GroceriesInv, SetupWritesPage
<1>2. text \in Seq(Lines) /\ \A n \in ToSet(moved) : \E m \in Listed(text) : SameProduct(n, m)
  <2> HIDE DEF old, known
  <2> QED BY <1>1, ToolFacts
<1>3. PutPage(text) /\ setup' = s /\ UNCHANGED <<chores, shopper, setups, groceryHand>>
    BY DEF SetupWritesPage
<1>4. products' = text /\ products' \in Seq(Lines) /\ overwritten' \subseteq Products
  <2> HIDE DEF text
  <2> QED BY <1>2, <1>3, PutPageFacts
<1>5. Listed(text) \subseteq EverListed'
    BY <1>4 DEF EverListed, Listed
<1> DEFINE next == EverListed'
<1>6. Prepared(s, next)
  <2>1. \A n \in ToSet(moved) : \E m \in next : SameProduct(n, m)
      BY <1>2, <1>5
  <2> HIDE DEF old, known, next
  <2> QED BY <1>1, <2>1 DEF Prepared
<1> HIDE DEF s
<1> QED BY <1>3, <1>4, <1>6, PageAlone DEF GroceriesInv

LEMMA SetupWritesTasksStep == ASSUME GroceriesInv, SetupWritesTasks PROVE GroceriesInv'
<1>1. setup.chores \in Seq(Products)
    BY DEF GroceriesInv, Prepared
<1>2. Prepared(NoSetup, EverListed')
  <2> DEFINE known == EverListed'
  <2> HIDE DEF known
  <2>1. <<>> \in Seq(Lines) /\ <<>> \in Seq(Products)
      OBVIOUS
  <2>2. Prepared(NoSetup, known)
      BY <2>1 DEF Prepared, NoSetup
  <2> QED BY <2>2 DEF known
<1> QED BY <1>1, <1>2, PageAlone DEF GroceriesInv, SetupWritesTasks

LEMMA SetupDiesStep == ASSUME GroceriesInv, SetupDies PROVE GroceriesInv'
<1>1. Prepared(NoSetup, EverListed')
  <2> DEFINE known == EverListed'
  <2> HIDE DEF known
  <2>1. <<>> \in Seq(Lines) /\ <<>> \in Seq(Products)
      OBVIOUS
  <2>2. Prepared(NoSetup, known)
      BY <2>1 DEF Prepared, NoSetup
  <2> QED BY <2>2 DEF known
<1> QED BY <1>1, PageAlone DEF GroceriesInv, SetupDies

\* What the user does to the page leaves every name on it.
LEMMA ByHandFacts ==
    ASSUME GroceriesInv, ByHandOnPage
    PROVE  products' \in Seq(Lines) /\ Listed(products) \subseteq Listed(products')
<1> DEFINE page_ == products
<1>1. page_ \in Seq(Lines)
    BY DEF GroceriesInv
<1>2. \A i \in DOMAIN page_ : page_[i] \in Lines
    BY <1>1, EntryFacts
<1>3. ASSUME NEW i \in DOMAIN page_, products' = [page_ EXCEPT ![i].done = ~ @]
      PROVE  products' \in Seq(Lines) /\ Listed(page_) \subseteq Listed(products')
  <2> DEFINE line == [page_[i] EXCEPT !.done = ~ @]
             text == [page_ EXCEPT ![i] = line]
  <2>1. line \in Lines /\ line.name = page_[i].name
      BY <1>2 DEF Lines
  <2>2. products' = text
      BY <1>3
  <2> HIDE DEF line, page_
  <2>3. /\ text \in Seq(Lines) /\ DOMAIN text = DOMAIN page_
        /\ text[i] = line /\ \A j \in DOMAIN page_ : j # i => text[j] = page_[j]
      BY <1>1, <2>1, ChangeFacts
  <2> HIDE DEF text
  <2>4. \A j \in DOMAIN page_ : text[j].name = page_[j].name
      BY <2>1, <2>3
  <2>5. Listed(page_) \subseteq Listed(text)
      BY <2>3, <2>4 DEF Listed, ToSet
  <2> QED BY <2>2, <2>3, <2>5
<1>4. ASSUME NEW name \in WrittenIn, products' = <<ProductLine(name, FALSE)>> \o page_
      PROVE  products' \in Seq(Lines) /\ Listed(page_) \subseteq Listed(products')
  <2> DEFINE line == ProductLine(name, FALSE)
             one == <<line>>
             text == one \o page_
  <2>1. line \in Lines
      BY NamesAreKnown DEF ProductLine, Lines
  <2> HIDE DEF line
  <2>2. one \in Seq(Lines) /\ Len(one) = 1 /\ one[1] = line
      BY <2>1
  <2>3. products' = text
      BY <1>4 DEF line
  <2> HIDE DEF page_, one
  <2>4. /\ text \in Seq(Lines) /\ Len(text) = Len(one) + Len(page_)
        /\ \A i \in 1 .. Len(one) + Len(page_) : text[i] = IF i <= Len(one) THEN one[i] ELSE page_[i - Len(one)]
      BY <1>1, <2>2, ConcatProperties
  <2> HIDE DEF text
  <2>5. ASSUME NEW j \in DOMAIN page_ PROVE page_[j] \in ToSet(text)
    <3>1. Len(page_) \in Nat /\ j \in 1 .. Len(page_) /\ DOMAIN text = 1 .. 1 + Len(page_)
        BY <1>1, <2>2, <2>4, EntryFacts
    <3>2. j + 1 \in 1 .. 1 + Len(page_) /\ ~(j + 1 <= 1) /\ (j + 1) - 1 = j
        BY <3>1
    <3>3. text[j + 1] = page_[j]
        BY <2>2, <2>4, <3>1, <3>2
    <3> QED BY <3>1, <3>2, <3>3 DEF ToSet
  <2>6. Listed(page_) \subseteq Listed(text)
      BY <2>5 DEF Listed, ToSet
  <2> QED BY <2>3, <2>4, <2>6
<1>5. ASSUME NEW i \in DOMAIN page_, Doubled(page_, i), products' = RemoveAt(page_, i)
      PROVE  products' \in Seq(Lines) /\ Listed(page_) \subseteq Listed(products')
  <2> DEFINE text == RemoveAt(page_, i)
  <2>1. products' = text
      BY <1>5
  <2> HIDE DEF page_
  <2>2. text \in Seq(Lines) /\ \A j \in DOMAIN page_ : j # i => page_[j] \in ToSet(text)
      BY <1>1, TakenOutFacts
  <2>3. PICK k \in DOMAIN page_ : k # i /\ page_[k].name = page_[i].name
      BY <1>5 DEF Doubled
  <2> HIDE DEF text
  <2>4. \A j \in DOMAIN page_ : \E l \in ToSet(text) : l.name = page_[j].name
      BY <2>2, <2>3
  <2>5. Listed(page_) \subseteq Listed(text)
      BY <2>4 DEF Listed, ToSet
  <2> QED BY <2>1, <2>2, <2>5
<1>6. \/ \E i \in DOMAIN page_ : products' = [page_ EXCEPT ![i].done = ~ @]
      \/ \E name \in WrittenIn : products' = <<ProductLine(name, FALSE)>> \o page_
      \/ \E i \in DOMAIN page_ : Doubled(page_, i) /\ products' = RemoveAt(page_, i)
    BY DEF ByHandOnPage
<1> HIDE DEF page_
<1>7. products' \in Seq(Lines) /\ Listed(page_) \subseteq Listed(products')
    BY <1>3, <1>4, <1>5, <1>6
<1> QED BY <1>7 DEF page_

LEMMA ByHandStep == ASSUME GroceriesInv, ByHandOnPage PROVE GroceriesInv'
<1>1. products' \in Seq(Lines) /\ Listed(products) \subseteq Listed(products')
    BY ByHandFacts
<1>2. UNCHANGED <<chores, shopper, setup, setups, overwritten>> /\ groceryHand' \in 0 .. MaxGroceryHand
    BY GroceryBounds DEF ByHandOnPage, GroceriesInv
<1>3. EverListed \subseteq EverListed'
    BY <1>1, <1>2 DEF EverListed, Listed
<1>4. Prepared(setup', EverListed')
  <2> DEFINE one == EverListed
             two == EverListed'
             tool == setup
  <2>1. Prepared(tool, one) /\ one \subseteq two /\ setup' = tool
      BY <1>2, <1>3 DEF GroceriesInv
  <2> HIDE DEF one, two, tool
  <2>2. Prepared(tool, two)
      BY <2>1, PreparedStays
  <2> QED BY <2>1, <2>2 DEF two
<1> QED BY <1>1, <1>2, <1>4, PageAlone DEF GroceriesInv

\* Every text that waits to be written was worked out from one that was read, and what the tool is about
\* to take out of the task file has been on the page: all of it holds at every moment.
THEOREM GroceriesInvariance == GroceriesSpec => []GroceriesInv
<1>1. GroceriesInit => GroceriesInv
    BY GroceriesInitially
<1>2. GroceriesInv /\ [GroceriesNext]_groceryVars => GroceriesInv'
  <2> SUFFICES ASSUME GroceriesInv, [GroceriesNext]_groceryVars PROVE GroceriesInv'
      OBVIOUS
  <2>1. ASSUME NEW t \in Shoppers, Filed(t) PROVE GroceriesInv'
      BY <2>1, FiledStep
  <2>2. ASSUME NEW t \in Shoppers, WorksOut(t) PROVE GroceriesInv'
      BY <2>2, WorksOutStep
  <2>3. ASSUME NEW t \in Shoppers, PutsDown(t) PROVE GroceriesInv'
      BY <2>3, PutsDownStep
  <2>4. CASE SetupReads
      BY <2>4, SetupReadsStep
  <2>5. CASE SetupWritesPage
      BY <2>5, SetupWritesPageStep
  <2>6. CASE SetupWritesTasks
      BY <2>6, SetupWritesTasksStep
  <2>7. CASE SetupDies
      BY <2>7, SetupDiesStep
  <2>8. CASE ByHandOnPage
      BY <2>8, ByHandStep
  <2>9. CASE UNCHANGED groceryVars
    <3>1. EverListed' = EverListed
        BY <2>9 DEF groceryVars, EverListed, Listed
    <3> QED BY <2>9, <3>1 DEF GroceriesInv, groceryVars
  <2> QED BY <2>1, <2>2, <2>3, <2>4, <2>5, <2>6, <2>7, <2>8, <2>9 DEF GroceriesNext
<1> QED BY <1>1, <1>2, PTL DEF GroceriesSpec

\* The page stays a list of product lines and the task file one of tasks, and the bounds hold, whatever
\* the turns, the tool and the user do.
THEOREM GroceriesTypes == GroceriesSpec => []GroceriesTypeOK
<1>1. GroceriesInv => GroceriesTypeOK
  <2> SUFFICES ASSUME GroceriesInv PROVE GroceriesTypeOK
      OBVIOUS
  <2>1. \A t \in Shoppers : shopper[t] \in Errands
      BY DEF GroceriesInv, Worked
  <2>2. \A t \in Shoppers : /\ shopper[t].pc \in {"idle", "filed", "writing", "done"}
                            /\ shopper[t].action \in {"none", "task", "update", "grocery"}
      BY <2>1 DEF Errands
  <2>3. setup.pc \in {"off", "page", "chores"}
      BY DEF GroceriesInv, Prepared
  <2> QED BY <2>2, <2>3 DEF GroceriesInv, GroceriesTypeOK
<1> QED BY <1>1, GroceriesInvariance, PTL

\* A text that was worked out from the page as it stands, put over it.
LEMMA MindedFacts ==
    ASSUME GroceriesInv, NEW names \in Seq(Products), NEW done \in BOOLEAN,
           products' = ApplyNames(products, names, done)
    PROVE  PageMinded(names, done)
<1> DEFINE lines == products
           text == ApplyNames(lines, names, done)
<1>1. lines \in Seq(Lines) /\ products' = text
    BY DEF GroceriesInv
<1>2. /\ \A n \in ToSet(names) : \E l \in ToSet(text) : SameProduct(n, l.name) /\ l.done = done
      /\ Besides(text, names) = Besides(lines, names)
      /\ \A n \in Products : TimesListed(n, text) >= TimesListed(n, lines)
      /\ \A n \in Products : TimesListed(n, lines) = 1 => TimesListed(n, text) = 1
      /\ \A n, m \in Products :
             /\ TimesListed(n, lines) = 0 /\ TimesListed(n, text) > 0
             /\ TimesListed(m, lines) = 0 /\ TimesListed(m, text) > 0
             /\ SameProduct(n, m)
             => n = m /\ TimesListed(n, text) = 1
  <2> HIDE DEF lines
  <2> QED BY <1>1, MessageFacts
<1>3. Besides(products', names) = Besides(text, names)
    BY <1>1
<1>4. \A n \in Products : TimesListed(n, products') = TimesListed(n, text)
    BY <1>1
<1> HIDE DEF text
<1>5. \A n, m \in Products :
          Learned(n) /\ Learned(m) /\ SameProduct(n, m) => n = m /\ TimesListed(n, products') = 1
    BY <1>2, <1>4 DEF Learned, lines
<1> QED BY <1>1, <1>2, <1>3, <1>4, <1>5 DEF PageMinded, lines

\* Whatever a message or the tool asks of the page as it stands is there afterwards, nothing else on it is
\* touched, no product gets a second line, and what leaves the task file has been on the page.
THEOREM GroceriesAreKept == GroceriesSpec => GroceriesKept
<1> DEFINE Turns == \A t \in Shoppers :
                       shopper[t].pc = "writing" /\ shopper'[t].pc = "done" /\ shopper[t].action = "grocery"
                           /\ shopper[t].saw = products
                       => PageMinded(shopper[t].names, shopper[t].done)
           Tool == setup.pc = "page" /\ setup'.pc = "chores" /\ setup.saw = products
                       => PageMinded(MovedFrom(setup.sawChores), TRUE)
           Moves == setup.pc = "chores" /\ setup'.pc = "off" /\ setup.sawChores = chores
                       => \A n \in ToSet(chores) \ ToSet(chores') :
                              \E m \in Listed(products) \cup overwritten : SameProduct(n, m)
<1>1. GroceriesInv /\ [GroceriesNext]_groceryVars => Turns
  <2> SUFFICES ASSUME GroceriesInv, [GroceriesNext]_groceryVars, NEW t \in Shoppers,
                      shopper[t].pc = "writing", shopper'[t].pc = "done", shopper[t].action = "grocery",
                      shopper[t].saw = products
               PROVE  PageMinded(shopper[t].names, shopper[t].done)
      OBVIOUS
  <2>1. DOMAIN shopper = Shoppers /\ Worked(shopper[t])
      BY DEF GroceriesInv
  <2>2. ASSUME NEW u \in Shoppers, NEW e, shopper' = [shopper EXCEPT ![u] = e] PROVE u = t
      BY <2>1, <2>2
  <2>3. ASSUME NEW u \in Shoppers, Filed(u) PROVE FALSE
    <3>1. \E e : shopper' = [shopper EXCEPT ![u] = e]
        BY <2>3 DEF Filed
    <3> QED BY <2>2, <2>3, <3>1 DEF Filed
  <2>4. ASSUME NEW u \in Shoppers, WorksOut(u) PROVE FALSE
    <3>1. u # t
        BY <2>4 DEF WorksOut
    <3>2. shopper'[t] = shopper[t]
        BY <2>1, <2>4, <3>1 DEF WorksOut
    <3> QED BY <3>2
  <2>5. ASSUME NEW u \in Shoppers, PutsDown(u) PROVE PageMinded(shopper[t].names, shopper[t].done)
    <3>1. u = t
      <4>1. CASE u # t
        <5>1. shopper'[t] = shopper[t]
            BY <2>1, <2>5, <4>1 DEF PutsDown
        <5> QED BY <5>1
      <4> QED BY <4>1
    <3>2. products' = shopper[t].text
        BY <2>5, <3>1 DEF PutsDown, PutPage
    <3> DEFINE names == shopper[t].names
               done == shopper[t].done
    <3>3. names \in Seq(Products) /\ done \in BOOLEAN /\ products' = ApplyNames(products, names, done)
        BY <2>1, <3>2 DEF Worked, Errands
    <3> HIDE DEF names, done
    <3>4. PageMinded(names, done)
        BY <3>3, MindedFacts
    <3> QED BY <3>4 DEF names, done
  <2>6. shopper' # shopper
      OBVIOUS
  <2>7. ~ SetupReads /\ ~ SetupWritesPage /\ ~ SetupWritesTasks /\ ~ SetupDies /\ ~ ByHandOnPage /\ ~ UNCHANGED groceryVars
      BY <2>6 DEF SetupReads, SetupWritesPage, SetupWritesTasks, SetupDies, ByHandOnPage, groceryVars
  <2> QED BY <2>3, <2>4, <2>5, <2>7 DEF GroceriesNext
<1>2. GroceriesInv /\ [GroceriesNext]_groceryVars => Tool
  <2> SUFFICES ASSUME GroceriesInv, [GroceriesNext]_groceryVars,
                      setup.pc = "page", setup'.pc = "chores", setup.saw = products
               PROVE  PageMinded(MovedFrom(setup.sawChores), TRUE)
      OBVIOUS
  <2>1. setup' # setup
      OBVIOUS
  <2>2. /\ \A t \in Shoppers : ~ Filed(t) /\ ~ WorksOut(t) /\ ~ PutsDown(t)
        /\ ~ SetupReads /\ ~ SetupWritesTasks /\ ~ ByHandOnPage /\ ~ UNCHANGED groceryVars
      BY <2>1 DEF Filed, WorksOut, PutsDown, SetupReads, SetupWritesTasks, ByHandOnPage, groceryVars
  <2>8. ~ SetupDies
    <3>1. NoSetup.pc = "off"
        BY DEF NoSetup
    <3> QED BY <3>1 DEF SetupDies
  <2>3. SetupWritesPage
      BY <2>2, <2>8 DEF GroceriesNext
  <2> DEFINE tool == setup
             known == EverListed
             names == MovedFrom(tool.sawChores)
  <2>4. Prepared(tool, known) /\ tool.pc = "page"
      BY DEF GroceriesInv
  <2>5. names \in Seq(Products) /\ tool.products = ApplyNames(tool.saw, names, TRUE)
    <3> HIDE DEF tool, known
    <3> QED BY <2>4, ToolFacts
  <2>6. products' = ApplyNames(products, names, TRUE)
      BY <2>3, <2>5 DEF SetupWritesPage, PutPage
  <2> HIDE DEF names
  <2>7. PageMinded(names, TRUE)
      BY <2>5, <2>6, MindedFacts
  <2> QED BY <2>7 DEF names
<1>3. GroceriesInv /\ [GroceriesNext]_groceryVars => Moves
  <2> SUFFICES ASSUME GroceriesInv, [GroceriesNext]_groceryVars,
                      setup.pc = "chores", setup'.pc = "off", setup.sawChores = chores,
                      NEW n \in ToSet(chores) \ ToSet(chores')
               PROVE  \E m \in Listed(products) \cup overwritten : SameProduct(n, m)
      OBVIOUS
  <2>1. setup' # setup /\ chores' # chores
      OBVIOUS
  <2>2. /\ \A t \in Shoppers : ~ Filed(t) /\ ~ WorksOut(t) /\ ~ PutsDown(t)
        /\ ~ SetupReads /\ ~ SetupWritesPage /\ ~ SetupDies /\ ~ ByHandOnPage /\ ~ UNCHANGED groceryVars
      BY <2>1 DEF Filed, WorksOut, PutsDown, SetupReads, SetupWritesPage, SetupDies, ByHandOnPage, groceryVars
  <2>3. SetupWritesTasks
      BY <2>2 DEF GroceriesNext
  <2> DEFINE tasks == chores
  <2>4. /\ tasks \in Seq(Products) /\ chores' = KeptOf(tasks)
        /\ \A k \in ToSet(MovedFrom(tasks)) : \E m \in EverListed : SameProduct(k, m)
      BY <2>3 DEF GroceriesInv, Prepared, SetupWritesTasks
  <2> HIDE DEF tasks
  <2>5. ToSet(tasks) \ ToSet(KeptOf(tasks)) \subseteq ToSet(MovedFrom(tasks))
      BY <2>4, MoveFacts
  <2>6. n \in ToSet(tasks) \ ToSet(KeptOf(tasks))
      BY <2>4 DEF tasks
  <2> QED BY <2>4, <2>5, <2>6 DEF EverListed
<1>4. GroceriesInv /\ [GroceriesNext]_groceryVars => [Turns /\ Tool /\ Moves]_groceryVars
    BY <1>1, <1>2, <1>3
<1> QED BY <1>4, GroceriesInvariance, PTL DEF GroceriesSpec, GroceriesKept
=============================================================================
