----------------------------- MODULE TableRows -----------------------------
(***************************************************************************)
(* app/notion/titles.py and the creates of app/commands/executor.py: the   *)
(* rows that messages add to one Notion table, each checked against the    *)
(* table's titles, which a message reads once and keeps up to date itself. *)
(* Messages of different chats run at the same time, and the user adds and *)
(* removes rows in Notion.                                                 *)
(***************************************************************************)
EXTENDS Integers, FiniteSets, FiniteSetsExt

CONSTANTS
    Messages,
    Titles,            \* as normal() leaves them: case and stray spacing do not count
    MAX_INDEX_ROWS,    \* a longer table is not held
    MaxCreates,        \* bound: rows a message is asked for
    MaxStart,          \* bound: rows to begin with
    MaxRowFaults,      \* bound: requests that go wrong
    MaxRowHand         \* bound: the user's own changes

ASSUME RowBounds == {MAX_INDEX_ROWS, MaxCreates, MaxStart, MaxRowFaults, MaxRowHand} \subseteq Nat

VARIABLES
    rows,      \* the table
    given,     \* how many ids Notion has given out
    msg,       \* msg[m]: the create at hand and the titles that m holds
    rowFaults, rowHand,
    vouched,   \* history: vouched[m], the rows that m read or was told it had written
    blind      \* history: the rows that were written although the check had failed

rowVars == <<rows, given, msg, rowFaults, rowHand, vouched, blind>>

Nobody == "nobody"      \* no message: the user
TitlesOf(set) == {r.title : r \in set}

\* Table; as long as the message has not read it, there is none.
Unread == [read |-> FALSE, by_title |-> {}, partial |-> FALSE]
Failed == [read |-> TRUE, by_title |-> {}, partial |-> TRUE]
Indexed(answer) == [read |-> TRUE, by_title |-> TitlesOf(answer),
                    partial |-> Cardinality(answer) >= MAX_INDEX_ROWS]

RowsInit ==
    /\ \E held \in UNION {[1 .. n -> Titles] : n \in 0 .. MaxStart} :
           /\ rows = {[id |-> i, title |-> held[i], by |-> Nobody] : i \in DOMAIN held}
           /\ given = Cardinality(DOMAIN held)
    /\ msg = [m \in Messages |-> [pc |-> "ready", title |-> CHOOSE t \in Titles : TRUE, left |-> MaxCreates,
                                  table |-> Unread, sure |-> TRUE]]
    /\ rowFaults = 0 /\ rowHand = 0
    /\ vouched = [m \in Messages |-> {}]
    /\ blind = {}

At(m, pc) == msg[m].pc = pc
\* existing(): a hit settles it, a table held as a whole settles it, else Notion is asked for the one title.
NextAfter(table, title) ==
    IF title \in table.by_title THEN "ready" ELSE IF table.partial THEN "asking" ELSE "sending"
RowFault == rowFaults < MaxRowFaults /\ rowFaults' = rowFaults + 1

AskFor(m, title) ==
    /\ At(m, "ready") /\ msg[m].left > 0
    /\ msg' = [msg EXCEPT ![m].title = title, ![m].left = @ - 1, ![m].sure = TRUE,
                          ![m].pc = IF msg[m].table.read THEN NextAfter(msg[m].table, title) ELSE "reading"]
    /\ UNCHANGED <<rows, given, rowFaults, rowHand, vouched, blind>>

\* Whichever MAX_INDEX_ROWS of the rows Notion answers with.
ReadTable(m) ==
    /\ At(m, "reading")
    /\ \E answer \in kSubset(Min({Cardinality(rows), MAX_INDEX_ROWS}), rows) :
           msg' = [msg EXCEPT ![m].table = Indexed(answer),
                              ![m].pc = NextAfter(Indexed(answer), msg[m].title)]
    /\ vouched' = [vouched EXCEPT ![m] = @ \cup {r.id : r \in rows}]
    /\ UNCHANGED <<rows, given, rowFaults, rowHand, blind>>

ReadTableFails(m) ==
    /\ At(m, "reading") /\ RowFault
    /\ msg' = [msg EXCEPT ![m].table = Failed, ![m].pc = "asking"]
    /\ UNCHANGED <<rows, given, rowHand, vouched, blind>>

QueryOne(m) ==
    /\ At(m, "asking")
    /\ msg' = [msg EXCEPT ![m].pc = IF msg[m].title \in TitlesOf(rows) THEN "ready" ELSE "sending"]
    /\ UNCHANGED <<rows, given, rowFaults, rowHand, vouched, blind>>

QueryOneFails(m) ==
    /\ At(m, "asking") /\ RowFault
    /\ msg' = [msg EXCEPT ![m].pc = "sending", ![m].sure = FALSE]
    /\ UNCHANGED <<rows, given, rowHand, vouched, blind>>

Created_(m) ==
    /\ rows' = rows \cup {[id |-> given + 1, title |-> msg[m].title, by |-> m]}
    /\ given' = given + 1
    /\ blind' = IF msg[m].sure THEN blind ELSE blind \cup {given + 1}

RememberedNothing(m) == [msg EXCEPT ![m].pc = "ready"]
\* remember() opens an empty index of its own when the message has none; here it always has one.
Remembered(m) == [msg EXCEPT ![m].pc = "ready", ![m].table.by_title = @ \cup {msg[m].title}]
CreateAnswered(m) ==
    /\ At(m, "sending") /\ Created_(m)
    /\ msg' = Remembered(m)
    /\ vouched' = [vouched EXCEPT ![m] = @ \cup {given + 1}]
    /\ UNCHANGED <<rowFaults, rowHand>>

\* A POST is not sent again: the command has failed, whether or not there is a row.
CreateLost(m) ==
    /\ At(m, "sending") /\ RowFault /\ Created_(m)
    /\ msg' = [msg EXCEPT ![m].pc = "ready"]
    /\ UNCHANGED <<rowHand, vouched>>
CreateFails(m) ==
    /\ At(m, "sending") /\ RowFault
    /\ msg' = [msg EXCEPT ![m].pc = "ready"]
    /\ UNCHANGED <<rows, given, rowHand, vouched, blind>>

AddRow(title) ==
    /\ rowHand < MaxRowHand /\ rowHand' = rowHand + 1
    /\ rows' = rows \cup {[id |-> given + 1, title |-> title, by |-> Nobody]}
    /\ given' = given + 1
    /\ UNCHANGED <<msg, rowFaults, vouched, blind>>
RemoveRow(r) ==
    /\ rowHand < MaxRowHand /\ rowHand' = rowHand + 1
    /\ rows' = rows \ {r}
    /\ UNCHANGED <<given, msg, rowFaults, vouched, blind>>

RowsNext ==
    \/ \E m \in Messages :
           \/ \E t \in Titles : AskFor(m, t)
           \/ ReadTable(m) \/ ReadTableFails(m) \/ QueryOne(m) \/ QueryOneFails(m)
           \/ CreateAnswered(m) \/ CreateLost(m) \/ CreateFails(m)
    \/ \E t \in Titles : AddRow(t)
    \/ \E r \in rows : RemoveRow(r)

RowsSpec == RowsInit /\ [][RowsNext]_rowVars

----------------------------------------------------------------------------
(* Properties *)

RowsTypeOK ==
    /\ rows \subseteq [id : 1 .. given, title : Titles, by : Messages \cup {Nobody}]
    /\ \A r, q \in rows : r.id = q.id => r = q
    /\ \A m \in Messages :
           /\ msg[m].pc \in {"ready", "reading", "asking", "sending"}
           /\ msg[m].pc \in {"asking", "sending"} => msg[m].table.read

\* A row that the bot adds never repeats a title that stood in the table when its message read it,
\* or that the same message had added before, however the table's rows come and go meanwhile.  Only
\* a check that failed, or a row of which the bot was not told, may let one through.
NoRowTwice ==
    \A r, q \in rows :
        r.by # Nobody /\ q.id < r.id /\ q.title = r.title /\ q.id \in vouched[r.by] => r.id \in blind

=============================================================================
