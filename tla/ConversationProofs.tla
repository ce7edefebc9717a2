------------------------ MODULE ConversationProofs ------------------------
(***************************************************************************)
(* Conversation for every number of chats, turns, messages, presses,       *)
(* crashes and lost answers: the types; that what a turn read before an    *)
(* await still holds after it; that a write is undone once; that a press   *)
(* meets its own question and the sweeper spares the living; where the     *)
(* inbox is on, that no message is dropped in silence; and that a message  *)
(* lands in Notion once.                                                   *)
(*                                                                         *)
(* All of it rests on two things.  A chat has one turn inside it, so that  *)
(* nobody else moves its question (Owned); and a turn's local variables    *)
(* belong together: what it may hold at which await, on whose behalf it    *)
(* writes, and which text, question or write its argument stands for       *)
(* (Jobs).  That a message lands once rests on a second invariant, OnceInv *)
(* below: where a message is, and that nobody else has it.                 *)
(***************************************************************************)
EXTENDS Conversation, SequenceLemmas, TLAPS

EventRec ==
    [chat : Chats, text : SUBSET Messages, ts : Times, open : BOOLEAN, executed : BOOLEAN]

ExecutionRec == [chat : Chats, undone : BOOLEAN, expires : Nat]

\* Where a turn is past its lock, where it is not, and where it has a text in hand.
Talking == {"read", "resume", "researched"}
Saving  == {"inbox", "write", "written"}
Empty   == {"begun", "undo", "undone", "done", "pop"}
Outside == {"idle", "queued", "scanned", "sweeping"}
Busy    == Talking \cup Saving \cup Empty

Doings == {"", "text", "answer", "undo", "offer", "undo_latest", "cancel", "sweep"}
Whys   == {"", "execute", "fallback", "button", "offer", "expired", "sweep"}
Args   == Nat \cup Messages

JobRec ==
    [pc : Busy \cup Outside, chat : Chats \cup {NoChat}, do : Doings, arg : Args,
     verb : Verbs \cup {""}, row : Nat, now : Times, text : SUBSET Messages, session : Question,
     why : Whys, applied : BOOLEAN]

\* What the argument of a button, and the button itself, stands for.
ButtonFits(b, rows, writes) ==
    \/ \E q \in rows : b = Answer(q)
    \/ \E x \in writes : b = Undo(x)
    \/ \E e \in rows : b = Offer(e)

Typed ==
    /\ owner \in [Chats -> Turns \cup {Nobody}]
    /\ line \in [Chats -> Seq(Turns)]
    /\ sessions \in [Chats -> Question]
    /\ events \in Seq(EventRec)
    /\ executions \in Seq(ExecutionRec)
    /\ job \in [Turns -> JobRec]
    /\ sweep \in [now : Times, todo : SUBSET Chats] /\ sweep.now <= clock
    /\ clock \in Times
    /\ DOMAIN shown = Chats
    /\ \A c \in Chats : \A b \in shown[c] : ButtonFits(b, DOMAIN events, DOMAIN executions)
    /\ sent \subseteq Messages
    /\ landed \in [Messages -> Nat]
    /\ reverts \in Seq(Nat) /\ DOMAIN reverts = DOMAIN executions
    /\ crashes \in Nat /\ lost \in Nat
    /\ known \in BOOLEAN

\* A turn past the lock of a chat is the one inside it.
Owned == \A t \in Turns : job[t].chat \in Chats => owner[job[t].chat] = t

\* The local variables of turn t, as n holds them, belong together: where it is,
Placed(n, rows, time) ==
    /\ n.chat \in Chats <=> n.pc \in Busy
    /\ n.pc \in Busy \ {"pop"} => n.row \in rows
    /\ n.row \in rows \cup {0}
    /\ n.now <= time

\* whose steps it takes, the sweeper's or a handler's,
Cast(t, n) ==
    IF t = Sweeper
    THEN /\ n.pc \in Saving \cup {"done", "pop", "idle", "queued", "scanned", "sweeping"}
         /\ n.why \in {"", "sweep"} /\ n.do \in {"", "sweep"}
         /\ n.pc = "queued" => n.do = ""
    ELSE n.pc \notin {"scanned", "sweeping", "pop"} /\ n.why # "sweep" /\ n.do # "sweep"

\* what for, and on whose behalf it writes,
Meant(n) ==
    /\ n.pc \in {"idle", "done", "scanned", "sweeping", "pop"} => n.do = ""
    /\ n.pc \in Saving <=> n.why # ""
    /\ n.pc \in {"undo", "undone"} <=>
           n.do \in {"undo", "undo_latest"} /\ n.pc \notin {"begun", "queued"}
    /\ n.do = "text" => n.pc # "resume"
    /\ n.do = "answer" => n.pc # "read"
    /\ n.pc \in Talking \/ n.why \in {"execute", "fallback"} => n.do \in {"text", "answer"}
    /\ n.why = "execute" => n.pc # "inbox"
    /\ n.why = "button" => n.do = "answer"
    /\ n.why = "expired" => n.do = "text"
    /\ n.why = "offer" => n.do = "offer"

\* which text, question, event or write its argument names,
Named(n, rows, writes) ==
    /\ n.do = "text" => n.arg \in Messages
    /\ n.do = "answer" => n.arg \in Nat
    /\ n.do = "offer" => n.arg \in rows
    /\ n.do = "undo" \/ n.pc \in {"undo", "undone"} => n.arg \in writes

\* and what it has in hand.
Held(n) ==
    /\ n.pc \in Empty \cup Outside => n.text = {} /\ n.session = None
    /\ n.pc \in Talking => n.session.text \subseteq n.text
    /\ n.pc = "resume" => n.text = n.session.text
    /\ n.pc \in Talking /\ n.do = "answer" => n.session.token = n.arg
    /\ (n.pc \in Talking \/ n.why \in {"execute", "fallback"}) /\ n.do = "text" => n.arg \in n.text
    /\ n.why = "button" => n.session.token = n.arg /\ n.text = n.session.text
    /\ n.why = "expired" => n.session = None

Fits(t, n, rows, writes, time) ==
    /\ Placed(n, rows, time) /\ Cast(t, n) /\ Meant(n) /\ Named(n, rows, writes) /\ Held(n)

Jobs == \A t \in Turns : Fits(t, job[t], DOMAIN events, DOMAIN executions, clock)

\* The question a turn goes by is the one its chat has, or the one it has not.
Reads ==
    \A t \in Turns : job[t].pc \in Talking \/ job[t].why \in {"button", "expired"} =>
        sessions[job[t].chat] = job[t].session

\* Nobody else undoes what a turn is undoing; and each undo beyond a crash or a lost answer is one
\* that its row or its turn knows of.
Undoing ==
    \A t \in Turns : job[t].pc \in {"undo", "undone"} =>
        /\ executions[job[t].arg].chat = job[t].chat
        /\ ~ executions[job[t].arg].undone

KnownUndone(x) ==
    \/ executions[x].undone
    \/ \E t \in Turns : job[t].pc = "undone" /\ job[t].applied /\ job[t].arg = x

Counted ==
    \A x \in DOMAIN executions :
        reverts[x] <= crashes + lost + (IF KnownUndone(x) THEN 1 ELSE 0)

\* What was written is in Notion; and whoever rescues an expired question has a workspace.
Landed ==
    \A t \in Turns :
        /\ job[t].pc = "written" /\ job[t].applied => \A m \in job[t].text : landed[m] > 0
        /\ job[t].pc = "inbox" /\ job[t].why = "expired" => known
        /\ t = Sweeper /\ job[t].pc \notin {"idle", "scanned"} => known

Kept == InboxMode = "auto" => NothingLost

ConvInv == Typed /\ Owned /\ Jobs /\ Reads /\ Undoing /\ Counted /\ Landed /\ Kept

----------------------------------------------------------------------------
(* What a turn becomes, by the way its local variables change. *)

LEMMA NoneIsQuestion == None \in Question /\ None.text = {} /\ None.token = 0
BY TimesAreNatural DEF None, Question

\* A turn with nothing to do.
LEMMA IdleFits ==
    ASSUME NEW t, NEW rows, NEW writes, NEW time \in Nat
    PROVE  Idle \in JobRec /\ Fits(t, Idle, rows, writes, time)
<1>1. Idle \in JobRec
    BY NoneIsQuestion, MaxTimeIsNatural
       DEF Idle, JobRec, Busy, Talking, Saving, Empty, Outside, Times, Doings, Whys, Args
<1>2. /\ Idle.pc = "idle" /\ Idle.chat = NoChat /\ Idle.do = "" /\ Idle.arg = 0
      /\ Idle.row = 0 /\ Idle.now = 0 /\ Idle.text = {} /\ Idle.session = None /\ Idle.why = ""
    BY DEF Idle
<1>3. 0 <= time
    OBVIOUS
<1>4. Idle.now <= time
    BY <1>2, <1>3
<1>5. Idle.pc \notin Busy
    BY <1>2 DEF Busy, Talking, Saving, Empty
<1>6. Placed(Idle, rows, time)
    BY <1>2, <1>4, <1>5, NoChatIsNoChat DEF Placed
<1>7. Cast(t, Idle)
    BY <1>2 DEF Cast
<1>8. Meant(Idle) /\ Named(Idle, rows, writes) /\ Held(Idle)
    BY <1>2 DEF Meant, Named, Held, Talking, Saving
<1> QED BY <1>1, <1>6, <1>7, <1>8 DEF Fits

\* What fits a turn still does when the tables have grown and the clock has moved on.
LEMMA FitsGrows ==
    ASSUME NEW t, NEW n \in JobRec, NEW time \in Nat, NEW later \in Nat, time <= later,
           NEW rows, NEW more, rows \subseteq more, NEW writes, NEW further, writes \subseteq further,
           Fits(t, n, rows, writes, time)
    PROVE  Fits(t, n, more, further, later)
<1>1. n.now \in Times
    BY DEF JobRec
<1>2. n.now \in Nat
    BY <1>1, MaxTimeIsNatural DEF Times
<1>3. Placed(n, more, later)
    BY <1>2 DEF Fits, Placed
<1>4. Named(n, more, further)
    BY DEF Fits, Named
<1> QED BY <1>3, <1>4 DEF Fits

\* Turn t of chat c has moved, and nobody else has.
Turned(t, c) ==
    /\ job' \in [Turns -> JobRec]
    /\ \A u \in Turns \ {t} : job'[u] = job[u]
    /\ job'[t].chat = c
    /\ Fits(t, job'[t], DOMAIN events, DOMAIN executions, clock)

LEMMA TurnsTo ==
    ASSUME Typed, Jobs, NEW t \in Turns, NEW c \in Chats, Within(t, c),
           NEW n \in JobRec, job' = [job EXCEPT ![t] = n],
           n.chat = job[t].chat, n.row = job[t].row, n.now \in {job[t].now, 0},
           n.pc \in Busy \ {"pop"}, job[t].pc # "pop",
           Cast(t, n), Meant(n), Named(n, DOMAIN events, DOMAIN executions), Held(n)
    PROVE  Turned(t, c)
<1>1. job \in [Turns -> JobRec] /\ job[t].chat = c
    BY DEF Typed, Within
<1>2. Fits(t, job[t], DOMAIN events, DOMAIN executions, clock)
    BY DEF Jobs
<1>3. clock \in Nat /\ 0 <= clock
    BY MaxTimeIsNatural DEF Typed, Times
<1>4. n.now <= clock
    <2>1. CASE n.now = 0
        BY <1>3, <2>1
    <2>2. CASE n.now = job[t].now
        BY <1>2, <2>2 DEF Fits, Placed
    <2> QED BY <2>1, <2>2
<1>5. job[t].pc \in Busy \ {"pop"}
    BY <1>1, <1>2 DEF Fits, Placed
<1>6. Placed(n, DOMAIN events, clock)
    BY <1>1, <1>2, <1>4, <1>5 DEF Fits, Placed
<1>7. Fits(t, n, DOMAIN events, DOMAIN executions, clock)
    BY <1>6 DEF Fits
<1> QED BY <1>1, <1>7 DEF Turned

\* A text goes to the inbox.
LEMMA ToInboxTurns ==
    ASSUME Typed, Jobs, NEW t \in Turns, NEW c \in Chats, Within(t, c), job[t].pc # "pop",
           NEW why \in {"fallback", "offer", "expired"}, NEW text \in SUBSET Messages,
           ToInbox(t, why, text), t # Sweeper,
           why = "fallback" => /\ job[t].do \in {"text", "answer"}
                               /\ job[t].do = "text" => job[t].arg \in text,
           why = "expired" => job[t].do = "text" /\ job[t].session = None,
           why = "offer" => job[t].do = "offer"
    PROVE  /\ Turned(t, c)
           /\ job'[t].pc = "inbox" /\ job'[t].why = why /\ job'[t].text = text
           /\ job'[t].do = job[t].do /\ job'[t].arg = job[t].arg
           /\ job'[t].session = job[t].session
<1>1. job \in [Turns -> JobRec] /\ job[t].chat = c
    BY DEF Typed, Within
<1>2. Fits(t, job[t], DOMAIN events, DOMAIN executions, clock)
    BY DEF Jobs
<1> DEFINE n == [job[t] EXCEPT !.pc = "inbox", !.why = why, !.text = text, !.applied = FALSE]
<1>3. n \in JobRec
    BY ZenonT(60), <1>1 DEF JobRec, Busy, Saving, Whys
<1>4. /\ n.pc = "inbox" /\ n.why = why /\ n.text = text /\ n.chat = job[t].chat
      /\ n.do = job[t].do /\ n.arg = job[t].arg /\ n.row = job[t].row /\ n.now = job[t].now
      /\ n.session = job[t].session
    BY <1>1 DEF JobRec
<1>5. job' = [job EXCEPT ![t] = n]
    BY <1>1 DEF ToInbox
<1> HIDE DEF n
<1>6. Cast(t, n) /\ Named(n, DOMAIN events, DOMAIN executions)
    BY <1>2, <1>4 DEF Fits, Cast, Named
<1>7. Meant(n)
    BY <1>2, <1>4 DEF Fits, Meant, Talking, Saving
<1>8. Held(n)
    BY <1>2, <1>4 DEF Fits, Held, Talking, Saving, Empty, Outside
<1>9. n.pc \in Busy \ {"pop"}
    BY <1>4 DEF Busy, Saving
<1>10. Turned(t, c)
    BY <1>3, <1>4, <1>5, <1>6, <1>7, <1>8, <1>9, TurnsTo
<1>11. job'[t] = n
    BY <1>1, <1>5
<1> QED BY <1>4, <1>10, <1>11

\* A turn is over, but for its reply.
LEMMA DoneTurns ==
    ASSUME Typed, Jobs, NEW t \in Turns, NEW c \in Chats, Within(t, c), job[t].pc # "pop", Done(t)
    PROVE  /\ Turned(t, c)
           /\ job'[t].pc = "done" /\ job'[t].why = "" /\ job'[t].text = {} /\ job'[t].do = ""
           /\ ~ job'[t].applied
<1>1. job \in [Turns -> JobRec] /\ job[t].chat = c
    BY DEF Typed, Within
<1> DEFINE n == Over(t)
<1>2. Idle \in JobRec
    BY IdleFits
<1>3. job[t].chat \in Chats \cup {NoChat} /\ job[t].row \in Nat
    BY <1>1 DEF JobRec
<1>4. n \in JobRec
    BY <1>2, <1>3 DEF JobRec, Busy, Empty, Over
<1>5. /\ n.pc = "done" /\ n.chat = job[t].chat /\ n.row = job[t].row
      /\ n.now = 0 /\ n.why = "" /\ n.do = "" /\ n.text = {} /\ n.session = None /\ ~ n.applied
    BY DEF Over, Idle
<1>6. job' = [job EXCEPT ![t] = n]
    BY DEF Done
<1> HIDE DEF n
<1>7. Cast(t, n) /\ Named(n, DOMAIN events, DOMAIN executions)
    BY <1>5 DEF Cast, Named
<1>8. Meant(n)
    BY <1>5 DEF Meant, Talking, Saving
<1>9. Held(n)
    BY <1>5 DEF Held, Talking
<1>10. n.pc \in Busy \ {"pop"}
    BY <1>5 DEF Busy, Empty
<1>11. Turned(t, c)
    BY <1>4, <1>5, <1>6, <1>7, <1>8, <1>9, <1>10, TurnsTo
<1>12. job'[t] = n
    BY <1>1, <1>6
<1> QED BY <1>5, <1>11, <1>12

\* The rescue is over, and the message that came past the expired question is read.
LEMMA GoOnTurns ==
    ASSUME Typed, Jobs, NEW t \in Turns, NEW c \in Chats, Within(t, c),
           job[t].why = "expired", GoOn(t)
    PROVE  /\ Turned(t, c)
           /\ job'[t].pc = "read" /\ job'[t].why = "" /\ job'[t].text = {job[t].arg}
           /\ job'[t].do = "text" /\ job'[t].arg = job[t].arg
           /\ job'[t].session = job[t].session /\ ~ job'[t].applied
<1>1. job \in [Turns -> JobRec] /\ job[t].chat = c
    BY DEF Typed, Within
<1>2. Fits(t, job[t], DOMAIN events, DOMAIN executions, clock)
    BY DEF Jobs
<1>3. job[t].do = "text" /\ job[t].session = None /\ job[t].arg \in Messages
    BY <1>2 DEF Fits, Meant, Held, Named
<1>4. t # Sweeper /\ job[t].pc # "pop"
    BY <1>2 DEF Fits, Cast, Meant, Saving
<1> DEFINE n == [job[t] EXCEPT !.pc = "read", !.why = "", !.text = {job[t].arg}, !.applied = FALSE]
<1>5. {job[t].arg} \in SUBSET Messages
    BY <1>3
<1>6. n \in JobRec
    BY ZenonT(60), <1>1, <1>5 DEF JobRec, Busy, Talking, Whys
<1>7. /\ n.pc = "read" /\ n.why = "" /\ n.text = {job[t].arg} /\ n.chat = job[t].chat
      /\ n.do = job[t].do /\ n.arg = job[t].arg /\ n.row = job[t].row /\ n.now = job[t].now
      /\ n.session = job[t].session /\ ~ n.applied
    BY ZenonT(60), <1>1 DEF JobRec
<1>8. job' = [job EXCEPT ![t] = n]
    BY <1>1 DEF GoOn
<1> HIDE DEF n
<1>9. Cast(t, n) /\ Named(n, DOMAIN events, DOMAIN executions)
    BY <1>2, <1>3, <1>4, <1>7 DEF Fits, Cast, Named
<1>10. Meant(n)
    BY <1>3, <1>7 DEF Meant, Talking, Saving
<1>11. Held(n)
    BY <1>3, <1>7, NoneIsQuestion DEF Held, Talking, Saving, Empty, Outside
<1>12. n.pc \in Busy \ {"pop"}
    BY <1>7 DEF Busy, Talking
<1>13. Turned(t, c)
    BY <1>4, <1>6, <1>7, <1>8, <1>9, <1>10, <1>11, <1>12, TurnsTo
<1>14. job'[t] = n
    BY <1>1, <1>8
<1> QED BY <1>3, <1>7, <1>13, <1>14

\* A query is searched for, or the inbox is written to: the turn moves on with all it has.
LEMMA GotoTurns ==
    ASSUME Typed, Jobs, NEW t \in Turns, NEW c \in Chats, Within(t, c), NEW pc, Goto(t, pc),
           \/ pc = "researched" /\ job[t].pc \in {"read", "resume"}
           \/ pc = "write" /\ job[t].pc = "inbox"
    PROVE  /\ Turned(t, c)
           /\ job'[t].pc = pc /\ job'[t].why = job[t].why /\ job'[t].text = job[t].text
           /\ job'[t].do = job[t].do /\ job'[t].arg = job[t].arg
           /\ job'[t].session = job[t].session
<1>1. job \in [Turns -> JobRec] /\ job[t].chat = c
    BY DEF Typed, Within
<1>2. Fits(t, job[t], DOMAIN events, DOMAIN executions, clock)
    BY DEF Jobs
<1> DEFINE n == [job[t] EXCEPT !.pc = pc]
<1>3. pc \in Busy \ {"pop"}
    BY DEF Busy, Talking, Saving
<1>4. n \in JobRec
    BY <1>1, <1>3 DEF JobRec
<1>5. /\ n.pc = pc /\ n.why = job[t].why /\ n.text = job[t].text /\ n.chat = job[t].chat
      /\ n.do = job[t].do /\ n.arg = job[t].arg /\ n.row = job[t].row /\ n.now = job[t].now
      /\ n.session = job[t].session
    BY <1>1 DEF JobRec
<1>6. job' = [job EXCEPT ![t] = n]
    BY <1>1 DEF Goto
<1> HIDE DEF n
<1>7. Cast(t, n) /\ Named(n, DOMAIN events, DOMAIN executions)
    BY <1>2, <1>5 DEF Fits, Cast, Named, Saving
<1>8. Meant(n)
    BY <1>2, <1>5 DEF Fits, Meant, Talking, Saving
<1>9. Held(n)
    BY <1>2, <1>5 DEF Fits, Held, Talking, Saving, Empty, Outside
<1>10. Turned(t, c)
    BY <1>3, <1>4, <1>5, <1>6, <1>7, <1>8, <1>9, TurnsTo
<1>11. job'[t] = n
    BY <1>1, <1>6
<1> QED BY <1>5, <1>10, <1>11

\* A write, or the undo of one, is sent.
LEMMA SentTurns ==
    ASSUME Typed, Jobs, NEW t \in Turns, NEW c \in Chats, Within(t, c),
           NEW pc, NEW applied \in BOOLEAN,
           job' = [job EXCEPT ![t].pc = pc, ![t].applied = applied],
           \/ pc = "written" /\ job[t].pc = "write"
           \/ pc = "undone" /\ job[t].pc = "undo"
    PROVE  /\ Turned(t, c)
           /\ job'[t].pc = pc /\ job'[t].why = job[t].why /\ job'[t].text = job[t].text
           /\ job'[t].do = job[t].do /\ job'[t].arg = job[t].arg
           /\ job'[t].session = job[t].session /\ job'[t].applied = applied
<1>1. job \in [Turns -> JobRec] /\ job[t].chat = c
    BY DEF Typed, Within
<1>2. Fits(t, job[t], DOMAIN events, DOMAIN executions, clock)
    BY DEF Jobs
<1> DEFINE n == [job[t] EXCEPT !.pc = pc, !.applied = applied]
<1>3. pc \in Busy \ {"pop"}
    BY DEF Busy, Saving, Empty
<1>4. n \in JobRec
    BY ZenonT(60), <1>1, <1>3 DEF JobRec
<1>5. /\ n.pc = pc /\ n.why = job[t].why /\ n.text = job[t].text /\ n.chat = job[t].chat
      /\ n.do = job[t].do /\ n.arg = job[t].arg /\ n.row = job[t].row /\ n.now = job[t].now
      /\ n.session = job[t].session /\ n.applied = applied
    BY <1>1 DEF JobRec
<1>6. job' = [job EXCEPT ![t] = n]
    BY <1>1
<1> HIDE DEF n
<1>7. Cast(t, n) /\ Named(n, DOMAIN events, DOMAIN executions)
    BY <1>2, <1>5 DEF Fits, Cast, Named, Saving
<1>8. Meant(n)
    BY <1>2, <1>5 DEF Fits, Meant, Talking, Saving
<1>9. Held(n)
    BY <1>2, <1>5 DEF Fits, Held, Talking, Saving, Empty, Outside
<1>10. Turned(t, c)
    BY <1>3, <1>4, <1>5, <1>6, <1>7, <1>8, <1>9, TurnsTo
<1>11. job'[t] = n
    BY <1>1, <1>6
<1> QED BY <1>5, <1>10, <1>11

\* A message is read together with the question it answers, or with none.
LEMMA ReadTurns ==
    ASSUME Typed, Jobs, NEW t \in Turns, NEW c \in Chats, Within(t, c),
           job[t].pc = "begun", job[t].do = "text", NEW q \in Question,
           job' = [job EXCEPT ![t].pc = "read", ![t].session = q,
                              ![t].text = {job[t].arg} \cup q.text]
    PROVE  /\ Turned(t, c)
           /\ job'[t].pc = "read" /\ job'[t].why = "" /\ job'[t].text = {job[t].arg} \cup q.text
           /\ job'[t].do = "text" /\ job'[t].arg = job[t].arg /\ job'[t].session = q
<1>1. job \in [Turns -> JobRec] /\ job[t].chat = c
    BY DEF Typed, Within
<1>2. Fits(t, job[t], DOMAIN events, DOMAIN executions, clock)
    BY DEF Jobs
<1>3. job[t].arg \in Messages /\ q.text \subseteq Messages
    BY <1>2 DEF Fits, Named, Question
<1>4. t # Sweeper /\ job[t].why = ""
    BY <1>2 DEF Fits, Cast, Meant, Saving
<1> DEFINE n == [job[t] EXCEPT !.pc = "read", !.session = q, !.text = {job[t].arg} \cup q.text]
<1>5. {job[t].arg} \cup q.text \in SUBSET Messages
    BY <1>3
<1>6. n \in JobRec
    BY ZenonT(60), <1>1, <1>5 DEF JobRec, Busy, Talking
<1>7. /\ n.pc = "read" /\ n.why = job[t].why /\ n.text = {job[t].arg} \cup q.text
      /\ n.chat = job[t].chat /\ n.do = job[t].do /\ n.arg = job[t].arg /\ n.row = job[t].row
      /\ n.now = job[t].now /\ n.session = q
    BY <1>1 DEF JobRec
<1>8. job' = [job EXCEPT ![t] = n]
    BY <1>1
<1> HIDE DEF n
<1>9. Cast(t, n) /\ Named(n, DOMAIN events, DOMAIN executions)
    BY <1>3, <1>4, <1>7 DEF Cast, Named
<1>10. Meant(n)
    BY <1>4, <1>7 DEF Meant, Talking, Saving
<1>11. Held(n)
    BY <1>4, <1>7 DEF Held, Talking, Saving, Empty, Outside
<1>12. n.pc \in Busy \ {"pop"}
    BY <1>7 DEF Busy, Talking
<1>13. Turned(t, c)
    BY <1>6, <1>7, <1>8, <1>9, <1>10, <1>11, <1>12, TurnsTo
<1>14. job'[t] = n
    BY <1>1, <1>8
<1> QED BY <1>4, <1>7, <1>13, <1>14

\* An option is pressed: the question it answers is gone on with.
LEMMA ResumeTurns ==
    ASSUME Typed, Jobs, NEW t \in Turns, NEW c \in Chats, Within(t, c),
           job[t].pc = "begun", job[t].do = "answer", NEW q \in Question, q.token = job[t].arg,
           job' = [job EXCEPT ![t].pc = "resume", ![t].session = q, ![t].text = q.text]
    PROVE  /\ Turned(t, c)
           /\ job'[t].pc = "resume" /\ job'[t].why = "" /\ job'[t].text = q.text
           /\ job'[t].do = "answer" /\ job'[t].arg = job[t].arg /\ job'[t].session = q
<1>1. job \in [Turns -> JobRec] /\ job[t].chat = c
    BY DEF Typed, Within
<1>2. Fits(t, job[t], DOMAIN events, DOMAIN executions, clock)
    BY DEF Jobs
<1>3. q.text \in SUBSET Messages /\ q.token \in Nat
    BY DEF Question
<1>4. t # Sweeper /\ job[t].why = ""
    BY <1>2 DEF Fits, Cast, Meant, Saving
<1> DEFINE n == [job[t] EXCEPT !.pc = "resume", !.session = q, !.text = q.text]
<1>5. n \in JobRec
    BY ZenonT(60), <1>1, <1>3 DEF JobRec, Busy, Talking
<1>6. /\ n.pc = "resume" /\ n.why = job[t].why /\ n.text = q.text
      /\ n.chat = job[t].chat /\ n.do = job[t].do /\ n.arg = job[t].arg /\ n.row = job[t].row
      /\ n.now = job[t].now /\ n.session = q
    BY <1>1 DEF JobRec
<1>7. job' = [job EXCEPT ![t] = n]
    BY <1>1
<1> HIDE DEF n
<1>8. Cast(t, n) /\ Named(n, DOMAIN events, DOMAIN executions)
    BY <1>3, <1>4, <1>6 DEF Cast, Named
<1>9. Meant(n)
    BY <1>4, <1>6 DEF Meant, Talking, Saving
<1>10. Held(n)
    BY <1>4, <1>6 DEF Held, Talking, Saving, Empty, Outside
<1>11. n.pc \in Busy \ {"pop"}
    BY <1>6 DEF Busy, Talking
<1>12. Turned(t, c)
    BY <1>5, <1>6, <1>7, <1>8, <1>9, <1>10, <1>11, TurnsTo
<1>13. job'[t] = n
    BY <1>1, <1>7
<1> QED BY <1>4, <1>6, <1>12, <1>13

\* The inbox button of a question is pressed.
LEMMA ButtonTurns ==
    ASSUME Typed, Jobs, NEW t \in Turns, NEW c \in Chats, Within(t, c),
           job[t].pc = "begun", job[t].do = "answer", NEW q \in Question, q.token = job[t].arg,
           job' = [job EXCEPT ![t].pc = "inbox", ![t].why = "button",
                              ![t].session = q, ![t].text = q.text]
    PROVE  /\ Turned(t, c)
           /\ job'[t].pc = "inbox" /\ job'[t].why = "button" /\ job'[t].text = q.text
           /\ job'[t].do = "answer" /\ job'[t].arg = job[t].arg /\ job'[t].session = q
<1>1. job \in [Turns -> JobRec] /\ job[t].chat = c
    BY DEF Typed, Within
<1>2. Fits(t, job[t], DOMAIN events, DOMAIN executions, clock)
    BY DEF Jobs
<1>3. q.text \in SUBSET Messages /\ q.token \in Nat
    BY DEF Question
<1>4. t # Sweeper /\ "inbox" \in Busy /\ "button" \in Whys
    BY <1>2 DEF Fits, Cast, Busy, Saving, Whys
<1> DEFINE n == [job[t] EXCEPT !.pc = "inbox", !.why = "button", !.session = q, !.text = q.text]
<1>5. n \in JobRec
    BY ZenonT(60), <1>1, <1>3, <1>4 DEF JobRec
<1>6. /\ n.pc = "inbox" /\ n.why = "button" /\ n.text = q.text
      /\ n.chat = job[t].chat /\ n.do = job[t].do /\ n.arg = job[t].arg /\ n.row = job[t].row
      /\ n.now = job[t].now /\ n.session = q
    BY ZenonT(60), <1>1 DEF JobRec
<1>7. job' = [job EXCEPT ![t] = n]
    BY <1>1
<1> HIDE DEF n
<1>8. Cast(t, n) /\ Named(n, DOMAIN events, DOMAIN executions)
    BY <1>3, <1>4, <1>6 DEF Cast, Named
<1>9. Meant(n)
    BY <1>6 DEF Meant, Talking, Saving
<1>10. Held(n)
    BY <1>6 DEF Held, Talking, Saving, Empty, Outside
<1>11. n.pc \in Busy \ {"pop"}
    BY <1>6 DEF Busy, Saving
<1>12. Turned(t, c)
    BY <1>5, <1>6, <1>7, <1>8, <1>9, <1>10, <1>11, TurnsTo
<1>13. job'[t] = n
    BY <1>1, <1>7
<1> QED BY <1>6, <1>12, <1>13

\* What was understood is carried out.
LEMMA ExecuteTurns ==
    ASSUME Typed, Jobs, NEW t \in Turns, NEW c \in Chats, Within(t, c), job[t].pc \in Talking,
           job' = [job EXCEPT ![t].pc = "write", ![t].why = "execute"]
    PROVE  /\ Turned(t, c)
           /\ job'[t].pc = "write" /\ job'[t].why = "execute" /\ job'[t].text = job[t].text
           /\ job'[t].do = job[t].do /\ job'[t].arg = job[t].arg
           /\ job'[t].session = job[t].session
<1>1. job \in [Turns -> JobRec] /\ job[t].chat = c
    BY DEF Typed, Within
<1>2. Fits(t, job[t], DOMAIN events, DOMAIN executions, clock)
    BY DEF Jobs
<1> DEFINE n == [job[t] EXCEPT !.pc = "write", !.why = "execute"]
<1>3. n \in JobRec
    BY ZenonT(60), <1>1 DEF JobRec, Busy, Saving, Whys
<1>4. /\ n.pc = "write" /\ n.why = "execute" /\ n.text = job[t].text
      /\ n.chat = job[t].chat /\ n.do = job[t].do /\ n.arg = job[t].arg /\ n.row = job[t].row
      /\ n.now = job[t].now /\ n.session = job[t].session
    BY <1>1 DEF JobRec
<1>5. job' = [job EXCEPT ![t] = n]
    BY <1>1
<1> HIDE DEF n
<1>6. t # Sweeper /\ job[t].pc # "pop"
    BY <1>2 DEF Fits, Cast, Talking, Saving
<1>7. Cast(t, n) /\ Named(n, DOMAIN events, DOMAIN executions)
    BY <1>2, <1>4, <1>6 DEF Fits, Cast, Named
<1>8. Meant(n)
    BY <1>2, <1>4 DEF Fits, Meant, Talking, Saving
<1>9. Held(n)
    BY <1>2, <1>4 DEF Fits, Held, Talking, Saving, Empty, Outside
<1>10. n.pc \in Busy \ {"pop"}
    BY <1>4 DEF Busy, Saving
<1>11. Turned(t, c)
    BY <1>3, <1>4, <1>5, <1>6, <1>7, <1>8, <1>9, <1>10, TurnsTo
<1>12. job'[t] = n
    BY <1>1, <1>5
<1> QED BY <1>4, <1>11, <1>12

\* A write is chosen to be undone.
LEMMA UndoTurns ==
    ASSUME Typed, Jobs, NEW t \in Turns, NEW c \in Chats, Within(t, c), job[t].pc = "begun",
           job[t].do \in {"undo", "undo_latest"}, NEW x \in DOMAIN executions,
           job' = [job EXCEPT ![t].pc = "undo", ![t].arg = x]
    PROVE  /\ Turned(t, c)
           /\ job'[t].pc = "undo" /\ job'[t].why = "" /\ job'[t].text = {} /\ job'[t].arg = x
           /\ job'[t].do = job[t].do
<1>1. job \in [Turns -> JobRec] /\ job[t].chat = c
    BY DEF Typed, Within
<1>2. Fits(t, job[t], DOMAIN events, DOMAIN executions, clock)
    BY DEF Jobs
<1>3. x \in Args
    BY EntryFacts DEF Typed, Args
<1>4. t # Sweeper /\ job[t].why = "" /\ job[t].text = {} /\ job[t].session = None
    BY <1>2 DEF Fits, Cast, Meant, Held, Saving, Empty
<1> DEFINE n == [job[t] EXCEPT !.pc = "undo", !.arg = x]
<1>5. n \in JobRec
    BY ZenonT(60), <1>1, <1>3 DEF JobRec, Busy, Empty
<1>6. /\ n.pc = "undo" /\ n.why = job[t].why /\ n.text = job[t].text
      /\ n.chat = job[t].chat /\ n.do = job[t].do /\ n.arg = x /\ n.row = job[t].row
      /\ n.now = job[t].now /\ n.session = job[t].session
    BY <1>1 DEF JobRec
<1>7. job' = [job EXCEPT ![t] = n]
    BY <1>1
<1> HIDE DEF n
<1>8. Cast(t, n) /\ Named(n, DOMAIN events, DOMAIN executions)
    BY <1>2, <1>4, <1>6 DEF Fits, Cast, Named
<1>9. Meant(n)
    BY <1>4, <1>6 DEF Meant, Talking, Saving
<1>10. Held(n)
    BY <1>4, <1>6 DEF Held, Talking, Saving, Empty, Outside
<1>11. n.pc \in Busy \ {"pop"}
    BY <1>6 DEF Busy, Empty
<1>12. Turned(t, c)
    BY <1>5, <1>6, <1>7, <1>8, <1>9, <1>10, <1>11, TurnsTo
<1>13. job'[t] = n
    BY <1>1, <1>7
<1> QED BY <1>4, <1>6, <1>12, <1>13

----------------------------------------------------------------------------
(* What one step of turn t may do, the clock and the death of the process aside; each part of the *)
(* invariant follows from it, whatever the step.                                                 *)

JobMoves(t) ==
    /\ job' \in [Turns -> JobRec]
    /\ \A u \in Turns \ {t} : job'[u] = job[u]
    /\ Fits(t, job'[t], DOMAIN events', DOMAIN executions', clock)

\* A turn enters an empty chat or leaves its own.
QueueMoves(t) ==
    /\ owner' \in [Chats -> Turns \cup {Nobody}]
    /\ line' \in [Chats -> Seq(Turns)]
    /\ \A d \in Chats : owner'[d] = owner[d] \/ owner[d] \in {Nobody, t}
    /\ job'[t].chat \in Chats => owner'[job'[t].chat] = t

\* It moves the question of no other chat, and knows what it moved its own to.
QuestionMoves(t) ==
    /\ sessions' \in [Chats -> Question]
    /\ \A d \in Chats : sessions'[d] = sessions[d] \/ owner[d] = t
    /\ job'[t].pc \in Talking \/ job'[t].why \in {"button", "expired"} =>
            sessions'[job'[t].chat] = job'[t].session

EventsGrow ==
    /\ events' \in Seq(EventRec)
    /\ DOMAIN events \subseteq DOMAIN events'

\* A write is marked as undone by the turn that undid it.
WritesMove(t) ==
    /\ executions' \in Seq(ExecutionRec)
    /\ DOMAIN executions \subseteq DOMAIN executions'
    /\ \A x \in DOMAIN executions :
        /\ executions'[x].chat = executions[x].chat
        /\ \/ executions'[x].undone = executions[x].undone
           \/ job[t].pc = "undone" /\ job[t].arg = x
    /\ reverts' \in Seq(Nat) /\ DOMAIN reverts' = DOMAIN executions'

\* What it sets out to undo is its chat's and not undone.
UndoMoves(t) ==
    job'[t].pc \in {"undo", "undone"} =>
        /\ executions'[job'[t].arg].chat = job'[t].chat
        /\ ~ executions'[job'[t].arg].undone

ButtonsMove ==
    /\ DOMAIN shown' = Chats
    /\ \A d \in Chats : \A b \in shown'[d] :
            b \in shown[d] \/ ButtonFits(b, DOMAIN events', DOMAIN executions')

WorldMoves ==
    /\ sweep' \in [now : Times, todo : SUBSET Chats] /\ sweep'.now <= clock
    /\ clock' = clock /\ crashes' = crashes
    /\ sent' \subseteq Messages
    /\ known' \in BOOLEAN /\ (known => known')
    /\ lost' \in Nat /\ lost <= lost'
    /\ landed' \in [Messages -> Nat] /\ \A m \in Messages : landed[m] <= landed'[m]

LandsIn(t) ==
    /\ job'[t].pc = "written" /\ job'[t].applied => \A m \in job'[t].text : landed'[m] > 0
    /\ job'[t].pc = "inbox" /\ job'[t].why = "expired" => known'
    /\ t = Sweeper /\ job'[t].pc \notin {"idle", "scanned"} => known'

Acts(t) ==
    /\ JobMoves(t) /\ QueueMoves(t) /\ QuestionMoves(t) /\ EventsGrow /\ WritesMove(t)
    /\ UndoMoves(t) /\ ButtonsMove /\ WorldMoves /\ LandsIn(t)

LEMMA ActsKeepTyped ==
    ASSUME ConvInv, NEW t \in Turns, Acts(t)
    PROVE  Typed'
<1>1. /\ owner' \in [Chats -> Turns \cup {Nobody}] /\ line' \in [Chats -> Seq(Turns)]
      /\ sessions' \in [Chats -> Question] /\ events' \in Seq(EventRec)
      /\ executions' \in Seq(ExecutionRec) /\ job' \in [Turns -> JobRec]
      /\ reverts' \in Seq(Nat) /\ DOMAIN reverts' = DOMAIN executions'
    BY DEF Acts, JobMoves, QueueMoves, QuestionMoves, EventsGrow, WritesMove
<1>2. /\ sweep' \in [now : Times, todo : SUBSET Chats] /\ sweep'.now <= clock'
      /\ clock' \in Times /\ crashes' \in Nat /\ lost' \in Nat /\ sent' \subseteq Messages
      /\ known' \in BOOLEAN /\ landed' \in [Messages -> Nat]
    BY DEF ConvInv, Typed, Acts, WorldMoves
<1>3. DOMAIN shown' = Chats
    BY DEF Acts, ButtonsMove
<1>4. ASSUME NEW d \in Chats, NEW b \in shown'[d]
      PROVE  ButtonFits(b, DOMAIN events', DOMAIN executions')
    <2>1. CASE b \in shown[d]
        <3>1. ButtonFits(b, DOMAIN events, DOMAIN executions)
            BY <2>1 DEF ConvInv, Typed
        <3>2. DOMAIN events \subseteq DOMAIN events' /\ DOMAIN executions \subseteq DOMAIN executions'
            BY DEF Acts, EventsGrow, WritesMove
        <3> QED BY <3>1, <3>2 DEF ButtonFits
    <2>2. CASE b \notin shown[d]
        BY <1>4, <2>2 DEF Acts, ButtonsMove
    <2> QED BY <2>1, <2>2
<1> QED BY <1>1, <1>2, <1>3, <1>4 DEF Typed

LEMMA ActsKeepOwned ==
    ASSUME ConvInv, NEW t \in Turns, Acts(t)
    PROVE  Owned'
<1> SUFFICES ASSUME NEW u \in Turns, job'[u].chat \in Chats
             PROVE  owner'[job'[u].chat] = u
    BY DEF Owned
<1>1. CASE u = t
    BY <1>1 DEF Acts, QueueMoves
<1>2. CASE u # t
    <2>1. job'[u] = job[u] /\ owner[job[u].chat] = u /\ u # Nobody
        BY <1>2, NobodyIsNoTurn DEF ConvInv, Owned, Acts, JobMoves
    <2> QED BY <1>2, <2>1 DEF Acts, QueueMoves
<1> QED BY <1>1, <1>2

LEMMA ActsKeepJobs ==
    ASSUME ConvInv, NEW t \in Turns, Acts(t)
    PROVE  Jobs'
<1>1. clock \in Nat /\ clock' = clock /\ clock <= clock
    BY MaxTimeIsNatural DEF ConvInv, Typed, Acts, WorldMoves, Times
<1> SUFFICES ASSUME NEW u \in Turns
             PROVE  Fits(u, job'[u], DOMAIN events', DOMAIN executions', clock')
    BY DEF Jobs, Fits, Placed, Cast, Meant, Named, Held
<1>2. CASE u = t
    BY <1>1, <1>2 DEF Acts, JobMoves
<1>3. CASE u # t
    <2>1. job'[u] = job[u] /\ job[u] \in JobRec
        BY <1>3 DEF ConvInv, Typed, Acts, JobMoves
    <2>2. Fits(u, job[u], DOMAIN events, DOMAIN executions, clock)
        BY DEF ConvInv, Jobs
    <2>3. DOMAIN events \subseteq DOMAIN events' /\ DOMAIN executions \subseteq DOMAIN executions'
        BY DEF Acts, EventsGrow, WritesMove
    <2>4. Fits(u, job[u], DOMAIN events', DOMAIN executions', clock)
        BY <1>1, <2>1, <2>2, <2>3, FitsGrows
    <2> QED BY <1>1, <2>1, <2>4
<1> QED BY <1>2, <1>3

\* Where the turns are, as an argument they all keep: a turn with a text or an undo in hand is past
\* the lock of a chat.
LEMMA HandsAreInside ==
    ASSUME ConvInv, NEW t \in Turns,
           \/ job[t].pc \in Talking \cup Saving \/ job[t].why # ""
           \/ job[t].pc \in {"undo", "undone"}
    PROVE  job[t].chat \in Chats /\ owner[job[t].chat] = t /\ job[t].pc \in Busy
<1>1. Fits(t, job[t], DOMAIN events, DOMAIN executions, clock)
    BY DEF ConvInv, Jobs
<1>2. job[t].pc \in Busy
    BY <1>1 DEF Fits, Meant, Busy, Empty
<1>3. job[t].chat \in Chats
    BY <1>1, <1>2 DEF Fits, Placed
<1> QED BY <1>2, <1>3 DEF ConvInv, Owned

LEMMA ActsKeepReads ==
    ASSUME ConvInv, NEW t \in Turns, Acts(t)
    PROVE  Reads'
<1> SUFFICES ASSUME NEW u \in Turns,
                    job'[u].pc \in Talking \/ job'[u].why \in {"button", "expired"}
             PROVE  sessions'[job'[u].chat] = job'[u].session
    BY DEF Reads
<1>1. CASE u = t
    BY <1>1 DEF Acts, QuestionMoves
<1>2. CASE u # t
    <2>1. job'[u] = job[u]
        BY <1>2 DEF Acts, JobMoves
    <2>2. sessions[job[u].chat] = job[u].session
        BY <2>1 DEF ConvInv, Reads
    <2>3. job[u].chat \in Chats /\ owner[job[u].chat] = u
        BY <2>1, HandsAreInside
    <2>4. sessions'[job[u].chat] = sessions[job[u].chat]
        BY <1>2, <2>3 DEF Acts, QuestionMoves
    <2> QED BY <2>1, <2>2, <2>4
<1> QED BY <1>1, <1>2

LEMMA ActsKeepUndoing ==
    ASSUME ConvInv, NEW t \in Turns, Acts(t)
    PROVE  Undoing'
<1> SUFFICES ASSUME NEW u \in Turns, job'[u].pc \in {"undo", "undone"}
             PROVE  /\ executions'[job'[u].arg].chat = job'[u].chat
                    /\ ~ executions'[job'[u].arg].undone
    BY DEF Undoing
<1>1. CASE u = t
    BY <1>1 DEF Acts, UndoMoves
<1>2. CASE u # t
    <2>1. job'[u] = job[u]
        BY <1>2 DEF Acts, JobMoves
    <2>2. executions[job[u].arg].chat = job[u].chat /\ ~ executions[job[u].arg].undone
        BY <2>1 DEF ConvInv, Undoing
    <2>3. owner[job[u].chat] = u
        BY <2>1, HandsAreInside
    <2>4. job[u].arg \in DOMAIN executions
        BY <2>1 DEF ConvInv, Jobs, Fits, Named
    <2>5. ~ (job[t].pc = "undone" /\ job[t].arg = job[u].arg)
        <3> SUFFICES ASSUME job[t].pc = "undone", job[t].arg = job[u].arg
                     PROVE  FALSE
            OBVIOUS
        <3>1. executions[job[t].arg].chat = job[t].chat
            BY DEF ConvInv, Undoing
        <3>2. owner[job[t].chat] = t
            BY HandsAreInside
        <3> QED BY <1>2, <2>2, <2>3, <3>1, <3>2
    <2> QED BY <2>1, <2>2, <2>4, <2>5 DEF Acts, WritesMove
<1> QED BY <1>1, <1>2

LEMMA ActsKeepLanded ==
    ASSUME ConvInv, NEW t \in Turns, Acts(t)
    PROVE  Landed'
<1> SUFFICES ASSUME NEW u \in Turns
             PROVE  /\ job'[u].pc = "written" /\ job'[u].applied =>
                            \A m \in job'[u].text : landed'[m] > 0
                    /\ job'[u].pc = "inbox" /\ job'[u].why = "expired" => known'
                    /\ u = Sweeper /\ job'[u].pc \notin {"idle", "scanned"} => known'
    BY DEF Landed
<1>1. CASE u = t
    BY <1>1 DEF Acts, LandsIn
<1>2. CASE u # t
    <2>1. job'[u] = job[u] /\ job[u] \in JobRec /\ (known => known')
        BY <1>2 DEF ConvInv, Typed, Acts, JobMoves, WorldMoves
    <2>2. ASSUME job[u].pc = "written", job[u].applied, NEW m \in job[u].text
          PROVE  landed'[m] > 0
        <3>1. landed[m] > 0 /\ m \in Messages
            BY <2>1, <2>2 DEF ConvInv, Landed, JobRec
        <3>2. landed[m] <= landed'[m] /\ landed[m] \in Nat /\ landed'[m] \in Nat
            BY <3>1 DEF ConvInv, Typed, Acts, WorldMoves
        <3> QED BY <3>1, <3>2
    <2>3. job[u].pc = "inbox" /\ job[u].why = "expired" => known
        BY DEF ConvInv, Landed
    <2>4. u = Sweeper /\ job[u].pc \notin {"idle", "scanned"} => known
        BY DEF ConvInv, Landed
    <2> QED BY <2>1, <2>2, <2>3, <2>4
<1> QED BY <1>1, <1>2

----------------------------------------------------------------------------
(* The steps of a turn within its chat. *)

\* Such a turn is the one inside, and none that the sweeper takes lacks a workspace.
LEMMA WithinFacts ==
    ASSUME ConvInv, NEW t \in Turns, NEW c \in Chats, Within(t, c)
    PROVE  /\ Typed /\ Jobs
           /\ job[t] \in JobRec /\ job[t].pc \in Busy /\ owner[c] = t
           /\ Fits(t, job[t], DOMAIN events, DOMAIN executions, clock)
           /\ t = Sweeper => known
<1>1. job[t] \in JobRec /\ Fits(t, job[t], DOMAIN events, DOMAIN executions, clock)
    BY DEF ConvInv, Typed, Jobs
<1>2. job[t].pc \in Busy /\ owner[c] = t
    BY <1>1 DEF ConvInv, Owned, Fits, Placed, Within
<1>3. t = Sweeper => known
    BY <1>2 DEF ConvInv, Landed, Busy, Talking, Saving, Empty
<1> QED BY <1>1, <1>2, <1>3 DEF ConvInv

LEMMA InsideActs ==
    ASSUME ConvInv, NEW t \in Turns, NEW c \in Chats, Within(t, c), Turned(t, c), Frame,
           QuestionMoves(t), EventsGrow, WritesMove(t), UndoMoves(t), ButtonsMove,
           known' \in BOOLEAN, known => known', lost' \in Nat, lost <= lost',
           landed' \in [Messages -> Nat], \A m \in Messages : landed[m] <= landed'[m],
           job'[t].pc = "written" /\ job'[t].applied => \A m \in job'[t].text : landed'[m] > 0,
           job'[t].pc = "inbox" /\ job'[t].why = "expired" => known'
    PROVE  Acts(t)
<1>1. Typed /\ owner[c] = t /\ (t = Sweeper => known)
    BY WithinFacts
<1>2. JobMoves(t)
    <2>1. DOMAIN events \subseteq DOMAIN events' /\ DOMAIN executions \subseteq DOMAIN executions'
        BY DEF EventsGrow, WritesMove
    <2>2. clock \in Nat /\ clock <= clock
        BY <1>1, MaxTimeIsNatural DEF Typed, Times
    <2>3. Fits(t, job'[t], DOMAIN events, DOMAIN executions, clock) /\ job'[t] \in JobRec
        BY DEF Turned
    <2>4. Fits(t, job'[t], DOMAIN events', DOMAIN executions', clock)
        BY <2>1, <2>2, <2>3, FitsGrows
    <2> QED BY <2>4 DEF JobMoves, Turned
<1>3. QueueMoves(t)
    BY <1>1 DEF Typed, QueueMoves, Frame, queueVars, Turned
<1>4. WorldMoves
    BY <1>1 DEF Typed, WorldMoves, Frame
<1>5. LandsIn(t)
    BY <1>1 DEF LandsIn
<1> QED BY <1>2, <1>3, <1>4, <1>5 DEF Acts

\* Most steps write nothing.
LEMMA CalmActs ==
    ASSUME ConvInv, NEW t \in Turns, NEW c \in Chats, Within(t, c), Turned(t, c), Frame,
           QuestionMoves(t), UNCHANGED <<events, executions, reverts, landed, lost>>,
           UndoMoves(t), ButtonsMove, known' \in {known, TRUE},
           job'[t].pc # "written", job'[t].pc = "inbox" /\ job'[t].why = "expired" => known'
    PROVE  Acts(t)
<1>1. Typed
    BY DEF ConvInv
<1>2. EventsGrow /\ WritesMove(t)
    BY <1>1 DEF Typed, EventsGrow, WritesMove
<1>3. \A m \in Messages : landed[m] <= landed[m]
    BY <1>1 DEF Typed
<1>4. known' \in BOOLEAN /\ (known => known')
    BY <1>1 DEF Typed
<1>5. lost' \in Nat /\ lost <= lost' /\ landed' \in [Messages -> Nat]
    BY <1>1 DEF Typed
<1> QED BY <1>2, <1>3, <1>4, <1>5, InsideActs

\* The question of a turn's chat: left alone, or replaced.
LEMMA QuestionStays ==
    ASSUME ConvInv, NEW t \in Turns, NEW c \in Chats, Turned(t, c), UNCHANGED sessions,
           job'[t].pc \in Talking \/ job'[t].why \in {"button", "expired"} =>
                sessions[c] = job'[t].session
    PROVE  QuestionMoves(t)
BY DEF ConvInv, Typed, QuestionMoves, Turned

LEMMA QuestionIsSet ==
    ASSUME ConvInv, NEW t \in Turns, NEW c \in Chats, Within(t, c), Turned(t, c),
           NEW q \in Question, sessions' = [sessions EXCEPT ![c] = q],
           job'[t].pc \in Talking \/ job'[t].why \in {"button", "expired"} => q = job'[t].session
    PROVE  QuestionMoves(t) /\ sessions'[c] = q
<1>1. owner[c] = t /\ sessions \in [Chats -> Question]
    BY WithinFacts DEF Typed
<1>2. sessions' \in [Chats -> Question] /\ sessions'[c] = q
    BY <1>1
<1>3. \A d \in Chats : sessions'[d] = sessions[d] \/ owner[d] = t
    BY <1>1
<1> QED BY <1>2, <1>3 DEF QuestionMoves, Turned

\* The buttons on screen: left alone, or one more.
LEMMA ButtonsStay ==
    ASSUME ConvInv, UNCHANGED shown
    PROVE  ButtonsMove
BY DEF ConvInv, Typed, ButtonsMove

LEMMA ButtonIsShown ==
    ASSUME ConvInv, NEW c \in Chats, NEW b, Show(c, {b}),
           ButtonFits(b, DOMAIN events', DOMAIN executions')
    PROVE  ButtonsMove
<1>1. DOMAIN shown = Chats
    BY DEF ConvInv, Typed
<1>2. DOMAIN shown' = Chats
    BY <1>1 DEF Show
<1>3. \A d \in Chats : \A e \in shown'[d] : e \in shown[d] \/ e = b
    BY <1>1 DEF Show
<1> QED BY <1>2, <1>3 DEF ButtonsMove

\* A turn that is over, or goes on to its own message, does right by its question.
LEMMA DoneMoves ==
    ASSUME ConvInv, NEW t \in Turns, NEW c \in Chats, Within(t, c), job[t].pc # "pop", Done(t),
           UNCHANGED sessions \/ \E q \in Question : sessions' = [sessions EXCEPT ![c] = q]
    PROVE  Turned(t, c) /\ job'[t].pc = "done" /\ QuestionMoves(t) /\ UndoMoves(t)
<1>1. Turned(t, c) /\ job'[t].pc = "done" /\ job'[t].why = ""
    BY WithinFacts, DoneTurns
<1>2. job'[t].pc \notin Talking
    BY <1>1 DEF Talking
<1>3. QuestionMoves(t)
    <2>1. CASE UNCHANGED sessions
        BY <1>1, <1>2, <2>1, QuestionStays
    <2>2. CASE \E q \in Question : sessions' = [sessions EXCEPT ![c] = q]
        <3>1. PICK q \in Question : sessions' = [sessions EXCEPT ![c] = q]
            BY <2>2
        <3> QED BY <1>1, <1>2, <3>1, QuestionIsSet
    <2> QED BY <2>1, <2>2
<1>4. UndoMoves(t)
    BY <1>1 DEF UndoMoves
<1> QED BY <1>1, <1>3, <1>4

LEMMA GoOnMoves ==
    ASSUME ConvInv, NEW t \in Turns, NEW c \in Chats, Within(t, c), job[t].why = "expired",
           GoOn(t), UNCHANGED sessions
    PROVE  Turned(t, c) /\ job'[t].pc = "read" /\ QuestionMoves(t) /\ UndoMoves(t)
<1>1. /\ Turned(t, c) /\ job'[t].pc = "read" /\ job'[t].session = job[t].session
    BY WithinFacts, GoOnTurns
<1>2. sessions[c] = job[t].session
    BY DEF ConvInv, Reads, Within
<1>3. QuestionMoves(t)
    BY <1>1, <1>2, QuestionStays
<1>4. UndoMoves(t)
    BY <1>1 DEF UndoMoves
<1> QED BY <1>1, <1>3, <1>4

\* A turn is over, having written nothing.
LEMMA DoneActs ==
    ASSUME ConvInv, NEW t \in Turns, NEW c \in Chats, Within(t, c), job[t].pc # "pop", Done(t),
           Frame, UNCHANGED <<events, executions, reverts, landed, lost>>, ButtonsMove,
           known' \in {known, TRUE},
           UNCHANGED sessions \/ \E q \in Question : sessions' = [sessions EXCEPT ![c] = q]
    PROVE  Acts(t)
BY DoneMoves, CalmActs

\* A text goes to the inbox, having written nothing.
LEMMA ToInboxActs ==
    ASSUME ConvInv, NEW t \in Turns, NEW c \in Chats, Within(t, c), job[t].pc # "pop",
           NEW why \in {"fallback", "offer", "expired"}, NEW text \in SUBSET Messages,
           ToInbox(t, why, text), t # Sweeper, Frame,
           UNCHANGED <<events, executions, reverts, landed, shown>>,
           lost' \in Nat, lost <= lost', known' \in {known, TRUE},
           why = "fallback" => /\ job[t].do \in {"text", "answer"}
                               /\ job[t].do = "text" => job[t].arg \in text,
           why = "expired" => /\ job[t].do = "text" /\ job[t].session = None /\ known'
                              /\ sessions' = [sessions EXCEPT ![c] = None],
           why = "offer" => job[t].do = "offer",
           UNCHANGED sessions \/ sessions' = [sessions EXCEPT ![c] = None]
    PROVE  Acts(t)
<1>1. /\ Turned(t, c)
      /\ job'[t].pc = "inbox" /\ job'[t].why = why /\ job'[t].session = job[t].session
    BY WithinFacts, ToInboxTurns
<1>2. job'[t].pc \notin Talking
    BY <1>1 DEF Talking
<1>3. QuestionMoves(t)
    <2>1. CASE UNCHANGED sessions /\ why # "expired"
        BY <1>1, <1>2, <2>1, QuestionStays
    <2>2. CASE sessions' = [sessions EXCEPT ![c] = None]
        BY <1>1, <1>2, <2>2, QuestionIsSet, NoneIsQuestion
    <2> QED BY <2>1, <2>2
<1>4. UndoMoves(t)
    BY <1>1 DEF UndoMoves
<1>5. Typed
    BY DEF ConvInv
<1>6. EventsGrow /\ WritesMove(t)
    BY <1>5 DEF Typed, EventsGrow, WritesMove
<1>7. \A m \in Messages : landed[m] <= landed'[m]
    BY <1>5 DEF Typed
<1>8. known' \in BOOLEAN /\ (known => known') /\ landed' \in [Messages -> Nat]
    BY <1>5 DEF Typed
<1>9. job'[t].pc = "inbox" /\ job'[t].why = "expired" => known'
    BY <1>1
<1> QED BY <1>1, <1>3, <1>4, <1>6, <1>7, <1>8, <1>9, ButtonsStay, InsideActs

\* A handler's turn at one of its first steps.
LEMMA HandlerFacts ==
    ASSUME ConvInv, NEW t \in Turns, NEW c \in Chats, Within(t, c),
           job[t].pc \in Talking \cup {"begun", "undo", "undone"}
    PROVE  /\ t # Sweeper /\ job[t].pc # "pop" /\ job[t].why = ""
           /\ job[t].text \in SUBSET Messages /\ job[t].session \in Question
           /\ job[t].row \in DOMAIN events /\ job[t].row \in Nat /\ job[t].now \in Nat
           /\ job[t].now <= clock
<1>1. job[t] \in JobRec /\ Fits(t, job[t], DOMAIN events, DOMAIN executions, clock)
    BY WithinFacts
<1>2. t # Sweeper /\ job[t].pc # "pop"
    BY <1>1 DEF Fits, Cast, Talking, Saving
<1>3. job[t].why = ""
    BY <1>1 DEF Fits, Meant, Talking, Saving
<1>4. job[t].pc \in Busy
    BY WithinFacts
<1>5. job[t].row \in DOMAIN events /\ job[t].now <= clock
    BY <1>1, <1>2, <1>4 DEF Fits, Placed
<1>6. job[t].now \in Times
    BY <1>1 DEF JobRec
<1>7. job[t].now \in Nat
    BY <1>6, MaxTimeIsNatural DEF Times
<1> QED BY <1>1, <1>2, <1>3, <1>5, <1>7 DEF JobRec

LEMMA TextActs ==
    ASSUME ConvInv, NEW t \in Turns, NEW c \in Chats, TextStep(t, c)
    PROVE  Acts(t)
<1>1. CASE TextDiscoveryFails(t, c)
    <2>1. /\ Within(t, c) /\ job[t].pc # "pop" /\ Done(t) /\ Frame
          /\ UNCHANGED <<events, executions, reverts, landed, lost, shown, sessions>>
          /\ known' = known
        BY <1>1 DEF TextDiscoveryFails, At, store
    <2> QED BY <2>1, ButtonsStay, DoneActs
<1>2. CASE TextDiscovers(t, c)
    <2>1. /\ Within(t, c) /\ job[t].pc = "begun" /\ Frame /\ job[t].do = "text" /\ known' = TRUE
          /\ UNCHANGED <<events, executions, reverts, landed, lost, shown>>
        BY <1>2 DEF TextDiscovers, At, ghosts
    <2>2. /\ t # Sweeper /\ job[t].pc # "pop" /\ job[t].session = None
          /\ sessions[c] \in Question /\ Typed /\ Jobs
        <3>1. Fits(t, job[t], DOMAIN events, DOMAIN executions, clock) /\ Typed /\ Jobs
            BY <2>1, WithinFacts
        <3>2. job[t].session = None
            BY <2>1, <3>1 DEF Fits, Held, Empty
        <3> QED BY <2>1, <3>1, <3>2, HandlerFacts DEF Typed
    <2>3. CASE /\ Drop(c)
               /\ ToInbox(t, "expired", sessions[c].text)
        <3>1. sessions[c].text \in SUBSET Messages
            BY <2>2 DEF Question
        <3>2. sessions' = [sessions EXCEPT ![c] = None] /\ lost' \in Nat /\ lost <= lost'
            BY <2>1, <2>2, <2>3 DEF Drop, Typed
        <3> QED BY <2>1, <2>2, <2>3, <3>1, <3>2, ToInboxActs
    <2>4. CASE /\ job' = [job EXCEPT ![t].pc = "read", ![t].session = sessions[c],
                                     ![t].text = {job[t].arg} \cup sessions[c].text]
               /\ UNCHANGED sessions
        <3>1. Turned(t, c) /\ job'[t].pc = "read" /\ job'[t].session = sessions[c]
            BY <2>1, <2>2, <2>4, ReadTurns
        <3>2. QuestionMoves(t)
            BY <2>4, <3>1, QuestionStays
        <3>3. UndoMoves(t)
            BY <3>1 DEF UndoMoves
        <3> QED BY <2>1, <3>1, <3>2, <3>3, ButtonsStay, CalmActs
    <2> QED BY <1>2, <2>3, <2>4 DEF TextDiscovers
<1>3. CASE ReadFails(t, c)
    <2>1. /\ Within(t, c) /\ job[t].pc = "read" /\ Frame /\ ToInbox(t, "fallback", job[t].text)
          /\ UNCHANGED <<events, executions, reverts, landed, lost, shown, sessions, known>>
        BY <1>3 DEF ReadFails, At, store, ghosts
    <2>2. Fits(t, job[t], DOMAIN events, DOMAIN executions, clock) /\ Typed
        BY <2>1, WithinFacts
    <2>3. job[t].do \in {"text", "answer"} /\ (job[t].do = "text" => job[t].arg \in job[t].text)
        BY <2>1, <2>2 DEF Fits, Meant, Held, Talking
    <2>4. t # Sweeper /\ job[t].pc # "pop" /\ job[t].text \in SUBSET Messages
        BY <2>1, HandlerFacts DEF Talking
    <2>5. lost' \in Nat /\ lost <= lost'
        BY <2>1, <2>2 DEF Typed
    <2> QED BY <2>1, <2>3, <2>4, <2>5, ToInboxActs
<1> QED BY <1>1, <1>2, <1>3 DEF TextStep

\* A turn that has understood a text, or searches for it.
LEMMA TalkingFacts ==
    ASSUME ConvInv, NEW t \in Turns, NEW c \in Chats, Within(t, c), job[t].pc \in Talking
    PROVE  /\ job[t].do \in {"text", "answer"} /\ (job[t].do = "text" => job[t].arg \in job[t].text)
           /\ job[t].session \in Question /\ job[t].session.text \subseteq job[t].text
           /\ job[t].do = "answer" => job[t].session.token = job[t].arg
           /\ sessions[c] = job[t].session
<1>1. job[t] \in JobRec /\ Fits(t, job[t], DOMAIN events, DOMAIN executions, clock)
    BY WithinFacts
<1>2. job[t].do \in {"text", "answer"}
    BY <1>1 DEF Fits, Meant
<1>3. /\ job[t].do = "text" => job[t].arg \in job[t].text
      /\ job[t].session.text \subseteq job[t].text
      /\ job[t].do = "answer" => job[t].session.token = job[t].arg
    BY <1>1 DEF Fits, Held
<1>4. sessions[c] = job[t].session
    BY DEF ConvInv, Reads, Within
<1> QED BY <1>1, <1>2, <1>3, <1>4 DEF JobRec

\* The question that is asked next.
LEMMA NextQuestion ==
    ASSUME ConvInv, NEW t \in Turns, NEW c \in Chats, Within(t, c), job[t].pc \in Talking,
           Asked(t) < MAX_QUESTIONS
    PROVE  [token |-> job[t].row, text |-> job[t].text, asked |-> Asked(t),
            expires |-> job[t].now + SESSION_TTL] \in Question
<1>1. /\ job[t].text \in SUBSET Messages /\ job[t].session \in Question
      /\ job[t].row \in Nat /\ job[t].now \in Nat
    BY HandlerFacts
<1>2. job[t].session.asked \in 0 .. MAX_QUESTIONS - 1 /\ MAX_QUESTIONS \in Nat /\ SESSION_TTL \in Nat
    BY <1>1, TimesAreNatural DEF Question
<1>3. Asked(t) \in 0 .. MAX_QUESTIONS - 1
    BY <1>2 DEF Asked
<1>4. job[t].now + SESSION_TTL \in Nat
    BY <1>1, <1>2
<1> QED BY <1>1, <1>3, <1>4 DEF Question

LEMMA DispatchActs ==
    ASSUME ConvInv, NEW t \in Turns, NEW c \in Chats, DispatchStep(t, c)
    PROVE  Acts(t)
<1>1. /\ Within(t, c) /\ Frame /\ job[t].pc \in Talking
      /\ UNCHANGED <<events, executions, reverts, landed, lost>> /\ known' \in {known, TRUE}
    BY DEF DispatchStep, DispatchExecute, DispatchAsk, DispatchReject, DispatchResearch,
           ResearchFails, Understood, At, Talking, store, ghosts
<1>2. Typed /\ Jobs /\ lost' \in Nat /\ lost <= lost'
    BY <1>1, WithinFacts DEF Typed
<1>3. t # Sweeper /\ job[t].pc # "pop" /\ job[t].text \in SUBSET Messages
    BY <1>1, HandlerFacts
<1>4. job[t].do \in {"text", "answer"} /\ (job[t].do = "text" => job[t].arg \in job[t].text)
    BY <1>1, TalkingFacts
<1>5. CASE DispatchExecute(t, c)
    <2>1. /\ job' = [job EXCEPT ![t].pc = "write", ![t].why = "execute"] /\ UNCHANGED shown
          /\ sessions' = [sessions EXCEPT ![c] = None]
        BY <1>5 DEF DispatchExecute, Drop
    <2>2. Turned(t, c) /\ job'[t].pc = "write" /\ job'[t].why = "execute"
        BY <1>1, <1>2, <2>1, ExecuteTurns
    <2>3. QuestionMoves(t)
        BY <1>1, <2>1, <2>2, NoneIsQuestion, QuestionIsSet DEF Talking
    <2>4. UndoMoves(t)
        BY <2>2 DEF UndoMoves
    <2> QED BY <1>1, <2>1, <2>2, <2>3, <2>4, ButtonsStay, CalmActs
<1>6. CASE DispatchAsk(t, c)
    <2> DEFINE q == [token |-> job[t].row, text |-> job[t].text, asked |-> Asked(t),
                     expires |-> job[t].now + SESSION_TTL]
    <2>1. /\ Show(c, {Answer(job[t].row)}) /\ Done(t) /\ Asked(t) < MAX_QUESTIONS
          /\ sessions' = [sessions EXCEPT ![c] = q]
        BY <1>6 DEF DispatchAsk
    <2>2. q \in Question
        BY <1>1, <2>1, NextQuestion
    <2>3. ButtonFits(Answer(job[t].row), DOMAIN events', DOMAIN executions')
        BY <1>1, HandlerFacts DEF ButtonFits
    <2> HIDE DEF q
    <2> QED BY <1>1, <1>3, <2>1, <2>2, <2>3, ButtonIsShown, DoneActs
<1>7. CASE DispatchReject(t, c)
    <2>1. /\ ToInbox(t, "fallback", job[t].text) /\ UNCHANGED shown
          /\ sessions' = [sessions EXCEPT ![c] = None]
        BY <1>7 DEF DispatchReject, Drop
    <2> QED BY <1>1, <1>2, <1>3, <1>4, <2>1, ToInboxActs
<1>8. CASE DispatchResearch(t, c)
    <2>1. Goto(t, "researched") /\ UNCHANGED <<shown, sessions>> /\ job[t].pc \in {"read", "resume"}
        BY <1>8 DEF DispatchResearch, At, store
    <2>2. /\ Turned(t, c) /\ job'[t].pc = "researched" /\ job'[t].why = job[t].why
          /\ job'[t].session = job[t].session
        BY <1>1, <1>2, <2>1, GotoTurns
    <2>3. QuestionMoves(t)
        BY <1>1, <2>1, <2>2, TalkingFacts, QuestionStays
    <2>4. UndoMoves(t)
        BY <2>2 DEF UndoMoves
    <2> QED BY <1>1, <2>1, <2>2, <2>3, <2>4, ButtonsStay, CalmActs
<1>9. CASE ResearchFails(t, c)
    <2>1. ToInbox(t, "fallback", job[t].text) /\ UNCHANGED <<shown, sessions>>
        BY <1>9 DEF ResearchFails, store
    <2> QED BY <1>1, <1>2, <1>3, <1>4, <2>1, ToInboxActs
<1> QED BY <1>5, <1>6, <1>7, <1>8, <1>9 DEF DispatchStep

LEMMA CallbackActs ==
    ASSUME ConvInv, NEW t \in Turns, NEW c \in Chats, CallbackStep(t, c)
    PROVE  Acts(t)
<1>1. /\ Within(t, c) /\ Frame /\ job[t].pc \in {"begun", "resume"}
      /\ UNCHANGED <<events, executions, reverts, landed, lost, shown, known>>
    BY DEF CallbackStep, AnswerStale, AnswerCancel, AnswerFreeText, AnswerTaken, Answers,
           ResumeDiscoveryFails, CancelCommand, OfferTaken, At, Quiet
<1>2. Typed /\ Jobs /\ Fits(t, job[t], DOMAIN events, DOMAIN executions, clock)
    BY <1>1, WithinFacts
<1>3. t # Sweeper /\ job[t].pc # "pop"
    BY <1>1, HandlerFacts DEF Talking
<1>4. CASE /\ Done(t)
           /\ UNCHANGED sessions \/ Drop(c)
    <2>1. UNCHANGED sessions \/ \E q \in Question : sessions' = [sessions EXCEPT ![c] = q]
        BY <1>4, NoneIsQuestion DEF Drop
    <2> QED BY <1>1, <1>3, <1>4, <2>1, ButtonsStay, DoneActs
<1>5. CASE AnswerTaken(t, c)
    <2>1. /\ job[t].pc = "begun" /\ job[t].do = "answer" /\ sessions[c] \in Question
          /\ sessions[c].token = job[t].arg /\ UNCHANGED sessions
        BY <1>2, <1>5 DEF AnswerTaken, Answers, At, Typed
    <2>2. CASE job' = [job EXCEPT ![t].pc = "resume", ![t].session = sessions[c],
                                  ![t].text = sessions[c].text]
        <3>1. Turned(t, c) /\ job'[t].pc = "resume" /\ job'[t].session = sessions[c]
            BY <1>1, <1>2, <2>1, <2>2, ResumeTurns
        <3>2. QuestionMoves(t)
            BY <2>1, <3>1, QuestionStays
        <3>3. UndoMoves(t)
            BY <3>1 DEF UndoMoves
        <3> QED BY <1>1, <3>1, <3>2, <3>3, ButtonsStay, CalmActs
    <2>3. CASE job' = [job EXCEPT ![t].pc = "inbox", ![t].why = "button",
                                  ![t].session = sessions[c], ![t].text = sessions[c].text]
        <3>1. /\ Turned(t, c) /\ job'[t].pc = "inbox" /\ job'[t].why = "button"
              /\ job'[t].session = sessions[c]
            BY <1>1, <1>2, <2>1, <2>3, ButtonTurns
        <3>2. QuestionMoves(t)
            BY <2>1, <3>1, QuestionStays
        <3>3. UndoMoves(t)
            BY <3>1 DEF UndoMoves
        <3> QED BY <1>1, <3>1, <3>2, <3>3, ButtonsStay, CalmActs
    <2> QED BY <1>5, <2>2, <2>3 DEF AnswerTaken
<1>6. CASE OfferTaken(t, c) /\ ~ Done(t)
    <2>1. job[t].do = "offer" /\ ToInbox(t, "offer", events[job[t].arg].text) /\ UNCHANGED sessions
        BY <1>6 DEF OfferTaken
    <2>2. job[t].arg \in DOMAIN events
        BY <1>2, <2>1 DEF Fits, Named
    <2>3. events[job[t].arg] \in EventRec
        BY <1>2, <2>2, EntryFacts DEF Typed
    <2>4. events[job[t].arg].text \in SUBSET Messages
        BY <2>3 DEF EventRec
    <2>5. lost' \in Nat /\ lost <= lost'
        BY <1>1, <1>2 DEF Typed
    <2> QED BY <1>1, <1>3, <2>1, <2>4, <2>5, ToInboxActs
<1>7. AnswerStale(t, c) => Done(t) /\ (UNCHANGED sessions \/ Drop(c))
    BY DEF AnswerStale
<1>8. AnswerCancel(t, c) \/ CancelCommand(t, c) => Done(t) /\ Drop(c)
    BY DEF AnswerCancel, CancelCommand
<1>9. AnswerFreeText(t, c) \/ ResumeDiscoveryFails(t, c) \/ OfferTaken(t, c) => UNCHANGED sessions
    BY DEF AnswerFreeText, ResumeDiscoveryFails, OfferTaken
<1>10. AnswerFreeText(t, c) \/ ResumeDiscoveryFails(t, c) => Done(t)
    BY DEF AnswerFreeText, ResumeDiscoveryFails
<1> QED BY <1>4, <1>5, <1>6, <1>7, <1>8, <1>9, <1>10 DEF CallbackStep

\* A turn about to write, or that has written, holds a text of messages.
LEMMA SavingFacts ==
    ASSUME ConvInv, NEW t \in Turns, NEW c \in Chats, Within(t, c), job[t].pc \in Saving
    PROVE  /\ Typed /\ Jobs
           /\ job[t].pc # "pop" /\ job[t].text \in SUBSET Messages
           /\ job[t].row \in DOMAIN events
           /\ job[t].why \in {"execute", "fallback", "button", "offer", "expired", "sweep"}
           /\ job[t].why = "execute" => job[t].pc # "inbox"
           /\ job[t].why \in {"execute", "fallback"} =>
                /\ t # Sweeper /\ job[t].do \in {"text", "answer"}
                /\ job[t].do = "text" => job[t].arg \in job[t].text
           /\ job[t].why = "button" =>
                /\ sessions[c] = job[t].session /\ job[t].text = job[t].session.text
                /\ job[t].do = "answer"
           /\ job[t].why = "expired" =>
                sessions[c] = None /\ job[t].do = "text" /\ job[t].arg \in Messages
           /\ job[t].why = "offer" => job[t].do = "offer" /\ job[t].arg \in DOMAIN events
           /\ job[t].why = "sweep" => job[t].do # "text"
<1>1. /\ job[t] \in JobRec /\ Fits(t, job[t], DOMAIN events, DOMAIN executions, clock)
      /\ Typed /\ Jobs /\ job[t].pc \in Busy
    BY WithinFacts
<1>2. job[t].pc # "pop" /\ job[t].text \in SUBSET Messages /\ job[t].why \in Whys
    BY <1>1 DEF Saving, JobRec
<1>3. job[t].row \in DOMAIN events
    BY <1>1, <1>2 DEF Fits, Placed
<1>4. /\ job[t].why # "" /\ (job[t].why = "execute" => job[t].pc # "inbox")
      /\ job[t].why \in {"execute", "fallback"} => job[t].do \in {"text", "answer"}
      /\ job[t].why = "button" => job[t].do = "answer"
      /\ job[t].why = "expired" => job[t].do = "text"
      /\ job[t].why = "offer" => job[t].do = "offer"
    BY <1>1 DEF Fits, Meant
<1>5. /\ job[t].why \in {"execute", "fallback"} /\ job[t].do = "text" => job[t].arg \in job[t].text
      /\ job[t].why = "button" => job[t].text = job[t].session.text
      /\ job[t].why = "expired" => job[t].session = None
    BY <1>1 DEF Fits, Held
<1>6. /\ job[t].why = "sweep" => job[t].do # "text"
      /\ job[t].why \in {"execute", "fallback"} => t # Sweeper
    BY <1>1 DEF Fits, Cast
<1>7. job[t].why \in {"button", "expired"} => sessions[c] = job[t].session
    BY DEF ConvInv, Reads, Within
<1>8. /\ job[t].do = "text" => job[t].arg \in Messages
      /\ job[t].do = "offer" => job[t].arg \in DOMAIN events
    BY <1>1 DEF Fits, Named
<1>9. job[t].why \in {"execute", "fallback", "button", "offer", "expired", "sweep"}
    BY <1>2, <1>4 DEF Whys
<1> QED BY <1>1, <1>2, <1>3, <1>4, <1>5, <1>6, <1>7, <1>8, <1>9

\* Nothing could be saved.
LEMMA UnsavedActs ==
    ASSUME ConvInv, NEW t \in Turns, NEW c \in Chats, Within(t, c), Frame,
           job[t].pc \in {"inbox", "written"}, NEW reported, Unsaved(t, c, reported),
           UNCHANGED <<events, executions, sessions, known, landed, reverts>>,
           lost' \in Nat, lost <= lost'
    PROVE  Acts(t)
<1>1. job[t].pc # "pop" /\ job[t].row \in DOMAIN events /\ Typed
    BY SavingFacts DEF Saving
<1>2. EventsGrow /\ WritesMove(t)
    BY <1>1 DEF Typed, EventsGrow, WritesMove
<1>3. /\ known' \in BOOLEAN /\ (known => known') /\ landed' \in [Messages -> Nat]
      /\ \A m \in Messages : landed[m] <= landed'[m]
    BY <1>1 DEF Typed
<1>4. ButtonsMove
    <2>1. UNCHANGED shown \/ Show(c, {Offer(job[t].row)})
        BY DEF Unsaved
    <2>2. ButtonFits(Offer(job[t].row), DOMAIN events', DOMAIN executions')
        BY <1>1 DEF ButtonFits
    <2> QED BY <2>1, <2>2, ButtonsStay, ButtonIsShown
<1>5. CASE Done(t)
    <2>1. Turned(t, c) /\ job'[t].pc = "done" /\ QuestionMoves(t) /\ UndoMoves(t)
        BY <1>1, <1>5, DoneMoves
    <2> QED BY <1>2, <1>3, <1>4, <2>1, InsideActs
<1>6. CASE job[t].why = "expired" /\ GoOn(t)
    <2>1. Turned(t, c) /\ job'[t].pc = "read" /\ QuestionMoves(t) /\ UndoMoves(t)
        BY <1>6, GoOnMoves
    <2> QED BY <1>2, <1>3, <1>4, <2>1, InsideActs
<1> QED BY <1>5, <1>6 DEF Unsaved

\* What is recorded when Notion answers: a write that can be undone, and the event it answers.
LEMMA WriteIsRecorded ==
    ASSUME ConvInv, NEW t \in Turns, NEW c \in Chats, Within(t, c), job[t].pc \in Saving,
           executions' = Append(executions,
                [chat |-> c, undone |-> FALSE, expires |-> clock + UNDO_WINDOW]),
           reverts' = Append(reverts, 0),
           events' = IF job[t].why = "offer" THEN [events EXCEPT ![job[t].arg].executed = TRUE]
                     ELSE events
    PROVE  /\ EventsGrow /\ WritesMove(t)
           /\ Len(executions) + 1 \in DOMAIN executions'
           /\ DOMAIN executions' = DOMAIN executions \cup {Len(executions) + 1}
           /\ \A x \in DOMAIN executions : executions'[x] = executions[x] /\ reverts'[x] = reverts[x]
           /\ reverts'[Len(executions) + 1] = 0
<1>1. Typed /\ (job[t].why = "offer" => job[t].arg \in DOMAIN events)
    BY SavingFacts
<1> DEFINE w == [chat |-> c, undone |-> FALSE, expires |-> clock + UNDO_WINDOW]
<1>2. clock \in Nat /\ UNDO_WINDOW \in Nat
    BY <1>1, MaxTimeIsNatural, TimesAreNatural DEF Typed, Times
<1>3. w \in ExecutionRec
    BY <1>2 DEF ExecutionRec
<1>4. executions' = Append(executions, w)
    OBVIOUS
<1> HIDE DEF w
<1>5. executions \in Seq(ExecutionRec) /\ reverts \in Seq(Nat) /\ DOMAIN reverts = DOMAIN executions
    BY <1>1 DEF Typed
<1>6. /\ executions' \in Seq(ExecutionRec) /\ Len(executions) + 1 \notin DOMAIN executions
      /\ DOMAIN executions' = DOMAIN executions \cup {Len(executions) + 1}
      /\ \A x \in DOMAIN executions : executions'[x] = executions[x]
    BY <1>3, <1>4, <1>5, GrowthFacts
<1>7. Len(reverts) = Len(executions)
    BY <1>5, LenProperties
<1>8. /\ reverts' \in Seq(Nat)
      /\ DOMAIN reverts' = DOMAIN reverts \cup {Len(reverts) + 1}
      /\ reverts'[Len(reverts) + 1] = 0
      /\ \A x \in DOMAIN reverts : reverts'[x] = reverts[x]
    BY <1>5, GrowthFacts
<1>9. DOMAIN reverts' = DOMAIN executions'
    BY <1>5, <1>6, <1>7, <1>8
<1>10. WritesMove(t)
    BY <1>6, <1>8, <1>9 DEF WritesMove
<1>11. EventsGrow
    <2>1. CASE job[t].why # "offer"
        BY <1>1, <2>1 DEF EventsGrow, Typed
    <2>2. CASE job[t].why = "offer"
        <3> DEFINE e == [events[job[t].arg] EXCEPT !.executed = TRUE]
        <3>1. events \in Seq(EventRec) /\ job[t].arg \in DOMAIN events
            BY <1>1, <2>2 DEF Typed
        <3>2. events[job[t].arg] \in EventRec
            BY <3>1, EntryFacts
        <3>3. e \in EventRec
            BY <3>2 DEF EventRec
        <3>4. events' = [events EXCEPT ![job[t].arg] = e]
            BY <2>2
        <3> HIDE DEF e
        <3>5. events' \in Seq(EventRec) /\ DOMAIN events' = DOMAIN events
            BY <3>1, <3>3, <3>4, ChangeFacts
        <3> QED BY <3>5 DEF EventsGrow
    <2> QED BY <2>1, <2>2
<1> QED BY <1>5, <1>6, <1>7, <1>8, <1>10, <1>11

LEMMA WriteActs ==
    ASSUME ConvInv, NEW t \in Turns, NEW c \in Chats, WriteStep(t, c)
    PROVE  Acts(t)
<1>1. Within(t, c) /\ Frame /\ job[t].pc \in Saving
    BY DEF WriteStep, NoInbox, InboxFound, Send, NothingToWrite, WriteSucceeds, WriteFails, At,
           Saving
<1>2. Typed /\ Jobs /\ job[t].pc # "pop" /\ job[t].text \in SUBSET Messages
    BY <1>1, SavingFacts
<1>3. lost \in Nat /\ lost <= lost /\ (known => known) /\ known \in BOOLEAN
      /\ landed \in [Messages -> Nat] /\ \A m \in Messages : landed[m] <= landed[m]
    BY <1>2 DEF Typed
<1>4. CASE NoInbox(t, c)
    <2>1. /\ job[t].pc \in {"inbox", "written"} /\ Unsaved(t, c, FALSE)
          /\ UNCHANGED <<events, executions, sessions, known, landed, reverts>>
          /\ lost' \in Nat /\ lost <= lost'
        BY <1>3, <1>4 DEF NoInbox, At, store
    <2> QED BY <1>1, <2>1, UnsavedActs
<1>5. CASE InboxFound(t, c)
    <2>1. /\ job[t].pc = "inbox" /\ Goto(t, "write") /\ known' = TRUE
          /\ UNCHANGED <<events, executions, sessions, shown, landed, lost, reverts>>
        BY <1>5 DEF InboxFound, At, store, ghosts
    <2>2. /\ Turned(t, c) /\ job'[t].pc = "write" /\ job'[t].why = job[t].why
          /\ job'[t].session = job[t].session
        BY <1>1, <1>2, <2>1, GotoTurns
    <2>3. QuestionMoves(t)
        <3>1. job'[t].why \in {"button", "expired"} => sessions[c] = job'[t].session
            BY <2>2, <1>1 DEF ConvInv, Reads, Within
        <3> QED BY <2>1, <2>2, <3>1, QuestionStays DEF Talking
    <2>4. UndoMoves(t)
        BY <2>2 DEF UndoMoves
    <2> QED BY <1>1, <2>1, <2>2, <2>3, <2>4, ButtonsStay, CalmActs
<1>6. CASE Send(t, c)
    <2>1. /\ job[t].pc = "write"
          /\ UNCHANGED <<events, executions, sessions, known, shown, lost, reverts>>
        BY <1>6 DEF Send, At, store
    <2>2. PICK applied \in BOOLEAN :
            /\ job' = [job EXCEPT ![t].pc = "written", ![t].applied = applied]
            /\ landed' = [m \in Messages |->
                            landed[m] + (IF applied /\ m \in job[t].text THEN 1 ELSE 0)]
        BY <1>6 DEF Send
    <2>3. /\ Turned(t, c) /\ job'[t].pc = "written" /\ job'[t].why = job[t].why
          /\ job'[t].session = job[t].session /\ job'[t].text = job[t].text
          /\ job'[t].applied = applied
        BY <1>1, <1>2, <2>1, <2>2, SentTurns
    <2>4. QuestionMoves(t)
        <3>1. job'[t].why \in {"button", "expired"} => sessions[c] = job'[t].session
            BY <2>3, <1>1 DEF ConvInv, Reads, Within
        <3> QED BY <2>1, <2>3, <3>1, QuestionStays DEF Talking
    <2>5. UndoMoves(t)
        BY <2>3 DEF UndoMoves
    <2>6. landed' \in [Messages -> Nat] /\ \A m \in Messages : landed[m] <= landed'[m]
        BY <1>3, <2>2
    <2>7. job'[t].applied => \A m \in job'[t].text : landed'[m] > 0
        BY <1>2, <1>3, <2>2, <2>3
    <2>8. EventsGrow /\ WritesMove(t)
        BY <1>2, <2>1 DEF Typed, EventsGrow, WritesMove
    <2> QED BY <1>1, <1>3, <2>1, <2>3, <2>4, <2>5, <2>6, <2>7, <2>8, ButtonsStay, InsideActs
<1>7. CASE NothingToWrite(t, c)
    <2>1. /\ Done(t) /\ known' = known
          /\ UNCHANGED <<events, executions, reverts, landed, lost, shown, sessions>>
        BY <1>7 DEF NothingToWrite, store
    <2> QED BY <1>1, <1>2, <2>1, ButtonsStay, DoneActs
<1>8. CASE WriteSucceeds(t, c)
    <2>1. /\ executions' = Append(executions,
                [chat |-> c, undone |-> FALSE, expires |-> clock + UNDO_WINDOW])
          /\ reverts' = Append(reverts, 0)
          /\ events' = IF job[t].why = "offer" THEN [events EXCEPT ![job[t].arg].executed = TRUE]
                       ELSE events
        BY <1>8 DEF WriteSucceeds
    <2>2. EventsGrow /\ WritesMove(t) /\ Len(executions) + 1 \in DOMAIN executions'
        BY <1>1, <2>1, WriteIsRecorded
    <2>3. ButtonsMove
        <3>1. UNCHANGED shown \/ Show(c, {Undo(Len(executions) + 1)})
            BY <1>8 DEF WriteSucceeds
        <3>2. ButtonFits(Undo(Len(executions) + 1), DOMAIN events', DOMAIN executions')
            BY <2>2 DEF ButtonFits
        <3> QED BY <3>1, <3>2, ButtonsStay, ButtonIsShown
    <2>4. UNCHANGED <<known, landed, lost>>
        BY <1>8 DEF WriteSucceeds
    <2>5. CASE job[t].why = "expired"
        <3>1. GoOn(t) /\ UNCHANGED sessions
            BY <1>8, <2>5 DEF WriteSucceeds
        <3>2. Turned(t, c) /\ job'[t].pc = "read" /\ QuestionMoves(t) /\ UndoMoves(t)
            BY <1>1, <2>5, <3>1, GoOnMoves
        <3> QED BY <1>1, <1>3, <2>2, <2>3, <2>4, <3>2, InsideActs
    <2>6. CASE job[t].why # "expired"
        <3>1. Done(t) /\ (UNCHANGED sessions \/ Drop(c))
            BY <1>8, <2>6 DEF WriteSucceeds
        <3>2. UNCHANGED sessions \/ \E q \in Question : sessions' = [sessions EXCEPT ![c] = q]
            BY <3>1, NoneIsQuestion DEF Drop
        <3>3. Turned(t, c) /\ job'[t].pc = "done" /\ QuestionMoves(t) /\ UndoMoves(t)
            BY <1>1, <1>2, <3>1, <3>2, DoneMoves
        <3> QED BY <1>1, <1>3, <2>2, <2>3, <2>4, <3>3, InsideActs
    <2> QED BY <2>5, <2>6
<1>9. CASE WriteFails(t, c)
    <2>1. /\ job[t].pc = "written"
          /\ UNCHANGED <<events, executions, sessions, known, landed, reverts>>
          /\ lost' \in Nat /\ lost <= lost'
        BY <1>3, <1>9 DEF WriteFails, At, store, LoseAnswer
    <2>2. CASE job[t].why = "execute" /\ ToInbox(t, "fallback", job[t].text) /\ UNCHANGED shown
        <3>1. /\ t # Sweeper /\ job[t].do \in {"text", "answer"}
              /\ job[t].do = "text" => job[t].arg \in job[t].text
            BY <1>1, <2>2, SavingFacts
        <3> QED BY <1>1, <1>2, <2>1, <2>2, <3>1, ToInboxActs
    <2>3. CASE Unsaved(t, c, TRUE)
        BY <1>1, <2>1, <2>3, UnsavedActs
    <2> QED BY <1>9, <2>2, <2>3 DEF WriteFails
<1> QED BY <1>4, <1>5, <1>6, <1>7, <1>8, <1>9 DEF WriteStep

\* A turn with an undo in hand: the write is its chat's, and not undone.
LEMMA UndoFacts ==
    ASSUME ConvInv, NEW t \in Turns, NEW c \in Chats, Within(t, c), job[t].pc \in {"undo", "undone"}
    PROVE  /\ job[t].arg \in DOMAIN executions /\ executions[job[t].arg] \in ExecutionRec
           /\ executions[job[t].arg].chat = c /\ ~ executions[job[t].arg].undone
           /\ reverts[job[t].arg] \in Nat
<1>1. job[t].arg \in DOMAIN executions /\ Typed
    BY WithinFacts DEF Fits, Named
<1>2. executions[job[t].arg] \in ExecutionRec
    BY <1>1, EntryFacts DEF Typed
<1>3. reverts[job[t].arg] \in Nat
    BY <1>1, EntryFacts DEF Typed
<1> QED BY <1>1, <1>2, <1>3 DEF ConvInv, Undoing, Within

LEMMA UndoActs ==
    ASSUME ConvInv, NEW t \in Turns, NEW c \in Chats, UndoStep(t, c)
    PROVE  Acts(t)
<1>1. Within(t, c) /\ Frame /\ job[t].pc \in {"begun", "undo", "undone"}
    BY DEF UndoStep, UndoBegins, SendUndo, UndoAnswered, At
<1>2. Typed /\ Jobs /\ job[t].pc # "pop"
    BY <1>1, WithinFacts
<1>3. lost \in Nat /\ lost <= lost /\ (known => known) /\ known \in BOOLEAN
      /\ landed \in [Messages -> Nat] /\ \A m \in Messages : landed[m] <= landed[m]
    BY <1>2 DEF Typed
<1>4. CASE UndoBegins(t, c)
    <2>1. /\ job[t].pc = "begun" /\ job[t].do \in {"undo", "undo_latest"}
          /\ UNCHANGED <<events, executions, reverts, landed, lost, shown, sessions, known>>
        BY <1>4 DEF UndoBegins, At, Quiet
    <2>2. CASE Done(t)
        BY <1>1, <1>2, <2>1, <2>2, ButtonsStay, DoneActs
    <2>3. CASE \E x \in Target(t, c) : job' = [job EXCEPT ![t].pc = "undo", ![t].arg = x]
        <3>1. PICK x \in Target(t, c) : job' = [job EXCEPT ![t].pc = "undo", ![t].arg = x]
            BY <2>3
        <3>2. x \in DOMAIN executions /\ executions[x].chat = c /\ ~ executions[x].undone
            BY <3>1 DEF Target, Undoable
        <3>3. /\ Turned(t, c) /\ job'[t].pc = "undo" /\ job'[t].why = "" /\ job'[t].arg = x
            BY <1>1, <1>2, <2>1, <3>1, <3>2, UndoTurns
        <3>4. QuestionMoves(t)
            BY <2>1, <3>3, QuestionStays DEF Talking
        <3>5. UndoMoves(t)
            BY <2>1, <3>2, <3>3 DEF UndoMoves, Turned
        <3> QED BY <1>1, <2>1, <3>3, <3>4, <3>5, ButtonsStay, CalmActs
    <2> QED BY <1>4, <2>2, <2>3 DEF UndoBegins
<1>5. CASE SendUndo(t, c)
    <2>1. /\ job[t].pc = "undo"
          /\ UNCHANGED <<events, executions, landed, lost, shown, sessions, known>>
        BY <1>5 DEF SendUndo, At, store
    <2>2. PICK applied \in BOOLEAN :
            /\ job' = [job EXCEPT ![t].pc = "undone", ![t].applied = applied]
            /\ reverts' = [reverts EXCEPT ![job[t].arg] = @ + (IF applied THEN 1 ELSE 0)]
        BY <1>5 DEF SendUndo
    <2>3. /\ Turned(t, c) /\ job'[t].pc = "undone" /\ job'[t].why = job[t].why
          /\ job'[t].arg = job[t].arg
        BY <1>1, <1>2, <2>1, <2>2, SentTurns
    <2>4. job[t].why = ""
        BY <1>1, HandlerFacts
    <2>5. QuestionMoves(t)
        BY <2>1, <2>3, <2>4, QuestionStays DEF Talking
    <2>6. /\ job[t].arg \in DOMAIN executions /\ reverts[job[t].arg] \in Nat
          /\ executions[job[t].arg].chat = c /\ ~ executions[job[t].arg].undone
        BY <1>1, <2>1, UndoFacts
    <2>7. UndoMoves(t)
        BY <2>1, <2>3, <2>6 DEF UndoMoves, Turned
    <2>8. EventsGrow /\ WritesMove(t)
        <3>1. reverts \in Seq(Nat) /\ job[t].arg \in DOMAIN reverts
            BY <1>2, <2>6 DEF Typed
        <3> DEFINE n == reverts[job[t].arg] + (IF applied THEN 1 ELSE 0)
        <3>2. n \in Nat /\ reverts' = [reverts EXCEPT ![job[t].arg] = n]
            BY <2>2, <2>6
        <3> HIDE DEF n
        <3>3. reverts' \in Seq(Nat) /\ DOMAIN reverts' = DOMAIN reverts
            BY <3>1, <3>2, ChangeFacts
        <3> QED BY <1>2, <2>1, <3>3 DEF Typed, EventsGrow, WritesMove
    <2> QED BY <1>1, <1>3, <2>1, <2>3, <2>5, <2>7, <2>8, ButtonsStay, InsideActs
<1>6. CASE UndoAnswered(t, c)
    <2>1. /\ job[t].pc = "undone" /\ Done(t)
          /\ UNCHANGED <<events, landed, shown, sessions, known, reverts>>
        BY <1>6 DEF UndoAnswered, At
    <2>2. /\ UNCHANGED executions
             \/ executions' = [executions EXCEPT ![job[t].arg].undone = TRUE]
          /\ lost' \in Nat /\ lost <= lost'
        BY <1>3, <1>6 DEF UndoAnswered, LoseAnswer
    <2>3. Turned(t, c) /\ job'[t].pc = "done" /\ QuestionMoves(t) /\ UndoMoves(t)
        BY <1>1, <1>2, <2>1, DoneMoves
    <2>4. EventsGrow
        BY <1>2, <2>1 DEF Typed, EventsGrow
    <2>5. WritesMove(t)
        <3>1. CASE UNCHANGED executions
            BY <1>2, <2>1, <3>1 DEF Typed, WritesMove
        <3>2. CASE executions' = [executions EXCEPT ![job[t].arg].undone = TRUE]
            <4> DEFINE w == [executions[job[t].arg] EXCEPT !.undone = TRUE]
            <4>1. /\ executions \in Seq(ExecutionRec) /\ job[t].arg \in DOMAIN executions
                  /\ executions[job[t].arg] \in ExecutionRec
                BY <1>1, <1>2, <2>1, UndoFacts DEF Typed
            <4>2. w \in ExecutionRec /\ w.chat = executions[job[t].arg].chat
                BY <4>1 DEF ExecutionRec
            <4>3. executions' = [executions EXCEPT ![job[t].arg] = w]
                BY <3>2
            <4> HIDE DEF w
            <4>4. /\ executions' \in Seq(ExecutionRec) /\ DOMAIN executions' = DOMAIN executions
                  /\ executions'[job[t].arg] = w
                  /\ \A x \in DOMAIN executions : x # job[t].arg => executions'[x] = executions[x]
                BY <4>1, <4>2, <4>3, ChangeFacts
            <4> QED BY <1>2, <2>1, <4>2, <4>4 DEF Typed, WritesMove
        <3> QED BY <2>2, <3>1, <3>2
    <2> QED BY <1>1, <1>3, <2>1, <2>2, <2>3, <2>4, <2>5, ButtonsStay, InsideActs
<1> QED BY <1>4, <1>5, <1>6 DEF UndoStep

----------------------------------------------------------------------------
(* Turns that come and go, and the sweeper's rounds. *)

\* The lock, the sweep and the workspace as a step that does not write may leave them.
QueueStep(t) ==
    /\ owner' \in [Chats -> Turns \cup {Nobody}]
    /\ line' \in [Chats -> Seq(Turns)]
    /\ \A d \in Chats : owner'[d] = owner[d] \/ owner[d] \in {Nobody, t}

SweepStays == sweep' \in [now : Times, todo : SUBSET Chats] /\ sweep'.now <= clock

KnownGrows == known' \in BOOLEAN /\ (known => known')

LEMMA QueueFacts ==
    ASSUME Typed, NEW t \in Turns, NEW c \in Chats
    PROVE  /\ JoinEmpty(t, c) \/ Enter(t, c) => QueueStep(t) /\ owner'[c] = t
           /\ JoinLine(t, c) \/ Leave(t, c) => QueueStep(t)
<1>1. owner \in [Chats -> Turns \cup {Nobody}] /\ line \in [Chats -> Seq(Turns)]
    BY DEF Typed
<1>2. line[c] \in Seq(Turns) /\ (line[c] # <<>> => Tail(line[c]) \in Seq(Turns))
    BY <1>1, HeadTailProperties
<1>3. Append(line[c], t) \in Seq(Turns)
    BY <1>2, AppendProperties
<1>4. ASSUME JoinEmpty(t, c) \/ Enter(t, c)
      PROVE  QueueStep(t) /\ owner'[c] = t
    <2>1. owner[c] = Nobody /\ owner' = [owner EXCEPT ![c] = t]
        BY <1>4 DEF JoinEmpty, Enter
    <2>2. line' \in [Chats -> Seq(Turns)]
        BY <1>1, <1>2, <1>4 DEF JoinEmpty, Enter
    <2> QED BY <1>1, <2>1, <2>2 DEF QueueStep
<1>5. ASSUME JoinLine(t, c)
      PROVE  QueueStep(t)
    BY <1>1, <1>3, <1>5 DEF JoinLine, QueueStep
<1>6. ASSUME Leave(t, c)
      PROVE  QueueStep(t)
    BY <1>1, <1>6 DEF Leave, QueueStep
<1> QED BY <1>4, <1>5, <1>6

\* What a step leaves alone, and a workspace that is found.
LEMMA Unmoved ==
    ASSUME Typed, NEW t
    PROVE  /\ UNCHANGED <<owner, line>> => QueueStep(t)
           /\ UNCHANGED sweep => SweepStays
           /\ UNCHANGED known => KnownGrows
           /\ known' = TRUE => KnownGrows
<1>1. UNCHANGED <<owner, line>> => QueueStep(t)
    BY DEF Typed, QueueStep
<1>2. UNCHANGED sweep => SweepStays
    BY DEF Typed, SweepStays
<1>3. UNCHANGED known => KnownGrows
    BY DEF Typed, KnownGrows
<1>4. known' = TRUE => KnownGrows
    BY DEF KnownGrows
<1> QED BY <1>1, <1>2, <1>3, <1>4

\* A turn's audit row is opened.
LEMMA RowOpens ==
    ASSUME Typed, NEW c \in Chats, NEW text \in SUBSET Messages, events' = Opened(c, text)
    PROVE  /\ EventsGrow /\ DOMAIN events \subseteq DOMAIN events'
           /\ Len(events) + 1 \in DOMAIN events' /\ Len(events) + 1 \in Nat
           /\ events'[Len(events) + 1] =
                [chat |-> c, text |-> text, ts |-> clock, open |-> TRUE, executed |-> FALSE]
<1> DEFINE e == [chat |-> c, text |-> text, ts |-> clock, open |-> TRUE, executed |-> FALSE]
<1>1. e \in EventRec /\ events \in Seq(EventRec) /\ events' = Append(events, e)
    BY DEF Typed, EventRec, Opened
<1> HIDE DEF e
<1>2. /\ events' \in Seq(EventRec) /\ Len(events) + 1 \in Nat \ {0}
      /\ DOMAIN events' = DOMAIN events \cup {Len(events) + 1} /\ events'[Len(events) + 1] = e
    BY <1>1, GrowthFacts
<1> QED BY <1>2 DEF EventsGrow, e

\* A step that leaves the questions, the writes and what is in Notion alone, and moves its own
\* turn to where it holds no text.
LEMMA PassingActs ==
    ASSUME ConvInv, NEW t \in Turns, NEW n \in JobRec, job' = [job EXCEPT ![t] = n],
           Fits(t, n, DOMAIN events', DOMAIN executions', clock),
           n.pc \notin Talking \cup Saving \cup {"undo", "undone"},
           UNCHANGED <<sessions, executions, reverts, shown, clock, crashes, landed, lost>>,
           EventsGrow,
           QueueStep(t),
           n.chat \in Chats => owner'[n.chat] = t,
           SweepStays,
           sent' \subseteq Messages, KnownGrows,
           t = Sweeper => n.pc \in {"idle", "scanned"} \/ known'
    PROVE  Acts(t) /\ job'[t] = n /\ \A u \in Turns \ {t} : job'[u] = job[u]
<1>1. Typed
    BY DEF ConvInv
<1>2. job' \in [Turns -> JobRec] /\ job'[t] = n /\ \A u \in Turns \ {t} : job'[u] = job[u]
    BY <1>1 DEF Typed
<1>3. n.why = ""
    BY DEF Fits, Meant
<1>4. JobMoves(t) /\ QueueMoves(t)
    BY <1>2 DEF JobMoves, QueueMoves, QueueStep
<1>5. QuestionMoves(t)
    BY <1>1, <1>2, <1>3 DEF Typed, QuestionMoves
<1>6. WritesMove(t) /\ ButtonsMove
    BY <1>1 DEF Typed, WritesMove, ButtonsMove
<1>7. UndoMoves(t)
    BY <1>2 DEF UndoMoves
<1>8. WorldMoves
    <2>1. known' \in BOOLEAN /\ (known => known')
        BY DEF KnownGrows
    <2>2. lost' \in Nat /\ lost <= lost'
        BY <1>1 DEF Typed
    <2>3. landed' \in [Messages -> Nat] /\ \A m \in Messages : landed[m] <= landed'[m]
        BY <1>1 DEF Typed
    <2> QED BY <2>1, <2>2, <2>3 DEF WorldMoves, SweepStays
<1>9. LandsIn(t)
    BY <1>2 DEF LandsIn, Saving
<1> QED BY <1>2, <1>4, <1>5, <1>6, <1>7, <1>8, <1>9 DEF Acts

\* What a handler's turn is called with.
CalledWith(do, arg, verb) ==
    /\ do \in Doings \ {"sweep"} /\ verb \in Verbs \cup {""} /\ arg \in Args
    /\ do = "text" => arg \in Messages
    /\ do = "answer" => arg \in Nat
    /\ do = "offer" => arg \in DOMAIN events
    /\ do = "undo" => arg \in DOMAIN executions

LEMMA BeginMoves ==
    ASSUME ConvInv, NEW t \in Handlers, NEW c \in Chats, NEW do, NEW arg, NEW verb,
           CalledWith(do, arg, verb), Begin(t, c, do, arg, verb),
           JoinEmpty(t, c) \/ Enter(t, c), sent' \subseteq Messages,
           UNCHANGED <<sessions, executions, sweep, known, clock, shown, ghosts, crashes>>
    PROVE  /\ Acts(t) /\ \A u \in Turns \ {t} : job'[u] = job[u]
           /\ job'[t].pc = "begun" /\ job'[t].do = do /\ job'[t].arg = arg /\ job'[t].text = {}
<1>1. Typed
    BY DEF ConvInv
<1> DEFINE n == [Idle EXCEPT !.pc = "begun", !.chat = c, !.do = do, !.arg = arg, !.verb = verb,
                             !.row = Len(events) + 1, !.now = clock]
<1>2. /\ EventsGrow /\ DOMAIN events \subseteq DOMAIN events'
      /\ Len(events) + 1 \in DOMAIN events' /\ Len(events) + 1 \in Nat
    <2>1. (IF do = "text" THEN {arg} ELSE {}) \in SUBSET Messages
        BY DEF CalledWith
    <2> QED BY <1>1, <2>1, RowOpens DEF Begin
<1>3. clock \in Times /\ clock <= clock /\ Idle \in JobRec
    <2>1. clock \in Times /\ clock \in Nat
        BY <1>1, MaxTimeIsNatural DEF Typed, Times
    <2> QED BY <2>1, IdleFits
<1>4. n \in JobRec
    BY <1>2, <1>3 DEF JobRec, Busy, Empty, CalledWith
<1>5. /\ n.pc = "begun" /\ n.chat = c /\ n.do = do /\ n.arg = arg /\ n.row = Len(events) + 1
      /\ n.now = clock /\ n.text = {} /\ n.session = None /\ n.why = ""
    BY DEF Idle
<1>6. job' = [job EXCEPT ![t] = n]
    BY DEF Begin
<1> HIDE DEF n
<1>7. Placed(n, DOMAIN events', clock)
    BY <1>2, <1>3, <1>5 DEF Placed, Busy, Empty
<1>8. Cast(t, n)
    BY <1>5 DEF Cast, Handlers, CalledWith
<1>9. Meant(n)
    BY <1>5 DEF Meant, Talking, Saving
<1>10. executions' = executions
    OBVIOUS
<1>11. Named(n, DOMAIN events', DOMAIN executions')
    BY <1>2, <1>5, <1>10 DEF Named, CalledWith
<1>12. Held(n)
    BY <1>5 DEF Held, Talking
<1>13. Fits(t, n, DOMAIN events', DOMAIN executions', clock)
    BY <1>7, <1>8, <1>9, <1>11, <1>12 DEF Fits
<1>14. QueueStep(t) /\ owner'[c] = t
    BY <1>1, QueueFacts DEF Handlers
<1>15. SweepStays /\ KnownGrows
    BY <1>1, Unmoved
<1>16. /\ UNCHANGED <<sessions, executions, reverts, shown, clock, crashes, landed, lost>>
       /\ t # Sweeper /\ t \in Turns
    BY <1>1 DEF ghosts, Handlers
<1>17. n.pc \notin Talking \cup Saving \cup {"undo", "undone"}
    BY <1>5 DEF Talking, Saving
<1>18. Acts(t) /\ job'[t] = n /\ \A u \in Turns \ {t} : job'[u] = job[u]
    BY <1>2, <1>4, <1>5, <1>6, <1>13, <1>14, <1>15, <1>16, <1>17, PassingActs
<1> QED BY <1>5, <1>18

LEMMA WaitMoves ==
    ASSUME ConvInv, NEW t \in Handlers, NEW c \in Chats, NEW do, NEW arg, NEW verb,
           CalledWith(do, arg, verb), Wait(t, do, arg, verb), JoinLine(t, c), sent' \subseteq Messages,
           UNCHANGED <<sessions, executions, sweep, known, clock, shown, ghosts, crashes>>
    PROVE  /\ Acts(t) /\ \A u \in Turns \ {t} : job'[u] = job[u]
           /\ job'[t].pc = "queued" /\ job'[t].do = do /\ job'[t].arg = arg /\ job'[t].text = {}
<1>1. Typed /\ clock \in Nat
    BY MaxTimeIsNatural DEF ConvInv, Typed, Times
<1> DEFINE n == [Idle EXCEPT !.pc = "queued", !.do = do, !.arg = arg, !.verb = verb]
<1>2. events' = events /\ executions' = executions
    BY DEF Wait
<1>3. EventsGrow
    BY <1>1, <1>2 DEF Typed, EventsGrow
<1>4. Idle \in JobRec
    BY IdleFits, <1>1
<1>5. n \in JobRec
    BY <1>4 DEF JobRec, Outside, CalledWith
<1>6. /\ n.pc = "queued" /\ n.chat = NoChat /\ n.do = do /\ n.arg = arg /\ n.row = 0
      /\ n.now = 0 /\ n.text = {} /\ n.session = None /\ n.why = ""
    BY DEF Idle
<1>7. job' = [job EXCEPT ![t] = n]
    BY DEF Wait
<1> HIDE DEF n
<1>8. 0 <= clock
    BY <1>1
<1>9. n.now <= clock /\ n.pc \notin Busy
    BY <1>6, <1>8 DEF Busy, Talking, Saving, Empty
<1>10. Placed(n, DOMAIN events', clock)
    BY <1>6, <1>9, NoChatIsNoChat DEF Placed
<1>11. Cast(t, n)
    BY <1>6 DEF Cast, Handlers, CalledWith
<1>12. Meant(n)
    BY <1>6 DEF Meant, Talking, Saving
<1>13. Named(n, DOMAIN events', DOMAIN executions')
    BY <1>2, <1>6 DEF Named, CalledWith
<1>14. Held(n)
    BY <1>6 DEF Held, Talking
<1>15. Fits(t, n, DOMAIN events', DOMAIN executions', clock)
    BY <1>10, <1>11, <1>12, <1>13, <1>14 DEF Fits
<1>16. QueueStep(t)
    BY <1>1, QueueFacts DEF Handlers
<1>17. n.chat \in Chats => owner'[n.chat] = t
    BY <1>6, NoChatIsNoChat
<1>18. SweepStays /\ KnownGrows
    BY <1>1, Unmoved
<1>19. /\ UNCHANGED <<sessions, executions, reverts, shown, clock, crashes, landed, lost>>
       /\ t # Sweeper /\ t \in Turns
    BY <1>1 DEF ghosts, Handlers
<1>20. n.pc \notin Talking \cup Saving \cup {"undo", "undone"}
    BY <1>6 DEF Talking, Saving
<1>21. Acts(t) /\ job'[t] = n /\ \A u \in Turns \ {t} : job'[u] = job[u]
    BY <1>3, <1>5, <1>7, <1>15, <1>16, <1>17, <1>18, <1>19, <1>20, PassingActs
<1> QED BY <1>6, <1>21

\* It is there, waiting or begun, and nothing else has happened.
Arrived(t, do, arg) ==
    /\ Acts(t) /\ \A u \in Turns \ {t} : job'[u] = job[u]
    /\ job[t] = Idle /\ UNCHANGED <<sessions, executions, ghosts, crashes>>
    /\ job'[t].do = do /\ job'[t].arg = arg /\ job'[t].text = {}
    /\ job'[t].pc \in {"begun", "queued"}

LEMMA ArriveActs ==
    ASSUME ConvInv, NEW t \in Handlers, NEW c \in Chats, NEW do, NEW arg, NEW verb,
           CalledWith(do, arg, verb), Arrive(t, c, do, arg, verb), sent' \subseteq Messages
    PROVE  Arrived(t, do, arg)
<1>1. /\ job[t] = Idle
      /\ UNCHANGED <<sessions, executions, sweep, known, clock, shown, ghosts, crashes>>
      /\ \/ JoinEmpty(t, c) /\ Begin(t, c, do, arg, verb)
         \/ JoinLine(t, c) /\ Wait(t, do, arg, verb)
    BY DEF Arrive
<1> QED BY <1>1, BeginMoves, WaitMoves DEF Arrived

\* The buttons on screen stand for questions, writes and events there are.
LEMMA ButtonFacts ==
    ASSUME Typed, NEW c \in Chats, NEW b \in shown[c]
    PROVE  /\ b[1] = "a" => b[2] \in Nat
           /\ b[1] = "u" => b[2] \in DOMAIN executions
           /\ b[1] = "i" => b[2] \in DOMAIN events
<1>1. ButtonFits(b, DOMAIN events, DOMAIN executions)
    BY DEF Typed
<1>2. \A e \in DOMAIN events : e \in Nat
    BY EntryFacts DEF Typed
<1> QED BY <1>1, <1>2 DEF ButtonFits, Answer, Undo, Offer

LEMMA SayActs ==
    ASSUME ConvInv, NEW t \in Handlers, NEW c \in Chats, NEW m \in Messages, Say(t, c, m)
    PROVE  Arrived(t, "text", m) /\ sent' = sent \cup {m}
<1>1. sent' = sent \cup {m} /\ Arrive(t, c, "text", m, "")
    BY DEF Say
<1>2. sent' \subseteq Messages
    BY <1>1 DEF ConvInv, Typed
<1>3. CalledWith("text", m, "")
    BY DEF CalledWith, Doings, Args
<1> QED BY <1>1, <1>2, <1>3, ArriveActs

\* A press, or a command, comes in.
Pressed(t) ==
    /\ Acts(t) /\ \A u \in Turns \ {t} : job'[u] = job[u]
    /\ job[t] = Idle /\ UNCHANGED <<sessions, executions, ghosts, crashes>>
    /\ job'[t].do # "text" /\ job'[t].text = {}
    /\ job'[t].pc \in {"begun", "queued"} /\ UNCHANGED sent

LEMMA TapActs ==
    ASSUME ConvInv, NEW t \in Handlers, NEW c \in Chats, NEW do, NEW arg, NEW verb,
           CalledWith(do, arg, verb), do # "text", Tap(t, c, do, arg, verb)
    PROVE  Pressed(t)
<1>1. UNCHANGED sent /\ Arrive(t, c, do, arg, verb) /\ sent' \subseteq Messages
    BY DEF Tap, ConvInv, Typed
<1> QED BY <1>1, ArriveActs DEF Arrived, Pressed

LEMMA PressActs ==
    ASSUME ConvInv, NEW t \in Handlers, NEW c \in Chats, Press(t, c)
    PROVE  Pressed(t)
<1>1. Typed
    BY DEF ConvInv
<1>2. CASE \E b \in shown[c] : \E verb \in Verbs : b[1] = "a" /\ Tap(t, c, "answer", b[2], verb)
    <2>1. PICK b \in shown[c] : \E verb \in Verbs : b[1] = "a" /\ Tap(t, c, "answer", b[2], verb)
        BY <1>2
    <2>2. PICK verb \in Verbs : b[1] = "a" /\ Tap(t, c, "answer", b[2], verb)
        BY <2>1
    <2>3. b[2] \in Nat
        BY <1>1, <2>2, ButtonFacts
    <2>4. CalledWith("answer", b[2], verb)
        BY <2>3 DEF CalledWith, Doings, Args
    <2> QED BY <2>2, <2>4, TapActs
<1>3. CASE \E b \in shown[c] : b[1] = "u" /\ Tap(t, c, "undo", b[2], "")
    <2>1. PICK b \in shown[c] : b[1] = "u" /\ Tap(t, c, "undo", b[2], "")
        BY <1>3
    <2>2. b[2] \in DOMAIN executions
        BY <1>1, <2>1, ButtonFacts
    <2>3. b[2] \in Nat
        BY <1>1, <2>2, EntryFacts DEF Typed
    <2>4. CalledWith("undo", b[2], "")
        BY <2>2, <2>3 DEF CalledWith, Doings, Args
    <2> QED BY <2>1, <2>4, TapActs
<1>4. CASE \E b \in shown[c] : b[1] = "i" /\ Tap(t, c, "offer", b[2], "")
    <2>1. PICK b \in shown[c] : b[1] = "i" /\ Tap(t, c, "offer", b[2], "")
        BY <1>4
    <2>2. b[2] \in DOMAIN events
        BY <1>1, <2>1, ButtonFacts
    <2>3. b[2] \in Nat
        BY <1>1, <2>2, EntryFacts DEF Typed
    <2>4. CalledWith("offer", b[2], "")
        BY <2>2, <2>3 DEF CalledWith, Doings, Args
    <2> QED BY <2>1, <2>4, TapActs
<1>5. CalledWith("undo_latest", 0, "") /\ CalledWith("cancel", 0, "")
    BY DEF CalledWith, Doings, Args
<1>6. CASE Tap(t, c, "undo_latest", 0, "")
    BY <1>5, <1>6, TapActs
<1>7. CASE Tap(t, c, "cancel", 0, "")
    BY <1>5, <1>7, TapActs
<1> QED BY <1>2, <1>3, <1>4, <1>6, <1>7 DEF Press

LEMMA AdmitActs ==
    ASSUME ConvInv, NEW t \in Turns, NEW c \in Chats, Admit(t, c)
    PROVE  /\ Acts(t) /\ \A u \in Turns \ {t} : job'[u] = job[u]
           /\ t # Sweeper /\ job[t].pc = "queued"
           /\ UNCHANGED <<sessions, executions, ghosts, crashes, sent>>
           /\ job'[t].do = job[t].do /\ job'[t].arg = job[t].arg /\ job'[t].text = {}
           /\ job'[t].pc = "begun"
<1>1. /\ t \in Handlers /\ job[t].pc = "queued" /\ Enter(t, c)
      /\ Begin(t, c, job[t].do, job[t].arg, job[t].verb)
      /\ UNCHANGED <<sessions, executions, sweep, known, clock, user, ghosts, crashes>>
    BY DEF Admit
<1>2. job[t] \in JobRec /\ Fits(t, job[t], DOMAIN events, DOMAIN executions, clock) /\ t # Sweeper
    BY <1>1 DEF ConvInv, Typed, Jobs, Handlers
<1>3. job[t].do \in Doings \ {"sweep"} /\ job[t].verb \in Verbs \cup {""} /\ job[t].arg \in Args
    BY <1>2 DEF JobRec, Fits, Cast
<1>4. CalledWith(job[t].do, job[t].arg, job[t].verb)
    BY <1>2, <1>3 DEF CalledWith, Fits, Named
<1>5. /\ sent' \subseteq Messages /\ UNCHANGED sent
      /\ UNCHANGED <<sessions, executions, sweep, known, clock, shown, ghosts, crashes>>
    BY <1>1 DEF ConvInv, Typed, user
<1> QED BY <1>1, <1>2, <1>4, <1>5, BeginMoves

LEMMA ClockIsNatural ==
    ASSUME Typed
    PROVE  clock \in Nat /\ 0 <= clock
<1>1. clock \in Nat
    BY MaxTimeIsNatural DEF Typed, Times
<1> QED BY <1>1

\* Where a turn between two chats, or the sweeper between two steps of its round, is.
Idling(t, n) ==
    /\ n \in JobRec /\ n.pc \in {"idle", "scanned", "sweeping", "queued"} /\ n.chat = NoChat
    /\ t # Sweeper => n.pc = "idle"
    /\ n.do = "" /\ n.why = "" /\ n.text = {} /\ n.session = None /\ n.now = 0 /\ n.row = 0

LEMMA IdlingFits ==
    ASSUME Typed, NEW t \in Turns, NEW n, NEW rows, NEW writes, Idling(t, n)
    PROVE  Fits(t, n, rows, writes, clock)
<1>1. 0 <= clock
    BY ClockIsNatural
<1>2. n.now <= clock
    BY <1>1 DEF Idling
<1>3. n.pc \notin Busy
    BY DEF Busy, Talking, Saving, Empty, Idling
<1>4. Placed(n, rows, clock)
    BY <1>2, <1>3, NoChatIsNoChat DEF Placed, Idling
<1>5. Cast(t, n) /\ Meant(n) /\ Named(n, rows, writes) /\ Held(n)
    BY DEF Cast, Meant, Named, Held, Talking, Saving, Idling
<1> QED BY <1>4, <1>5 DEF Fits

\* The sweeper between two steps of its round.
LEMMA IdlingRecords ==
    ASSUME NEW pc \in {"scanned", "sweeping", "queued"}, NEW n, n = [Idle EXCEPT !.pc = pc]
    PROVE  Idling(Sweeper, n) /\ n.pc = pc
<1>1. Idle \in JobRec
    <2>1. 0 \in Nat
        OBVIOUS
    <2> QED BY <2>1, IdleFits
<1>2. pc \in Outside
    BY DEF Outside
<1>3. n \in JobRec
    BY <1>1, <1>2 DEF JobRec
<1>4. /\ n.pc = pc /\ n.chat = NoChat /\ n.do = "" /\ n.why = ""
      /\ n.text = {} /\ n.session = None /\ n.now = 0 /\ n.row = 0
    BY DEF Idle
<1> QED BY <1>3, <1>4 DEF Idling

\* An idle turn is not past any lock.
LEMMA IdleIdles ==
    ASSUME NEW t
    PROVE  Idling(t, Idle)
<1>1. 0 \in Nat
    OBVIOUS
<1>2. Idle \in JobRec
    BY <1>1, IdleFits
<1> QED BY <1>2 DEF Idling, Idle

\* The sweeper goes on to its next chat, or any turn is over.
LEMMA BetweenActs ==
    ASSUME ConvInv, NEW t \in Turns, NEW n, Idling(t, n), job' = [job EXCEPT ![t] = n],
           UNCHANGED <<sessions, executions, reverts, shown, clock, crashes, landed, lost>>,
           EventsGrow,
           QueueStep(t),
           SweepStays,
           sent' \subseteq Messages, KnownGrows,
           t = Sweeper => n.pc \in {"idle", "scanned"} \/ known'
    PROVE  /\ Acts(t) /\ job'[t] = n /\ \A u \in Turns \ {t} : job'[u] = job[u]
           /\ n.text = {} /\ n.do = ""
<1>1. Typed
    BY DEF ConvInv
<1>2. Fits(t, n, DOMAIN events', DOMAIN executions', clock) /\ n \in JobRec
    BY <1>1, IdlingFits DEF Idling
<1>3. n.pc \notin Talking \cup Saving \cup {"undo", "undone"}
    BY DEF Talking, Saving, Idling
<1>4. n.chat \in Chats => owner'[n.chat] = t
    BY NoChatIsNoChat DEF Idling
<1>5. Acts(t) /\ job'[t] = n /\ \A u \in Turns \ {t} : job'[u] = job[u]
    BY <1>2, <1>3, <1>4, PassingActs
<1> QED BY <1>5 DEF Idling

\* A step after which turn t has nothing in hand, and had nothing before.
EmptyHanded(t) ==
    /\ Acts(t) /\ \A u \in Turns \ {t} : job'[u] = job[u]
    /\ UNCHANGED <<sessions, executions, ghosts, sent, crashes>>
    /\ job[t].text = {} /\ job[t].do # "text" /\ job'[t].text = {} /\ job'[t].do # "text"
    /\ job[t].pc # "undone"

\* Leaving a chat, a turn leaves the round of the sweeper in order.
LEMMA VisitedFacts ==
    ASSUME Typed, NEW c \in Chats, Visited(c)
    PROVE  /\ SweepStays
           /\ sweep'.now = sweep.now
           /\ \E n : Idling(Sweeper, n) /\ job' = [job EXCEPT ![Sweeper] = n]
<1>1. sweep \in [now : Times, todo : SUBSET Chats] /\ sweep.now <= clock
    BY DEF Typed
<1>2. sweep' = [sweep EXCEPT !.todo = @ \ {c}]
    BY DEF Visited
<1>3. sweep' \in [now : Times, todo : SUBSET Chats] /\ sweep'.now = sweep.now
    BY <1>1, <1>2
<1>4. \/ job' = [job EXCEPT ![Sweeper] = Idle]
      \/ job' = [job EXCEPT ![Sweeper] = [Idle EXCEPT !.pc = "sweeping"]]
    BY DEF Visited
<1>5. Idling(Sweeper, Idle) /\ Idling(Sweeper, [Idle EXCEPT !.pc = "sweeping"])
    BY IdleIdles, IdlingRecords
<1>6. SweepStays
    BY <1>1, <1>3 DEF SweepStays
<1> QED BY <1>3, <1>4, <1>5, <1>6

LEMMA FinishActs ==
    ASSUME ConvInv, NEW t \in Turns, NEW c \in Chats, Finish(t, c)
    PROVE  EmptyHanded(t)
<1>1. /\ Within(t, c) /\ job[t].pc = "done" /\ Leave(t, c)
      /\ events' = [events EXCEPT ![job[t].row].open = FALSE]
      /\ UNCHANGED <<sessions, executions, known, clock, shown, sent, ghosts, crashes>>
    BY DEF Finish, user
<1>2. /\ Typed /\ job[t] \in JobRec /\ Fits(t, job[t], DOMAIN events, DOMAIN executions, clock)
      /\ (t = Sweeper => known) /\ job[t].pc \in Busy
    BY <1>1, WithinFacts
<1>3. job[t].text = {} /\ job[t].do = "" /\ job[t].row \in DOMAIN events
    BY <1>1, <1>2 DEF Fits, Placed, Meant, Held, Empty
<1>4. EventsGrow
    <2> DEFINE e == [events[job[t].row] EXCEPT !.open = FALSE]
    <2>1. events \in Seq(EventRec) /\ events[job[t].row] \in EventRec
        BY <1>2, <1>3, EntryFacts DEF Typed
    <2>2. e \in EventRec
        BY <2>1 DEF EventRec
    <2>3. events' = [events EXCEPT ![job[t].row] = e]
        BY <1>1
    <2> HIDE DEF e
    <2>4. events' \in Seq(EventRec) /\ DOMAIN events' = DOMAIN events
        BY <1>3, <2>1, <2>2, <2>3, ChangeFacts
    <2> QED BY <2>4 DEF EventsGrow
<1>5. QueueStep(t) /\ KnownGrows /\ (t = Sweeper => known')
    <2>1. QueueStep(t)
        BY <1>1, <1>2, QueueFacts
    <2>2. KnownGrows /\ known' = known
        BY <1>1, <1>2, Unmoved
    <2> QED BY <1>2, <2>1, <2>2
<1>6. /\ UNCHANGED <<sessions, executions, reverts, shown, clock, crashes, landed, lost>>
      /\ sent' \subseteq Messages
    BY <1>1, <1>2 DEF Typed, ghosts
<1>7. PICK n : /\ job' = [job EXCEPT ![t] = n] /\ Idling(t, n)
               /\ SweepStays
    <2>1. CASE t = Sweeper /\ Visited(c)
        BY <1>2, <2>1, VisitedFacts
    <2>2. CASE job' = [job EXCEPT ![t] = Idle] /\ UNCHANGED sweep
        <3>1. SweepStays
            BY <1>2, <2>2, Unmoved
        <3> QED BY <2>2, <3>1, IdleIdles
    <2> QED BY <2>1, <2>2 DEF Finish
<1>8. /\ Acts(t) /\ \A u \in Turns \ {t} : job'[u] = job[u]
      /\ job'[t].text = {} /\ job'[t].do = ""
    BY <1>2, <1>4, <1>5, <1>6, <1>7, BetweenActs
<1> QED BY <1>1, <1>3, <1>8 DEF EmptyHanded

\* The sweeper on its round has nothing in hand.
LEMMA SweeperFacts ==
    ASSUME ConvInv, job[Sweeper].pc \in {"idle", "scanned", "sweeping", "queued", "pop"}
    PROVE  /\ Typed /\ Sweeper \in Turns /\ job[Sweeper] \in JobRec
           /\ job[Sweeper].do = "" /\ job[Sweeper].why = "" /\ job[Sweeper].text = {}
           /\ job[Sweeper].session = None /\ job[Sweeper].pc \notin {"undone", "undo"}
           /\ job[Sweeper].row \in DOMAIN events \cup {0}
           /\ job[Sweeper].now <= clock
           /\ Fits(Sweeper, job[Sweeper], DOMAIN events, DOMAIN executions, clock)
           /\ job[Sweeper].pc \in {"sweeping", "queued", "pop"} => known
<1>1. /\ Typed /\ Sweeper \in Turns /\ job[Sweeper] \in JobRec
      /\ Fits(Sweeper, job[Sweeper], DOMAIN events, DOMAIN executions, clock)
    BY SweeperIsATurn DEF ConvInv, Typed, Jobs
<1>2. job[Sweeper].do = ""
    BY <1>1 DEF Fits, Cast, Meant
<1>3. job[Sweeper].why = ""
    BY <1>1 DEF Fits, Meant, Saving
<1>4. job[Sweeper].text = {} /\ job[Sweeper].session = None
    BY <1>1 DEF Fits, Held, Empty, Outside
<1>5. job[Sweeper].row \in DOMAIN events \cup {0} /\ job[Sweeper].now <= clock
    BY <1>1 DEF Fits, Placed
<1>6. job[Sweeper].pc \in {"sweeping", "queued", "pop"} => known
    BY <1>1 DEF ConvInv, Landed
<1> QED BY <1>1, <1>2, <1>3, <1>4, <1>5, <1>6

\* It steps in at a chat.
LEMMA InsideMoves ==
    ASSUME ConvInv, NEW c \in Chats, job[Sweeper].pc \in {"sweeping", "queued"}, Inside(c),
           JoinEmpty(Sweeper, c) \/ Enter(Sweeper, c),
           UNCHANGED <<sessions, events, known, sweep>>, SweepFrame
    PROVE  EmptyHanded(Sweeper)
<1>1. /\ Typed /\ Sweeper \in Turns /\ job[Sweeper] \in JobRec
      /\ job[Sweeper].do = "" /\ job[Sweeper].why = "" /\ job[Sweeper].text = {}
      /\ job[Sweeper].session = None /\ known /\ job[Sweeper].row \in DOMAIN events \cup {0}
      /\ job[Sweeper].now <= clock
    BY SweeperFacts
<1> DEFINE n == [job[Sweeper] EXCEPT !.pc = "pop", !.chat = c]
<1>2. n \in JobRec
    BY <1>1 DEF JobRec, Busy, Empty
<1>3. /\ n.pc = "pop" /\ n.chat = c /\ n.do = "" /\ n.why = "" /\ n.text = {}
      /\ n.session = None /\ n.row = job[Sweeper].row /\ n.now = job[Sweeper].now
    BY <1>1 DEF JobRec
<1>4. job' = [job EXCEPT ![Sweeper] = n]
    BY <1>1 DEF Typed, Inside
<1> HIDE DEF n
<1>5. n.pc \in Busy
    BY <1>3 DEF Busy, Empty
<1>6. Placed(n, DOMAIN events, clock)
    BY <1>1, <1>3, <1>5 DEF Placed
<1>7. Cast(Sweeper, n) /\ Meant(n) /\ Named(n, DOMAIN events, DOMAIN executions) /\ Held(n)
    BY <1>3 DEF Cast, Meant, Named, Held, Talking, Saving
<1>8. Fits(Sweeper, n, DOMAIN events, DOMAIN executions, clock)
    BY <1>6, <1>7 DEF Fits
<1>9. events' = events /\ executions' = executions
    BY DEF SweepFrame
<1>10. EventsGrow /\ Fits(Sweeper, n, DOMAIN events', DOMAIN executions', clock)
    BY <1>1, <1>8, <1>9 DEF Typed, EventsGrow
<1>11. /\ QueueStep(Sweeper)
       /\ n.chat \in Chats => owner'[n.chat] = Sweeper
    BY <1>1, <1>3, QueueFacts
<1>12. /\ UNCHANGED <<sessions, executions, reverts, shown, clock, crashes, landed, lost>>
       /\ sent' \subseteq Messages
    BY <1>1 DEF Typed, SweepFrame, user, ghosts
<1>13. n.pc \notin Talking \cup Saving \cup {"undo", "undone"}
    BY <1>3 DEF Talking, Saving
<1>14. Acts(Sweeper) /\ job'[Sweeper] = n /\ \A u \in Turns \ {Sweeper} : job'[u] = job[u]
    <2>1. known' = known /\ known
        BY <1>1
    <2>2. known'
        BY <2>1
    <2>3. SweepStays /\ KnownGrows
        BY <1>1, Unmoved
    <2> QED BY <1>1, <1>2, <1>4, <1>10, <1>11, <1>12, <1>13, <2>2, <2>3, PassingActs
<1>15. UNCHANGED <<sessions, executions, ghosts, sent, crashes>>
    BY DEF SweepFrame, user
<1> QED BY <1>1, <1>3, <1>14, <1>15 DEF EmptyHanded

\* It waits for a chat.
LEMMA QueuesUp ==
    ASSUME ConvInv, NEW c \in Chats, job[Sweeper].pc = "sweeping", Goto(Sweeper, "queued"),
           JoinLine(Sweeper, c),
           UNCHANGED <<sessions, events, known, sweep>>, SweepFrame
    PROVE  EmptyHanded(Sweeper)
<1>1. /\ Typed /\ Sweeper \in Turns /\ job[Sweeper] \in JobRec
      /\ job[Sweeper].do = "" /\ job[Sweeper].why = "" /\ job[Sweeper].text = {}
      /\ job[Sweeper].session = None /\ known /\ job[Sweeper].row \in DOMAIN events \cup {0}
      /\ job[Sweeper].now <= clock
    BY SweeperFacts
<1>2. job[Sweeper].chat \notin Chats
    BY SweeperFacts DEF Fits, Placed, Busy, Talking, Saving, Empty
<1> DEFINE n == [job[Sweeper] EXCEPT !.pc = "queued"]
<1>3. n \in JobRec
    BY <1>1 DEF JobRec, Outside
<1>4. /\ n.pc = "queued" /\ n.chat = job[Sweeper].chat /\ n.do = "" /\ n.why = "" /\ n.text = {}
      /\ n.session = None /\ n.row = job[Sweeper].row /\ n.now = job[Sweeper].now
    BY <1>1 DEF JobRec
<1>5. job' = [job EXCEPT ![Sweeper] = n]
    BY <1>1 DEF Typed, Goto
<1> HIDE DEF n
<1>6. n.pc \notin Busy
    BY <1>4 DEF Busy, Talking, Saving, Empty
<1>7. Placed(n, DOMAIN events, clock)
    BY <1>1, <1>2, <1>4, <1>6 DEF Placed
<1>8. Cast(Sweeper, n) /\ Meant(n) /\ Named(n, DOMAIN events, DOMAIN executions) /\ Held(n)
    BY <1>4 DEF Cast, Meant, Named, Held, Talking, Saving
<1>9. Fits(Sweeper, n, DOMAIN events, DOMAIN executions, clock)
    BY <1>7, <1>8 DEF Fits
<1>10. events' = events /\ executions' = executions
    BY DEF SweepFrame
<1>11. EventsGrow /\ Fits(Sweeper, n, DOMAIN events', DOMAIN executions', clock)
    BY <1>1, <1>9, <1>10 DEF Typed, EventsGrow
<1>12. /\ QueueStep(Sweeper)
       /\ n.chat \in Chats => owner'[n.chat] = Sweeper
    BY <1>1, <1>2, <1>4, QueueFacts
<1>13. /\ UNCHANGED <<sessions, executions, reverts, shown, clock, crashes, landed, lost>>
       /\ sent' \subseteq Messages
    BY <1>1 DEF Typed, SweepFrame, user, ghosts
<1>14. n.pc \notin Talking \cup Saving \cup {"undo", "undone"}
    BY <1>4 DEF Talking, Saving
<1>15. Acts(Sweeper) /\ job'[Sweeper] = n /\ \A u \in Turns \ {Sweeper} : job'[u] = job[u]
    <2>1. known' = known /\ known
        BY <1>1
    <2>2. known'
        BY <2>1
    <2>3. SweepStays /\ KnownGrows
        BY <1>1, Unmoved
    <2> QED BY <1>1, <1>3, <1>5, <1>11, <1>12, <1>13, <1>14, <2>2, <2>3, PassingActs
<1>16. UNCHANGED <<sessions, executions, ghosts, sent, crashes>>
    BY DEF SweepFrame, user
<1> QED BY <1>1, <1>4, <1>15, <1>16 DEF EmptyHanded

\* It is between two chats, or its round begins or ends.
RoundStep(n) ==
    /\ job[Sweeper].pc \in {"idle", "scanned", "sweeping", "queued", "pop"}
    /\ Idling(Sweeper, n) /\ job' = [job EXCEPT ![Sweeper] = n]
    /\ QueueStep(Sweeper) /\ SweepStays /\ KnownGrows
    /\ n.pc \in {"idle", "scanned"} \/ known'
    /\ UNCHANGED <<sessions, events>> /\ SweepFrame

LEMMA RoundMoves ==
    ASSUME ConvInv, NEW n, RoundStep(n)
    PROVE  EmptyHanded(Sweeper)
<1>1. /\ Typed /\ Sweeper \in Turns /\ job[Sweeper].do = "" /\ job[Sweeper].text = {}
      /\ job[Sweeper].pc # "undone"
    BY SweeperFacts DEF RoundStep
<1>2. EventsGrow
    BY <1>1 DEF Typed, EventsGrow, RoundStep
<1>3. /\ UNCHANGED <<sessions, executions, reverts, shown, clock, crashes, landed, lost>>
      /\ sent' \subseteq Messages
    BY <1>1 DEF Typed, SweepFrame, user, ghosts, RoundStep
<1>4. /\ Acts(Sweeper) /\ job'[Sweeper] = n /\ \A u \in Turns \ {Sweeper} : job'[u] = job[u]
      /\ n.text = {} /\ n.do = ""
    BY <1>1, <1>2, <1>3, BetweenActs DEF RoundStep
<1>5. UNCHANGED <<sessions, executions, ghosts, sent, crashes>>
    BY DEF SweepFrame, user, RoundStep
<1> QED BY <1>1, <1>4, <1>5 DEF EmptyHanded

\* Every step of its round but the one that takes a question.
LEMMA SweeperActs ==
    ASSUME ConvInv, NEW c,
           \/ SweepBegins \/ SweepDiscoveryFails \/ SweepScans
           \/ c \in Chats /\ (SweepVisits(c) \/ SweepEnters(c) \/ SweepSkips(c))
    PROVE  EmptyHanded(Sweeper)
<1>1. Typed /\ Sweeper \in Turns /\ job \in [Turns -> JobRec]
    BY SweeperIsATurn DEF ConvInv, Typed
<1>2. /\ sweep \in [now : Times, todo : SUBSET Chats] /\ sweep.now <= clock
      /\ owner \in [Chats -> Turns \cup {Nobody}] /\ line \in [Chats -> Seq(Turns)]
      /\ clock \in Times /\ clock <= clock
    BY <1>1, ClockIsNatural DEF Typed
<1>3. CASE SweepBegins
    <2>1. /\ job[Sweeper] = Idle /\ sweep' = [now |-> clock, todo |-> {}] /\ Goto(Sweeper, "scanned")
          /\ UNCHANGED <<owner, line, sessions, events, known>> /\ SweepFrame
        BY <1>3 DEF SweepBegins, queueVars
    <2> DEFINE n == [Idle EXCEPT !.pc = "scanned"]
    <2>2. Idle.pc = "idle"
        BY DEF Idle
    <2>3. job' = [job EXCEPT ![Sweeper] = n]
        BY <2>1 DEF Goto
    <2>4. SweepStays
        BY <1>2, <2>1 DEF SweepStays
    <2>5. Idling(Sweeper, n) /\ n.pc = "scanned"
        BY IdlingRecords
    <2> HIDE DEF n
    <2>6. UNCHANGED <<sessions, events>>
        BY <2>1
    <2>7. QueueStep(Sweeper) /\ KnownGrows
        BY <1>1, <2>1, Unmoved
    <2>8. RoundStep(n)
        BY <2>1, <2>2, <2>3, <2>4, <2>5, <2>6, <2>7 DEF RoundStep
    <2> QED BY <2>8, RoundMoves
<1>4. CASE SweepDiscoveryFails
    <2>1. /\ job[Sweeper].pc = "scanned" /\ job' = [job EXCEPT ![Sweeper] = Idle]
          /\ UNCHANGED <<owner, line, sessions, events, known, sweep>> /\ SweepFrame
        BY <1>4 DEF SweepDiscoveryFails, queueVars
    <2>2. Idle.pc = "idle" /\ Idling(Sweeper, Idle)
        BY IdleIdles DEF Idle
    <2>3. UNCHANGED <<sessions, events>>
        BY <2>1
    <2>4. QueueStep(Sweeper) /\ SweepStays /\ KnownGrows
        BY <1>1, <2>1, Unmoved
    <2>5. RoundStep(Idle)
        BY <2>1, <2>2, <2>3, <2>4 DEF RoundStep
    <2> QED BY <2>5, RoundMoves
<1>5. CASE SweepScans
    <2>1. /\ job[Sweeper].pc = "scanned" /\ known' = TRUE
          /\ UNCHANGED <<owner, line, sessions, events>> /\ SweepFrame
        BY <1>5 DEF SweepScans, queueVars
    <2> DEFINE found == {d \in Chats : Expired(d, sweep.now)}
    <2>2. /\ sweep' = [sweep EXCEPT !.todo = found]
          /\ \/ job' = [job EXCEPT ![Sweeper] = Idle]
             \/ job' = [job EXCEPT ![Sweeper] = [Idle EXCEPT !.pc = "sweeping"]]
        BY <1>5 DEF SweepScans
    <2>3. found \subseteq Chats
        OBVIOUS
    <2> HIDE DEF found
    <2>4. SweepStays
        <3>1. /\ sweep' \in [now : Times, todo : SUBSET Chats]
              /\ sweep'.now = sweep.now
            BY <1>2, <2>2, <2>3
        <3>2. UNCHANGED clock
            BY <2>1 DEF SweepFrame
        <3> QED BY <1>2, <3>1, <3>2 DEF SweepStays
    <2>5. Idling(Sweeper, Idle) /\ Idling(Sweeper, [Idle EXCEPT !.pc = "sweeping"])
        BY IdleIdles, IdlingRecords
    <2>6. PICK n : Idling(Sweeper, n) /\ job' = [job EXCEPT ![Sweeper] = n]
        BY <2>2, <2>5
    <2>7. known' /\ UNCHANGED <<sessions, events>>
        BY <2>1
    <2>8. QueueStep(Sweeper) /\ KnownGrows
        BY <1>1, <2>1, Unmoved
    <2>9. RoundStep(n)
        BY <2>1, <2>4, <2>6, <2>7, <2>8 DEF RoundStep
    <2> QED BY <2>9, RoundMoves
<1>6. CASE c \in Chats /\ SweepVisits(c)
    <2>1. /\ job[Sweeper].pc = "sweeping" /\ SweepFrame
          /\ UNCHANGED <<sessions, events, known, sweep>>
        BY <1>6 DEF SweepVisits
    <2>2. CASE JoinEmpty(Sweeper, c) /\ Inside(c)
        BY <1>6, <2>1, <2>2, InsideMoves
    <2>3. CASE JoinLine(Sweeper, c) /\ Goto(Sweeper, "queued")
        BY <1>6, <2>1, <2>3, QueuesUp
    <2> QED BY <1>6, <2>2, <2>3 DEF SweepVisits
<1>7. CASE c \in Chats /\ SweepEnters(c)
    <2>1. /\ job[Sweeper].pc = "queued" /\ SweepFrame /\ Enter(Sweeper, c) /\ Inside(c)
          /\ UNCHANGED <<sessions, events, known, sweep>>
        BY <1>7 DEF SweepEnters
    <2> QED BY <1>7, <2>1, InsideMoves
<1>8. CASE c \in Chats /\ SweepSkips(c)
    <2>1. /\ job[Sweeper].pc = "pop" /\ Leave(Sweeper, c) /\ Visited(c) /\ SweepFrame
          /\ UNCHANGED <<sessions, events, known>>
        BY <1>8 DEF SweepSkips
    <2>2. SweepStays
        BY <1>1, <1>8, <2>1, VisitedFacts
    <2>3. PICK n : Idling(Sweeper, n) /\ job' = [job EXCEPT ![Sweeper] = n]
        BY <1>1, <1>8, <2>1, VisitedFacts
    <2>4. QueueStep(Sweeper) /\ KnownGrows
        BY <1>1, <1>8, <2>1, QueueFacts, Unmoved
    <2>5. known' = known /\ known /\ UNCHANGED <<sessions, events>>
        BY <2>1, SweeperFacts
    <2>6. known'
        BY <2>5
    <2>7. RoundStep(n)
        BY <2>1, <2>2, <2>3, <2>4, <2>5, <2>6 DEF RoundStep
    <2> QED BY <2>7, RoundMoves
<1> QED BY <1>3, <1>4, <1>5, <1>6, <1>7, <1>8

\* It takes an expired question: the turn it goes on with has the question's text in hand.
LEMMA SweepPopsActs ==
    ASSUME ConvInv, NEW c \in Chats, SweepPops(c)
    PROVE  /\ Acts(Sweeper) /\ \A u \in Turns \ {Sweeper} : job'[u] = job[u]
           /\ sessions' = [sessions EXCEPT ![c] = None]
           /\ sessions[c].expires <= clock
           /\ job'[Sweeper].text = sessions[c].text
           /\ job[Sweeper].pc = "pop" /\ job[Sweeper].text = {} /\ job[Sweeper].do = ""
           /\ UNCHANGED <<executions, ghosts, sent, crashes>>
<1>1. /\ Within(Sweeper, c) /\ job[Sweeper].pc = "pop" /\ Expired(c, sweep.now) /\ Drop(c)
      /\ events' = Opened(c, {}) /\ UNCHANGED <<owner, line, known, sweep>> /\ SweepFrame
    BY DEF SweepPops, queueVars
<1>2. /\ Typed /\ Sweeper \in Turns /\ job[Sweeper].do = "" /\ job[Sweeper].text = {} /\ known
    BY <1>1, SweeperFacts
<1>3. UNCHANGED <<executions, reverts, shown, clock, crashes, landed, lost, sent, told, dying, doubled>>
    BY <1>1 DEF SweepFrame, user, ghosts
<1>4. sessions' = [sessions EXCEPT ![c] = None] /\ sessions[c].expires <= sweep.now
    BY <1>1 DEF Drop, Expired
<1>5. sessions[c] \in Question /\ sessions[c].text \in SUBSET Messages /\ sessions[c].expires \in Nat
    BY <1>2 DEF Typed, Question
<1>6. clock \in Times /\ clock \in Nat /\ clock <= clock /\ sweep.now <= clock /\ sweep.now \in Nat
    <2>1. clock \in Times /\ sweep \in [now : Times, todo : SUBSET Chats] /\ sweep.now <= clock
        BY <1>2 DEF Typed
    <2>2. clock \in Nat /\ sweep.now \in Nat
        BY <2>1, MaxTimeIsNatural DEF Times
    <2> QED BY <2>1, <2>2
<1>7. /\ EventsGrow /\ DOMAIN events \subseteq DOMAIN events'
      /\ Len(events) + 1 \in DOMAIN events' /\ Len(events) + 1 \in Nat
    BY <1>1, <1>2, RowOpens
<1> DEFINE n == [Idle EXCEPT !.pc = "inbox", !.chat = c, !.do = "sweep", !.why = "sweep",
                             !.text = sessions[c].text, !.row = Len(events) + 1, !.now = clock]
<1>8. Idle \in JobRec
    BY <1>6, IdleFits
<1>9. n \in JobRec
    BY <1>5, <1>6, <1>7, <1>8 DEF JobRec, Busy, Saving, Doings, Whys
<1>10. /\ n.pc = "inbox" /\ n.chat = c /\ n.do = "sweep" /\ n.why = "sweep"
       /\ n.text = sessions[c].text /\ n.row = Len(events) + 1 /\ n.now = clock
    BY DEF Idle
<1>11. job' = [job EXCEPT ![Sweeper] = n]
    BY DEF SweepPops
<1> HIDE DEF n
<1>12. Placed(n, DOMAIN events', clock)
    BY <1>6, <1>7, <1>10 DEF Placed, Busy, Saving
<1>13. Cast(Sweeper, n) /\ Meant(n) /\ Named(n, DOMAIN events', DOMAIN executions') /\ Held(n)
    BY <1>10 DEF Cast, Meant, Named, Held, Talking, Saving, Empty, Outside
<1>14. Fits(Sweeper, n, DOMAIN events', DOMAIN executions', clock)
    BY <1>12, <1>13 DEF Fits
<1>15. job' \in [Turns -> JobRec] /\ job'[Sweeper] = n /\ \A u \in Turns \ {Sweeper} : job'[u] = job[u]
    BY <1>2, <1>9, <1>11 DEF Typed
<1>16. JobMoves(Sweeper)
    BY <1>14, <1>15 DEF JobMoves
<1>17. owner[c] = Sweeper
    BY <1>1, <1>2, WithinFacts
<1>18. QueueMoves(Sweeper)
    BY <1>1, <1>2, <1>10, <1>15, <1>17 DEF Typed, QueueMoves
<1>19. QuestionMoves(Sweeper)
    BY <1>2, <1>4, <1>10, <1>15, <1>17, NoneIsQuestion DEF Typed, QuestionMoves, Talking
<1>20. WritesMove(Sweeper) /\ ButtonsMove
    BY <1>2, <1>3 DEF Typed, WritesMove, ButtonsMove
<1>21. UndoMoves(Sweeper)
    BY <1>10, <1>15 DEF UndoMoves
<1>22. known' = known /\ known
    BY <1>1, <1>2
<1>23. known'
    BY <1>22
<1>24. WorldMoves
    <2>1. SweepStays /\ KnownGrows
        BY <1>1, <1>2, Unmoved
    <2>2. known' \in BOOLEAN /\ (known => known')
        BY <2>1 DEF KnownGrows
    <2>3. /\ lost' = lost /\ sent' = sent /\ landed' = landed
          /\ lost \in Nat /\ sent \subseteq Messages /\ landed \in [Messages -> Nat]
        BY <1>2, <1>3 DEF Typed
    <2>4. /\ lost' \in Nat /\ lost <= lost' /\ sent' \subseteq Messages
          /\ landed' \in [Messages -> Nat] /\ \A m \in Messages : landed[m] <= landed'[m]
        BY <2>3
    <2> QED BY <1>3, <2>1, <2>2, <2>3, <2>4 DEF WorldMoves, SweepStays
<1>25. LandsIn(Sweeper)
    BY <1>10, <1>15, <1>23 DEF LandsIn
<1>26. Acts(Sweeper)
    BY <1>7, <1>16, <1>18, <1>19, <1>20, <1>21, <1>24, <1>25 DEF Acts
<1>27. sessions[c].expires <= clock
    BY <1>4, <1>5, <1>6
<1>28. UNCHANGED <<executions, ghosts, sent, crashes>>
    BY <1>3 DEF ghosts
<1> QED BY <1>1, <1>2, <1>4, <1>10, <1>15, <1>26, <1>27, <1>28

----------------------------------------------------------------------------
(* How often a write was undone. *)

LEMMA CountFacts ==
    ASSUME ConvInv, NEW x \in DOMAIN executions
    PROVE  /\ crashes \in Nat /\ lost \in Nat /\ reverts[x] \in Nat
           /\ KnownUndone(x) => reverts[x] <= crashes + lost + 1
           /\ ~ KnownUndone(x) => reverts[x] <= crashes + lost
<1>1. crashes \in Nat /\ lost \in Nat /\ reverts \in Seq(Nat) /\ DOMAIN reverts = DOMAIN executions
    BY DEF ConvInv, Typed
<1>2. reverts[x] \in Nat
    BY <1>1, EntryFacts
<1>3. reverts[x] <= crashes + lost + (IF KnownUndone(x) THEN 1 ELSE 0)
    BY DEF ConvInv, Counted
<1> QED BY <1>1, <1>2, <1>3

\* Whoever is not about to learn how its undo went leaves what is known of each as it was.
LEMMA StillCounted ==
    ASSUME ConvInv, NEW t \in Turns, Acts(t), job[t].pc # "undone",
           \A x \in DOMAIN executions : reverts'[x] = reverts[x],
           \A x \in DOMAIN executions' \ DOMAIN executions : reverts'[x] = 0
    PROVE  Counted'
<1>1. crashes' = crashes /\ lost' \in Nat /\ lost <= lost' /\ crashes \in Nat /\ lost \in Nat
    BY DEF ConvInv, Typed, Acts, WorldMoves
<1> SUFFICES ASSUME NEW x \in DOMAIN executions'
             PROVE  reverts'[x] <= crashes' + lost' + (IF KnownUndone(x)' THEN 1 ELSE 0)
    BY DEF Counted
<1>2. CASE x \notin DOMAIN executions
    BY <1>1, <1>2
<1>3. CASE x \in DOMAIN executions
    <2>1. executions'[x].undone = executions[x].undone
        BY <1>3 DEF Acts, WritesMove
    <2>2. KnownUndone(x) => KnownUndone(x)'
        <3>1. CASE executions[x].undone
            BY <2>1, <3>1 DEF KnownUndone
        <3>2. ASSUME NEW u \in Turns, job[u].pc = "undone", job[u].applied, job[u].arg = x
              PROVE  KnownUndone(x)'
            <4>1. job'[u] = job[u]
                BY <3>2 DEF Acts, JobMoves
            <4> QED BY <3>2, <4>1 DEF KnownUndone
        <3> QED BY <3>1, <3>2 DEF KnownUndone
    <2>3. /\ reverts'[x] = reverts[x] /\ reverts[x] \in Nat
          /\ KnownUndone(x) => reverts[x] <= crashes + lost + 1
          /\ ~ KnownUndone(x) => reverts[x] <= crashes + lost
        BY <1>3, CountFacts
    <2>4. CASE KnownUndone(x)
        BY <1>1, <2>2, <2>3, <2>4
    <2>5. CASE ~ KnownUndone(x)
        BY <1>1, <2>3, <2>5
    <2> QED BY <2>4, <2>5
<1> QED BY <1>2, <1>3

\* An undo that is sent is the first that its row and its turn know of.
LEMMA SentIsCounted ==
    ASSUME ConvInv, NEW t \in Turns, NEW c \in Chats, SendUndo(t, c), Acts(t)
    PROVE  Counted'
<1>1. /\ Within(t, c) /\ job[t].pc = "undo" /\ UNCHANGED executions
      /\ crashes' = crashes /\ lost' = lost
    BY DEF SendUndo, At, Frame, store
<1>2. PICK applied \in BOOLEAN :
        /\ job' = [job EXCEPT ![t].pc = "undone", ![t].applied = applied]
        /\ reverts' = [reverts EXCEPT ![job[t].arg] = @ + (IF applied THEN 1 ELSE 0)]
    BY DEF SendUndo
<1>3. /\ job[t].arg \in DOMAIN executions /\ ~ executions[job[t].arg].undone
      /\ executions[job[t].arg].chat = c
    BY <1>1, UndoFacts
<1>4. ~ KnownUndone(job[t].arg)
    <2> SUFFICES ASSUME NEW u \in Turns, job[u].pc = "undone", job[u].arg = job[t].arg
                 PROVE  FALSE
        BY <1>3 DEF KnownUndone
    <2>1. executions[job[u].arg].chat = job[u].chat /\ job[u].chat \in Chats
        BY HandsAreInside DEF ConvInv, Undoing
    <2>2. owner[job[u].chat] = u
        BY HandsAreInside
    <2>3. owner[c] = t
        BY <1>1, WithinFacts
    <2> QED BY <1>1, <1>3, <2>1, <2>2, <2>3
<1>5. /\ job \in [Turns -> JobRec] /\ crashes \in Nat /\ lost \in Nat
      /\ reverts \in Seq(Nat) /\ DOMAIN reverts = DOMAIN executions
    BY DEF ConvInv, Typed
<1>6. job'[t].pc = "undone" /\ job'[t].applied = applied /\ job'[t].arg = job[t].arg
    BY <1>2, <1>5 DEF JobRec
<1>7. \A u \in Turns \ {t} : job'[u] = job[u]
    BY DEF Acts, JobMoves
<1> SUFFICES ASSUME NEW x \in DOMAIN executions
             PROVE  reverts'[x] <= crashes + lost + (IF KnownUndone(x)' THEN 1 ELSE 0)
    BY <1>1 DEF Counted
<1>8. /\ reverts[x] \in Nat
      /\ KnownUndone(x) => reverts[x] <= crashes + lost + 1
      /\ ~ KnownUndone(x) => reverts[x] <= crashes + lost
    BY CountFacts
<1>9. CASE x = job[t].arg /\ applied
    <2>1. KnownUndone(x)'
        BY <1>6, <1>9 DEF KnownUndone
    <2>2. reverts'[x] = reverts[x] + 1
        BY <1>2, <1>5, <1>9
    <2> QED BY <1>4, <1>5, <1>8, <1>9, <2>1, <2>2
<1>10. CASE x = job[t].arg /\ ~ applied
    <2>1. reverts'[x] = reverts[x] + 0
        BY <1>2, <1>5, <1>10
    <2> QED BY <1>4, <1>5, <1>8, <1>10, <2>1
<1>11. CASE x # job[t].arg
    <2>1. reverts'[x] = reverts[x]
        BY <1>2, <1>5, <1>11
    <2>2. KnownUndone(x) => KnownUndone(x)'
        BY <1>1, <1>7 DEF KnownUndone
    <2> QED BY <1>5, <1>8, <2>1, <2>2
<1> QED BY <1>9, <1>10, <1>11

\* An undo that is answered is marked, unless the answer was lost.
LEMMA AnswerIsCounted ==
    ASSUME ConvInv, NEW t \in Turns, NEW c \in Chats, UndoAnswered(t, c), Acts(t)
    PROVE  Counted'
<1>1. Within(t, c) /\ job[t].pc = "undone" /\ crashes' = crashes /\ reverts' = reverts
    BY DEF UndoAnswered, At, Frame
<1>2. /\ executions \in Seq(ExecutionRec) /\ crashes \in Nat /\ lost \in Nat
      /\ lost' \in Nat /\ lost <= lost' /\ job[t].applied \in BOOLEAN
    BY <1>1, WithinFacts DEF ConvInv, Typed, Acts, WorldMoves, JobRec
<1>3. job[t].arg \in DOMAIN executions /\ executions[job[t].arg] \in ExecutionRec
    BY <1>1, UndoFacts
<1>4. \A u \in Turns \ {t} : job'[u] = job[u]
    BY DEF Acts, JobMoves
<1>5. DOMAIN executions' = DOMAIN executions
    BY <1>2, <1>3 DEF UndoAnswered
<1> SUFFICES ASSUME NEW x \in DOMAIN executions
             PROVE  reverts[x] <= crashes + lost' + (IF KnownUndone(x)' THEN 1 ELSE 0)
    BY <1>1, <1>5 DEF Counted
<1>6. /\ reverts[x] \in Nat
      /\ KnownUndone(x) => reverts[x] <= crashes + lost + 1
      /\ ~ KnownUndone(x) => reverts[x] <= crashes + lost
    BY CountFacts
<1>7. executions[x].undone => executions'[x].undone
    <2>1. CASE UNCHANGED executions
        BY <2>1
    <2>2. CASE executions' = [executions EXCEPT ![job[t].arg].undone = TRUE]
        <3>1. executions[x] \in ExecutionRec
            BY <1>2, EntryFacts
        <3>2. CASE x = job[t].arg
            BY <1>2, <2>2, <3>1, <3>2 DEF ExecutionRec
        <3>3. CASE x # job[t].arg
            BY <1>2, <2>2, <3>3
        <3> QED BY <3>2, <3>3
    <2> QED BY <2>1, <2>2 DEF UndoAnswered
<1>8. CASE x = job[t].arg /\ job[t].applied
    <2>1. CASE executions' = [executions EXCEPT ![job[t].arg].undone = TRUE]
        <3>1. executions'[x].undone
            BY <1>2, <1>3, <1>8, <2>1 DEF ExecutionRec
        <3>2. KnownUndone(x)'
            BY <3>1 DEF KnownUndone
        <3> QED BY <1>2, <1>6, <3>2
    <2>2. CASE LoseAnswer(t)
        <3>1. lost' = lost + 1
            BY <1>8, <2>2 DEF LoseAnswer
        <3> QED BY <1>2, <1>6, <3>1
    <2> QED BY <2>1, <2>2 DEF UndoAnswered
<1>9. CASE ~ (x = job[t].arg /\ job[t].applied)
    <2>1. KnownUndone(x) => KnownUndone(x)'
        <3>1. CASE executions[x].undone
            BY <1>7, <3>1 DEF KnownUndone
        <3>2. ASSUME NEW u \in Turns, job[u].pc = "undone", job[u].applied, job[u].arg = x
              PROVE  KnownUndone(x)'
            <4>1. job'[u] = job[u]
                BY <1>4, <1>9, <3>2
            <4> QED BY <3>2, <4>1 DEF KnownUndone
        <3> QED BY <3>1, <3>2 DEF KnownUndone
    <2>2. CASE KnownUndone(x)
        BY <1>2, <1>6, <2>1, <2>2
    <2>3. CASE ~ KnownUndone(x)
        BY <1>2, <1>6, <2>3
    <2> QED BY <2>2, <2>3
<1> QED BY <1>8, <1>9

----------------------------------------------------------------------------
(* What becomes of a message, and of a question, in one step of turn t. *)

\* What a turn has in hand, by its local variables.
Hand(n) == n.text \cup (IF n.do = "text" THEN {n.arg} ELSE {})

\* Message m is accounted for after the step.
Safe(t, m) ==
    \/ landed'[m] > 0
    \/ m \in told' \cup dying'
    \/ \E c \in Chats : m \in sessions'[c].text
    \/ m \in Hand(job'[t])

Keeps(t) ==
    /\ told \subseteq told' /\ dying \subseteq dying'
    /\ sent' \subseteq sent \cup Hand(job'[t])
    /\ InboxMode = "auto" =>
        /\ \A m \in Hand(job[t]) : Safe(t, m)
        /\ \A c \in Chats : \A m \in sessions[c].text : Safe(t, m)

\* A question is moved by an answer to it, or by a handler it is still open for; past its time, by
\* anyone.
Respects(t) ==
    \A c \in Chats : sessions'[c] # sessions[c] =>
        \/ sessions[c].expires <= clock
        \/ /\ t # Sweeper
           /\ job[t].do = "answer" /\ job[t].chat = c => sessions[c].token = job[t].arg

LEMMA KeepsKept ==
    ASSUME ConvInv, NEW t \in Turns, Acts(t), Keeps(t)
    PROVE  Kept'
<1> SUFFICES ASSUME InboxMode = "auto", NEW m \in sent'
             PROVE  \/ landed'[m] > 0
                    \/ m \in told' \cup dying'
                    \/ \E c \in Chats : m \in sessions'[c].text
                    \/ \E u \in Turns : m \in Hand(job'[u])
    BY DEF Kept, NothingLost, InHand, Hand
<1>1. CASE m \notin sent
    <2>1. m \in Hand(job'[t])
        BY <1>1 DEF Keeps
    <2> QED BY <2>1
<1>2. CASE m \in sent
    <2>1. \/ landed[m] > 0
          \/ m \in told \cup dying
          \/ \E c \in Chats : m \in sessions[c].text
          \/ \E u \in Turns : m \in Hand(job[u])
        BY <1>2 DEF ConvInv, Kept, NothingLost, InHand, Hand
    <2>2. CASE landed[m] > 0
        <3>1. m \in Messages /\ landed \in [Messages -> Nat] /\ landed' \in [Messages -> Nat]
              /\ landed[m] <= landed'[m]
            BY <1>2 DEF ConvInv, Typed, Acts, WorldMoves
        <3> QED BY <2>2, <3>1
    <2>3. CASE m \in told \cup dying
        BY <2>3 DEF Keeps
    <2>4. CASE \E c \in Chats : m \in sessions[c].text
        <3>1. Safe(t, m)
            BY <2>4 DEF Keeps
        <3> QED BY <3>1 DEF Safe
    <2>5. ASSUME NEW u \in Turns, m \in Hand(job[u])
          PROVE  Safe(t, m) \/ m \in Hand(job'[u])
        <3>1. CASE u = t
            BY <2>5, <3>1 DEF Keeps
        <3>2. CASE u # t
            <4>1. job'[u] = job[u]
                BY <3>2 DEF Acts, JobMoves
            <4> QED BY <2>5, <4>1
        <3> QED BY <3>1, <3>2
    <2> QED BY <2>1, <2>2, <2>3, <2>4, <2>5 DEF Safe
<1> QED BY <1>1, <1>2

\* A step within a chat: nobody's question but the chat's is moved.
LEMMA KeepsWithin ==
    ASSUME ConvInv, NEW t \in Turns, NEW c \in Chats, told \subseteq told', UNCHANGED <<dying, sent>>,
           UNCHANGED sessions \/ \E q : sessions' = [sessions EXCEPT ![c] = q],
           InboxMode = "auto" => \A m \in Hand(job[t]) \cup sessions[c].text : Safe(t, m)
    PROVE  Keeps(t)
<1>1. \A d \in Chats \ {c} : sessions'[d] = sessions[d]
    BY DEF ConvInv, Typed
<1>2. ASSUME InboxMode = "auto", NEW d \in Chats, NEW m \in sessions[d].text
      PROVE  Safe(t, m)
    <2>1. CASE d = c
        BY <1>2, <2>1
    <2>2. CASE d # c
        <3>1. sessions'[d] = sessions[d]
            BY <1>1, <2>2
        <3>2. m \in sessions'[d].text
            BY <1>2, <3>1
        <3> QED BY <3>2 DEF Safe
    <2> QED BY <2>1, <2>2
<1>3. InboxMode = "auto" => \A m \in Hand(job[t]) : Safe(t, m)
    OBVIOUS
<1> QED BY <1>2, <1>3 DEF Keeps

\* A step that leaves the questions alone and its text in hand.
LEMMA HandsStay ==
    ASSUME ConvInv, NEW t \in Turns, told \subseteq told', UNCHANGED <<sessions, dying>>,
           sent' \subseteq sent \cup Hand(job'[t]),
           InboxMode = "auto" => Hand(job[t]) \subseteq Hand(job'[t])
    PROVE  Keeps(t) /\ Respects(t)
<1>1. \A c \in Chats : \A m \in sessions[c].text : Safe(t, m)
    BY DEF Safe
<1>2. InboxMode = "auto" => \A m \in Hand(job[t]) : Safe(t, m)
    BY DEF Safe
<1>3. Keeps(t)
    BY <1>1, <1>2 DEF Keeps
<1> QED BY <1>3 DEF Respects

\* A turn that is over has reported what it had in hand, or has it in a question still.
LEMMA HandsEmpty ==
    ASSUME ConvInv, NEW t \in Turns, NEW c \in Chats, told \subseteq told',
           UNCHANGED <<sessions, dying, sent>>,
           InboxMode = "auto" => Hand(job[t]) \subseteq told' \cup sessions[c].text
    PROVE  Keeps(t) /\ Respects(t)
<1>1. \A d \in Chats : \A m \in sessions[d].text : Safe(t, m)
    BY DEF Safe
<1>2. InboxMode = "auto" => \A m \in Hand(job[t]) : Safe(t, m)
    <2> SUFFICES ASSUME InboxMode = "auto", NEW m \in Hand(job[t]) PROVE Safe(t, m)
        OBVIOUS
    <2>1. m \in told' \/ m \in sessions[c].text
        OBVIOUS
    <2> QED BY <1>1, <2>1 DEF Safe
<1>3. Keeps(t)
    BY <1>1, <1>2 DEF Keeps
<1> QED BY <1>3 DEF Respects

\* A turn that has, or had, nothing in hand.
LEMMA EmptyHandedKeeps ==
    ASSUME ConvInv, NEW t \in Turns, EmptyHanded(t)
    PROVE  Acts(t) /\ Keeps(t) /\ Respects(t) /\ Counted'
<1>1. /\ Acts(t) /\ job[t].pc # "undone"
      /\ UNCHANGED <<sessions, executions, reverts, told, dying, sent>>
      /\ job[t].text = {} /\ job[t].do # "text"
    BY DEF EmptyHanded, ghosts
<1>2. Hand(job[t]) = {}
    BY <1>1 DEF Hand
<1>3. Keeps(t) /\ Respects(t)
    BY <1>1, <1>2, HandsStay
<1>4. Counted'
    BY <1>1, StillCounted
<1> QED BY <1>1, <1>3, <1>4

\* What a turn has in hand after a step, by the text it is left with.
Own(t) == IF job[t].do = "text" THEN {job[t].arg} ELSE {}

LEMMA HandFacts ==
    ASSUME Typed, NEW t \in Turns
    PROVE  /\ Hand(job[t]) = job[t].text \cup Own(t)
           /\ \A why, text : ToInbox(t, why, text) => Hand(job'[t]) = text \cup Own(t)
           /\ \A pc : Goto(t, pc) => Hand(job'[t]) = Hand(job[t])
<1>1. job \in [Turns -> JobRec]
    BY DEF Typed
<1>2. Hand(job[t]) = job[t].text \cup Own(t)
    BY DEF Hand, Own
<1>3. ASSUME NEW why, NEW text, ToInbox(t, why, text)
      PROVE  Hand(job'[t]) = text \cup Own(t)
    <2>1. job'[t].text = text /\ job'[t].do = job[t].do /\ job'[t].arg = job[t].arg
        BY ZenonT(60), <1>1, <1>3 DEF ToInbox, JobRec
    <2> QED BY <2>1 DEF Hand, Own
<1>4. ASSUME NEW pc, Goto(t, pc)
      PROVE  Hand(job'[t]) = Hand(job[t])
    <2>1. job'[t].text = job[t].text /\ job'[t].do = job[t].do /\ job'[t].arg = job[t].arg
        BY <1>1, <1>4 DEF Goto, JobRec
    <2> QED BY <2>1 DEF Hand
<1> QED BY <1>2, <1>3, <1>4

\* What a step of a turn comes to.
Proper(t) == Acts(t) /\ Keeps(t) /\ Respects(t) /\ Counted'

\* A turn at its first step has its own message in hand, if it was called with one.
LEMMA BegunFacts ==
    ASSUME ConvInv, NEW t \in Turns, NEW c \in Chats, Within(t, c), job[t].pc = "begun"
    PROVE  job[t].text = {} /\ Hand(job[t]) = Own(t) /\ t # Sweeper
<1>1. job[t].text = {}
    BY DEF ConvInv, Jobs, Fits, Held, Empty
<1>2. t # Sweeper
    BY HandlerFacts
<1> QED BY <1>1, <1>2 DEF Hand, Own

LEMMA TextKeeps ==
    ASSUME ConvInv, NEW t \in Turns, NEW c \in Chats, TextStep(t, c)
    PROVE  Proper(t)
<1>1. /\ Acts(t) /\ Typed /\ Within(t, c) /\ Frame
      /\ UNCHANGED <<executions, reverts, dying, sent>> /\ job[t].pc \in {"begun", "read"}
    BY TextActs
       DEF ConvInv, TextStep, TextDiscoveryFails, TextDiscovers, ReadFails, At, Frame, store, ghosts
<1>2. Counted'
    BY <1>1, StillCounted DEF Acts, WritesMove
<1>3. CASE TextDiscoveryFails(t, c)
    <2>1. job[t].pc = "begun" /\ job[t].do = "text" /\ told' = told \cup {job[t].arg} /\ UNCHANGED sessions
        BY <1>3 DEF TextDiscoveryFails, At, Report, store
    <2>2. Hand(job[t]) \subseteq told'
        BY <1>1, <2>1, BegunFacts DEF Own
    <2>3. Keeps(t) /\ Respects(t)
        BY <1>1, <2>1, <2>2, HandsEmpty
    <2> QED BY <1>1, <1>2, <2>3 DEF Proper
<1>4. CASE TextDiscovers(t, c)
    <2>1. job[t].pc = "begun" /\ job[t].do = "text" /\ UNCHANGED told
        BY <1>4 DEF TextDiscovers, At, ghosts
    <2>2. CASE Expired(c, job[t].now) /\ Drop(c) /\ ToInbox(t, "expired", sessions[c].text)
        <3>1. Hand(job'[t]) = sessions[c].text \cup Own(t)
            BY <1>1, <2>2, HandFacts
        <3>2. \A m \in Hand(job[t]) \cup sessions[c].text : Safe(t, m)
            BY <1>1, <2>1, <3>1, BegunFacts DEF Safe
        <3>3. sessions' = [sessions EXCEPT ![c] = None]
            BY <2>2 DEF Drop
        <3>4. Keeps(t)
            BY <1>1, <2>1, <3>2, <3>3, KeepsWithin
        <3>5. sessions[c].expires <= clock
            <4>1. sessions[c].expires <= job[t].now /\ job[t].now <= clock
                BY <1>1, <2>1, <2>2, HandlerFacts DEF Expired
            <4>2. sessions[c].expires \in Nat /\ job[t].now \in Nat /\ clock \in Nat
                BY <1>1, <2>1, HandlerFacts, ClockIsNatural DEF Typed, Question
            <4> QED BY <4>1, <4>2
        <3>6. Respects(t)
            BY <1>1, <3>3, <3>5 DEF Respects, Typed
        <3> QED BY <1>1, <1>2, <3>4, <3>6 DEF Proper
    <2>3. CASE /\ UNCHANGED sessions
               /\ job' = [job EXCEPT ![t].pc = "read", ![t].session = sessions[c],
                                     ![t].text = {job[t].arg} \cup sessions[c].text]
        <3>1. job \in [Turns -> JobRec]
            BY <1>1 DEF Typed
        <3>2. job'[t].text = {job[t].arg} \cup sessions[c].text
            BY <2>3, <3>1 DEF JobRec
        <3>3. Hand(job[t]) \subseteq Hand(job'[t])
            BY <1>1, <2>1, <3>2, BegunFacts DEF Own, Hand
        <3>4. Keeps(t) /\ Respects(t)
            BY <1>1, <2>1, <2>3, <3>3, HandsStay
        <3> QED BY <1>1, <1>2, <3>4 DEF Proper
    <2> QED BY <1>4, <2>2, <2>3 DEF TextDiscovers
<1>5. CASE ReadFails(t, c)
    <2>1. ToInbox(t, "fallback", job[t].text) /\ UNCHANGED <<sessions, told>>
        BY <1>5 DEF ReadFails, store, ghosts
    <2>2. Hand(job'[t]) = Hand(job[t])
        BY <1>1, <2>1, HandFacts
    <2>3. Keeps(t) /\ Respects(t)
        BY <1>1, <2>1, <2>2, HandsStay
    <2> QED BY <1>1, <1>2, <2>3 DEF Proper
<1> QED BY <1>3, <1>4, <1>5 DEF TextStep

\* A turn that understood a text has its own message in it.
LEMMA TalkingHands ==
    ASSUME ConvInv, NEW t \in Turns, NEW c \in Chats, Within(t, c), job[t].pc \in Talking
    PROVE  /\ Hand(job[t]) = job[t].text /\ Own(t) \subseteq job[t].text
           /\ sessions[c].text \subseteq job[t].text
           /\ t # Sweeper /\ (job[t].do = "answer" => sessions[c].token = job[t].arg)
<1>1. Own(t) \subseteq job[t].text
    BY TalkingFacts DEF Own
<1>2. Hand(job[t]) = job[t].text
    BY <1>1 DEF Hand, Own
<1>3. /\ sessions[c].text \subseteq job[t].text
      /\ job[t].do = "answer" => sessions[c].token = job[t].arg
    BY TalkingFacts
<1>4. t # Sweeper
    BY HandlerFacts
<1> QED BY <1>1, <1>2, <1>3, <1>4

LEMMA DispatchKeeps ==
    ASSUME ConvInv, NEW t \in Turns, NEW c \in Chats, DispatchStep(t, c)
    PROVE  Proper(t)
<1>1. /\ Acts(t) /\ Typed /\ Within(t, c) /\ Frame
      /\ UNCHANGED <<executions, reverts, told, dying, sent>> /\ job[t].pc \in Talking
    BY DispatchActs
       DEF ConvInv, DispatchStep, DispatchExecute, DispatchAsk, DispatchReject, DispatchResearch,
           ResearchFails, Understood, At, Frame, store, ghosts, Talking
<1>2. Counted'
    BY <1>1, StillCounted DEF Acts, WritesMove, Talking
<1>3. /\ Hand(job[t]) = job[t].text /\ Own(t) \subseteq job[t].text
      /\ sessions[c].text \subseteq job[t].text
      /\ t # Sweeper /\ (job[t].do = "answer" => sessions[c].token = job[t].arg)
    BY <1>1, TalkingHands
<1>4. job \in [Turns -> JobRec] /\ DOMAIN sessions = Chats
    BY <1>1 DEF Typed
<1>5. ASSUME NEW q, sessions' = [sessions EXCEPT ![c] = q]
      PROVE  Respects(t)
    <2>1. \A d \in Chats \ {c} : sessions'[d] = sessions[d]
        BY <1>4, <1>5
    <2> QED BY <1>3, <2>1 DEF Respects
<1>6. CASE DispatchExecute(t, c)
    <2>1. /\ sessions' = [sessions EXCEPT ![c] = None]
          /\ job' = [job EXCEPT ![t].pc = "write", ![t].why = "execute"]
        BY <1>6 DEF DispatchExecute, Drop
    <2>2. job'[t].text = job[t].text
        BY <1>4, <2>1 DEF JobRec
    <2>3. \A m \in Hand(job[t]) \cup sessions[c].text : Safe(t, m)
        BY <1>3, <2>2 DEF Safe, Hand
    <2>4. Keeps(t)
        BY <1>1, <2>1, <2>3, KeepsWithin
    <2> QED BY <1>1, <1>2, <1>5, <2>1, <2>4 DEF Proper
<1>7. CASE DispatchAsk(t, c)
    <2> DEFINE q == [token |-> job[t].row, text |-> job[t].text, asked |-> Asked(t),
                     expires |-> job[t].now + SESSION_TTL]
    <2>1. sessions' = [sessions EXCEPT ![c] = q] /\ q.text = job[t].text
        BY <1>7 DEF DispatchAsk
    <2> HIDE DEF q
    <2>2. sessions'[c].text = job[t].text
        BY <1>4, <2>1
    <2>3. \A m \in Hand(job[t]) \cup sessions[c].text : Safe(t, m)
        BY <1>3, <2>2 DEF Safe
    <2>4. Keeps(t)
        BY <1>1, <2>1, <2>3, KeepsWithin
    <2> QED BY <1>1, <1>2, <1>5, <2>1, <2>4 DEF Proper
<1>8. CASE DispatchReject(t, c)
    <2>1. sessions' = [sessions EXCEPT ![c] = None] /\ ToInbox(t, "fallback", job[t].text)
        BY <1>8 DEF DispatchReject, Drop
    <2>2. Hand(job'[t]) = job[t].text \cup Own(t)
        BY <1>1, <2>1, HandFacts
    <2>3. \A m \in Hand(job[t]) \cup sessions[c].text : Safe(t, m)
        BY <1>3, <2>2 DEF Safe
    <2>4. Keeps(t)
        BY <1>1, <2>1, <2>3, KeepsWithin
    <2> QED BY <1>1, <1>2, <1>5, <2>1, <2>4 DEF Proper
<1>9. CASE DispatchResearch(t, c)
    <2>1. Goto(t, "researched") /\ UNCHANGED sessions
        BY <1>9 DEF DispatchResearch, store
    <2>2. Hand(job'[t]) = Hand(job[t])
        BY <1>1, <2>1, HandFacts
    <2>3. Keeps(t) /\ Respects(t)
        BY <1>1, <2>1, <2>2, HandsStay
    <2> QED BY <1>1, <1>2, <2>3 DEF Proper
<1>10. CASE ResearchFails(t, c)
    <2>1. ToInbox(t, "fallback", job[t].text) /\ UNCHANGED sessions
        BY <1>10 DEF ResearchFails, store
    <2>2. Hand(job'[t]) = Hand(job[t])
        BY <1>1, <2>1, HandFacts
    <2>3. Keeps(t) /\ Respects(t)
        BY <1>1, <2>1, <2>2, HandsStay
    <2> QED BY <1>1, <1>2, <2>3 DEF Proper
<1> QED BY <1>6, <1>7, <1>8, <1>9, <1>10 DEF DispatchStep

LEMMA CallbackKeeps ==
    ASSUME ConvInv, NEW t \in Turns, NEW c \in Chats, CallbackStep(t, c)
    PROVE  Proper(t)
<1>1. /\ Acts(t) /\ Typed /\ Within(t, c) /\ Frame
      /\ UNCHANGED <<executions, reverts, dying, sent>> /\ job[t].pc \in {"begun", "resume"}
    BY CallbackActs
       DEF ConvInv, CallbackStep, AnswerStale, AnswerCancel, AnswerFreeText, AnswerTaken, Answers,
           ResumeDiscoveryFails, CancelCommand, OfferTaken, Quiet, At, Frame
<1>2. Counted'
    BY <1>1, StillCounted DEF Acts, WritesMove
<1>3. job \in [Turns -> JobRec] /\ DOMAIN sessions = Chats
    BY <1>1 DEF Typed
<1>4. t # Sweeper /\ job[t].now \in Nat /\ job[t].now <= clock
    BY <1>1, HandlerFacts DEF Talking
<1>5. job[t].pc = "begun" => Hand(job[t]) = Own(t)
    BY <1>1, BegunFacts
<1>6. ASSUME job[t].pc = "begun", job[t].do # "text", UNCHANGED <<sessions, told>>
      PROVE  Proper(t)
    <2>1. Hand(job[t]) = {}
        BY <1>5, <1>6 DEF Own
    <2>2. Keeps(t) /\ Respects(t)
        BY <1>1, <1>6, <2>1, HandsStay
    <2> QED BY <1>1, <1>2, <2>2 DEF Proper
<1>7. ASSUME job[t].pc = "begun", job[t].do # "text", Drop(c), Report(sessions[c].text)
      PROVE  Keeps(t) /\ \A d \in Chats \ {c} : sessions'[d] = sessions[d]
    <2>1. Hand(job[t]) = {}
        BY <1>5, <1>7 DEF Own
    <2>2. sessions' = [sessions EXCEPT ![c] = None] /\ told' = told \cup sessions[c].text
        BY <1>7 DEF Drop, Report
    <2>3. \A m \in Hand(job[t]) \cup sessions[c].text : Safe(t, m)
        BY <2>1, <2>2 DEF Safe
    <2>4. Keeps(t)
        BY <1>1, <2>2, <2>3, KeepsWithin
    <2> QED BY <1>3, <2>2, <2>4
<1>8. CASE AnswerStale(t, c)
    <2>1. job[t].pc = "begun" /\ job[t].do = "answer"
        BY <1>8 DEF AnswerStale, At
    <2>2. CASE UNCHANGED <<sessions, told>>
        BY <1>6, <2>1, <2>2
    <2>3. CASE ~ Live(c, job[t].now) /\ Drop(c) /\ Report(sessions[c].text)
        <3>1. Keeps(t) /\ \A d \in Chats \ {c} : sessions'[d] = sessions[d]
            BY <1>7, <2>1, <2>3
        <3>2. sessions'[c] = None
            BY <1>3, <2>3 DEF Drop
        <3>3. sessions[c] # None => sessions[c].expires <= clock
            <4>1. sessions[c].expires \in Nat /\ clock \in Nat
                BY <1>1, ClockIsNatural DEF Typed, Question
            <4> QED BY <1>4, <2>3, <4>1 DEF Live
        <3>4. Respects(t)
            BY <3>1, <3>2, <3>3 DEF Respects
        <3> QED BY <1>1, <1>2, <3>1, <3>4 DEF Proper
    <2> QED BY <1>8, <2>2, <2>3 DEF AnswerStale
<1>9. CASE AnswerCancel(t, c)
    <2>1. /\ job[t].pc = "begun" /\ job[t].do = "answer" /\ sessions[c].token = job[t].arg
          /\ Drop(c) /\ Report(sessions[c].text)
        BY <1>9 DEF AnswerCancel, Answers, At
    <2>2. Keeps(t) /\ \A d \in Chats \ {c} : sessions'[d] = sessions[d]
        BY <1>7, <2>1
    <2>3. Respects(t)
        BY <1>4, <2>1, <2>2 DEF Respects
    <2> QED BY <1>1, <1>2, <2>2, <2>3 DEF Proper
<1>10. CASE AnswerFreeText(t, c)
    BY <1>6, <1>10 DEF AnswerFreeText, Answers, At
<1>11. CASE AnswerTaken(t, c)
    BY <1>6, <1>11 DEF AnswerTaken, Answers, At
<1>12. CASE ResumeDiscoveryFails(t, c)
    <2>1. job[t].pc = "resume" /\ UNCHANGED <<sessions, told>>
        BY <1>12 DEF ResumeDiscoveryFails, At
    <2>2. job[t].text = job[t].session.text
        BY <2>1 DEF ConvInv, Jobs, Fits, Held
    <2>3. Hand(job[t]) = job[t].text /\ sessions[c] = job[t].session
        BY <1>1, <2>1, TalkingHands, TalkingFacts DEF Talking
    <2>4. Keeps(t) /\ Respects(t)
        BY <1>1, <2>1, <2>2, <2>3, HandsEmpty
    <2> QED BY <1>1, <1>2, <2>4 DEF Proper
<1>13. CASE CancelCommand(t, c)
    <2>1. /\ job[t].pc = "begun" /\ job[t].do = "cancel" /\ Drop(c) /\ Report(sessions[c].text)
        BY <1>13 DEF CancelCommand, At
    <2>2. Keeps(t)
        BY <1>7, <2>1
    <2>3. Respects(t)
        BY <1>4, <2>1 DEF Respects
    <2> QED BY <1>1, <1>2, <2>2, <2>3 DEF Proper
<1>14. CASE OfferTaken(t, c)
    BY <1>6, <1>14 DEF OfferTaken, At
<1> QED BY <1>8, <1>9, <1>10, <1>11, <1>12, <1>13, <1>14 DEF CallbackStep

\* A turn about to write holds its own message, unless that one waits for an older text.
LEMMA SavingHands ==
    ASSUME ConvInv, NEW t \in Turns, NEW c \in Chats, Within(t, c), job[t].pc \in Saving
    PROVE  /\ job[t].why # "expired" => Hand(job[t]) = job[t].text
           /\ job[t].why = "expired" => Hand(job[t]) = job[t].text \cup {job[t].arg}
           /\ job[t].why = "button" => /\ job[t].text = sessions[c].text
                                       /\ t # Sweeper
                                       /\ job[t].do = "answer" /\ sessions[c].token = job[t].arg
           /\ InboxMode = "auto" /\ job[t].pc = "inbox" /\ job[t].why \in {"sweep", "expired"} => known
<1>1. /\ job[t].why \in {"execute", "fallback", "button", "offer", "expired", "sweep"}
      /\ job[t].why \in {"execute", "fallback"} =>
            job[t].do \in {"text", "answer"} /\ (job[t].do = "text" => job[t].arg \in job[t].text)
      /\ job[t].why = "button" =>
            sessions[c] = job[t].session /\ job[t].text = job[t].session.text /\ job[t].do = "answer"
      /\ job[t].why = "expired" => job[t].do = "text"
      /\ job[t].why = "offer" => job[t].do = "offer"
      /\ job[t].why = "sweep" => job[t].do # "text"
    BY SavingFacts
<1>2. Fits(t, job[t], DOMAIN events, DOMAIN executions, clock)
    BY DEF ConvInv, Jobs
<1>3. ASSUME job[t].why # "expired"
      PROVE  Hand(job[t]) = job[t].text
    <2>1. Own(t) \subseteq job[t].text
        BY <1>1, <1>3 DEF Own
    <2> QED BY <2>1 DEF Hand, Own
<1>4. job[t].why = "expired" => Hand(job[t]) = job[t].text \cup {job[t].arg}
    BY <1>1 DEF Hand
<1>5. job[t].why = "button" => t # Sweeper /\ job[t].session.token = job[t].arg
    BY <1>2 DEF Fits, Cast, Held
<1>6. job[t].pc = "inbox" /\ job[t].why \in {"sweep", "expired"} => known
    <2>1. job[t].why = "sweep" => t = Sweeper
        BY <1>2 DEF Fits, Cast
    <2> QED BY <2>1 DEF ConvInv, Landed
<1> QED BY <1>1, <1>3, <1>4, <1>5, <1>6

\* What could not be saved is reported, or still in its question, or read again.
LEMMA UnsavedKeeps ==
    ASSUME ConvInv, NEW t \in Turns, NEW c \in Chats, Within(t, c),
           job[t].pc \in {"inbox", "written"}, job[t].why # "execute",
           NEW reported \in BOOLEAN, Unsaved(t, c, reported),
           UNCHANGED <<sessions, dying, sent>>,
           InboxMode = "auto" => reported \/ job[t].why \notin {"sweep", "expired"}
    PROVE  Keeps(t) /\ Respects(t)
<1>1. job[t].pc \in Saving /\ job \in [Turns -> JobRec]
    BY DEF Saving, ConvInv, Typed
<1>2. job[t].why \in {"fallback", "button", "offer", "expired", "sweep"}
    BY <1>1, SavingFacts
<1>3. told \subseteq told'
    BY <1>2 DEF Unsaved, Report
<1>4. CASE job[t].why # "expired"
    <2>1. Hand(job[t]) = job[t].text
        BY <1>1, <1>4, SavingHands
    <2>2. CASE job[t].why \in {"fallback", "offer"}
        <3>1. told' = told \cup job[t].text
            BY <2>2 DEF Unsaved, Report
        <3> QED BY <1>3, <2>1, <3>1, HandsEmpty
    <2>3. CASE job[t].why = "button"
        <3>1. job[t].text = sessions[c].text
            BY <1>1, <2>3, SavingHands
        <3> QED BY <1>3, <2>1, <3>1, HandsEmpty
    <2>4. CASE job[t].why = "sweep"
        <3>1. InboxMode = "auto" => told' = told \cup job[t].text
            BY <2>4 DEF Unsaved, Report
        <3>2. InboxMode = "auto" => Hand(job[t]) \subseteq told' \cup sessions[c].text
            BY <2>1, <3>1
        <3> QED BY <1>3, <3>2, HandsEmpty
    <2> QED BY <1>2, <1>4, <2>2, <2>3, <2>4
<1>5. CASE job[t].why = "expired"
    <2>1. GoOn(t) /\ (InboxMode = "auto" => told' = told \cup job[t].text)
        BY <1>5 DEF Unsaved, Report
    <2>2. job'[t].text = {job[t].arg}
        BY <1>1, <2>1 DEF GoOn, JobRec
    <2>3. Hand(job[t]) = job[t].text \cup {job[t].arg}
        BY <1>1, <1>5, SavingHands
    <2>4. ASSUME InboxMode = "auto"
          PROVE  \A m \in Hand(job[t]) \cup sessions[c].text : Safe(t, m)
        BY <2>1, <2>2, <2>3, <2>4 DEF Safe, Hand
    <2>5. Keeps(t)
        BY <1>3, <2>4, KeepsWithin
    <2> QED BY <2>5 DEF Respects
<1> QED BY <1>4, <1>5

LEMMA WriteKeeps ==
    ASSUME ConvInv, NEW t \in Turns, NEW c \in Chats, WriteStep(t, c)
    PROVE  Proper(t)
<1>1. /\ Acts(t) /\ Typed /\ Within(t, c) /\ Frame
      /\ UNCHANGED <<dying, sent>> /\ job[t].pc \in Saving
    BY WriteActs
       DEF ConvInv, WriteStep, NoInbox, InboxFound, Send, NothingToWrite, WriteSucceeds, WriteFails,
           At, Frame, store, ghosts, Saving
<1>2. job \in [Turns -> JobRec] /\ DOMAIN sessions = Chats /\ job[t].pc # "undone"
    BY <1>1 DEF Typed, Saving
<1>3. UNCHANGED <<executions, reverts>> => Counted'
    BY <1>1, <1>2, StillCounted DEF Acts, WritesMove
<1>4. CASE NoInbox(t, c)
    <2>1. /\ job[t].pc = "inbox" /\ (~ Allowed(job[t].why) \/ ~ known) /\ Unsaved(t, c, FALSE)
          /\ UNCHANGED <<executions, reverts, sessions>>
        BY <1>4 DEF NoInbox, At, store
    <2>2. job[t].why # "execute"
        BY <1>1, <2>1, SavingFacts
    <2>3. InboxMode = "auto" => job[t].why \notin {"sweep", "expired"}
        BY <1>1, <2>1, SavingHands DEF Allowed
    <2>4. Keeps(t) /\ Respects(t)
        BY <1>1, <2>1, <2>2, <2>3, UnsavedKeeps
    <2> QED BY <1>1, <1>3, <2>1, <2>4 DEF Proper
<1>5. CASE InboxFound(t, c)
    <2>1. Goto(t, "write") /\ UNCHANGED <<executions, reverts, sessions, told>>
        BY <1>5 DEF InboxFound, store, ghosts
    <2>2. Hand(job'[t]) = Hand(job[t])
        BY <1>1, <2>1, HandFacts
    <2>3. Keeps(t) /\ Respects(t)
        BY <1>1, <2>1, <2>2, HandsStay
    <2> QED BY <1>1, <1>3, <2>1, <2>3 DEF Proper
<1>6. CASE Send(t, c)
    <2>1. PICK applied \in BOOLEAN : job' = [job EXCEPT ![t].pc = "written", ![t].applied = applied]
        BY <1>6 DEF Send
    <2>2. UNCHANGED <<executions, reverts, sessions, told>>
        BY <1>6 DEF Send, store
    <2>3. job'[t].text = job[t].text /\ job'[t].do = job[t].do /\ job'[t].arg = job[t].arg
        BY ZenonT(60), <1>2, <2>1 DEF JobRec
    <2>4. Hand(job'[t]) = Hand(job[t])
        BY <2>3 DEF Hand
    <2>5. Keeps(t) /\ Respects(t)
        BY <1>1, <2>2, <2>4, HandsStay
    <2> QED BY <1>1, <1>3, <2>2, <2>5 DEF Proper
<1>7. CASE NothingToWrite(t, c)
    <2>1. /\ job[t].why = "execute" /\ told' = told \cup job[t].text
          /\ UNCHANGED <<executions, reverts, sessions>>
        BY <1>7 DEF NothingToWrite, Report, store
    <2>2. Hand(job[t]) = job[t].text
        BY <1>1, <2>1, SavingHands
    <2>3. Keeps(t) /\ Respects(t)
        BY <1>1, <2>1, <2>2, HandsEmpty
    <2> QED BY <1>1, <1>3, <2>1, <2>3 DEF Proper
<1>8. CASE WriteSucceeds(t, c)
    <2>1. /\ job[t].pc = "written" /\ job[t].applied /\ UNCHANGED told
          /\ reverts' = Append(reverts, 0)
          /\ IF job[t].why = "button" THEN Drop(c) ELSE UNCHANGED sessions
          /\ IF job[t].why = "expired" THEN GoOn(t) ELSE Done(t)
          /\ executions' = Append(executions,
                [chat |-> c, undone |-> FALSE, expires |-> clock + UNDO_WINDOW])
          /\ events' = IF job[t].why = "offer" THEN [events EXCEPT ![job[t].arg].executed = TRUE]
                       ELSE events
        BY <1>8 DEF WriteSucceeds, At
    <2>2. Counted'
        <3>1. /\ DOMAIN executions' = DOMAIN executions \cup {Len(executions) + 1}
              /\ \A x \in DOMAIN executions : reverts'[x] = reverts[x]
              /\ reverts'[Len(executions) + 1] = 0
            BY <1>1, <2>1, WriteIsRecorded
        <3> QED BY <1>1, <1>2, <3>1, StillCounted
    <2>3. \A m \in job[t].text : Safe(t, m)
        <3>1. ASSUME NEW m \in job[t].text
              PROVE  landed'[m] > 0
            <4>1. landed[m] > 0
                BY <2>1 DEF ConvInv, Landed
            <4>2. UNCHANGED landed
                BY <1>8 DEF WriteSucceeds
            <4> QED BY <4>1, <4>2
        <3> QED BY <3>1 DEF Safe
    <2>4. \A m \in Hand(job[t]) \cup sessions[c].text : Safe(t, m)
        <3>1. \A m \in Hand(job[t]) : Safe(t, m)
            <4>1. CASE job[t].why = "expired"
                <5>1. job'[t].text = {job[t].arg}
                    <6>1. GoOn(t)
                        BY <2>1, <4>1
                    <6> QED BY <1>2, <6>1 DEF GoOn, JobRec
                <5>2. Hand(job[t]) = job[t].text \cup {job[t].arg}
                    BY <1>1, <4>1, SavingHands
                <5> QED BY <2>3, <5>1, <5>2 DEF Safe, Hand
            <4>2. CASE job[t].why # "expired"
                BY <1>1, <2>3, <4>2, SavingHands
            <4> QED BY <4>1, <4>2
        <3>2. \A m \in sessions[c].text : Safe(t, m)
            <4>1. CASE job[t].why = "button"
                BY <1>1, <2>3, <4>1, SavingHands
            <4>2. CASE UNCHANGED sessions
                BY <4>2 DEF Safe
            <4> QED BY <2>1, <4>1, <4>2
        <3> QED BY <3>1, <3>2
    <2>5. Keeps(t)
        BY <1>1, <2>1, <2>4, KeepsWithin DEF Drop
    <2>6. Respects(t)
        <3>1. CASE job[t].why = "button"
            <4>1. t # Sweeper /\ sessions[c].token = job[t].arg
                BY <1>1, <3>1, SavingHands
            <4>2. \A d \in Chats \ {c} : sessions'[d] = sessions[d]
                BY <1>2, <2>1, <3>1 DEF Drop
            <4> QED BY <4>1, <4>2 DEF Respects
        <3>2. CASE UNCHANGED sessions
            BY <3>2 DEF Respects
        <3> QED BY <2>1, <3>1, <3>2
    <2> QED BY <1>1, <2>2, <2>5, <2>6 DEF Proper
<1>9. CASE WriteFails(t, c)
    <2>1. job[t].pc = "written" /\ UNCHANGED <<executions, reverts, sessions>>
        BY <1>9 DEF WriteFails, At, store
    <2>2. CASE ToInbox(t, "fallback", job[t].text) /\ UNCHANGED told /\ job[t].why = "execute"
        <3>1. Hand(job'[t]) = Hand(job[t])
            BY <1>1, <2>2, HandFacts
        <3>2. Keeps(t) /\ Respects(t)
            BY <1>1, <2>1, <2>2, <3>1, HandsStay
        <3> QED BY <1>1, <1>3, <2>1, <3>2 DEF Proper
    <2>3. CASE job[t].why # "execute" /\ Unsaved(t, c, TRUE)
        <3>1. Keeps(t) /\ Respects(t)
            BY <1>1, <2>1, <2>3, UnsavedKeeps
        <3> QED BY <1>1, <1>3, <2>1, <3>1 DEF Proper
    <2> QED BY <1>9, <2>2, <2>3 DEF WriteFails
<1> QED BY <1>4, <1>5, <1>6, <1>7, <1>8, <1>9 DEF WriteStep

LEMMA UndoKeeps ==
    ASSUME ConvInv, NEW t \in Turns, NEW c \in Chats, UndoStep(t, c)
    PROVE  Proper(t)
<1>1. /\ Acts(t) /\ Typed /\ Within(t, c) /\ Frame
      /\ UNCHANGED <<told, dying, sent, sessions>> /\ job[t].pc \in {"begun", "undo", "undone"}
    BY UndoActs
       DEF ConvInv, UndoStep, UndoBegins, SendUndo, UndoAnswered, Quiet, At, Frame, store, ghosts
<1>2. Hand(job[t]) = {}
    <2>1. Fits(t, job[t], DOMAIN events, DOMAIN executions, clock)
        BY DEF ConvInv, Jobs
    <2>2. job[t].text = {}
        BY <1>1, <2>1 DEF Fits, Held, Empty
    <2>3. job[t].do \in {"undo", "undo_latest"}
        BY <1>1, <2>1 DEF Fits, Meant, UndoStep, UndoBegins, SendUndo, UndoAnswered, At
    <2> QED BY <2>2, <2>3 DEF Hand
<1>3. Keeps(t) /\ Respects(t)
    BY <1>1, <1>2, HandsStay
<1>4. CASE UndoBegins(t, c)
    <2>1. job[t].pc = "begun" /\ UNCHANGED <<executions, reverts>>
        BY <1>4 DEF UndoBegins, At, Quiet
    <2>2. Counted'
        BY <1>1, <2>1, StillCounted DEF Acts, WritesMove
    <2> QED BY <1>1, <1>3, <2>2 DEF Proper
<1>5. CASE SendUndo(t, c)
    BY <1>1, <1>3, <1>5, SentIsCounted DEF Proper
<1>6. CASE UndoAnswered(t, c)
    BY <1>1, <1>3, <1>6, AnswerIsCounted DEF Proper
<1> QED BY <1>4, <1>5, <1>6 DEF UndoStep

LEMMA ArrivalKeeps ==
    ASSUME ConvInv, NEW t \in Handlers, NEW c \in Chats,
           Press(t, c) \/ \E m \in Messages : Say(t, c, m)
    PROVE  Proper(t)
<1>1. t \in Turns /\ Hand(Idle) = {} /\ Idle.pc # "undone"
    BY DEF Handlers, Hand, Idle
<1>2. CASE Press(t, c)
    <2>1. /\ Acts(t) /\ job[t] = Idle
          /\ UNCHANGED <<sessions, executions, reverts, told, dying, sent>>
        BY <1>2, PressActs DEF Pressed, ghosts
    <2>2. Keeps(t) /\ Respects(t)
        BY <1>1, <2>1, HandsStay
    <2>3. Counted'
        BY <1>1, <2>1, StillCounted
    <2> QED BY <2>1, <2>2, <2>3 DEF Proper
<1>3. ASSUME NEW m \in Messages, Say(t, c, m)
      PROVE  Proper(t)
    <2>1. /\ Acts(t) /\ job[t] = Idle
          /\ UNCHANGED <<sessions, executions, reverts, told, dying>>
          /\ sent' = sent \cup {m} /\ job'[t].do = "text" /\ job'[t].arg = m
        BY <1>3, SayActs DEF Arrived, ghosts
    <2>2. m \in Hand(job'[t])
        BY <2>1 DEF Hand
    <2>3. Keeps(t) /\ Respects(t)
        BY <1>1, <2>1, <2>2, HandsStay
    <2>4. Counted'
        BY <1>1, <2>1, StillCounted
    <2> QED BY <2>1, <2>3, <2>4 DEF Proper
<1> QED BY <1>2, <1>3

LEMMA AdmitKeeps ==
    ASSUME ConvInv, NEW t \in Turns, NEW c \in Chats, Admit(t, c)
    PROVE  Proper(t)
<1>1. /\ Acts(t) /\ job[t].pc = "queued"
      /\ UNCHANGED <<sessions, executions, reverts, told, dying, sent>>
      /\ job'[t].do = job[t].do /\ job'[t].arg = job[t].arg
    BY AdmitActs DEF ghosts
<1>2. job[t].text = {}
    BY <1>1 DEF ConvInv, Jobs, Fits, Held, Outside
<1>3. Hand(job[t]) \subseteq Hand(job'[t])
    BY <1>1, <1>2 DEF Hand
<1>4. Keeps(t) /\ Respects(t)
    BY <1>1, <1>3, HandsStay
<1>5. Counted'
    BY <1>1, StillCounted
<1> QED BY <1>1, <1>4, <1>5 DEF Proper

LEMMA SweepPopsKeeps ==
    ASSUME ConvInv, NEW c \in Chats, SweepPops(c)
    PROVE  Proper(Sweeper)
<1>1. /\ Acts(Sweeper) /\ sessions' = [sessions EXCEPT ![c] = None]
      /\ sessions[c].expires <= clock /\ job'[Sweeper].text = sessions[c].text
      /\ job[Sweeper].pc = "pop" /\ job[Sweeper].text = {} /\ job[Sweeper].do = ""
      /\ UNCHANGED <<executions, reverts, told, dying, sent>> /\ Sweeper \in Turns
    BY SweepPopsActs, SweeperIsATurn DEF ghosts
<1>2. \A m \in Hand(job[Sweeper]) \cup sessions[c].text : Safe(Sweeper, m)
    BY <1>1 DEF Safe, Hand
<1>3. Keeps(Sweeper)
    BY <1>1, <1>2, KeepsWithin
<1>4. Respects(Sweeper)
    <2>1. \A d \in Chats \ {c} : sessions'[d] = sessions[d]
        BY <1>1 DEF ConvInv, Typed
    <2> QED BY <1>1, <2>1 DEF Respects
<1>5. Counted'
    BY <1>1, StillCounted
<1> QED BY <1>1, <1>3, <1>4, <1>5 DEF Proper

\* Every step but the clock's and the process's death is one turn's, and proper.
LEMMA StepsAreProper ==
    ASSUME ConvInv, Next, ~ Tick, ~ Crash
    PROVE  \E t \in Turns : Proper(t)
<1>1. CASE \E t \in Turns, c \in Chats : TurnStep(t, c)
    <2>1. PICK t \in Turns, c \in Chats : TurnStep(t, c)
        BY <1>1
    <2>2. CASE Finish(t, c)
        BY <2>2, FinishActs, EmptyHandedKeeps DEF Proper
    <2>3. CASE Admit(t, c)
        BY <2>3, AdmitKeeps
    <2>4. CASE \/ TextStep(t, c) \/ DispatchStep(t, c) \/ CallbackStep(t, c)
               \/ WriteStep(t, c) \/ UndoStep(t, c)
        BY <2>4, TextKeeps, DispatchKeeps, CallbackKeeps, WriteKeeps, UndoKeeps
    <2> QED BY <2>1, <2>2, <2>3, <2>4 DEF TurnStep
<1>2. CASE SweepStep
    <2>1. CASE \E c \in Chats : SweepPops(c)
        BY <2>1, SweepPopsKeeps, SweeperIsATurn
    <2>2. CASE ~ \E c \in Chats : SweepPops(c)
        <3>1. PICK c : \/ SweepBegins \/ SweepDiscoveryFails \/ SweepScans
                       \/ c \in Chats /\ (SweepVisits(c) \/ SweepEnters(c) \/ SweepSkips(c))
            BY <1>2, <2>2 DEF SweepStep
        <3>2. EmptyHanded(Sweeper)
            BY <3>1, SweeperActs
        <3> QED BY <3>2, EmptyHandedKeeps, SweeperIsATurn DEF Proper
    <2> QED BY <2>1, <2>2
<1>3. CASE UserStep
    <2>1. PICK t \in Handlers, c \in Chats : Press(t, c) \/ \E m \in Messages : Say(t, c, m)
        BY <1>3 DEF UserStep
    <2> QED BY <2>1, ArrivalKeeps DEF Handlers
<1> QED BY <1>1, <1>2, <1>3 DEF Next

----------------------------------------------------------------------------
(* The invariant, and the theorems. *)

LEMMA InitHolds ==
    ASSUME Init
    PROVE  ConvInv
<1>1. /\ owner = [c \in Chats |-> Nobody] /\ line = [c \in Chats |-> <<>>]
      /\ sessions = [c \in Chats |-> None] /\ events = <<>> /\ executions = <<>>
      /\ job = [t \in Turns |-> Idle] /\ sweep = [now |-> 0, todo |-> {}] /\ known = FALSE
      /\ clock = 0 /\ shown = [c \in Chats |-> {}] /\ sent = {}
      /\ landed = [m \in Messages |-> 0] /\ reverts = <<>> /\ crashes = 0 /\ lost = 0
    BY DEF Init, QueueInit
<1>2. Idle \in JobRec /\ \A t : Fits(t, Idle, DOMAIN events, DOMAIN executions, clock)
    <2>1. clock \in Nat
        BY <1>1
    <2> QED BY <2>1, IdleFits
<1>3. Idle.pc = "idle" /\ Idle.chat = NoChat /\ Idle.why = ""
    BY DEF Idle
<1>4. Typed
    <2>1. 0 \in Times
        BY MaxTimeIsNatural DEF Times
    <2>2. /\ owner \in [Chats -> Turns \cup {Nobody}] /\ line \in [Chats -> Seq(Turns)]
          /\ events \in Seq(EventRec) /\ executions \in Seq(ExecutionRec) /\ reverts \in Seq(Nat)
          /\ DOMAIN reverts = DOMAIN executions
        BY <1>1, EmptySeq
    <2>3. sessions \in [Chats -> Question] /\ job \in [Turns -> JobRec]
        BY <1>1, <1>2, NoneIsQuestion
    <2>4. sweep \in [now : Times, todo : SUBSET Chats] /\ sweep.now <= clock /\ clock \in Times
        BY <1>1, <2>1
    <2>5. /\ DOMAIN shown = Chats /\ \A c \in Chats : shown[c] = {}
          /\ sent \subseteq Messages /\ landed \in [Messages -> Nat]
          /\ crashes \in Nat /\ lost \in Nat /\ known \in BOOLEAN
        BY <1>1
    <2> QED BY <2>2, <2>3, <2>4, <2>5 DEF Typed
<1>5. Owned /\ Reads /\ Undoing
    BY <1>1, <1>3, NoChatIsNoChat DEF Owned, Reads, Undoing, Talking
<1>6. Jobs
    BY <1>1, <1>2 DEF Jobs
<1>7. Counted /\ Landed
    <2>1. DOMAIN executions = {}
        BY <1>1
    <2>2. Counted
        BY <2>1 DEF Counted
    <2>3. Landed
        BY <1>1, <1>3 DEF Landed
    <2> QED BY <2>2, <2>3
<1>8. Kept
    BY <1>1 DEF Kept, NothingLost
<1> QED BY <1>4, <1>5, <1>6, <1>7, <1>8 DEF ConvInv

\* The clock moves on: nothing is told by it but how old a reading is.
LEMMA TickKeeps ==
    ASSUME ConvInv, Tick
    PROVE  ConvInv'
<1>1. /\ clock < MaxTime /\ clock' = clock + 1
      /\ UNCHANGED <<owner, line, sessions, events, executions, job, sweep, known, shown, sent,
                     landed, reverts, told, doubled, dying, lost, crashes>>
    BY DEF Tick, queueVars, store, user, ghosts
<1>2. clock \in Nat /\ clock' \in Nat /\ clock <= clock' /\ clock' \in Times
    BY <1>1, MaxTimeIsNatural DEF ConvInv, Typed, Times
<1>3. Typed'
    <2>1. sweep \in [now : Times, todo : SUBSET Chats] /\ sweep.now <= clock /\ sweep.now \in Nat
        BY MaxTimeIsNatural DEF ConvInv, Typed, Times
    <2>2. sweep.now <= clock'
        BY <1>2, <2>1
    <2>3. \A c \in Chats : \A b \in shown[c] : ButtonFits(b, DOMAIN events, DOMAIN executions)
        BY DEF ConvInv, Typed
    <2> QED BY <1>1, <1>2, <2>2, <2>3 DEF ConvInv, Typed, ButtonFits
<1>4. Jobs'
    <2> SUFFICES ASSUME NEW t \in Turns
                 PROVE  Fits(t, job'[t], DOMAIN events', DOMAIN executions', clock')
        BY DEF Jobs, Fits, Placed, Cast, Meant, Named, Held
    <2>1. job[t] \in JobRec /\ Fits(t, job[t], DOMAIN events, DOMAIN executions, clock)
        BY DEF ConvInv, Typed, Jobs
    <2>2. Fits(t, job[t], DOMAIN events, DOMAIN executions, clock')
        BY <1>2, <2>1, FitsGrows
    <2> QED BY <1>1, <2>2
<1>5. Owned' /\ Reads' /\ Undoing'
    BY <1>1 DEF ConvInv, Owned, Reads, Undoing
<1>6. Counted' /\ Landed'
    BY <1>1 DEF ConvInv, Counted, Landed, KnownUndone
<1>7. Kept'
    BY <1>1 DEF ConvInv, Kept, NothingLost, InHand
<1> QED BY <1>3, <1>4, <1>5, <1>6, <1>7 DEF ConvInv

\* The process dies: the turns are gone and what they had in hand is booked; the tables stay.
LEMMA CrashKeeps ==
    ASSUME ConvInv, Crash
    PROVE  ConvInv'
<1>1. /\ crashes' = crashes + 1 /\ owner' = [c \in Chats |-> Nobody]
      /\ line' = [c \in Chats |-> <<>>] /\ job' = [t \in Turns |-> Idle]
      /\ sweep' = [now |-> 0, todo |-> {}] /\ known' = FALSE
      /\ dying' = dying \cup UNION {InHand(t) : t \in Turns}
      /\ UNCHANGED <<sessions, events, executions, clock, shown, sent, landed, reverts, told, lost>>
    BY DEF Crash, store, user
<1>2. Typed /\ clock \in Nat /\ 0 <= clock
    BY ClockIsNatural DEF ConvInv
<1>3. Idle \in JobRec /\ \A t : Fits(t, Idle, DOMAIN events, DOMAIN executions, clock)
    BY <1>2, IdleFits
<1>4. Idle.pc = "idle" /\ Idle.chat = NoChat /\ Idle.why = ""
    BY DEF Idle
<1>5. Typed'
    <2>1. 0 \in Times
        BY MaxTimeIsNatural DEF Times
    <2>2. owner' \in [Chats -> Turns \cup {Nobody}] /\ line' \in [Chats -> Seq(Turns)]
        BY <1>1, EmptySeq
    <2>3. job' \in [Turns -> JobRec]
        BY <1>1, <1>3
    <2>4. sweep' \in [now : Times, todo : SUBSET Chats] /\ sweep'.now <= clock
        BY <1>1, <1>2, <2>1
    <2>5. crashes' \in Nat /\ known' \in BOOLEAN
        <3>1. crashes \in Nat
            BY <1>2 DEF Typed
        <3>2. known' \in BOOLEAN
            BY <1>1
        <3> QED BY <1>1, <3>1, <3>2
    <2>6. \A c \in Chats : \A b \in shown[c] : ButtonFits(b, DOMAIN events, DOMAIN executions)
        BY <1>2 DEF Typed
    <2> QED BY <1>1, <1>2, <2>2, <2>3, <2>4, <2>5, <2>6 DEF Typed, ButtonFits
<1>6. Owned' /\ Reads' /\ Undoing'
    BY <1>1, <1>4, NoChatIsNoChat DEF Owned, Reads, Undoing, Talking
<1>7. Jobs'
    <2> SUFFICES ASSUME NEW t \in Turns
                 PROVE  Fits(t, job'[t], DOMAIN events', DOMAIN executions', clock')
        BY DEF Jobs, Fits, Placed, Cast, Meant, Named, Held
    <2> QED BY <1>1, <1>3
<1>8. Counted'
    <2> SUFFICES ASSUME NEW x \in DOMAIN executions
                 PROVE  reverts[x] <= crashes + 1 + lost + (IF KnownUndone(x)' THEN 1 ELSE 0)
        BY <1>1 DEF Counted
    <2>1. /\ crashes \in Nat /\ lost \in Nat /\ reverts[x] \in Nat
          /\ KnownUndone(x) => reverts[x] <= crashes + lost + 1
          /\ ~ KnownUndone(x) => reverts[x] <= crashes + lost
        BY CountFacts
    <2>2. reverts[x] <= crashes + lost + 1
        BY <2>1
    <2> QED BY <2>1, <2>2
<1>9. Landed'
    BY <1>1, <1>4 DEF Landed
<1>10. Kept'
    <2> SUFFICES ASSUME InboxMode = "auto", NEW m \in sent
                 PROVE  \/ landed[m] > 0
                        \/ m \in told \cup dying'
                        \/ \E c \in Chats : m \in sessions[c].text
        BY <1>1 DEF Kept, NothingLost
    <2>1. \/ landed[m] > 0
          \/ m \in told \cup dying
          \/ \E c \in Chats : m \in sessions[c].text
          \/ \E t \in Turns : m \in InHand(t)
        BY DEF ConvInv, Kept, NothingLost
    <2> QED BY <1>1, <2>1
<1> QED BY <1>5, <1>6, <1>7, <1>8, <1>9, <1>10 DEF ConvInv

LEMMA NextKeeps ==
    ASSUME ConvInv, [Next]_vars
    PROVE  ConvInv'
<1>1. CASE Tick
    BY <1>1, TickKeeps
<1>2. CASE Crash
    BY <1>2, CrashKeeps
<1>3. CASE Next /\ ~ Tick /\ ~ Crash
    <2>1. PICK t \in Turns : Acts(t) /\ Keeps(t) /\ Counted'
        BY <1>3, StepsAreProper DEF Proper
    <2>2. Typed' /\ Owned' /\ Jobs' /\ Reads' /\ Undoing' /\ Landed'
        BY <2>1, ActsKeepTyped, ActsKeepOwned, ActsKeepJobs, ActsKeepReads, ActsKeepUndoing,
           ActsKeepLanded
    <2>3. Kept'
        BY <2>1, KeepsKept
    <2> QED BY <2>1, <2>2, <2>3 DEF ConvInv
<1>4. CASE UNCHANGED vars
    <2>1. Typed'
        BY <1>4 DEF ConvInv, Typed, ButtonFits, vars
    <2>2. Jobs'
        <3> SUFFICES ASSUME NEW t \in Turns
                     PROVE  Fits(t, job'[t], DOMAIN events', DOMAIN executions', clock')
            BY DEF Jobs, Fits, Placed, Cast, Meant, Named, Held
        <3>1. Fits(t, job[t], DOMAIN events, DOMAIN executions, clock)
            BY DEF ConvInv, Jobs
        <3>2. UNCHANGED <<job, events, executions, clock>>
            BY <1>4 DEF vars
        <3> QED BY <3>1, <3>2
    <2>3. Owned' /\ Reads' /\ Undoing' /\ Landed'
        BY <1>4 DEF ConvInv, Owned, Reads, Undoing, Landed, vars
    <2>4. Counted'
        BY <1>4 DEF ConvInv, Counted, KnownUndone, vars
    <2>5. Kept'
        BY <1>4 DEF ConvInv, Kept, NothingLost, InHand, vars
    <2> QED BY <2>1, <2>2, <2>3, <2>4, <2>5 DEF ConvInv
<1> QED BY <1>1, <1>2, <1>3, <1>4

\* ConvInv holds for ever: of every chat's turns, questions, writes and messages, whatever is said,
\* pressed, undone or swept, and whenever an answer is lost or the process dies.
THEOREM Invariance == Spec => []ConvInv
BY InitHolds, NextKeeps, PTL DEF Spec

\* The types; in particular no question is asked once MAX_QUESTIONS were answered by button.
THEOREM TypeCorrect == Spec => []TypeOK
<1>1. ConvInv => TypeOK
    <2> SUFFICES ASSUME Typed, Jobs PROVE TypeOK
        BY DEF ConvInv
    <2>1. /\ owner \in [Chats -> Turns \cup {Nobody}] /\ sessions \in [Chats -> Question]
          /\ sweep \in [now : Times, todo : SUBSET Chats] /\ landed \in [Messages -> Nat]
          /\ DOMAIN reverts = DOMAIN executions
        BY DEF Typed
    <2>2. \A c \in Chats : InLine(c) \subseteq Turns
        <3>1. \A c \in Chats : line[c] \in Seq(Turns)
            BY DEF Typed
        <3> QED BY <3>1, EntryFacts DEF InLine
    <2>3. \A e \in DOMAIN events : events[e] \in EventRec
        BY EntryFacts DEF Typed
    <2>4. \A x \in DOMAIN executions : executions[x] \in ExecutionRec
        BY EntryFacts DEF Typed
    <2>5. ASSUME NEW t \in Turns
          PROVE  /\ job[t].pc \in Busy \cup Outside /\ job[t].chat \in Chats \cup {NoChat}
                 /\ job[t].row \in 0 .. Len(events) /\ job[t].text \subseteq Messages
                 /\ job[t].session \in Question
        <3>1. job[t] \in JobRec
            BY DEF Typed
        <3>2. job[t].row \in DOMAIN events \cup {0}
            BY DEF Jobs, Fits, Placed
        <3>3. Len(events) \in Nat /\ DOMAIN events = 1 .. Len(events)
            BY EntryFacts DEF Typed
        <3>4. job[t].row \in 0 .. Len(events)
            BY <3>2, <3>3
        <3> QED BY <3>1, <3>4 DEF JobRec
    <2>6. Busy \cup Outside = {"idle", "queued", "begun", "read", "resume", "researched", "inbox",
                               "write", "written", "undo", "undone", "done", "scanned", "sweeping",
                               "pop"}
        BY DEF Busy, Outside, Talking, Saving, Empty
    <2> QED BY <2>1, <2>2, <2>3, <2>4, <2>5, <2>6 DEF TypeOK, EventRec, ExecutionRec
<1> QED BY <1>1, Invariance, PTL

\* What a turn read before an await still holds when it acts on it after: nobody else moves the
\* question of a chat while the chat's lock is held.
THEOREM ReadingsHold == Spec => []WhatWasReadHolds
<1>1. ConvInv => WhatWasReadHolds
    BY DEF ConvInv, Reads, WhatWasReadHolds, Talking
<1> QED BY <1>1, Invariance, PTL

\* A write is undone once, by its own button, by /undo or by both at once; only a crash or a lost
\* answer can bring a second undo.
THEOREM WritesAreUndoneOnce == Spec => []UndoneOnce
<1>1. ConvInv => UndoneOnce
    <2> SUFFICES ASSUME ConvInv, NEW x \in DOMAIN reverts PROVE reverts[x] <= 1 + crashes + lost
        BY DEF UndoneOnce
    <2>1. x \in DOMAIN executions
        BY DEF ConvInv, Typed
    <2>2. /\ crashes \in Nat /\ lost \in Nat /\ reverts[x] \in Nat
          /\ KnownUndone(x) => reverts[x] <= crashes + lost + 1
          /\ ~ KnownUndone(x) => reverts[x] <= crashes + lost
        BY <2>1, CountFacts
    <2> QED BY <2>2
<1> QED BY <1>1, Invariance, PTL

\* Where the inbox takes what nothing else does, no message is dropped in silence.
THEOREM NoMessageIsLost == Spec /\ InboxMode = "auto" => []NothingLost
<1> SUFFICES ASSUME InboxMode = "auto" PROVE Spec => []NothingLost
    OBVIOUS
<1>1. ConvInv => NothingLost
    BY DEF ConvInv, Kept
<1> QED BY <1>1, Invariance, PTL

\* An old keyboard never acts on a newer request: an answer moves the question it answers, or one
\* that has expired.
THEOREM PressesMeetTheirs == Spec => PressesMeetTheirQuestion
<1>1. ASSUME ConvInv, [Next]_vars
      PROVE  [\A t \in Turns, c \in Chats :
                job[t].do = "answer" /\ job[t].chat = c /\ job'[t] # job[t]
                    /\ sessions'[c] # sessions[c] =>
                        sessions[c].token = job[t].arg \/ sessions[c].expires <= clock]_vars
    <2>1. CASE UNCHANGED vars
        BY <2>1
    <2> SUFFICES ASSUME Next, NEW t \in Turns, NEW c \in Chats, job[t].do = "answer",
                        job[t].chat = c, job'[t] # job[t], sessions'[c] # sessions[c]
                 PROVE  sessions[c].token = job[t].arg \/ sessions[c].expires <= clock
        BY <1>1, <2>1
    <2>2. ~ Tick /\ ~ Crash
        BY DEF Tick, Crash, store
    <2>3. PICK u \in Turns : Acts(u) /\ Respects(u)
        BY <1>1, <2>2, StepsAreProper DEF Proper
    <2>4. u = t
        BY <2>3 DEF Acts, JobMoves
    <2> QED BY <2>3, <2>4 DEF Respects
<1> QED BY <1>1, Invariance, PTL DEF Spec, PressesMeetTheirQuestion

\* The sweeper takes no question that is still open, whatever its scan saw before it got the lock.
THEOREM TheSweeperSparesTheLiving == Spec => SweepSparesTheLiving
<1>1. ASSUME ConvInv, [Next]_vars
      PROVE  [\A c \in Chats :
                job'[Sweeper] # job[Sweeper] /\ sessions'[c] # sessions[c] /\ crashes' = crashes =>
                    sessions[c].expires <= clock]_vars
    <2>1. CASE UNCHANGED vars
        BY <2>1
    <2> SUFFICES ASSUME Next, NEW c \in Chats, job'[Sweeper] # job[Sweeper],
                        sessions'[c] # sessions[c]
                 PROVE  sessions[c].expires <= clock
        BY <1>1, <2>1
    <2>2. ~ Tick /\ ~ Crash
        BY DEF Tick, Crash, store
    <2>3. PICK u \in Turns : Acts(u) /\ Respects(u)
        BY <1>1, <2>2, StepsAreProper DEF Proper
    <2>4. u = Sweeper
        BY <2>3, SweeperIsATurn DEF Acts, JobMoves
    <2> QED BY <2>3, <2>4 DEF Respects
<1> QED BY <1>1, Invariance, PTL DEF Spec, SweepSparesTheLiving

----------------------------------------------------------------------------
(* How often a message lands: who holds it, and that nobody else does. *)

\* The message a turn was called with; the offers on screen; the chat a message was said in.
Called(n)  == IF n.do = "text" THEN {n.arg} ELSE {}
Offered(e) == \E c \in Chats : Offer(e) \in shown[c]
From(m, c) == \E e \in DOMAIN events : m \in events[e].text /\ events[e].chat = c

\* Each message came with one turn, whose row says so; before that it is nowhere.
CallFits(n) ==
    /\ n.do = "text" => n.arg \in sent
    /\ n.do = "text" /\ n.pc = "queued" => \A e \in DOMAIN events : n.arg \notin events[e].text
    /\ n.do = "text" /\ n.pc # "queued" => events[n.row].text = {n.arg} /\ events[n.row].chat = n.chat
    /\ n.do = "answer" /\ n.pc # "queued" => events[n.row].text = {}

Voiced ==
    /\ \A e \in DOMAIN events : events[e].text \subseteq sent
    /\ \A e, f \in DOMAIN events : \A m \in events[e].text : m \in events[f].text => e = f
    /\ \A m \in Messages \ sent : landed[m] = 0
    /\ \A t \in Turns : CallFits(job[t])
    /\ \A t, u \in Turns : job[t].do = "text" /\ job[u].do = "text" /\ job[t].arg = job[u].arg => t = u

\* It stays in the chat it was said in.
Homed ==
    /\ \A c \in Chats : \A m \in sessions[c].text : From(m, c)
    /\ \A t \in Turns : \A m \in job[t].text : From(m, job[t].chat)

\* No question holds the message of a turn still at work, nor a text taken from it.
ApartFits(n) ==
    /\ n.do = "text" => \A c \in Chats : n.arg \notin sessions[c].text
    /\ n.why = "expired" => n.arg \notin n.text
    /\ n.why \in {"execute", "sweep"} => sessions[n.chat].text = {}

Apart == \A t \in Turns : ApartFits(job[t])

\* What an offer stands for is in no question, and in no hand but the one that takes it up.
OfferFits(n) ==
    /\ n.do = "offer" => Offered(n.arg)
    /\ n.why = "offer" => /\ n.text = events[n.arg].text /\ events[n.arg].chat = n.chat
                          /\ ~ events[n.arg].executed

Offers ==
    /\ \A t \in Turns : OfferFits(job[t])
    /\ \A e \in DOMAIN events : Offered(e) =>
        \A m \in events[e].text :
            /\ \A c \in Chats : m \notin sessions[c].text
            /\ \A t \in Turns : m \in Hand(job[t]) => job[t].why = "offer"

\* Somebody may still write the message; or has, and waits for the answer.
Alive(m) ==
    \/ \E c \in Chats : m \in sessions[c].text
    \/ \E t \in Turns : m \in Hand(job[t])
    \/ \E e \in DOMAIN events : Offered(e) /\ ~ events[e].executed /\ m \in events[e].text

SpentBy(n)  == n.pc = "written" /\ n.applied
Spending(m) == \E t \in Turns : SpentBy(job[t]) /\ m \in job[t].text

Spent ==
    \A m \in Messages \ doubled :
        landed[m] <= crashes + lost + (IF Alive(m) /\ ~ Spending(m) THEN 0 ELSE 1)

OnceInv == Voiced /\ Homed /\ Apart /\ Offers /\ Spent

----------------------------------------------------------------------------
(* What one step of a turn may do with messages, from its variables j to n. *)

RowsMove(j, n) ==
    /\ DOMAIN events \subseteq DOMAIN events'
    /\ \A e \in DOMAIN events :
        /\ events'[e].text = events[e].text /\ events'[e].chat = events[e].chat
        /\ events[e].executed => events'[e].executed
        /\ events'[e].executed = events[e].executed \/ (j.why = "offer" /\ j.arg = e)
    /\ \A e \in DOMAIN events' \ DOMAIN events :
        e = n.row /\ events'[e].chat = n.chat /\ events'[e].text = Called(n)

SaysMove(j, n) ==
    /\ sent \subseteq sent' /\ sent' \subseteq sent \cup Called(n)
    /\ n.do \in {"text", "answer", "offer"} =>
        \/ /\ j = Idle
           /\ n.do = "text" => n.arg \in sent' \ sent
           /\ n.do = "offer" => Offered(n.arg)
           /\ \/ n.pc = "queued" /\ DOMAIN events' = DOMAIN events
              \/ n.pc # "queued" /\ n.row \in DOMAIN events' \ DOMAIN events
        \/ /\ j.do = n.do /\ j.arg = n.arg /\ j.pc = "queued"
           /\ n.pc # "queued" /\ n.row \in DOMAIN events' \ DOMAIN events
        \/ /\ j.do = n.do /\ j.arg = n.arg /\ j.pc # "queued" /\ n.pc # "queued"
           /\ n.row = j.row /\ n.chat = j.chat /\ DOMAIN events' = DOMAIN events

TextsMove(j, n) ==
    /\ \A c \in Chats : sessions'[c].text \subseteq
            sessions[c].text \cup (IF c = j.chat THEN j.text ELSE {})
    /\ \/ n.text = {}
       \/ /\ n.chat = j.chat /\ j.chat \in Chats
          /\ \/ n.text \subseteq j.text \cup sessions[j.chat].text \cup
                                    (IF j.pc = "queued" THEN {} ELSE Called(j))
             \/ n.why = "offer" /\ n.text = events[n.arg].text /\ events[n.arg].chat = n.chat
    /\ n.do = "text" => \A c \in Chats : sessions'[c].text \subseteq sessions[c].text
    /\ n.why = "expired" => \/ j.why = "expired" /\ n.text = j.text /\ n.arg = j.arg
                            \/ n.text = sessions[j.chat].text /\ j.do = "text" /\ n.arg = j.arg
                               /\ j.chat \in Chats
    /\ n.why \in {"execute", "sweep"} =>
        \/ sessions'[n.chat].text = {}
        \/ j.why = n.why /\ j.chat = n.chat /\ UNCHANGED sessions

\* The offer a turn takes up, or makes: of its own row, for the text it could not save.
OffersMove(j, n) ==
    /\ n.why = "offer" =>
        \/ j.why = "offer" /\ n.text = j.text /\ n.arg = j.arg /\ n.chat = j.chat /\ UNCHANGED events
        \/ /\ n.text = events[n.arg].text /\ events[n.arg].chat = n.chat
           /\ ~ events[n.arg].executed /\ j.do = "offer" /\ j.arg = n.arg /\ UNCHANGED events
    /\ j.why = "offer" => UNCHANGED sessions /\ (n.why = "offer" \/ Hand(n) = {})
    /\ \A e \in DOMAIN events : Offered(e) => Offered(e)'
    /\ \A e \in DOMAIN events' : Offered(e)' => \/ Offered(e)
                             \/ /\ j.why = "fallback" /\ e = j.row /\ j.text = events[e].text
                                /\ j.do \in {"text", "answer"} /\ j.pc # "queued"
                                /\ e \in DOMAIN events /\ Hand(n) = {} /\ UNCHANGED sessions

\* What it owes: the answer to a write is the message's end, or counted as lost, or doubled.
PaysFor(j, n) ==
    /\ crashes' = crashes /\ doubled \subseteq doubled'
    /\ \/ /\ landed' = landed
          /\ ~ SpentBy(n)
          /\ \/ ~ SpentBy(j) /\ lost' = lost
             \/ SpentBy(j) /\ lost' = lost + 1
             \/ ~ SpentBy(j) /\ lost' = lost + 1
             \/ /\ SpentBy(j) /\ lost' = lost
                /\ \A e \in DOMAIN events' : Offered(e)' => Offered(e)
                /\ \A m \in j.text : \/ m \in doubled'
                                     \/ /\ m \notin sessions'[j.chat].text /\ m \notin Hand(n)
                                        /\ j.why = "offer" => events'[j.arg].executed
       \/ /\ lost' = lost /\ j.pc = "write" /\ n.text = j.text
          /\ \A m \in Messages : landed'[m] = landed[m] + (IF SpentBy(n) /\ m \in j.text THEN 1 ELSE 0)

Carries(t) ==
    /\ RowsMove(job[t], job'[t]) /\ SaysMove(job[t], job'[t]) /\ TextsMove(job[t], job'[t])
    /\ OffersMove(job[t], job'[t]) /\ PaysFor(job[t], job'[t])

----------------------------------------------------------------------------
(* Where a message is. *)

LEMMA CallFacts ==
    ASSUME ConvInv, Voiced, NEW t \in Turns, job[t].do \in {"text", "answer"}, job[t].pc # "queued"
    PROVE  /\ job[t].row \in DOMAIN events /\ job[t].chat \in Chats
           /\ job[t].do = "text" => From(job[t].arg, job[t].chat)
<1>1. job[t] \in JobRec /\ Fits(t, job[t], DOMAIN events, DOMAIN executions, clock)
    BY DEF ConvInv, Typed, Jobs
<1>2. job[t].pc \notin {"idle", "done", "scanned", "sweeping", "pop"}
    BY <1>1 DEF Fits, Meant
<1>3. job[t].pc \in Busy \ {"pop"}
    BY <1>1, <1>2 DEF JobRec, Outside
<1>4. job[t].row \in DOMAIN events /\ job[t].chat \in Chats
    BY <1>1, <1>3 DEF Fits, Placed
<1>5. CallFits(job[t])
    BY DEF Voiced
<1> QED BY <1>4, <1>5 DEF CallFits, From

LEMMA OneHome ==
    ASSUME Voiced, NEW m, NEW c, NEW d, From(m, c), From(m, d)
    PROVE  c = d
BY DEF Voiced, From

\* A message in hand is one of the turn's chat, or the turn waits to be let in with it.
LEMMA HandHome ==
    ASSUME ConvInv, Voiced, Homed, NEW t \in Turns, NEW m \in Hand(job[t])
    PROVE  \/ From(m, job[t].chat) /\ job[t].chat \in Chats
           \/ /\ job[t].do = "text" /\ job[t].arg = m
              /\ \A e \in DOMAIN events : m \notin events[e].text
<1>1. job[t] \in JobRec /\ Fits(t, job[t], DOMAIN events, DOMAIN executions, clock)
    BY DEF ConvInv, Typed, Jobs
<1>2. CASE m \in job[t].text
    <2>1. job[t].pc \in Busy
        BY <1>1, <1>2 DEF Fits, Held, JobRec
    <2>2. job[t].chat \in Chats
        BY <1>1, <2>1 DEF Fits, Placed
    <2> QED BY <1>2, <2>2 DEF Homed
<1>3. CASE job[t].do = "text" /\ job[t].arg = m
    <2>1. CASE job[t].pc = "queued"
        BY <1>3, <2>1 DEF Voiced, CallFits
    <2>2. CASE job[t].pc # "queued"
        BY <1>3, <2>2, CallFacts
    <2> QED BY <2>1, <2>2
<1> QED BY <1>2, <1>3 DEF Hand

\* No two turns hold it.
LEMMA OneHolder ==
    ASSUME ConvInv, Voiced, Homed, NEW t \in Turns, NEW u \in Turns,
           NEW m \in Hand(job[t]), m \in Hand(job[u])
    PROVE  t = u
<1>1. CASE From(m, job[t].chat) /\ job[t].chat \in Chats /\ From(m, job[u].chat)
    <2>1. job[t].chat = job[u].chat
        BY <1>1, OneHome
    <2> QED BY <1>1, <2>1 DEF ConvInv, Owned
<1>2. CASE \A e \in DOMAIN events : m \notin events[e].text
    <2>1. ~ From(m, job[t].chat) /\ ~ From(m, job[u].chat)
        BY <1>2 DEF From
    <2>2. job[t].do = "text" /\ job[t].arg = m /\ job[u].do = "text" /\ job[u].arg = m
        BY <2>1, HandHome
    <2> QED BY <2>2 DEF Voiced
<1> QED BY <1>1, <1>2, HandHome

\* What stands for an event, or came with one, was said.
LEMMA SaidFacts ==
    ASSUME ConvInv, Voiced, Homed
    PROVE  /\ \A m, c : From(m, c) => m \in sent
           /\ \A c \in Chats : sessions[c].text \subseteq sent
           /\ \A t \in Turns : Hand(job[t]) \subseteq sent
           /\ \A e : Offered(e) => e \in DOMAIN events
<1>1. \A m, c : From(m, c) => m \in sent
    BY DEF From, Voiced
<1>2. \A c \in Chats : sessions[c].text \subseteq sent
    BY <1>1 DEF Homed
<1>3. ASSUME NEW t \in Turns, NEW m \in Hand(job[t])
      PROVE  m \in sent
    <2>1. CASE m \in job[t].text
        BY <1>1, <2>1 DEF Homed
    <2>2. CASE job[t].do = "text" /\ m = job[t].arg
        BY <2>2 DEF Voiced, CallFits
    <2> QED BY <1>3, <2>1, <2>2 DEF Hand
<1>4. ASSUME NEW e, Offered(e)
      PROVE  e \in DOMAIN events
    <2>1. PICK c \in Chats : Offer(e) \in shown[c]
        BY <1>4 DEF Offered
    <2>2. ButtonFits(Offer(e), DOMAIN events, DOMAIN executions)
        BY <2>1 DEF ConvInv, Typed
    <2> QED BY <2>2 DEF ButtonFits, Answer, Undo, Offer
<1> QED BY <1>1, <1>2, <1>3, <1>4

LEMMA FromGrows ==
    ASSUME NEW j, NEW n, RowsMove(j, n), NEW m, NEW c, From(m, c)
    PROVE  From(m, c)'
BY DEF RowsMove, From

----------------------------------------------------------------------------
(* Each part of the invariant outlives a step that carries its texts so. *)

LEMMA CarriesKeepVoiced ==
    ASSUME ConvInv, OnceInv, NEW t \in Turns, Acts(t), Carries(t)
    PROVE  Voiced'
<1> DEFINE j == job[t]
           n == job'[t]
<1>1. RowsMove(j, n) /\ SaysMove(j, n) /\ PaysFor(j, n)
    BY DEF Carries
<1>2. Voiced /\ Homed
    BY DEF OnceInv
<1>3. CallFits(j) /\ Hand(j) \subseteq sent /\ (j.text \subseteq Hand(j)) /\ Called(j) \subseteq Hand(j)
    BY <1>2, SaidFacts DEF Voiced, Hand, Called
<1>4. /\ \A u \in Turns \ {t} : job'[u] = job[u]
      /\ n.do \in {"text", "answer"} /\ n.pc # "queued" => n.row \in DOMAIN events'
    <2>1. \A u \in Turns \ {t} : job'[u] = job[u]
        BY DEF Acts, JobMoves
    <2>2. n \in JobRec /\ Fits(t, n, DOMAIN events', DOMAIN executions', clock)
        BY DEF Acts, JobMoves
    <2> HIDE DEF n
    <2>3. n.do \in {"text", "answer"} => n.pc \notin {"idle", "done", "scanned", "sweeping", "pop"}
        BY <2>2 DEF Fits, Meant
    <2>4. n.do \in {"text", "answer"} /\ n.pc # "queued" => n.pc \in Busy \ {"pop"}
        BY <2>2, <2>3 DEF JobRec, Outside
    <2>5. n.do \in {"text", "answer"} /\ n.pc # "queued" => n.row \in DOMAIN events'
        BY <2>2, <2>4 DEF Fits, Placed
    <2> QED BY <2>1, <2>5 DEF n
<1>5. j = Idle => j.do = ""
    <2>1. Idle.do = ""
        BY DEF Idle
    <2> QED BY <2>1
<1>6. j.do = "text" /\ j.pc # "queued" => j.row \in DOMAIN events
    BY <1>2, CallFacts
<1>7. n.do = "text" =>
        \/ n.arg \in sent' \ sent
        \/ j.do = "text" /\ j.arg = n.arg /\ n.arg \in sent /\ n.arg \in sent'
    BY <1>1, <1>3 DEF SaysMove, CallFits
<1>8. \A e \in DOMAIN events' : events'[e].text \subseteq sent'
    <2> SUFFICES ASSUME NEW e \in DOMAIN events', NEW m \in events'[e].text PROVE m \in sent'
        OBVIOUS
    <2>1. CASE e \in DOMAIN events
        BY <1>1, <1>2, <2>1 DEF RowsMove, SaysMove, Voiced
    <2>2. CASE e \notin DOMAIN events
        <3>1. m \in Called(n)
            BY <1>1, <2>2 DEF RowsMove
        <3> QED BY <1>7, <3>1 DEF Called
    <2> QED BY <2>1, <2>2
\* A row is new only when the message in it is, or has waited without one.
<1>9. ASSUME NEW f \in DOMAIN events' \ DOMAIN events, NEW m \in events'[f].text,
             NEW e \in DOMAIN events
      PROVE  m \notin events[e].text /\ n.do = "text" /\ m = n.arg
    <2>1. f = n.row /\ n.do = "text" /\ m = n.arg
        BY <1>1, <1>9 DEF RowsMove, Called
    <2>2. \/ n.arg \in sent' \ sent
          \/ j.do = "text" /\ j.arg = n.arg /\ j.pc = "queued"
          \/ DOMAIN events' = DOMAIN events
        BY <1>1, <2>1 DEF SaysMove
    <2>3. CASE n.arg \in sent' \ sent
        BY <1>2, <2>1, <2>3 DEF Voiced
    <2>4. CASE j.do = "text" /\ j.arg = n.arg /\ j.pc = "queued"
        BY <1>3, <2>1, <2>4 DEF CallFits
    <2> QED BY <1>9, <2>1, <2>2, <2>3, <2>4
<1>10. ASSUME NEW e \in DOMAIN events', NEW f \in DOMAIN events', NEW m \in events'[e].text,
              m \in events'[f].text
       PROVE  e = f
    <2>1. CASE e \in DOMAIN events /\ f \in DOMAIN events
        <3>1. m \in events[e].text /\ m \in events[f].text
            BY <1>1, <1>10, <2>1 DEF RowsMove
        <3> QED BY <1>2, <2>1, <3>1 DEF Voiced
    <2>2. CASE e \notin DOMAIN events /\ f \notin DOMAIN events
        BY <1>1, <2>2 DEF RowsMove
    <2>3. CASE e \in DOMAIN events /\ f \notin DOMAIN events
        <3>1. m \in events[e].text
            BY <1>1, <1>10, <2>3 DEF RowsMove
        <3> QED BY <1>9, <1>10, <2>3, <3>1
    <2>4. CASE e \notin DOMAIN events /\ f \in DOMAIN events
        <3>1. m \in events[f].text
            BY <1>1, <1>10, <2>4 DEF RowsMove
        <3> QED BY <1>9, <1>10, <2>4, <3>1
    <2> QED BY <2>1, <2>2, <2>3, <2>4
<1>11. ASSUME NEW m \in Messages, m \notin sent'
       PROVE  landed'[m] = 0
    <2>1. m \notin sent /\ m \notin j.text /\ landed[m] = 0
        BY <1>1, <1>2, <1>3, <1>11 DEF SaysMove, Voiced
    <2>2. landed' = landed \/ landed'[m] = landed[m] + 0
        BY <1>1, <2>1 DEF PaysFor
    <2> QED BY <2>1, <2>2
<1>12. ASSUME NEW u \in Turns \ {t}
       PROVE  CallFits(job[u])'
    <2> DEFINE o == job[u]
    <2>1. CallFits(o) /\ job'[u] = o
        BY <1>2, <1>4 DEF Voiced
    <2>2. o.do \in {"text", "answer"} /\ o.pc # "queued" => o.row \in DOMAIN events
        BY <1>2, CallFacts
    <2>3. o.do = "text" => ~ (n.do = "text" /\ n.arg = o.arg)
        <3>1. o.do = "text" => o.arg \in sent
            BY <2>1 DEF CallFits
        <3>2. o.do = "text" => ~ (j.do = "text" /\ j.arg = o.arg)
            BY <1>2 DEF Voiced
        <3> QED BY <1>7, <3>1, <3>2
    <2>4. ASSUME o.do = "text", o.pc = "queued", NEW e \in DOMAIN events'
          PROVE  o.arg \notin events'[e].text
        <3>1. CASE e \in DOMAIN events
            BY <1>1, <2>1, <2>4, <3>1 DEF RowsMove, CallFits
        <3>2. CASE e \notin DOMAIN events
            BY <1>1, <2>3, <2>4, <3>2 DEF RowsMove, Called
        <3> QED BY <3>1, <3>2
    <2> HIDE DEF o
    <2>5. o.do = "text" => o.arg \in sent'
        BY <1>1, <2>1 DEF SaysMove, CallFits
    <2>6. o.do = "text" /\ o.pc # "queued" =>
            events'[o.row].text = {o.arg} /\ events'[o.row].chat = o.chat
        BY <1>1, <2>1, <2>2 DEF RowsMove, CallFits
    <2>7. o.do = "answer" /\ o.pc # "queued" => events'[o.row].text = {}
        BY <1>1, <2>1, <2>2 DEF RowsMove, CallFits
    <2> QED BY <2>1, <2>4, <2>5, <2>6, <2>7 DEF CallFits
<1>13. CallFits(job[t])'
    <2>1. CASE n.do \notin {"text", "answer"}
        BY <2>1 DEF CallFits
    <2>2. CASE /\ n.do \in {"text", "answer"} /\ n.pc # "queued"
               /\ n.row \in DOMAIN events' \ DOMAIN events
        <3>1. events'[n.row].chat = n.chat /\ events'[n.row].text = Called(n)
            BY <1>1, <2>2 DEF RowsMove
        <3>2. n.do = "text" => n.arg \in sent'
            BY <1>7
        <3> QED BY <2>2, <3>1, <3>2 DEF CallFits, Called
    <2>3. CASE /\ n.do \in {"text", "answer"} /\ n.pc = "queued"
               /\ j = Idle /\ DOMAIN events' = DOMAIN events
        <3>1. n.do = "text" => n.arg \in sent' \ sent
            BY <1>1, <1>5, <2>3 DEF SaysMove
        <3>2. ASSUME n.do = "text", NEW e \in DOMAIN events'
              PROVE  n.arg \notin events'[e].text
            <4>1. n.arg \notin events[e].text /\ events'[e].text = events[e].text
                BY <1>1, <1>2, <2>3, <3>1, <3>2 DEF Voiced, RowsMove
            <4> QED BY <4>1
        <3> QED BY <2>3, <3>1, <3>2 DEF CallFits
    <2>4. CASE /\ n.do \in {"text", "answer"} /\ j.do = n.do /\ j.arg = n.arg /\ j.pc # "queued"
               /\ n.pc # "queued" /\ n.row = j.row /\ n.chat = j.chat
               /\ DOMAIN events' = DOMAIN events
        <3>1. j.row \in DOMAIN events
            BY <1>4, <2>4
        <3>2. events'[j.row].text = events[j.row].text /\ events'[j.row].chat = events[j.row].chat
            BY <1>1, <3>1 DEF RowsMove
        <3>3. n.do = "text" => n.arg \in sent'
            BY <1>7
        <3> QED BY <1>3, <2>4, <3>2, <3>3 DEF CallFits
    <2> QED BY <1>1, <2>1, <2>2, <2>3, <2>4 DEF SaysMove
<1>14. ASSUME NEW u \in Turns, NEW v \in Turns, job'[u].do = "text", job'[v].do = "text",
              job'[u].arg = job'[v].arg
       PROVE  u = v
    <2>1. ASSUME NEW w \in Turns \ {t}, job'[w].do = "text", n.do = "text", job'[w].arg = n.arg
          PROVE  FALSE
        <3>1. job[w].do = "text" /\ job[w].arg = n.arg /\ job[w].arg \in sent
            BY <1>2, <1>4, <2>1 DEF Voiced, CallFits
        <3>2. j.do = "text" /\ j.arg = n.arg
            BY <1>7, <2>1, <3>1
        <3> QED BY <1>2, <3>1, <3>2 DEF Voiced
    <2>2. CASE u # t /\ v # t
        BY <1>2, <1>4, <1>14, <2>2 DEF Voiced
    <2> QED BY <1>14, <2>1, <2>2
<1> QED BY <1>8, <1>10, <1>11, <1>12, <1>13, <1>14 DEF Voiced

LEMMA CarriesKeepHomed ==
    ASSUME ConvInv, OnceInv, NEW t \in Turns, Acts(t), Carries(t)
    PROVE  Homed'
<1> DEFINE j == job[t]
           n == job'[t]
<1>1. RowsMove(j, n) /\ TextsMove(j, n) /\ OffersMove(j, n)
    BY DEF Carries
<1>2. Voiced /\ Homed /\ \A u \in Turns \ {t} : job'[u] = job[u]
    BY DEF OnceInv, Acts, JobMoves
<1>3. \A m, c : From(m, c) => From(m, c)'
    BY <1>1, FromGrows
<1>4. ASSUME NEW c \in Chats, NEW m \in sessions'[c].text
      PROVE  From(m, c)'
    <2>1. m \in sessions[c].text \/ (c = j.chat /\ m \in j.text)
        BY <1>1, <1>4 DEF TextsMove
    <2> QED BY <1>2, <1>3, <2>1 DEF Homed
<1>5. ASSUME NEW m \in n.text
      PROVE  From(m, n.chat)
    <2>1. n.chat = j.chat /\ j.chat \in Chats
        BY <1>1, <1>5 DEF TextsMove
    <2>2. CASE m \in j.text \/ m \in sessions[j.chat].text
        BY <1>2, <2>1, <2>2 DEF Homed
    <2>3. CASE j.pc # "queued" /\ m \in Called(j)
        <3>1. j.do = "text" /\ m = j.arg
            BY <2>3 DEF Called
        <3> QED BY <1>2, <2>1, <2>3, <3>1, CallFacts
    <2>4. CASE n.why = "offer" /\ n.text = events[n.arg].text /\ events[n.arg].chat = n.chat
        <3>1. UNCHANGED events
            BY <1>1, <2>4 DEF OffersMove
        <3>2. Fits(t, n, DOMAIN events', DOMAIN executions', clock)
            BY DEF Acts, JobMoves
        <3>3. n.arg \in DOMAIN events
            BY <2>4, <3>1, <3>2 DEF Fits, Meant, Named
        <3> QED BY <1>5, <2>4, <3>3 DEF From
    <2> QED BY <1>1, <1>5, <2>2, <2>3, <2>4 DEF TextsMove
<1>6. ASSUME NEW u \in Turns, NEW m \in job'[u].text
      PROVE  From(m, job'[u].chat)
    <2>1. CASE u = t
        BY <1>5, <1>6, <2>1
    <2>2. CASE u # t
        BY <1>2, <1>6, <2>2 DEF Homed
    <2> QED BY <2>1, <2>2
<1>7. ASSUME NEW u \in Turns, NEW m \in job'[u].text
      PROVE  From(m, job[u].chat)'
    <2> DEFINE d == job'[u].chat
    <2>1. From(m, d)
        BY <1>6, <1>7
    <2> HIDE DEF d
    <2>2. \E e \in DOMAIN events : m \in events[e].text /\ events[e].chat = d
        BY <2>1 DEF From
    <2>3. \E e \in DOMAIN events' : m \in events'[e].text /\ events'[e].chat = d
        BY <1>1, <2>2 DEF RowsMove
    <2> QED BY <2>3 DEF From, d
<1> QED BY <1>4, <1>7 DEF Homed

LEMMA CarriesKeepApart ==
    ASSUME ConvInv, OnceInv, NEW t \in Turns, Acts(t), Carries(t)
    PROVE  Apart'
<1> DEFINE j == job[t]
           n == job'[t]
<1>1. SaysMove(j, n) /\ TextsMove(j, n)
    BY DEF Carries
<1>2. Voiced /\ Homed /\ Apart /\ \A u \in Turns \ {t} : job'[u] = job[u]
    BY DEF OnceInv, Acts, JobMoves
<1>3. ASSUME NEW u \in Turns \ {t}
      PROVE  ApartFits(job[u])'
    <2> DEFINE o == job[u]
    <2>1. ApartFits(o) /\ job'[u] = o
        BY <1>2 DEF Apart
    <2>2. ASSUME o.do = "text", NEW c \in Chats
          PROVE  o.arg \notin sessions'[c].text
        <3>1. o.arg \notin sessions[c].text
            BY <2>1, <2>2 DEF ApartFits
        <3>2. o.arg \in Hand(o)
            BY <2>2 DEF Hand
        <3>3. o.arg \notin j.text
            <4>1. o.arg \notin Hand(j)
                BY <1>2, <3>2, OneHolder
            <4> QED BY <4>1 DEF Hand
        <3> QED BY <1>1, <3>1, <3>3 DEF TextsMove
    <2>3. ASSUME o.why \in {"execute", "sweep"}
          PROVE  sessions'[o.chat].text = {}
        <3>1. Fits(u, o, DOMAIN events, DOMAIN executions, clock)
            BY DEF ConvInv, Jobs
        <3> HIDE DEF o
        <3>2. o.chat \in Chats
            BY <2>3, <3>1 DEF Fits, Placed, Meant, Busy
        <3> USE DEF o
        <3>3. owner[o.chat] = u
            BY <3>2 DEF ConvInv, Owned
        <3>4. sessions'[o.chat] = sessions[o.chat]
            BY <3>2, <3>3 DEF Acts, QuestionMoves
        <3> QED BY <2>1, <2>3, <3>4 DEF ApartFits
    <2> HIDE DEF o
    <2>4. o.why = "expired" => o.arg \notin o.text
        BY <2>1 DEF ApartFits
    <2> QED BY <2>1, <2>2, <2>3, <2>4 DEF ApartFits
<1>4. ApartFits(job[t])'
    <2>1. ApartFits(j)
        BY <1>2 DEF Apart
    <2>2. ASSUME n.do = "text", NEW c \in Chats
          PROVE  n.arg \notin sessions'[c].text
        <3>1. sessions'[c].text \subseteq sessions[c].text
            BY <1>1, <2>2 DEF TextsMove
        <3>2. (j.do = "text" /\ j.arg = n.arg) \/ n.arg \notin sent
            BY <1>1, <2>2 DEF SaysMove
        <3>3. sessions[c].text \subseteq sent
            BY <1>2, SaidFacts
        <3> QED BY <2>1, <3>1, <3>2, <3>3 DEF ApartFits
    <2>3. n.why = "expired" => n.arg \notin n.text
        BY <1>1, <2>1 DEF TextsMove, ApartFits
    <2>4. n.why \in {"execute", "sweep"} => sessions'[n.chat].text = {}
        BY <1>1, <2>1 DEF TextsMove, ApartFits
    <2> QED BY <2>2, <2>3, <2>4 DEF ApartFits
<1> QED BY <1>3, <1>4 DEF Apart

LEMMA CarriesKeepOffers ==
    ASSUME ConvInv, OnceInv, NEW t \in Turns, Acts(t), Carries(t)
    PROVE  Offers'
<1> DEFINE j == job[t]
           n == job'[t]
<1>1. RowsMove(j, n) /\ SaysMove(j, n) /\ TextsMove(j, n) /\ OffersMove(j, n)
    BY DEF Carries
<1>2. Voiced /\ Homed /\ Apart /\ Offers /\ \A u \in Turns \ {t} : job'[u] = job[u]
    BY DEF OnceInv, Acts, JobMoves
<1>3. OfferFits(j) /\ CallFits(j) /\ ApartFits(j) /\ j.text \subseteq Hand(j) /\ Called(j) \subseteq Hand(j)
    BY <1>2 DEF Voiced, Apart, Offers, Hand, Called
<1>4. \A e : Offered(e) => e \in DOMAIN events
    BY <1>2, SaidFacts
<1>5. \A e : Offered(e) => Offered(e)'
    BY <1>1, <1>4 DEF OffersMove
<1>6. ASSUME NEW u \in Turns \ {t}
      PROVE  OfferFits(job[u])'
    <2> DEFINE o == job[u]
    <2>1. OfferFits(o) /\ job'[u] = o /\ Fits(u, o, DOMAIN events, DOMAIN executions, clock)
        BY <1>2 DEF Offers, ConvInv, Jobs
    <2>2. ASSUME o.why = "offer"
          PROVE  /\ o.text = events'[o.arg].text /\ events'[o.arg].chat = o.chat
                 /\ ~ events'[o.arg].executed
        <3> HIDE DEF o
        <3>1. o.arg \in DOMAIN events /\ o.chat \in Chats
            BY <2>1, <2>2 DEF Fits, Placed, Meant, Named, Busy
        <3>2. o.text = events[o.arg].text /\ events[o.arg].chat = o.chat /\ ~ events[o.arg].executed
            BY <2>1, <2>2 DEF OfferFits
        <3>3. ~ (j.why = "offer" /\ j.arg = o.arg)
            <4> SUFFICES ASSUME j.why = "offer", j.arg = o.arg PROVE FALSE
                OBVIOUS
            <4>1. j.chat = o.chat
                BY <1>3, <3>2 DEF OfferFits
            <4> QED BY <3>1, <4>1 DEF ConvInv, Owned, o
        <3> QED BY <1>1, <3>1, <3>2, <3>3 DEF RowsMove
    <2>3. o.do = "offer" => Offered(o.arg)
        BY <2>1 DEF OfferFits
    <2> HIDE DEF o
    <2>4. o.do = "offer" => \E c \in Chats : Offer(o.arg) \in shown'[c]
        <3> SUFFICES ASSUME o.do = "offer" PROVE \E c \in Chats : Offer(o.arg) \in shown'[c]
            OBVIOUS
        <3>1. PICK a : a = o.arg
            OBVIOUS
        <3>2. Offered(a)
            BY <2>3, <3>1
        <3>3. Offered(a)'
            BY <1>5, <3>2
        <3> QED BY <3>1, <3>3 DEF Offered
    <2> QED BY <2>1, <2>2, <2>4 DEF OfferFits, Offered
<1>7. OfferFits(job[t])'
    <2>1. n.do = "offer" => Offered(n.arg)
        BY <1>1, <1>3 DEF SaysMove, OfferFits
    <2>2. n.do = "offer" => \E c \in Chats : Offer(n.arg) \in shown'[c]
        <3> SUFFICES ASSUME n.do = "offer" PROVE \E c \in Chats : Offer(n.arg) \in shown'[c]
            OBVIOUS
        <3>1. PICK a : a = n.arg
            OBVIOUS
        <3>2. Offered(a)
            BY <2>1, <3>1
        <3>3. Offered(a)'
            BY <1>5, <3>2
        <3> QED BY <3>1, <3>3 DEF Offered
    <2>3. n.why = "offer" => /\ n.text = events[n.arg].text /\ events[n.arg].chat = n.chat
                             /\ ~ events[n.arg].executed /\ UNCHANGED events
        <3>1. CASE /\ j.why = "offer" /\ n.text = j.text /\ n.arg = j.arg /\ n.chat = j.chat
                   /\ UNCHANGED events
            BY <1>3, <3>1 DEF OfferFits
        <3> QED BY <1>1, <3>1 DEF OffersMove
    <2> QED BY <2>2, <2>3 DEF OfferFits, Offered
\* What was on offer already.
<1>8. ASSUME NEW e \in DOMAIN events, Offered(e), NEW m \in events[e].text
      PROVE  /\ \A c \in Chats : m \notin sessions'[c].text
             /\ \A u \in Turns : m \in Hand(job'[u]) => job'[u].why = "offer"
    <2>1. /\ \A c \in Chats : m \notin sessions[c].text
          /\ \A u \in Turns : m \in Hand(job[u]) => job[u].why = "offer"
        BY <1>2, <1>8 DEF Offers
    <2>2. m \in sent
        BY <1>2, <1>8 DEF Voiced
    <2>3. j.do = "text" => j.why # "offer"
        BY DEF ConvInv, Jobs, Fits, Meant
    <2>4. ASSUME NEW c \in Chats
          PROVE  m \notin sessions'[c].text
        <3>1. CASE j.why = "offer"
            BY <1>1, <2>1, <3>1 DEF OffersMove
        <3>2. CASE j.why # "offer"
            <4>1. m \notin j.text
                BY <1>3, <2>1, <3>2
            <4> QED BY <1>1, <2>1, <4>1 DEF TextsMove
        <3> QED BY <3>1, <3>2
    <2>5. ASSUME m \in Hand(n)
          PROVE  n.why = "offer"
        <3>1. CASE j.why = "offer"
            BY <1>1, <2>5, <3>1 DEF OffersMove
        <3>2. CASE j.why # "offer" /\ m \in n.text
            <4>1. m \notin j.text /\ m \notin Called(j)
                BY <1>3, <2>1, <3>2
            <4> QED BY <1>1, <2>1, <3>2, <4>1 DEF TextsMove
        <3>3. CASE j.why # "offer" /\ n.do = "text" /\ m = n.arg
            <4>1. j.do = "text" /\ j.arg = m
                BY <1>1, <2>2, <3>3 DEF SaysMove
            <4>2. m \in Hand(j)
                BY <4>1 DEF Hand
            <4> QED BY <2>1, <3>3, <4>2
        <3> QED BY <2>5, <3>1, <3>2, <3>3 DEF Hand
    <2>6. \A u \in Turns \ {t} : m \in Hand(job'[u]) => job'[u].why = "offer"
        BY <1>2, <2>1
    <2> QED BY <2>4, <2>5, <2>6
\* What is offered only now: the message of the turn's own row, which it gives out of hand.
<1>9. ASSUME NEW e, j.why = "fallback", e = j.row, j.text = events[e].text,
             j.do \in {"text", "answer"}, j.pc # "queued", Hand(n) = {}, UNCHANGED sessions,
             NEW m \in events[e].text
      PROVE  /\ \A c \in Chats : m \notin sessions'[c].text
             /\ \A u \in Turns : m \in Hand(job'[u]) => job'[u].why = "offer"
    <2>1. j.do = "text" /\ m = j.arg
        BY <1>3, <1>9 DEF CallFits
    <2>2. \A c \in Chats : m \notin sessions'[c].text
        BY <1>3, <1>9, <2>1 DEF ApartFits
    <2>3. m \in Hand(j)
        BY <2>1 DEF Hand
    <2>4. \A u \in Turns \ {t} : m \notin Hand(job'[u])
        BY <1>2, <2>3, OneHolder
    <2> QED BY <1>9, <2>2, <2>4
<1>10. ASSUME NEW e \in DOMAIN events', Offered(e)', NEW m \in events'[e].text
       PROVE  /\ \A c \in Chats : m \notin sessions'[c].text
              /\ \A u \in Turns : m \in Hand(job'[u]) => job'[u].why = "offer"
    <2>1. CASE Offered(e)
        <3>1. e \in DOMAIN events
            BY <1>4, <2>1
        <3>2. m \in events[e].text
            BY <1>1, <1>10, <3>1 DEF RowsMove
        <3> QED BY <1>8, <2>1, <3>1, <3>2
    <2>2. CASE ~ Offered(e)
        <3>1. /\ j.why = "fallback" /\ e = j.row /\ j.text = events[e].text
              /\ j.do \in {"text", "answer"} /\ j.pc # "queued"
              /\ e \in DOMAIN events /\ Hand(n) = {} /\ UNCHANGED sessions
            BY <1>1, <1>10, <2>2 DEF OffersMove
        <3>2. m \in events[e].text
            BY <1>1, <1>10, <3>1 DEF RowsMove
        <3> QED BY <1>9, <3>1, <3>2
    <2> QED BY <2>1, <2>2
<1> QED BY <1>6, <1>7, <1>10 DEF Offers, Hand

\* A step brings no message back: what is alive after it was so before, or is new.
LEMMA NoneRevives ==
    ASSUME ConvInv, OnceInv, NEW t \in Turns, Acts(t), Carries(t), NEW m, Alive(m)'
    PROVE  Alive(m) \/ m \notin sent
<1> DEFINE j == job[t]
           n == job'[t]
<1>1. RowsMove(j, n) /\ SaysMove(j, n) /\ TextsMove(j, n) /\ OffersMove(j, n)
    BY DEF Carries
<1>2. Voiced /\ Homed /\ Offers /\ \A u \in Turns \ {t} : job'[u] = job[u]
    BY DEF OnceInv, Acts, JobMoves
<1>3. m \in Hand(j) => Alive(m)
    BY DEF Alive
<1>4. j.text \subseteq Hand(j) /\ Called(j) \subseteq Hand(j) /\ OfferFits(j)
    BY <1>2 DEF Hand, Called, Offers
<1>5. CASE \E c \in Chats : m \in sessions'[c].text
    <2>1. PICK c \in Chats : m \in sessions'[c].text
        BY <1>5
    <2>2. m \in sessions[c].text \/ m \in j.text
        BY <1>1, <2>1 DEF TextsMove
    <2> QED BY <1>3, <1>4, <2>2 DEF Alive
<1>6. CASE m \in n.text
    <2>1. CASE \/ m \in j.text \/ m \in Called(j)
               \/ j.chat \in Chats /\ m \in sessions[j.chat].text
        BY <1>3, <1>4, <2>1 DEF Alive
    <2>2. CASE n.why = "offer" /\ n.text # j.text
        <3>1. /\ n.text = events[n.arg].text /\ ~ events[n.arg].executed /\ UNCHANGED events
              /\ j.do = "offer" /\ j.arg = n.arg
            BY <1>1, <2>2 DEF OffersMove
        <3>2. Offered(n.arg)
            BY <1>4, <3>1 DEF OfferFits
        <3>3. n.arg \in DOMAIN events
            BY <1>2, <3>2, SaidFacts
        <3> QED BY <1>6, <3>1, <3>2, <3>3 DEF Alive
    <2> QED BY <1>1, <1>6, <2>1, <2>2 DEF TextsMove
<1>7. CASE n.do = "text" /\ m = n.arg
    <2>1. m \notin sent \/ (j.do = "text" /\ j.arg = m)
        BY <1>1, <1>7 DEF SaysMove
    <2> QED BY <1>3, <2>1 DEF Hand
<1>8. ASSUME NEW u \in Turns, m \in Hand(job'[u])
      PROVE  Alive(m) \/ m \notin sent
    <2>1. CASE u = t
        BY <1>6, <1>7, <1>8, <2>1 DEF Hand
    <2>2. CASE u # t
        BY <1>2, <1>8, <2>2 DEF Alive
    <2> QED BY <2>1, <2>2
<1>9. ASSUME NEW e \in DOMAIN events', Offered(e)', ~ events'[e].executed, m \in events'[e].text
      PROVE  Alive(m)
    <2>1. CASE Offered(e)
        <3>1. e \in DOMAIN events
            BY <1>2, <2>1, SaidFacts
        <3>2. m \in events[e].text /\ ~ events[e].executed
            BY <1>1, <1>9, <3>1 DEF RowsMove
        <3> QED BY <2>1, <3>1, <3>2 DEF Alive
    <2>2. CASE ~ Offered(e)
        <3>1. j.text = events[e].text /\ e \in DOMAIN events
            BY <1>1, <1>9, <2>2 DEF OffersMove
        <3>2. m \in j.text
            BY <1>1, <1>9, <3>1 DEF RowsMove
        <3> QED BY <1>3, <1>4, <3>2
    <2> QED BY <2>1, <2>2
<1> QED BY <1>5, <1>8, <1>9 DEF Alive, Hand

\* A message whose write was answered is in no question, no other hand and no open offer.
LEMMA AnsweredIsOver ==
    ASSUME ConvInv, OnceInv, NEW t \in Turns, Acts(t), Carries(t), NEW m \in job[t].text,
           \A e \in DOMAIN events' : Offered(e)' => Offered(e),
           m \notin sessions'[job[t].chat].text, m \notin Hand(job'[t]),
           job[t].why = "offer" => events'[job[t].arg].executed
    PROVE  ~ Alive(m)'
<1> DEFINE j == job[t]
           n == job'[t]
<1>1. RowsMove(j, n) /\ TextsMove(j, n)
    BY DEF Carries
<1>2. Voiced /\ Homed /\ Offers /\ \A u \in Turns \ {t} : job'[u] = job[u]
    BY DEF OnceInv, Acts, JobMoves
<1>3. m \in Hand(j) /\ From(m, j.chat)
    BY <1>2 DEF Hand, Homed
<1>4. ASSUME NEW c \in Chats
      PROVE  m \notin sessions'[c].text
    <2>1. CASE c = j.chat
        BY <2>1
    <2>2. CASE c # j.chat
        <3>1. m \notin sessions[c].text
            BY <1>2, <1>3, <2>2, OneHome DEF Homed
        <3> QED BY <1>1, <2>2, <3>1 DEF TextsMove
    <2> QED BY <2>1, <2>2
<1>5. \A u \in Turns : m \notin Hand(job'[u])
    BY <1>2, <1>3, OneHolder
<1>6. ASSUME NEW e \in DOMAIN events', Offered(e)', m \in events'[e].text
      PROVE  events'[e].executed
    <2>1. Offered(e) /\ e \in DOMAIN events
        BY <1>2, <1>6, SaidFacts
    <2>2. m \in events[e].text
        BY <1>1, <1>6, <2>1 DEF RowsMove
    <2>3. j.why = "offer"
        BY <1>2, <1>3, <2>1, <2>2 DEF Offers
    <2>4. j.arg \in DOMAIN events
        BY <2>3 DEF ConvInv, Jobs, Fits, Meant, Named
    <2>5. m \in events[j.arg].text
        BY <1>2, <2>3 DEF Offers, OfferFits
    <2>6. j.arg = e
        BY <1>2, <2>1, <2>2, <2>4, <2>5 DEF Voiced
    <2> QED BY <2>3, <2>6
<1> QED BY <1>4, <1>5, <1>6 DEF Alive, Hand

LEMMA SpentFacts ==
    ASSUME ConvInv, Spent, NEW m \in Messages \ doubled
    PROVE  /\ crashes \in Nat /\ lost \in Nat /\ landed[m] \in Nat
           /\ landed[m] <= crashes + lost + 1
           /\ Alive(m) /\ ~ Spending(m) => landed[m] <= crashes + lost
<1>1. crashes \in Nat /\ lost \in Nat /\ landed[m] \in Nat
    BY DEF ConvInv, Typed
<1>2. landed[m] <= crashes + lost + (IF Alive(m) /\ ~ Spending(m) THEN 0 ELSE 1)
    BY DEF Spent
<1>3. CASE Alive(m) /\ ~ Spending(m)
    BY <1>1, <1>2, <1>3
<1>4. CASE ~ (Alive(m) /\ ~ Spending(m))
    BY <1>1, <1>2, <1>4
<1> QED BY <1>1, <1>3, <1>4

LEMMA CarriesKeepSpent ==
    ASSUME ConvInv, OnceInv, NEW t \in Turns, Acts(t), Carries(t)
    PROVE  Spent'
<1> DEFINE j == job[t]
           n == job'[t]
<1>1. PaysFor(j, n) /\ Voiced /\ Homed /\ Spent
    BY DEF Carries, OnceInv
<1>2. \A u \in Turns \ {t} : job'[u] = job[u]
    BY DEF Acts, JobMoves
<1> SUFFICES ASSUME NEW m \in Messages \ doubled'
             PROVE  landed'[m] <= crashes' + lost' + (IF Alive(m)' /\ ~ Spending(m)' THEN 0 ELSE 1)
    BY DEF Spent
<1>3. /\ m \in Messages \ doubled /\ crashes' = crashes
      /\ crashes \in Nat /\ lost \in Nat /\ landed[m] \in Nat
      /\ landed[m] <= crashes + lost + 1
      /\ Alive(m) /\ ~ Spending(m) => landed[m] <= crashes + lost
    BY <1>1, SpentFacts DEF PaysFor
<1>4. m \notin sent => landed[m] = 0
    BY <1>3 DEF OnceInv, Voiced
<1>5. Alive(m)' => Alive(m) \/ m \notin sent
    BY NoneRevives
\* Who spends it, but for t, does so before and after.
<1>6. ASSUME (SpentBy(j) /\ m \in j.text) <=> (SpentBy(n) /\ m \in n.text)
      PROVE  Spending(m)' <=> Spending(m)
    BY <1>2, <1>6 DEF Spending, SpentBy
<1>7. ASSUME landed'[m] = landed[m], lost' = lost, Spending(m)' <=> Spending(m)
      PROVE  landed'[m] <= crashes' + lost' + (IF Alive(m)' /\ ~ Spending(m)' THEN 0 ELSE 1)
    <2>1. CASE Alive(m)' /\ ~ Spending(m)'
        <3>1. landed[m] <= crashes + lost
            <4>1. CASE Alive(m)
                BY <1>3, <1>7, <2>1, <4>1
            <4>2. CASE m \notin sent
                BY <1>3, <1>4, <4>2
            <4> QED BY <1>5, <2>1, <4>1, <4>2
        <3> QED BY <1>3, <1>7, <2>1, <3>1
    <2>2. CASE ~ (Alive(m)' /\ ~ Spending(m)')
        BY <1>3, <1>7, <2>2
    <2> QED BY <2>1, <2>2
<1>8. CASE landed' = landed /\ lost' = lost + 1
    <2>1. landed'[m] <= crashes' + lost'
        BY <1>3, <1>8
    <2>2. crashes' + lost' \in Nat /\ landed'[m] \in Nat
        BY <1>3, <1>8
    <2>3. CASE Alive(m)' /\ ~ Spending(m)'
        BY <2>1, <2>2, <2>3
    <2>4. CASE ~ (Alive(m)' /\ ~ Spending(m)')
        BY <2>1, <2>2, <2>4
    <2> QED BY <2>3, <2>4
<1>9. CASE landed' = landed /\ lost' = lost /\ ~ SpentBy(j) /\ ~ SpentBy(n)
    BY <1>6, <1>7, <1>9
<1>10. CASE /\ landed' = landed /\ lost' = lost /\ SpentBy(j) /\ ~ SpentBy(n)
            /\ \A e \in DOMAIN events' : Offered(e)' => Offered(e)
            /\ \A a \in j.text : \/ a \in doubled'
                                 \/ /\ a \notin sessions'[j.chat].text /\ a \notin Hand(n)
                                    /\ j.why = "offer" => events'[j.arg].executed
    <2>1. CASE m \notin j.text
        BY <1>6, <1>7, <1>10, <2>1
    <2>2. CASE m \in j.text
        <3>1. /\ m \notin sessions'[j.chat].text /\ m \notin Hand(n)
              /\ j.why = "offer" => events'[j.arg].executed
            BY <1>10, <2>2
        <3>2. ~ Alive(m)'
            BY <1>10, <2>2, <3>1, AnsweredIsOver
        <3> QED BY <1>3, <1>10, <3>2
    <2> QED BY <2>1, <2>2
<1>11. CASE /\ lost' = lost /\ j.pc = "write" /\ n.text = j.text
            /\ \A a \in Messages :
                    landed'[a] = landed[a] + (IF SpentBy(n) /\ a \in j.text THEN 1 ELSE 0)
    <2>1. ~ SpentBy(j)
        BY <1>11 DEF SpentBy
    <2>2. CASE ~ (SpentBy(n) /\ m \in j.text)
        <3>1. landed'[m] = landed[m]
            BY <1>3, <1>11, <2>2
        <3>2. Spending(m)' <=> Spending(m)
            BY <1>6, <1>11, <2>1, <2>2
        <3> QED BY <1>7, <1>11, <3>1, <3>2
    <2>3. CASE SpentBy(n) /\ m \in j.text
        <3>1. m \in Hand(j) /\ Alive(m)
            BY <2>3 DEF Hand, Alive
        <3>2. ~ Spending(m)
            <4> SUFFICES ASSUME NEW u \in Turns, SpentBy(job[u]), m \in job[u].text PROVE FALSE
                BY DEF Spending
            <4>1. m \in Hand(job[u])
                BY DEF Hand
            <4> QED BY <1>1, <2>1, <3>1, <4>1, OneHolder
        <3>3. Spending(m)'
            BY <1>11, <2>3 DEF Spending, SpentBy
        <3>4. landed[m] <= crashes + lost /\ landed'[m] = landed[m] + 1
            BY <1>3, <1>11, <2>3, <3>1, <3>2
        <3> QED BY <1>3, <1>11, <3>3, <3>4
    <2> QED BY <2>2, <2>3
<1> QED BY <1>1, <1>8, <1>9, <1>10, <1>11 DEF PaysFor

----------------------------------------------------------------------------
(* The steps within a chat carry their texts so. *)

\* The turn goes on with what it was called for.
Same(j, n) == n.do = j.do /\ n.arg = j.arg /\ n.row = j.row /\ n.chat = j.chat

LEMMA FieldFacts ==
    ASSUME Typed, NEW t \in Turns
    PROVE  /\ \A why, text : ToInbox(t, why, text) =>
                /\ Same(job[t], job'[t]) /\ job'[t].pc = "inbox"
                /\ job'[t].why = why /\ job'[t].text = text
           /\ \A pc : Goto(t, pc) =>
                /\ Same(job[t], job'[t]) /\ job'[t].pc = pc
                /\ job'[t].why = job[t].why /\ job'[t].text = job[t].text
           /\ Done(t) => /\ job'[t].pc = "done" /\ job'[t].do = "" /\ job'[t].why = ""
                         /\ job'[t].text = {} /\ job'[t].chat = job[t].chat
           /\ GoOn(t) => /\ Same(job[t], job'[t]) /\ job'[t].pc = "read"
                         /\ job'[t].why = "" /\ job'[t].text = {job[t].arg}
<1>1. job \in [Turns -> JobRec]
    BY DEF Typed
<1>2. ASSUME NEW why, NEW text, ToInbox(t, why, text)
      PROVE  /\ Same(job[t], job'[t]) /\ job'[t].pc = "inbox"
             /\ job'[t].why = why /\ job'[t].text = text
    BY ZenonT(60), <1>1, <1>2 DEF ToInbox, JobRec, Same
<1>3. ASSUME NEW pc, Goto(t, pc)
      PROVE  /\ Same(job[t], job'[t]) /\ job'[t].pc = pc
             /\ job'[t].why = job[t].why /\ job'[t].text = job[t].text
    BY ZenonT(60), <1>1, <1>3 DEF Goto, JobRec, Same
<1>4. ASSUME Done(t)
      PROVE  /\ job'[t].pc = "done" /\ job'[t].do = "" /\ job'[t].why = ""
             /\ job'[t].text = {} /\ job'[t].chat = job[t].chat
    <2>1. job'[t] = Over(t)
        BY <1>1, <1>4 DEF Done
    <2> QED BY <2>1 DEF Over, Idle
<1>5. ASSUME GoOn(t)
      PROVE  /\ Same(job[t], job'[t]) /\ job'[t].pc = "read"
             /\ job'[t].why = "" /\ job'[t].text = {job[t].arg}
    BY ZenonT(60), <1>1, <1>5 DEF GoOn, JobRec, Same
<1> QED BY <1>2, <1>3, <1>4, <1>5

\* The offers on screen are those there were.
OffersStay == \A e : Offered(e)' <=> Offered(e)

LEMMA OffersAreLeft ==
    ASSUME Typed, NEW c \in Chats,
           \/ UNCHANGED shown
           \/ \E q : Show(c, {Answer(q)})
           \/ \E x : Show(c, {Undo(x)})
    PROVE  OffersStay
<1>1. DOMAIN shown = Chats
    BY DEF Typed
<1>2. \A e, q : Offer(e) # Answer(q) /\ Offer(e) # Undo(q)
    BY DEF Offer, Answer, Undo
<1>3. \A e : \A d \in Chats : Offer(e) \in shown'[d] <=> Offer(e) \in shown[d]
    BY <1>1, <1>2 DEF Show
<1> QED BY <1>3 DEF OffersStay, Offered

\* A turn past its lock that is called for what it was, or for nothing any more.
LEMMA CallStays ==
    ASSUME ConvInv, NEW t \in Turns, NEW c \in Chats, Within(t, c),
           DOMAIN events' = DOMAIN events, UNCHANGED sent,
           job'[t].do \in {"text", "answer", "offer"} =>
                Same(job[t], job'[t]) /\ job'[t].pc # "queued"
    PROVE  SaysMove(job[t], job'[t])
<1>1. job[t].pc # "queued"
    BY WithinFacts DEF Busy, Talking, Saving, Empty
<1> QED BY <1>1 DEF SaysMove, Same

\* A step without a write on either side, in a chat, that makes no offer.
LEMMA CalmCarries ==
    ASSUME ConvInv, NEW t \in Turns, NEW c \in Chats, Within(t, c), Acts(t), OffersStay,
           UNCHANGED <<events, sent, landed, lost, doubled>>,
           job[t].pc # "written", job'[t].pc # "written",
           job'[t].do \in {"text", "answer", "offer"} =>
                Same(job[t], job'[t]) /\ job'[t].pc # "queued",
           TextsMove(job[t], job'[t]),
           job'[t].why = "offer" =>
                \/ job[t].why = "offer" /\ job'[t].text = job[t].text
                \/ /\ job'[t].text = events[job'[t].arg].text /\ job[t].do = "offer"
                   /\ events[job'[t].arg].chat = c /\ ~ events[job'[t].arg].executed,
           job[t].why = "offer" => UNCHANGED sessions /\ (job'[t].why = "offer" \/ Hand(job'[t]) = {})
    PROVE  Carries(t)
<1> DEFINE j == job[t]
           n == job'[t]
<1>1. j.pc # "queued" /\ j.chat = c /\ crashes' = crashes
    BY WithinFacts DEF Busy, Talking, Saving, Empty, Within, Acts, WorldMoves
<1>2. n.why = "offer" => n.do = "offer"
    BY DEF Acts, JobMoves, Fits, Meant
<1>3. RowsMove(j, n) /\ SaysMove(j, n)
    BY CallStays DEF RowsMove
<1>4. OffersMove(j, n)
    BY <1>1, <1>2 DEF OffersMove, OffersStay, Same
<1>5. PaysFor(j, n)
    BY <1>1 DEF PaysFor, SpentBy
<1> QED BY <1>3, <1>4, <1>5 DEF Carries

\* What the texts of a step come from: the turn's hand, its question or its call.
LEMMA TextsFrom ==
    ASSUME ConvInv, NEW t \in Turns, NEW c \in Chats, Within(t, c), job'[t].chat = c,
           UNCHANGED sessions \/ Drop(c),
           job'[t].text \subseteq job[t].text \cup sessions[c].text \cup Called(job[t]),
           job'[t].why = "expired" => \/ /\ job[t].why = "expired" /\ job'[t].text = job[t].text
                                         /\ job'[t].arg = job[t].arg
                                      \/ /\ job'[t].text = sessions[c].text
                                         /\ job[t].do = "text" /\ job'[t].arg = job[t].arg,
           job'[t].why \in {"execute", "sweep"} =>
                Drop(c) \/ job[t].why = job'[t].why
    PROVE  TextsMove(job[t], job'[t])
<1> DEFINE j == job[t]
           n == job'[t]
<1>1. j.pc # "queued" /\ j.chat = c /\ DOMAIN sessions = Chats
    BY WithinFacts DEF Busy, Talking, Saving, Empty, Within, Typed
<1>2. \A d \in Chats : sessions'[d] = sessions[d] \/ sessions'[d] = None
    BY <1>1 DEF Drop
<1>3. \A d \in Chats : sessions'[d].text \subseteq sessions[d].text
    BY <1>2, NoneIsQuestion
<1>4. Drop(c) => sessions'[c].text = {}
    BY <1>1, NoneIsQuestion DEF Drop
<1>5. n.why \in {"execute", "sweep"} =>
        \/ sessions'[n.chat].text = {}
        \/ j.why = n.why /\ j.chat = n.chat /\ UNCHANGED sessions
    BY <1>1, <1>4
<1>6. \/ n.text = {}
      \/ /\ n.chat = j.chat /\ j.chat \in Chats
         /\ n.text \subseteq j.text \cup sessions[j.chat].text \cup
                                    (IF j.pc = "queued" THEN {} ELSE Called(j))
    BY <1>1
<1>7. n.why = "expired" => \/ j.why = "expired" /\ n.text = j.text /\ n.arg = j.arg
                           \/ n.text = sessions[j.chat].text /\ j.do = "text" /\ n.arg = j.arg
                              /\ j.chat \in Chats
    BY <1>1
<1> QED BY <1>3, <1>5, <1>6, <1>7 DEF TextsMove

\* A turn that is over, its question left alone, dropped or asked with what it had in hand.
LEMMA DoneCarries ==
    ASSUME ConvInv, NEW t \in Turns, NEW c \in Chats, Within(t, c), Acts(t), Done(t), OffersStay,
           UNCHANGED <<events, sent, landed, lost, doubled>>, job[t].pc # "written",
           \/ UNCHANGED sessions
           \/ job[t].why # "offer" /\
              \E q : sessions' = [sessions EXCEPT ![c] = q] /\ q.text \subseteq job[t].text
    PROVE  Carries(t)
<1> DEFINE j == job[t]
           n == job'[t]
<1>1. n.pc = "done" /\ n.do = "" /\ n.why = "" /\ n.text = {}
    BY FieldFacts DEF ConvInv
<1>2. j.chat = c /\ DOMAIN sessions = Chats
    BY WithinFacts DEF Typed, Within
<1>3. \A d \in Chats : sessions'[d].text \subseteq
            sessions[d].text \cup (IF d = j.chat THEN j.text ELSE {})
    <2>1. CASE UNCHANGED sessions
        BY <2>1
    <2>2. ASSUME NEW q, sessions' = [sessions EXCEPT ![c] = q], q.text \subseteq j.text
          PROVE  \A d \in Chats : sessions'[d].text \subseteq
                    sessions[d].text \cup (IF d = j.chat THEN j.text ELSE {})
        <3>1. sessions'[c] = q /\ \A d \in Chats \ {c} : sessions'[d] = sessions[d]
            BY <1>2, <2>2
        <3> QED BY <1>2, <2>2, <3>1
    <2> QED BY <2>1, <2>2
<1>4. TextsMove(j, n)
    BY <1>1, <1>3 DEF TextsMove
<1>5. Hand(n) = {}
    BY <1>1 DEF Hand
<1> QED BY <1>1, <1>4, <1>5, CalmCarries

\* A turn that sends on what it has, to the inbox or past an await, from variables j to n.
SendsOn(j, n, c) ==
    /\ UNCHANGED <<events, sent, landed, lost, doubled>>
    /\ UNCHANGED sessions \/ (Drop(c) /\ j.why # "offer")
    /\ j.pc # "written" /\ n.pc \notin {"written", "queued"} /\ Same(j, n)
    /\ n.text \subseteq j.text \cup sessions[c].text \cup Called(j)
    /\ \/ n.why = j.why /\ n.text = j.text
       \/ /\ j.why # "offer"
          /\ \/ n.why \in {"", "fallback", "button"}
             \/ n.why = "execute" /\ Drop(c)
             \/ n.why = "expired" /\ j.do = "text" /\ n.text = sessions[c].text

LEMMA OnwardCarries ==
    ASSUME ConvInv, NEW t \in Turns, NEW c \in Chats, Within(t, c), Acts(t), OffersStay,
           SendsOn(job[t], job'[t], c)
    PROVE  Carries(t)
<1> DEFINE j == job[t]
           n == job'[t]
<1>1. n.chat = c /\ n.do = j.do /\ n.arg = j.arg
    BY DEF Same, Within, SendsOn
<1>2. /\ UNCHANGED <<events, sent, landed, lost, doubled>>
      /\ UNCHANGED sessions \/ Drop(c)
      /\ j.pc # "written" /\ n.pc # "written" /\ n.pc # "queued" /\ Same(j, n)
      /\ n.text \subseteq j.text \cup sessions[c].text \cup Called(j)
    BY DEF SendsOn
<1>3. TextsMove(j, n)
    <2>1. n.why = "expired" => \/ j.why = "expired" /\ n.text = j.text /\ n.arg = j.arg
                               \/ n.text = sessions[c].text /\ j.do = "text" /\ n.arg = j.arg
        BY <1>1 DEF SendsOn
    <2>2. n.why \in {"execute", "sweep"} => Drop(c) \/ j.why = n.why
        BY DEF SendsOn
    <2> QED BY <1>1, <1>2, <2>1, <2>2, TextsFrom
<1>4. n.why = "offer" => j.why = "offer" /\ n.text = j.text
    BY DEF SendsOn
<1>5. j.why = "offer" => UNCHANGED sessions /\ n.why = "offer"
    BY DEF SendsOn
<1> QED BY <1>2, <1>3, <1>4, <1>5, CalmCarries

LEMMA TextCarries ==
    ASSUME ConvInv, NEW t \in Turns, NEW c \in Chats, TextStep(t, c)
    PROVE  Carries(t)
<1>1. /\ Acts(t) /\ Typed /\ Within(t, c) /\ job[t].pc \in {"begun", "read"}
      /\ UNCHANGED <<events, sent, landed, lost, doubled, shown>>
    BY TextActs
       DEF ConvInv, TextStep, TextDiscoveryFails, TextDiscovers, ReadFails, At, Frame, store, ghosts
<1>2. OffersStay
    BY <1>1, OffersAreLeft
<1>3. job[t].why = "" /\ job[t].chat = c
    BY <1>1, HandlerFacts DEF Talking, Within
<1>4. CASE TextDiscoveryFails(t, c)
    <2>1. Done(t) /\ UNCHANGED sessions
        BY <1>4 DEF TextDiscoveryFails, store
    <2> QED BY <1>1, <1>2, <2>1, DoneCarries
<1>5. CASE TextDiscovers(t, c)
    <2>1. job[t].do = "text"
        BY <1>5 DEF TextDiscovers
    <2>2. CASE Drop(c) /\ ToInbox(t, "expired", sessions[c].text)
        <3>1. /\ Same(job[t], job'[t]) /\ job'[t].pc = "inbox"
              /\ job'[t].why = "expired" /\ job'[t].text = sessions[c].text
            BY <1>1, <2>2, FieldFacts
        <3>2. SendsOn(job[t], job'[t], c)
            BY <1>1, <1>3, <2>1, <2>2, <3>1 DEF SendsOn
        <3> QED BY <1>1, <1>2, <3>2, OnwardCarries
    <2>3. CASE /\ UNCHANGED sessions
               /\ job' = [job EXCEPT ![t].pc = "read", ![t].session = sessions[c],
                                     ![t].text = {job[t].arg} \cup sessions[c].text]
        <3>1. /\ Same(job[t], job'[t]) /\ job'[t].pc = "read" /\ job'[t].why = job[t].why
              /\ job'[t].text = {job[t].arg} \cup sessions[c].text
            BY ZenonT(60), <1>1, <2>3 DEF Typed, JobRec, Same
        <3>2. job'[t].text \subseteq job[t].text \cup sessions[c].text \cup Called(job[t])
            BY <2>1, <3>1 DEF Called
        <3>3. SendsOn(job[t], job'[t], c)
            BY <1>1, <1>3, <2>3, <3>1, <3>2 DEF SendsOn
        <3> QED BY <1>1, <1>2, <3>3, OnwardCarries
    <2> QED BY <1>5, <2>2, <2>3 DEF TextDiscovers
<1>6. CASE ReadFails(t, c)
    <2>1. ToInbox(t, "fallback", job[t].text) /\ UNCHANGED sessions
        BY <1>6 DEF ReadFails, store
    <2>2. /\ Same(job[t], job'[t]) /\ job'[t].pc = "inbox"
          /\ job'[t].why = "fallback" /\ job'[t].text = job[t].text
        BY <1>1, <2>1, FieldFacts
    <2>3. SendsOn(job[t], job'[t], c)
        BY <1>1, <1>3, <2>1, <2>2 DEF SendsOn
    <2> QED BY <1>1, <1>2, <2>3, OnwardCarries
<1> QED BY <1>4, <1>5, <1>6 DEF TextStep

LEMMA DispatchCarries ==
    ASSUME ConvInv, NEW t \in Turns, NEW c \in Chats, DispatchStep(t, c)
    PROVE  Carries(t)
<1>1. /\ Acts(t) /\ Typed /\ Within(t, c) /\ job[t].pc \in Talking
      /\ UNCHANGED <<events, sent, landed, lost, doubled>>
    BY DispatchActs
       DEF ConvInv, DispatchStep, DispatchExecute, DispatchAsk, DispatchReject, DispatchResearch,
           ResearchFails, Understood, At, Frame, store, ghosts, Talking
<1>2. OffersStay
    <2>1. UNCHANGED shown \/ Show(c, {Answer(job[t].row)})
        BY DEF DispatchStep, DispatchExecute, DispatchAsk, DispatchReject, DispatchResearch,
               ResearchFails
    <2> QED BY <1>1, <2>1, OffersAreLeft
<1>3. job[t].why = "" /\ job[t].pc # "written" /\ job \in [Turns -> JobRec]
    BY <1>1, HandlerFacts DEF Talking, Typed
<1>4. CASE DispatchExecute(t, c)
    <2>1. Drop(c) /\ job' = [job EXCEPT ![t].pc = "write", ![t].why = "execute"]
        BY <1>4 DEF DispatchExecute
    <2>2. /\ Same(job[t], job'[t]) /\ job'[t].pc = "write" /\ job'[t].why = "execute"
          /\ job'[t].text = job[t].text
        BY ZenonT(60), <1>3, <2>1 DEF JobRec, Same
    <2>3. SendsOn(job[t], job'[t], c)
        BY <1>1, <1>3, <2>1, <2>2 DEF SendsOn
    <2> QED BY <1>1, <1>2, <2>3, OnwardCarries
<1>5. CASE DispatchAsk(t, c)
    <2> DEFINE q == [token |-> job[t].row, text |-> job[t].text, asked |-> Asked(t),
                     expires |-> job[t].now + SESSION_TTL]
    <2>1. sessions' = [sessions EXCEPT ![c] = q] /\ q.text = job[t].text /\ Done(t)
        BY <1>5 DEF DispatchAsk
    <2> HIDE DEF q
    <2> QED BY <1>1, <1>2, <1>3, <2>1, DoneCarries
<1>6. CASE DispatchReject(t, c)
    <2>1. Drop(c) /\ ToInbox(t, "fallback", job[t].text)
        BY <1>6 DEF DispatchReject
    <2>2. /\ Same(job[t], job'[t]) /\ job'[t].pc = "inbox"
          /\ job'[t].why = "fallback" /\ job'[t].text = job[t].text
        BY <1>1, <2>1, FieldFacts
    <2>3. SendsOn(job[t], job'[t], c)
        BY <1>1, <1>3, <2>1, <2>2 DEF SendsOn
    <2> QED BY <1>1, <1>2, <2>3, OnwardCarries
<1>7. CASE DispatchResearch(t, c)
    <2>1. Goto(t, "researched") /\ UNCHANGED sessions
        BY <1>7 DEF DispatchResearch, store
    <2>2. /\ Same(job[t], job'[t]) /\ job'[t].pc = "researched"
          /\ job'[t].why = job[t].why /\ job'[t].text = job[t].text
        BY <1>1, <2>1, FieldFacts
    <2>3. SendsOn(job[t], job'[t], c)
        BY <1>1, <1>3, <2>1, <2>2 DEF SendsOn
    <2> QED BY <1>1, <1>2, <2>3, OnwardCarries
<1>8. CASE ResearchFails(t, c)
    <2>1. ToInbox(t, "fallback", job[t].text) /\ UNCHANGED sessions
        BY <1>8 DEF ResearchFails, store
    <2>2. /\ Same(job[t], job'[t]) /\ job'[t].pc = "inbox"
          /\ job'[t].why = "fallback" /\ job'[t].text = job[t].text
        BY <1>1, <2>1, FieldFacts
    <2>3. SendsOn(job[t], job'[t], c)
        BY <1>1, <1>3, <2>1, <2>2 DEF SendsOn
    <2> QED BY <1>1, <1>2, <2>3, OnwardCarries
<1> QED BY <1>4, <1>5, <1>6, <1>7, <1>8 DEF DispatchStep

LEMMA CallbackCarries ==
    ASSUME ConvInv, NEW t \in Turns, NEW c \in Chats, CallbackStep(t, c)
    PROVE  Carries(t)
<1>1. /\ Acts(t) /\ Typed /\ Within(t, c) /\ job[t].pc \in {"begun", "resume"}
      /\ UNCHANGED <<events, sent, landed, lost, doubled, shown>>
    BY CallbackActs
       DEF ConvInv, CallbackStep, AnswerStale, AnswerCancel, AnswerFreeText, AnswerTaken, Answers,
           ResumeDiscoveryFails, CancelCommand, OfferTaken, Quiet, At, Frame
<1>2. OffersStay
    BY <1>1, OffersAreLeft
<1>3. job[t].why = "" /\ job[t].chat = c /\ job \in [Turns -> JobRec]
    BY <1>1, HandlerFacts DEF Talking, Within, Typed
<1>4. Drop(c) => \E q : sessions' = [sessions EXCEPT ![c] = q] /\ q.text \subseteq job[t].text
    BY NoneIsQuestion DEF Drop
<1>5. ASSUME Done(t), UNCHANGED sessions \/ Drop(c)
      PROVE  Carries(t)
    BY <1>1, <1>2, <1>3, <1>4, <1>5, DoneCarries
<1>6. CASE AnswerStale(t, c)
    BY <1>5, <1>6 DEF AnswerStale
<1>7. CASE AnswerCancel(t, c)
    BY <1>5, <1>7 DEF AnswerCancel
<1>8. CASE AnswerFreeText(t, c)
    BY <1>5, <1>8 DEF AnswerFreeText
<1>9. CASE AnswerTaken(t, c)
    <2>1. UNCHANGED sessions
        BY <1>9 DEF AnswerTaken
    <2>2. CASE job' = [job EXCEPT ![t].pc = "resume", ![t].session = sessions[c],
                                  ![t].text = sessions[c].text]
        <3>1. /\ Same(job[t], job'[t]) /\ job'[t].pc = "resume" /\ job'[t].why = job[t].why
              /\ job'[t].text = sessions[c].text
            BY ZenonT(60), <1>3, <2>2 DEF JobRec, Same
        <3>2. SendsOn(job[t], job'[t], c)
            BY <1>1, <1>3, <2>1, <3>1 DEF SendsOn
        <3> QED BY <1>1, <1>2, <3>2, OnwardCarries
    <2>3. CASE job' = [job EXCEPT ![t].pc = "inbox", ![t].why = "button",
                                  ![t].session = sessions[c], ![t].text = sessions[c].text]
        <3>1. /\ Same(job[t], job'[t]) /\ job'[t].pc = "inbox" /\ job'[t].why = "button"
              /\ job'[t].text = sessions[c].text
            BY ZenonT(60), <1>3, <2>3 DEF JobRec, Same
        <3>2. SendsOn(job[t], job'[t], c)
            BY <1>1, <1>3, <2>1, <3>1 DEF SendsOn
        <3> QED BY <1>1, <1>2, <3>2, OnwardCarries
    <2> QED BY <1>9, <2>2, <2>3 DEF AnswerTaken
<1>10. CASE ResumeDiscoveryFails(t, c)
    BY <1>5, <1>10 DEF ResumeDiscoveryFails
<1>11. CASE CancelCommand(t, c)
    BY <1>5, <1>11 DEF CancelCommand
<1>12. CASE OfferTaken(t, c)
    <2>1. UNCHANGED sessions /\ job[t].do = "offer"
        BY <1>12 DEF OfferTaken
    <2>2. CASE Done(t)
        BY <1>5, <2>1, <2>2
    <2>3. CASE /\ events[job[t].arg].chat = c /\ ~ events[job[t].arg].executed
               /\ ToInbox(t, "offer", events[job[t].arg].text)
        <3>1. /\ Same(job[t], job'[t]) /\ job'[t].pc = "inbox"
              /\ job'[t].why = "offer" /\ job'[t].text = events[job[t].arg].text
            BY <1>1, <2>3, FieldFacts
        <3>2. /\ job'[t].arg = job[t].arg /\ job'[t].chat = c /\ job'[t].do = "offer"
            BY <1>3, <2>1, <3>1 DEF Same
        <3>3. TextsMove(job[t], job'[t])
            BY <1>3, <2>1, <2>3, <3>1, <3>2 DEF TextsMove
        <3> QED BY <1>1, <1>2, <1>3, <2>1, <2>3, <3>1, <3>2, <3>3, CalmCarries
    <2> QED BY <1>12, <2>2, <2>3 DEF OfferTaken
<1> QED BY <1>6, <1>7, <1>8, <1>9, <1>10, <1>11, <1>12 DEF CallbackStep

\* What could not be saved is given out of hand, and offered if it is all of the turn's own row.
LEMMA UnsavedBears ==
    ASSUME ConvInv, NEW t \in Turns, NEW c \in Chats, Within(t, c), Acts(t),
           job[t].pc \in {"inbox", "written"}, NEW reported, Unsaved(t, c, reported),
           UNCHANGED <<sessions, events, sent>>
    PROVE  /\ RowsMove(job[t], job'[t]) /\ SaysMove(job[t], job'[t])
           /\ TextsMove(job[t], job'[t]) /\ OffersMove(job[t], job'[t])
           /\ ~ SpentBy(job'[t])
<1> DEFINE j == job[t]
           n == job'[t]
<1>1. Typed /\ j.chat = c /\ j.pc \in Saving
    BY DEF ConvInv, Within, Saving
<1>2. RowsMove(j, n)
    BY DEF RowsMove
<1>3. CASE j.why = "expired"
    <2>1. GoOn(t) /\ UNCHANGED shown
        BY <1>3 DEF Unsaved
    <2>2. Same(j, n) /\ n.pc = "read" /\ n.why = "" /\ n.text = {j.arg}
        BY <1>1, <2>1, FieldFacts
    <2>3. j.do = "text"
        BY <1>1, <1>3, SavingFacts
    <2>4. SaysMove(j, n)
        BY <2>2, CallStays
    <2>5. n.text \subseteq j.text \cup sessions[c].text \cup Called(j) /\ n.chat = c
        BY <1>1, <2>2, <2>3 DEF Called, Same
    <2>6. TextsMove(j, n)
        BY <2>2, <2>5, TextsFrom
    <2>7. OffersStay
        BY <1>1, <2>1, OffersAreLeft
    <2>8. OffersMove(j, n)
        BY <1>3, <2>2, <2>7 DEF OffersMove, OffersStay
    <2> QED BY <1>2, <2>2, <2>4, <2>6, <2>8 DEF SpentBy
<1>4. CASE j.why # "expired"
    <2>1. Done(t)
        BY <1>4 DEF Unsaved
    <2>2. n.pc = "done" /\ n.do = "" /\ n.why = "" /\ n.text = {} /\ Hand(n) = {}
        <3>1. n.pc = "done" /\ n.do = "" /\ n.why = "" /\ n.text = {}
            BY <1>1, <2>1, FieldFacts
        <3> QED BY <3>1 DEF Hand
    <2>3. SaysMove(j, n)
        BY <2>2, CallStays
    <2>4. TextsMove(j, n)
        BY <2>2 DEF TextsMove
    <2>5. CASE UNCHANGED shown
        <3>1. OffersStay
            BY <1>1, <2>5, OffersAreLeft
        <3>2. OffersMove(j, n)
            BY <2>2, <3>1 DEF OffersMove, OffersStay
        <3> QED BY <1>2, <2>2, <2>3, <2>4, <3>2 DEF SpentBy
    <2>6. CASE j.why = "fallback" /\ j.text = events[j.row].text /\ Show(c, {Offer(j.row)})
        <3>1. /\ j.row \in DOMAIN events /\ j.do \in {"text", "answer"} /\ j.pc # "queued"
            BY <1>1, <2>6, SavingFacts DEF Saving
        <3>2. \A e, q : Offer(e) = Offer(q) => e = q
            BY DEF Offer
        <3>3. DOMAIN shown = Chats
            BY <1>1 DEF Typed
        <3>4. \A e : \A d \in Chats : Offer(e) \in shown[d] => Offer(e) \in shown'[d]
            BY <2>6, <3>3 DEF Show
        <3>5. \A e : \A d \in Chats : Offer(e) \in shown'[d] => Offer(e) \in shown[d] \/ e = j.row
            BY <2>6, <3>2, <3>3 DEF Show
        <3>6. \A e : Offered(e) => Offered(e)'
            BY <3>4 DEF Offered
        <3>7. \A e : Offered(e)' => Offered(e) \/ e = j.row
            BY <3>5 DEF Offered
        <3>8. OffersMove(j, n)
            BY <2>2, <2>6, <3>1, <3>6, <3>7 DEF OffersMove
        <3> QED BY <1>2, <2>2, <2>3, <2>4, <3>8 DEF SpentBy
    <2> QED BY <2>5, <2>6 DEF Unsaved
<1> QED BY <1>3, <1>4

\* A write that was answered is the end of what it wrote, unless the inbox took it from a question.
LEMMA SucceedsCarries ==
    ASSUME ConvInv, OnceInv, NEW t \in Turns, NEW c \in Chats, WriteSucceeds(t, c), Acts(t)
    PROVE  Carries(t)
<1> DEFINE j == job[t]
           n == job'[t]
<1>1. /\ Within(t, c) /\ j.pc = "written" /\ j.applied
      /\ IF j.why \in {"sweep", "expired"} THEN UNCHANGED shown ELSE Show(c, {Undo(Len(executions) + 1)})
      /\ IF j.why = "button" THEN Drop(c) ELSE UNCHANGED sessions
      /\ events' = IF j.why = "offer" THEN [events EXCEPT ![j.arg].executed = TRUE] ELSE events
      /\ doubled' = IF j.why = "fallback" THEN doubled \cup (j.text \cap sessions[c].text) ELSE doubled
      /\ IF j.why = "expired" THEN GoOn(t) ELSE Done(t)
      /\ UNCHANGED <<sent, landed, lost>>
    BY DEF WriteSucceeds, At, Frame
<1>2. Typed /\ j.chat = c /\ j.pc \in Saving /\ SpentBy(j) /\ crashes' = crashes
    BY <1>1 DEF ConvInv, Within, Saving, SpentBy, Acts, WorldMoves
<1>3. /\ j.why \in {"execute", "fallback", "button", "offer", "expired", "sweep"}
      /\ j.why = "expired" => sessions[c] = None /\ j.do = "text"
      /\ j.why = "offer" => j.do = "offer" /\ j.arg \in DOMAIN events
    BY <1>1, <1>2, SavingFacts
<1>4. /\ DOMAIN events' = DOMAIN events
      /\ \A e \in DOMAIN events :
            /\ events'[e].text = events[e].text /\ events'[e].chat = events[e].chat
            /\ events[e].executed => events'[e].executed
            /\ events'[e].executed = events[e].executed \/ (j.why = "offer" /\ j.arg = e)
      /\ j.why = "offer" => events'[j.arg].executed
    <2>1. CASE j.why # "offer"
        BY <1>1, <2>1
    <2>2. CASE j.why = "offer"
        <3> DEFINE r == [events[j.arg] EXCEPT !.executed = TRUE]
        <3>1. \A e \in DOMAIN events : events[e] \in EventRec
            BY <1>2, EntryFacts DEF Typed
        <3>2. events[j.arg] \in EventRec
            BY <1>3, <2>2, <3>1
        <3>3. r.text = events[j.arg].text /\ r.chat = events[j.arg].chat /\ r.executed
            BY <3>2 DEF EventRec
        <3>4. events' = [events EXCEPT ![j.arg] = r]
            BY <1>1, <2>2
        <3> HIDE DEF r
        <3>5. DOMAIN events' = DOMAIN events
            BY <3>4
        <3>6. events'[j.arg] = r /\ \A e \in DOMAIN events \ {j.arg} : events'[e] = events[e]
            BY <1>3, <2>2, <3>4
        <3> QED BY <2>2, <3>3, <3>5, <3>6
    <2> QED BY <2>1, <2>2
<1>5. RowsMove(j, n)
    BY <1>4 DEF RowsMove
<1>6. OffersStay
    BY <1>1, <1>2, OffersAreLeft
<1>7. /\ n.why = "" /\ n.pc # "written" /\ n.pc # "queued"
      /\ j.why = "expired" => Same(j, n) /\ n.text = {j.arg} /\ n.do = "text"
      /\ j.why # "expired" => n.do = "" /\ Hand(n) = {} /\ n.text = {}
    <2>1. CASE GoOn(t) /\ j.why = "expired"
        <3>1. Same(j, n) /\ n.pc = "read" /\ n.why = "" /\ n.text = {j.arg}
            BY <1>2, <2>1, FieldFacts
        <3> QED BY <1>3, <2>1, <3>1 DEF Same
    <2>2. CASE Done(t) /\ j.why # "expired"
        <3>1. n.pc = "done" /\ n.do = "" /\ n.why = "" /\ n.text = {}
            BY <1>2, <2>2, FieldFacts
        <3> QED BY <2>2, <3>1 DEF Hand
    <2> QED BY <1>1, <2>1, <2>2
<1>8. SaysMove(j, n)
    BY <1>1, <1>4, <1>7, CallStays
<1>9. TextsMove(j, n)
    <2>1. n.chat = c
        BY <1>1, <1>2, FieldFacts DEF Same
    <2>2. n.text \subseteq j.text \cup sessions[c].text \cup Called(j)
        BY <1>3, <1>7 DEF Called
    <2>3. UNCHANGED sessions \/ Drop(c)
        BY <1>1
    <2> QED BY <1>1, <1>7, <2>1, <2>2, <2>3, TextsFrom
<1>10. OffersMove(j, n)
    <2>1. j.why = "offer" => UNCHANGED sessions /\ Hand(n) = {}
        BY <1>1, <1>7
    <2> QED BY <1>6, <1>7, <2>1 DEF OffersMove, OffersStay
\* In whatever question the chat has now, what was written is not, or counts as doubled.
<1>11. ASSUME NEW m \in j.text
       PROVE  m \in doubled' \/ (m \notin sessions'[c].text /\ m \notin Hand(n))
    <2>1. ApartFits(j) /\ Apart /\ Offers
        BY DEF OnceInv, Apart
    <2>2. CASE j.why = "fallback"
        BY <1>1, <1>7, <2>2
    <2>3. CASE j.why = "button"
        <3>1. sessions'[c] = None
            BY <1>1, <1>2, <2>3 DEF Drop, Typed
        <3> QED BY <1>7, <2>3, <3>1, NoneIsQuestion
    <2>4. CASE j.why \in {"execute", "sweep"}
        <3>1. sessions[c].text = {}
            BY <1>2, <2>1, <2>4 DEF ApartFits
        <3> QED BY <1>1, <1>7, <2>4, <3>1
    <2>5. CASE j.why = "expired"
        <3>1. sessions'[c] = None
            BY <1>1, <1>3, <2>5
        <3>2. Hand(n) = {j.arg}
            <4>1. n.do = "text" /\ n.arg = j.arg /\ n.text = {j.arg}
                BY <1>7, <2>5 DEF Same
            <4> QED BY <4>1 DEF Hand
        <3>3. j.arg \notin j.text
            BY <2>1, <2>5 DEF ApartFits
        <3> QED BY <3>1, <3>2, <3>3, NoneIsQuestion
    <2>6. CASE j.why = "offer"
        <3>1. Offered(j.arg) /\ m \in events[j.arg].text
            BY <1>3, <2>1, <2>6 DEF Offers, OfferFits
        <3>2. m \notin sessions[c].text
            BY <1>3, <2>1, <2>6, <3>1 DEF Offers
        <3> QED BY <1>1, <1>7, <2>6, <3>2
    <2> QED BY <1>3, <2>2, <2>3, <2>4, <2>5, <2>6
<1>12. PaysFor(j, n)
    <2>1. doubled \subseteq doubled'
        BY <1>1
    <2>2. ~ SpentBy(n)
        BY <1>7 DEF SpentBy
    <2>3. \A m \in j.text : \/ m \in doubled'
                            \/ /\ m \notin sessions'[j.chat].text /\ m \notin Hand(n)
                               /\ j.why = "offer" => events'[j.arg].executed
        BY <1>2, <1>4, <1>11
    <2>4. \A e \in DOMAIN events' : Offered(e)' => Offered(e)
        BY <1>6 DEF OffersStay
    <2>5. landed' = landed /\ lost' = lost
        BY <1>1
    <2> HIDE DEF j, n
    <2> QED BY <1>2, <2>1, <2>2, <2>3, <2>4, <2>5 DEF PaysFor
<1> QED BY <1>5, <1>8, <1>9, <1>10, <1>12 DEF Carries

\* What is left of a write that is not answered, or not tried: nothing, or one more lost answer.
LEMMA UnpaidCarries ==
    ASSUME ConvInv, NEW t \in Turns, NEW c \in Chats, Within(t, c), Acts(t),
           job[t].pc \in {"inbox", "written"}, NEW reported, Unsaved(t, c, reported),
           UNCHANGED <<sessions, events, sent, landed, doubled>>,
           lost' = lost + (IF SpentBy(job[t]) THEN 1 ELSE 0)
    PROVE  Carries(t)
<1>1. /\ RowsMove(job[t], job'[t]) /\ SaysMove(job[t], job'[t])
      /\ TextsMove(job[t], job'[t]) /\ OffersMove(job[t], job'[t])
      /\ ~ SpentBy(job'[t])
    BY UnsavedBears
<1>2. lost \in Nat /\ crashes' = crashes
    BY DEF ConvInv, Typed, Acts, WorldMoves
<1>3. \/ ~ SpentBy(job[t]) /\ lost' = lost
      \/ SpentBy(job[t]) /\ lost' = lost + 1
    BY <1>2
<1>4. PaysFor(job[t], job'[t])
    BY <1>1, <1>2, <1>3 DEF PaysFor
<1> QED BY <1>1, <1>4 DEF Carries

LEMMA SendCarries ==
    ASSUME ConvInv, NEW t \in Turns, NEW c \in Chats, Send(t, c), Acts(t)
    PROVE  Carries(t)
<1> DEFINE j == job[t]
           n == job'[t]
<1>1. /\ Within(t, c) /\ j.pc = "write" /\ Typed
      /\ UNCHANGED <<events, sessions, sent, doubled, lost, shown>>
    BY DEF Send, At, Frame, ConvInv, store
<1>2. PICK applied \in BOOLEAN :
        /\ job' = [job EXCEPT ![t].pc = "written", ![t].applied = applied]
        /\ landed' = [m \in Messages |->
                        landed[m] + (IF applied /\ m \in j.text THEN 1 ELSE 0)]
    BY DEF Send
<1>3. /\ Same(j, n) /\ n.pc = "written" /\ n.applied = applied /\ n.why = j.why /\ n.text = j.text
    <2>1. job \in [Turns -> JobRec]
        BY <1>1 DEF Typed
    <2> QED BY ZenonT(60), <1>2, <2>1 DEF JobRec, Same
<1>4. OffersStay
    BY <1>1, OffersAreLeft
<1>5. RowsMove(j, n)
    BY <1>1 DEF RowsMove
<1>6. SaysMove(j, n)
    BY <1>1, <1>3, CallStays
<1>7. TextsMove(j, n)
    BY <1>1, <1>3, TextsFrom DEF Same, Within
<1>8. OffersMove(j, n)
    BY <1>1, <1>3, <1>4 DEF OffersMove, OffersStay, Same
<1>9. PaysFor(j, n)
    <2>1. SpentBy(n) <=> applied
        BY <1>3 DEF SpentBy
    <2>2. crashes' = crashes
        BY DEF Acts, WorldMoves
    <2>3. \A m \in Messages :
            landed'[m] = landed[m] + (IF SpentBy(n) /\ m \in j.text THEN 1 ELSE 0)
        BY <1>2, <2>1
    <2> QED BY <1>1, <1>3, <2>2, <2>3 DEF PaysFor
<1> QED BY <1>5, <1>6, <1>7, <1>8, <1>9 DEF Carries

LEMMA FailsCarries ==
    ASSUME ConvInv, NEW t \in Turns, NEW c \in Chats, WriteFails(t, c), Acts(t)
    PROVE  Carries(t)
<1> DEFINE j == job[t]
           n == job'[t]
<1>1. /\ Within(t, c) /\ j.pc = "written" /\ Typed
      /\ UNCHANGED <<events, sessions, sent, doubled, landed>>
      /\ lost' = lost + (IF SpentBy(j) THEN 1 ELSE 0)
    <2>1. /\ Within(t, c) /\ j.pc = "written" /\ LoseAnswer(t)
          /\ UNCHANGED <<events, sessions, sent, doubled, landed>>
        BY DEF WriteFails, At, Frame, store
    <2>2. SpentBy(j) <=> j.applied
        BY <2>1 DEF SpentBy
    <2> QED BY <2>1, <2>2 DEF LoseAnswer, ConvInv
<1>2. CASE Unsaved(t, c, TRUE)
    BY <1>1, <1>2, UnpaidCarries
<1>3. CASE j.why = "execute" /\ ToInbox(t, "fallback", j.text) /\ UNCHANGED shown
    <2>1. Same(j, n) /\ n.pc = "inbox" /\ n.why = "fallback" /\ n.text = j.text
        <3>1. Typed /\ ToInbox(t, "fallback", job[t].text)
            BY <1>1, <1>3
        <3> QED BY <3>1, FieldFacts
    <2>2. OffersStay
        BY <1>1, <1>3, OffersAreLeft
    <2>3. RowsMove(j, n)
        BY <1>1 DEF RowsMove
    <2>4. SaysMove(j, n)
        BY <1>1, <2>1, CallStays
    <2>5. TextsMove(j, n)
        BY <1>1, <2>1, TextsFrom DEF Same, Within
    <2>6. OffersMove(j, n)
        BY <1>3, <2>1, <2>2 DEF OffersMove, OffersStay
    <2>7. lost \in Nat /\ crashes' = crashes /\ ~ SpentBy(n)
        BY <1>1, <2>1 DEF Typed, Acts, WorldMoves, SpentBy
    <2>8. \/ ~ SpentBy(j) /\ lost' = lost
          \/ SpentBy(j) /\ lost' = lost + 1
        BY <1>1, <2>7
    <2>9. PaysFor(j, n)
        BY <1>1, <2>7, <2>8 DEF PaysFor
    <2> QED BY <2>3, <2>4, <2>5, <2>6, <2>9 DEF Carries
<1> QED BY <1>2, <1>3 DEF WriteFails

LEMMA WriteCarries ==
    ASSUME ConvInv, OnceInv, NEW t \in Turns, NEW c \in Chats, WriteStep(t, c)
    PROVE  Carries(t)
<1>1. Acts(t) /\ Typed
    BY WriteActs DEF ConvInv
<1>2. CASE NoInbox(t, c)
    <2>1. /\ Within(t, c) /\ job[t].pc = "inbox" /\ Unsaved(t, c, FALSE)
          /\ UNCHANGED <<sessions, events, sent, landed, doubled>> /\ lost' = lost
        BY <1>2 DEF NoInbox, At, Frame, store
    <2>2. ~ SpentBy(job[t]) /\ lost \in Nat
        BY <1>1, <2>1 DEF SpentBy, Typed
    <2>3. lost' = lost + (IF SpentBy(job[t]) THEN 1 ELSE 0)
        BY <2>1, <2>2
    <2> QED BY <1>1, <2>1, <2>3, UnpaidCarries
<1>3. CASE InboxFound(t, c)
    <2>1. /\ Within(t, c) /\ job[t].pc = "inbox" /\ Goto(t, "write")
          /\ UNCHANGED <<sessions, events, sent, landed, doubled, lost, shown>>
        BY <1>3 DEF InboxFound, At, Frame, store, ghosts
    <2>2. OffersStay
        BY <1>1, <2>1, OffersAreLeft
    <2>3. /\ Same(job[t], job'[t]) /\ job'[t].pc = "write"
          /\ job'[t].why = job[t].why /\ job'[t].text = job[t].text
        BY <1>1, <2>1, FieldFacts
    <2>4. SendsOn(job[t], job'[t], c)
        BY <2>1, <2>3 DEF SendsOn
    <2> QED BY <1>1, <2>1, <2>2, <2>4, OnwardCarries
<1>4. CASE Send(t, c)
    BY <1>1, <1>4, SendCarries
<1>5. CASE NothingToWrite(t, c)
    <2>1. /\ Within(t, c) /\ job[t].pc = "write" /\ Done(t)
          /\ UNCHANGED <<sessions, events, sent, landed, doubled, lost, shown>>
        BY <1>5 DEF NothingToWrite, At, Frame, store
    <2>2. OffersStay
        BY <1>1, <2>1, OffersAreLeft
    <2> QED BY <1>1, <2>1, <2>2, DoneCarries
<1>6. CASE WriteSucceeds(t, c)
    BY <1>1, <1>6, SucceedsCarries
<1>7. CASE WriteFails(t, c)
    BY <1>1, <1>7, FailsCarries
<1> QED BY <1>2, <1>3, <1>4, <1>5, <1>6, <1>7 DEF WriteStep

\* An undo has no message in hand; an answer it loses counts for nobody.
LEMMA UndoCarries ==
    ASSUME ConvInv, NEW t \in Turns, NEW c \in Chats, UndoStep(t, c)
    PROVE  Carries(t)
<1> DEFINE j == job[t]
           n == job'[t]
<1>1. /\ Acts(t) /\ Typed /\ Within(t, c) /\ j.pc \in {"begun", "undo", "undone"}
      /\ UNCHANGED <<sessions, events, sent, landed, doubled, shown>>
      /\ lost' = lost \/ lost' = lost + (IF j.applied THEN 1 ELSE 0)
    BY UndoActs
       DEF ConvInv, UndoStep, UndoBegins, SendUndo, UndoAnswered, LoseAnswer, Quiet, At, Frame, store
<1>2. OffersStay
    BY <1>1, OffersAreLeft
<1>3. /\ n.pc \in {"undo", "undone", "done"}
    <2>1. job \in [Turns -> JobRec]
        BY <1>1 DEF Typed
    <2>2. Done(t) => n.pc = "done"
        BY <1>1, FieldFacts
    <2>3. \A x : job' = [job EXCEPT ![t].pc = "undo", ![t].arg = x] => n.pc = "undo"
        BY ZenonT(60), <2>1 DEF JobRec
    <2>4. \A x : job' = [job EXCEPT ![t].pc = "undone", ![t].applied = x] => n.pc = "undone"
        BY ZenonT(60), <2>1 DEF JobRec
    <2> QED BY <2>2, <2>3, <2>4 DEF UndoStep, UndoBegins, SendUndo, UndoAnswered
<1>4. /\ n.do \notin {"text", "answer", "offer"} /\ n.why = "" /\ n.text = {}
    <2>1. Fits(t, n, DOMAIN events', DOMAIN executions', clock)
        BY <1>1 DEF Acts, JobMoves
    <2> HIDE DEF n
    <2>2. n.do \notin {"text", "answer", "offer"} /\ n.why = ""
        BY <1>3, <2>1 DEF Fits, Meant, Saving
    <2>3. n.text = {}
        BY <1>3, <2>1 DEF Fits, Held, Empty
    <2> QED BY <2>2, <2>3
<1>5. j.why = "" /\ ~ SpentBy(j) /\ ~ SpentBy(n) /\ crashes' = crashes /\ lost \in Nat
    <2>1. j.why = ""
        BY <1>1, HandlerFacts
    <2> QED BY <1>1, <1>3, <2>1 DEF SpentBy, Acts, WorldMoves, Typed
<1>6. RowsMove(j, n)
    BY <1>1 DEF RowsMove
<1>7. SaysMove(j, n)
    BY <1>1, <1>4 DEF SaysMove
<1>8. TextsMove(j, n)
    BY <1>1, <1>4 DEF TextsMove
<1>9. OffersMove(j, n)
    BY <1>2, <1>4, <1>5 DEF OffersMove, OffersStay
<1>10. PaysFor(j, n)
    <2>1. lost' = lost \/ lost' = lost + 1
        <3>1. CASE j.applied
            BY <1>1, <3>1
        <3>2. CASE ~ j.applied
            <4>1. lost' = lost \/ lost' = lost + 0
                BY <1>1, <3>2
            <4>2. lost \in Nat
                BY <1>5
            <4> QED BY <4>1, <4>2
        <3> QED BY <3>1, <3>2
    <2> QED BY <1>1, <1>5, <2>1 DEF PaysFor
<1> QED BY <1>6, <1>7, <1>8, <1>9, <1>10 DEF Carries

----------------------------------------------------------------------------
(* So do the steps that bring a turn in or take it out. *)

\* A step that finds and leaves the turn with no text in hand, and moves no question or button.
LEMMA PassingCarries ==
    ASSUME ConvInv, NEW t \in Turns, Acts(t), UNCHANGED <<sessions, shown, landed, lost, doubled>>,
           job[t].why = "", job'[t].why = "", job'[t].text = {},
           RowsMove(job[t], job'[t]), SaysMove(job[t], job'[t])
    PROVE  Carries(t)
<1> DEFINE j == job[t]
           n == job'[t]
<1>1. j.pc # "written" /\ n.pc # "written"
    <2>1. j.pc \in Saving <=> j.why # ""
        BY DEF ConvInv, Jobs, Fits, Meant
    <2>2. Fits(t, n, DOMAIN events', DOMAIN executions', clock)
        BY DEF Acts, JobMoves
    <2> HIDE DEF n
    <2>3. n.pc \in Saving <=> n.why # ""
        BY <2>2 DEF Fits, Meant
    <2> QED BY <2>1, <2>3 DEF Saving, n
<1>2. TextsMove(j, n)
    BY DEF TextsMove
<1>3. OffersMove(j, n)
    <2>1. \A e : Offered(e)' <=> Offered(e)
        BY DEF Offered
    <2> QED BY <2>1 DEF OffersMove
<1>4. PaysFor(j, n)
    BY <1>1 DEF PaysFor, SpentBy, Acts, WorldMoves
<1> QED BY <1>2, <1>3, <1>4 DEF Carries

\* A row is opened beside the others, which stay as they are.
LEMMA RowIsNew ==
    ASSUME Typed, NEW c \in Chats, NEW text \in SUBSET Messages, events' = Opened(c, text)
    PROVE  /\ DOMAIN events' = DOMAIN events \cup {Len(events) + 1}
           /\ Len(events) + 1 \notin DOMAIN events
           /\ \A e \in DOMAIN events : events'[e] = events[e]
           /\ events'[Len(events) + 1].text = text /\ events'[Len(events) + 1].chat = c
<1> DEFINE e == [chat |-> c, text |-> text, ts |-> clock, open |-> TRUE, executed |-> FALSE]
<1>1. e \in EventRec /\ events \in Seq(EventRec) /\ events' = Append(events, e)
    BY DEF Typed, EventRec, Opened
<1>2. e.text = text /\ e.chat = c
    OBVIOUS
<1> HIDE DEF e
<1> QED BY <1>1, <1>2, GrowthFacts

\* What a turn is called for, from the variables j it had when it came or was let in.
Calls(t, do, arg) ==
    /\ sent \subseteq sent' /\ sent' \subseteq sent \cup (IF do = "text" THEN {arg} ELSE {})
    /\ do = "text" => arg \in Messages
    /\ \/ /\ job[t] = Idle
          /\ do = "text" => arg \in sent' \ sent
          /\ do = "offer" => Offered(arg)
       \/ job[t].do = do /\ job[t].arg = arg /\ job[t].pc = "queued"

LEMMA CallsFacts ==
    ASSUME ConvInv, NEW t \in Turns, NEW do, NEW arg, Calls(t, do, arg)
    PROVE  job[t].why = ""
<1>1. Idle.why = ""
    BY DEF Idle
<1>2. job[t].pc = "queued" => job[t].why = ""
    BY DEF ConvInv, Jobs, Fits, Meant, Saving
<1> QED BY <1>1, <1>2 DEF Calls

LEMMA BeginCarries ==
    ASSUME ConvInv, NEW t \in Turns, NEW c \in Chats, NEW do, NEW arg, NEW verb,
           Begin(t, c, do, arg, verb), Calls(t, do, arg), Acts(t),
           UNCHANGED <<sessions, shown, landed, lost, doubled>>
    PROVE  Carries(t)
<1> DEFINE j == job[t]
           n == job'[t]
<1>1. Typed /\ j.why = ""
    BY CallsFacts DEF ConvInv
<1>2. /\ n.pc = "begun" /\ n.chat = c /\ n.do = do /\ n.arg = arg /\ n.row = Len(events) + 1
      /\ n.text = {} /\ n.why = ""
    <2>1. n = [Idle EXCEPT !.pc = "begun", !.chat = c, !.do = do, !.arg = arg, !.verb = verb,
                           !.row = Len(events) + 1, !.now = clock]
        BY <1>1 DEF Begin, Typed
    <2> QED BY <2>1 DEF Idle
<1> DEFINE text == IF do = "text" THEN {arg} ELSE {}
<1>3. Called(n) = text
    BY <1>2 DEF Called
<1>4. text \in SUBSET Messages /\ events' = Opened(c, text)
    BY DEF Calls, Begin
<1> HIDE DEF text
<1>5. /\ DOMAIN events' = DOMAIN events \cup {Len(events) + 1}
      /\ Len(events) + 1 \notin DOMAIN events
      /\ \A e \in DOMAIN events : events'[e] = events[e]
      /\ events'[Len(events) + 1].text = text /\ events'[Len(events) + 1].chat = c
    BY <1>1, <1>4, RowIsNew
<1>6. n.row \in DOMAIN events' \ DOMAIN events
    BY <1>2, <1>5
<1>7. RowsMove(j, n)
    <2>1. \A e \in DOMAIN events' \ DOMAIN events :
            e = n.row /\ events'[e].chat = n.chat /\ events'[e].text = Called(n)
        BY <1>2, <1>3, <1>5
    <2> QED BY <1>5, <2>1 DEF RowsMove
<1>8. SaysMove(j, n)
    <2>1. sent \subseteq sent' /\ sent' \subseteq sent \cup Called(n)
        BY <1>3 DEF Calls, text
    <2> HIDE DEF n
    <2> QED BY <1>2, <1>6, <2>1 DEF SaysMove, Calls
<1> QED BY <1>1, <1>2, <1>7, <1>8, PassingCarries

LEMMA WaitCarries ==
    ASSUME ConvInv, NEW t \in Turns, NEW do, NEW arg, NEW verb, job[t] = Idle,
           Wait(t, do, arg, verb), Calls(t, do, arg), Acts(t),
           UNCHANGED <<sessions, shown, landed, lost, doubled>>
    PROVE  Carries(t)
<1> DEFINE j == job[t]
           n == job'[t]
<1>1. Typed /\ j.why = "" /\ UNCHANGED events
    BY CallsFacts DEF ConvInv, Wait
<1>2. /\ n.pc = "queued" /\ n.do = do /\ n.arg = arg /\ n.text = {} /\ n.why = ""
    <2>1. n = [Idle EXCEPT !.pc = "queued", !.do = do, !.arg = arg, !.verb = verb]
        BY <1>1 DEF Wait, Typed
    <2> QED BY <2>1 DEF Idle
<1>3. RowsMove(j, n)
    BY <1>1 DEF RowsMove
<1>4. SaysMove(j, n)
    <2>1. Idle.pc = "idle"
        BY DEF Idle
    <2>2. sent \subseteq sent' /\ sent' \subseteq sent \cup Called(n)
        BY <1>2 DEF Calls, Called
    <2>3. /\ do = "text" => arg \in sent' \ sent
          /\ do = "offer" => Offered(arg)
        BY <2>1 DEF Calls
    <2> HIDE DEF n
    <2> QED BY <1>1, <1>2, <2>2, <2>3 DEF SaysMove
<1> QED BY <1>1, <1>2, <1>3, <1>4, PassingCarries

LEMMA ArriveCarries ==
    ASSUME ConvInv, NEW t \in Turns, NEW c \in Chats, NEW do, NEW arg, NEW verb,
           Arrive(t, c, do, arg, verb), Calls(t, do, arg), Acts(t)
    PROVE  Carries(t)
<1>1. /\ job[t] = Idle /\ UNCHANGED <<sessions, shown, landed, lost, doubled>>
      /\ Begin(t, c, do, arg, verb) \/ Wait(t, do, arg, verb)
    BY DEF Arrive, ghosts
<1> QED BY <1>1, BeginCarries, WaitCarries

\* A button taken for an offer is one.
LEMMA OfferIsShown ==
    ASSUME Typed, NEW c \in Chats, NEW b \in shown[c], b[1] = "i"
    PROVE  Offered(b[2])
<1>1. ButtonFits(b, DOMAIN events, DOMAIN executions)
    BY DEF Typed
<1>2. PICK e : b = Offer(e)
    BY <1>1 DEF ButtonFits, Answer, Undo, Offer
<1>3. b[2] = e
    BY <1>2 DEF Offer
<1> QED BY <1>2, <1>3 DEF Offered

LEMMA TapCarries ==
    ASSUME ConvInv, NEW t \in Turns, NEW c \in Chats, NEW do, NEW arg, NEW verb,
           Tap(t, c, do, arg, verb), do # "text", do = "offer" => Offered(arg), Acts(t)
    PROVE  Carries(t)
<1>1. UNCHANGED sent /\ Arrive(t, c, do, arg, verb)
    BY DEF Tap
<1>2. job[t] = Idle
    BY <1>1 DEF Arrive
<1>3. Calls(t, do, arg)
    BY <1>1, <1>2 DEF Calls
<1> QED BY <1>1, <1>3, ArriveCarries

LEMMA UserCarries ==
    ASSUME ConvInv, NEW t \in Handlers, NEW c \in Chats,
           Press(t, c) \/ \E m \in Messages : Say(t, c, m)
    PROVE  Acts(t) /\ Carries(t)
<1>1. t \in Turns
    BY DEF Handlers
<1>2. CASE Press(t, c)
    <2>1. Acts(t) /\ Typed
        BY <1>2, PressActs DEF Pressed, ConvInv
    <2>2. ASSUME NEW do \in {"answer", "undo", "undo_latest", "cancel"}, NEW arg, NEW verb,
                 Tap(t, c, do, arg, verb)
          PROVE  Acts(t) /\ Carries(t)
        BY <1>1, <2>1, <2>2, TapCarries
    <2>3. ASSUME NEW b \in shown[c], b[1] = "i", Tap(t, c, "offer", b[2], "")
          PROVE  Acts(t) /\ Carries(t)
        <3>1. Offered(b[2])
            BY <2>1, <2>3, OfferIsShown
        <3> QED BY <1>1, <2>1, <2>3, <3>1, TapCarries
    <2> QED BY <1>2, <2>2, <2>3 DEF Press
<1>3. ASSUME NEW m \in Messages, Say(t, c, m)
      PROVE  Acts(t) /\ Carries(t)
    <2>1. Acts(t) /\ job[t] = Idle
        BY <1>3, SayActs DEF Arrived
    <2>2. Arrive(t, c, "text", m, "") /\ sent' = sent \cup {m} /\ m \notin sent
        BY <1>3 DEF Say
    <2>3. Calls(t, "text", m)
        BY <2>1, <2>2 DEF Calls
    <2> QED BY <1>1, <2>1, <2>2, <2>3, ArriveCarries
<1> QED BY <1>2, <1>3

LEMMA AdmitCarries ==
    ASSUME ConvInv, NEW t \in Turns, NEW c \in Chats, Admit(t, c)
    PROVE  Carries(t)
<1>1. /\ Acts(t) /\ job[t].pc = "queued"
      /\ Begin(t, c, job[t].do, job[t].arg, job[t].verb)
      /\ UNCHANGED <<sessions, shown, landed, lost, doubled, sent>>
    BY AdmitActs DEF Admit, user, ghosts
<1>2. job[t].do = "text" => job[t].arg \in Messages
    BY DEF ConvInv, Jobs, Fits, Named
<1>3. Calls(t, job[t].do, job[t].arg)
    BY <1>1, <1>2 DEF Calls
<1> QED BY <1>1, <1>3, BeginCarries

\* A turn that is called for nothing calls nobody.
LEMMA NothingSaid ==
    ASSUME NEW j, NEW n, n.do \notin {"text", "answer", "offer"}, UNCHANGED sent
    PROVE  SaysMove(j, n)
BY DEF SaysMove

LEMMA FinishCarries ==
    ASSUME ConvInv, NEW t \in Turns, NEW c \in Chats, Finish(t, c)
    PROVE  Acts(t) /\ Carries(t)
<1> DEFINE j == job[t]
           n == job'[t]
<1>1. /\ Acts(t) /\ Typed /\ Within(t, c) /\ j.pc = "done" /\ n.text = {}
      /\ events' = [events EXCEPT ![j.row].open = FALSE]
      /\ UNCHANGED <<sessions, shown, landed, lost, doubled, sent>>
    BY FinishActs DEF EmptyHanded, Finish, user, ghosts, ConvInv
<1>2. j.why = ""
    BY <1>1 DEF ConvInv, Jobs, Fits, Meant, Saving
<1>3. n = Idle \/ n = [Idle EXCEPT !.pc = "sweeping"]
    BY <1>1 DEF Finish, Visited, Typed
<1>4. n.do = "" /\ n.why = ""
    <2>1. /\ Idle.do = "" /\ Idle.why = ""
          /\ [Idle EXCEPT !.pc = "sweeping"].do = "" /\ [Idle EXCEPT !.pc = "sweeping"].why = ""
        BY DEF Idle
    <2> QED BY <1>3, <2>1
<1>5. RowsMove(j, n)
    <2>1. \A e \in DOMAIN events : events[e] \in EventRec
        BY <1>1, EntryFacts DEF Typed
    <2>2. DOMAIN events' = DOMAIN events
        BY <1>1
    <2>3. ASSUME NEW e \in DOMAIN events
          PROVE  /\ events'[e].text = events[e].text /\ events'[e].chat = events[e].chat
                 /\ events'[e].executed = events[e].executed
        <3>1. CASE e # j.row
            BY <1>1, <3>1
        <3>2. CASE e = j.row
            <4>1. events'[e] = [events[e] EXCEPT !.open = FALSE]
                BY <1>1, <3>2
            <4> QED BY <2>1, <4>1 DEF EventRec
        <3> QED BY <3>1, <3>2
    <2> QED BY <2>2, <2>3 DEF RowsMove
<1>6. SaysMove(j, n)
    BY <1>1, <1>4, NothingSaid
<1> QED BY <1>1, <1>2, <1>4, <1>5, <1>6, PassingCarries

\* Where the sweeper goes next, with nothing in hand.
LEMMA SweeperGoes ==
    ASSUME ConvInv, NEW c,
           \/ SweepBegins \/ SweepDiscoveryFails \/ SweepScans
           \/ c \in Chats /\ (SweepVisits(c) \/ SweepEnters(c) \/ SweepSkips(c))
    PROVE  /\ job[Sweeper].why = "" /\ job'[Sweeper].why = "" /\ job'[Sweeper].do = ""
           /\ UNCHANGED <<events, sessions, shown, landed, lost, doubled, sent>>
<1>1. job \in [Turns -> JobRec] /\ Sweeper \in Turns
    BY SweeperIsATurn DEF ConvInv, Typed
<1>2. UNCHANGED <<events, sessions, shown, landed, lost, doubled, sent>>
    BY DEF SweepBegins, SweepDiscoveryFails, SweepScans, SweepVisits, SweepEnters, SweepSkips,
           SweepFrame, user, ghosts
<1>3. job[Sweeper].pc \in {"idle", "scanned", "sweeping", "queued", "pop"}
    <2>1. Idle.pc = "idle"
        BY DEF Idle
    <2> QED BY <2>1 DEF SweepBegins, SweepDiscoveryFails, SweepScans, SweepVisits, SweepEnters,
                        SweepSkips
<1>4. job[Sweeper].why = "" /\ job[Sweeper].do = ""
    BY <1>3, SweeperFacts
<1>5. Idle.why = "" /\ Idle.do = ""
    BY DEF Idle
<1>6. [Idle EXCEPT !.pc = "sweeping"].why = "" /\ [Idle EXCEPT !.pc = "sweeping"].do = ""
    BY DEF Idle
<1>7. \A pc : Goto(Sweeper, pc) => job'[Sweeper].why = "" /\ job'[Sweeper].do = ""
    BY <1>1, <1>4 DEF Goto, JobRec
<1>8. \A d : Inside(d) => job'[Sweeper].why = "" /\ job'[Sweeper].do = ""
    BY ZenonT(60), <1>1, <1>4 DEF Inside, JobRec
<1>9. \A d : Visited(d) => job'[Sweeper].why = "" /\ job'[Sweeper].do = ""
    <2>1. \A d : Visited(d) => \/ job'[Sweeper] = Idle
                               \/ job'[Sweeper] = [Idle EXCEPT !.pc = "sweeping"]
        BY <1>1 DEF Visited
    <2> QED BY <1>5, <1>6, <2>1
<1>10. SweepScans => job'[Sweeper].why = "" /\ job'[Sweeper].do = ""
    <2>1. SweepScans => \/ job'[Sweeper] = Idle
                        \/ job'[Sweeper] = [Idle EXCEPT !.pc = "sweeping"]
        BY <1>1 DEF SweepScans
    <2> QED BY <1>5, <1>6, <2>1
<1>11. SweepDiscoveryFails => job'[Sweeper] = Idle
    BY <1>1 DEF SweepDiscoveryFails
<1>12. job'[Sweeper].why = "" /\ job'[Sweeper].do = ""
    BY <1>5, <1>7, <1>8, <1>9, <1>10, <1>11
       DEF SweepBegins, SweepVisits, SweepEnters, SweepSkips
<1> QED BY <1>2, <1>4, <1>12

LEMMA SweeperCarries ==
    ASSUME ConvInv, NEW c,
           \/ SweepBegins \/ SweepDiscoveryFails \/ SweepScans
           \/ c \in Chats /\ (SweepVisits(c) \/ SweepEnters(c) \/ SweepSkips(c))
    PROVE  Acts(Sweeper) /\ Carries(Sweeper)
<1>1. Acts(Sweeper) /\ job'[Sweeper].text = {} /\ Sweeper \in Turns
    BY SweeperActs, SweeperIsATurn DEF EmptyHanded
<1>2. /\ job[Sweeper].why = "" /\ job'[Sweeper].why = "" /\ job'[Sweeper].do = ""
      /\ UNCHANGED <<events, sessions, shown, landed, lost, doubled, sent>>
    BY SweeperGoes
<1>3. RowsMove(job[Sweeper], job'[Sweeper])
    BY <1>2 DEF RowsMove
<1>4. SaysMove(job[Sweeper], job'[Sweeper])
    BY <1>2, NothingSaid
<1> QED BY <1>1, <1>2, <1>3, <1>4, PassingCarries

\* The question it takes leaves the chat for its own hand.
LEMMA SweepPopsCarries ==
    ASSUME ConvInv, NEW c \in Chats, SweepPops(c)
    PROVE  Acts(Sweeper) /\ Carries(Sweeper)
<1> DEFINE j == job[Sweeper]
           n == job'[Sweeper]
<1>1. /\ Acts(Sweeper) /\ Typed /\ Sweeper \in Turns /\ j.pc = "pop" /\ j.chat = c
      /\ sessions' = [sessions EXCEPT ![c] = None] /\ events' = Opened(c, {})
      /\ UNCHANGED <<shown, landed, lost, doubled, sent>>
    BY SweepPopsActs, SweeperIsATurn
       DEF SweepPops, Within, SweepFrame, user, ghosts, ConvInv
<1>2. j.why = ""
    BY <1>1, SweeperFacts
<1>3. /\ n.pc = "inbox" /\ n.chat = c /\ n.do = "sweep" /\ n.why = "sweep"
      /\ n.text = sessions[c].text /\ n.row = Len(events) + 1
    <2>1. n = [Idle EXCEPT !.pc = "inbox", !.chat = c, !.do = "sweep", !.why = "sweep",
                           !.text = sessions[c].text, !.row = Len(events) + 1, !.now = clock]
        BY <1>1 DEF SweepPops, Typed
    <2> QED BY <2>1 DEF Idle
<1>4. RowsMove(j, n)
    <2>1. /\ DOMAIN events' = DOMAIN events \cup {Len(events) + 1}
          /\ Len(events) + 1 \notin DOMAIN events
          /\ \A e \in DOMAIN events : events'[e] = events[e]
          /\ events'[Len(events) + 1].text = {} /\ events'[Len(events) + 1].chat = c
        <3>1. {} \in SUBSET Messages
            OBVIOUS
        <3> QED BY <1>1, <3>1, RowIsNew
    <2>2. Called(n) = {}
        BY <1>3 DEF Called
    <2>3. \A e \in DOMAIN events' \ DOMAIN events :
            e = n.row /\ events'[e].chat = n.chat /\ events'[e].text = Called(n)
        BY <1>3, <2>1, <2>2
    <2> QED BY <2>1, <2>3 DEF RowsMove
<1>5. SaysMove(j, n)
    BY <1>1, <1>3, NothingSaid
<1>6. TextsMove(j, n)
    <2>1. sessions'[c] = None /\ \A d \in Chats \ {c} : sessions'[d] = sessions[d]
        BY <1>1 DEF Typed
    <2>2. \A d \in Chats : sessions'[d].text \subseteq sessions[d].text
        BY <2>1, NoneIsQuestion
    <2>3. sessions'[n.chat].text = {}
        BY <1>3, <2>1, NoneIsQuestion
    <2> HIDE DEF j, n
    <2> QED BY <1>1, <1>3, <2>2, <2>3 DEF TextsMove
<1>7. OffersMove(j, n)
    <2>1. \A e : Offered(e)' <=> Offered(e)
        BY <1>1 DEF Offered
    <2> QED BY <1>2, <1>3, <2>1 DEF OffersMove
<1>8. PaysFor(j, n)
    BY <1>1, <1>3 DEF PaysFor, SpentBy, Acts, WorldMoves
<1> QED BY <1>1, <1>4, <1>5, <1>6, <1>7, <1>8 DEF Carries

----------------------------------------------------------------------------
(* The invariant of the landings, and its theorem. *)

LEMMA StepsCarry ==
    ASSUME ConvInv, OnceInv, Next, ~ Tick, ~ Crash
    PROVE  \E t \in Turns : Acts(t) /\ Carries(t)
<1>1. CASE \E t \in Turns, c \in Chats : TurnStep(t, c)
    <2>1. PICK t \in Turns, c \in Chats : TurnStep(t, c)
        BY <1>1
    <2>2. CASE Finish(t, c)
        BY <2>2, FinishCarries
    <2>3. CASE Admit(t, c)
        BY <2>3, AdmitActs, AdmitCarries
    <2>4. CASE TextStep(t, c) \/ DispatchStep(t, c) \/ CallbackStep(t, c)
        BY <2>4, TextActs, DispatchActs, CallbackActs, TextCarries, DispatchCarries, CallbackCarries
    <2>5. CASE WriteStep(t, c) \/ UndoStep(t, c)
        BY <2>5, WriteActs, UndoActs, WriteCarries, UndoCarries
    <2> QED BY <2>1, <2>2, <2>3, <2>4, <2>5 DEF TurnStep
<1>2. CASE SweepStep
    <2>1. CASE \E c \in Chats : SweepPops(c)
        BY <2>1, SweepPopsCarries, SweeperIsATurn
    <2>2. CASE ~ \E c \in Chats : SweepPops(c)
        <3>1. PICK c : \/ SweepBegins \/ SweepDiscoveryFails \/ SweepScans
                       \/ c \in Chats /\ (SweepVisits(c) \/ SweepEnters(c) \/ SweepSkips(c))
            BY <1>2, <2>2 DEF SweepStep
        <3> QED BY <3>1, SweeperCarries, SweeperIsATurn
    <2> QED BY <2>1, <2>2
<1>3. CASE UserStep
    <2>1. PICK t \in Handlers, c \in Chats : Press(t, c) \/ \E m \in Messages : Say(t, c, m)
        BY <1>3 DEF UserStep
    <2> QED BY <2>1, UserCarries DEF Handlers
<1> QED BY <1>1, <1>2, <1>3 DEF Next

LEMMA OnceInitHolds ==
    ASSUME Init
    PROVE  OnceInv
<1>1. /\ sessions = [c \in Chats |-> None] /\ events = <<>> /\ job = [t \in Turns |-> Idle]
      /\ shown = [c \in Chats |-> {}] /\ sent = {} /\ landed = [m \in Messages |-> 0]
      /\ crashes = 0 /\ lost = 0
    BY DEF Init
<1>2. Idle.pc = "idle" /\ Idle.do = "" /\ Idle.why = "" /\ Idle.text = {}
    BY DEF Idle
<1>3. DOMAIN events = {} /\ (\A c \in Chats : sessions[c].text = {}) /\ \A e : ~ Offered(e)
    BY <1>1, NoneIsQuestion DEF Offered
<1>4. \A t \in Turns : /\ job[t].do = "" /\ job[t].why = "" /\ job[t].text = {}
                       /\ job[t].pc = "idle"
    BY <1>1, <1>2
<1>5. Voiced
    BY <1>1, <1>3, <1>4 DEF Voiced, CallFits
<1>6. Homed
    BY <1>3, <1>4 DEF Homed
<1>7. Apart
    BY <1>4 DEF Apart, ApartFits
<1>8. Offers
    BY <1>3, <1>4 DEF Offers, OfferFits
<1>9. Spent
    <2> SUFFICES ASSUME NEW m \in Messages
                 PROVE  landed[m] <= crashes + lost + (IF Alive(m) /\ ~ Spending(m) THEN 0 ELSE 1)
        BY DEF Spent
    <2>1. landed[m] = 0 /\ crashes + lost = 0
        BY <1>1
    <2> QED BY <2>1
<1> QED BY <1>5, <1>6, <1>7, <1>8, <1>9 DEF OnceInv

\* Between two steps of the turns nothing moves but the clock.
LEMMA StillOnce ==
    ASSUME OnceInv,
           UNCHANGED <<sessions, events, job, shown, sent, landed, doubled, lost, crashes>>
    PROVE  OnceInv'
<1>1. Voiced' /\ Homed'
    BY DEF OnceInv, Voiced, Homed, CallFits, From
<1>2. Apart' /\ Offers'
    BY DEF OnceInv, Apart, ApartFits, Offers, OfferFits, Offered, Hand
<1>3. Spent'
    BY DEF OnceInv, Spent, Alive, Spending, SpentBy, Offered, Hand
<1> QED BY <1>1, <1>2, <1>3 DEF OnceInv

\* The process dies: a message that was written and is asked for once more is one the crash counts.
LEMMA CrashOnce ==
    ASSUME ConvInv, OnceInv, Crash
    PROVE  OnceInv'
<1>1. /\ crashes' = crashes + 1 /\ job' = [t \in Turns |-> Idle]
      /\ UNCHANGED <<sessions, events, shown, sent, landed, doubled, lost>>
    BY DEF Crash, store, user
<1>2. Idle.pc = "idle" /\ Idle.do = "" /\ Idle.why = "" /\ Idle.text = {}
    BY DEF Idle
<1>3. \A t \in Turns : job'[t] = Idle
    BY <1>1
<1>4. Voiced'
    BY <1>1, <1>2, <1>3 DEF OnceInv, Voiced, CallFits
<1>5. Homed'
    BY <1>1, <1>2, <1>3 DEF OnceInv, Homed, From
<1>6. Apart'
    BY <1>2, <1>3 DEF Apart, ApartFits
<1>7. Offers'
    <2>1. \A e : Offered(e)' <=> Offered(e)
        BY <1>1 DEF Offered
    <2>2. Hand(Idle) = {}
        BY <1>2 DEF Hand
    <2>3. \A t \in Turns : Hand(job[t])' = {} /\ OfferFits(job[t])'
        BY <1>2, <1>3, <2>2 DEF Hand, OfferFits
    <2> QED BY <1>1, <2>1, <2>3 DEF OnceInv, Offers
<1>8. Spent'
    <2> SUFFICES ASSUME NEW m \in Messages \ doubled'
                 PROVE  landed'[m] <= crashes' + lost' +
                                    (IF Alive(m)' /\ ~ Spending(m)' THEN 0 ELSE 1)
        BY DEF Spent
    <2>1. /\ crashes \in Nat /\ lost \in Nat /\ landed[m] \in Nat
          /\ landed[m] <= crashes + lost + 1
        BY <1>1, SpentFacts DEF OnceInv
    <2>2. landed'[m] <= crashes' + lost' /\ crashes' + lost' \in Nat /\ landed'[m] \in Nat
        BY <1>1, <2>1
    <2> QED BY <2>2
<1> QED BY <1>4, <1>5, <1>6, <1>7, <1>8 DEF OnceInv

LEMMA OnceNext ==
    ASSUME ConvInv, OnceInv, [Next]_vars
    PROVE  OnceInv'
<1>1. CASE Tick
    BY <1>1, StillOnce DEF Tick, store, user, ghosts
<1>2. CASE Crash
    BY <1>2, CrashOnce
<1>3. CASE Next /\ ~ Tick /\ ~ Crash
    <2>1. PICK t \in Turns : Acts(t) /\ Carries(t)
        BY <1>3, StepsCarry
    <2> QED BY <2>1, CarriesKeepVoiced, CarriesKeepHomed, CarriesKeepApart, CarriesKeepOffers,
               CarriesKeepSpent DEF OnceInv
<1>4. CASE UNCHANGED vars
    BY <1>4, StillOnce DEF vars
<1> QED BY <1>1, <1>2, <1>3, <1>4

\* A message lands in Notion once, however its question is answered, pressed twice, rescued or
\* swept; only a lost answer or a crash may add a copy, but for the messages the inbox took while
\* their question stayed open.
THEOREM MessagesLandOnce == Spec => []LandsOnceUnlessDoubled
<1>1. Spec => []OnceInv
    BY OnceInitHolds, OnceNext, Invariance, PTL DEF Spec
<1>2. ConvInv /\ OnceInv => LandsOnceUnlessDoubled
    <2> SUFFICES ASSUME ConvInv, OnceInv, NEW m \in Messages \ doubled
                 PROVE  landed[m] <= 1 + crashes + lost
        BY DEF LandsOnceUnlessDoubled
    <2>1. /\ crashes \in Nat /\ lost \in Nat /\ landed[m] \in Nat
          /\ landed[m] <= crashes + lost + 1
        BY SpentFacts DEF OnceInv
    <2> QED BY <2>1
<1> QED BY <1>1, <1>2, Invariance, PTL
=============================================================================
