---------------------------- MODULE Conversation ----------------------------
(***************************************************************************)
(* Orchestrator: what becomes of a message, from the moment its turn takes *)
(* the chat's lock to the moment its audit row is closed, with every await *)
(* in between a step of its own.                                           *)
(*                                                                         *)
(* Turns of one chat queue for it (ChatQueue, which ChatLock implements);  *)
(* turns of different chats, the sweeper and the clock interleave freely.  *)
(* Every Notion write is two steps, sent and answered, so that an answer   *)
(* can be lost and the process can die in between; sessions, events and    *)
(* executions are in SQLite and survive that, everything else does not.    *)
(*                                                                         *)
(* A text is the set of the messages it was put together from: a free-text *)
(* answer is read together with the request it answers.  Which place, item *)
(* or field a message names is data: the model's reading, the validator's  *)
(* and the policy's verdict are one choice between what the turn does next.*)
(***************************************************************************)
EXTENDS ChatQueue, FiniteSets

CONSTANTS
    Sweeper,       \* the task of main.Sweeper, one of Turns
    NoChat,        \* the chat of a task that is in none
    Messages,      \* what the users say; each is sent once
    InboxMode,     \* INBOX_MODE: "auto", "button" or "off"; one target is flagged as the inbox
    SESSION_TTL,   \* how long a question is open
    UNDO_WINDOW,   \* how long a write can be undone
    MAX_QUESTIONS, \* questions answered by button before the bot gives up
    MaxTime,       \* bound: the clock stops here
    MaxTaps,       \* bound: buttons pressed and commands sent
    MaxCrashes,    \* bound: process deaths
    MaxLost        \* bound: writes Notion applied and answered with an error

ASSUME SweeperIsATurn == Sweeper \in Turns
ASSUME NoChatIsNoChat == NoChat \notin Chats
ASSUME ModeIsKnown == InboxMode \in {"auto", "button", "off"}
ASSUME MaxTimeIsNatural == MaxTime \in Nat
ASSUME TimesAreNatural == {SESSION_TTL, UNDO_WINDOW, MAX_QUESTIONS} \subseteq Nat \ {0}

VARIABLES
    sessions,   \* table sessions: the question each chat has open, or None
    events,     \* table events: one row per turn
    executions, \* table executions: one row per write that can be undone
    job,        \* what each task is doing, with its local variables
    sweep,      \* flush_expired_sessions: the clock it read, the chats still to visit
    known,      \* discovery.last is not None
    clock,
    shown,      \* shown[c]: the buttons on screen in chat c; they never go away
    sent,       \* the messages sent so far
    landed,     \* landed[m]: how many times m was written to Notion, inbox included
    reverts,    \* reverts[x]: how many times the write of executions[x] was undone in Notion
    told,       \* messages whose failure was reported, to the user or in the audit log
    doubled,    \* messages put in the inbox while a question still holds them
    dying,      \* messages a turn had in hand when the process died
    taps, crashes, lost

store   == <<sessions, events, executions>>
user    == <<shown, sent, taps>>
ghosts  == <<landed, reverts, told, doubled, dying, lost>>
vars    == <<owner, line, sessions, events, executions, job, sweep, known, clock, shown, sent,
             landed, reverts, told, doubled, dying, taps, crashes, lost>>

Handlers == Turns \ {Sweeper}
Times    == 0 .. MaxTime

None == [token |-> 0, text |-> {}, asked |-> 0, expires |-> 0]
Idle == [pc |-> "idle", chat |-> NoChat, do |-> "", arg |-> 0, verb |-> "", row |-> 0, now |-> 0, text |-> {},
         session |-> None, why |-> "", applied |-> FALSE]

Expired(c, now) == sessions[c] # None /\ sessions[c].expires <= now
Live(c, now)    == sessions[c] # None /\ sessions[c].expires > now

\* The task is past the lock of the chat it was called for.
Within(t, c) == job[t].chat = c

\* Buttons: an answer to question q, undo of execution x, inbox offer of event e.
Answer(q) == <<"a", q>>
Undo(x)   == <<"u", x>>
Offer(e)  == <<"i", e>>

----------------------------------------------------------------------------
Init ==
    /\ QueueInit
    /\ sessions = [c \in Chats |-> None]
    /\ events = <<>>
    /\ executions = <<>>
    /\ job = [t \in Turns |-> Idle]
    /\ sweep = [now |-> 0, todo |-> {}]
    /\ known = FALSE
    /\ clock = 0
    /\ shown = [c \in Chats |-> {}]
    /\ sent = {}
    /\ landed = [m \in Messages |-> 0]
    /\ reverts = <<>>
    /\ told = {}
    /\ doubled = {}
    /\ dying = {}
    /\ taps = 0
    /\ crashes = 0
    /\ lost = 0

Tick ==
    /\ clock < MaxTime
    /\ clock' = clock + 1
    /\ UNCHANGED <<queueVars, store, job, sweep, known, user, ghosts, crashes>>

\* The process dies: tasks, locks and the cached snapshot are gone, the database is not.
InHand(t) == job[t].text \cup (IF job[t].do = "text" THEN {job[t].arg} ELSE {})

Crash ==
    /\ crashes < MaxCrashes
    /\ crashes' = crashes + 1
    /\ owner' = [c \in Chats |-> Nobody]
    /\ line' = [c \in Chats |-> <<>>]
    /\ job' = [t \in Turns |-> Idle]
    /\ sweep' = [now |-> 0, todo |-> {}]
    /\ known' = FALSE
    /\ dying' = dying \cup UNION {InHand(t) : t \in Turns}
    /\ UNCHANGED <<store, clock, user, landed, reverts, told, doubled, lost>>

----------------------------------------------------------------------------
(* A turn begins: handle_text, handle_callback, undo and cancel. *)

\* _open: a row that says OPEN, and the one clock reading the turn measures expiries against.
Opened(c, text) ==
    Append(events, [chat |-> c, text |-> text, ts |-> clock, open |-> TRUE, executed |-> FALSE])

Begin(t, c, do, arg, verb) ==
    /\ events' = Opened(c, IF do = "text" THEN {arg} ELSE {})
    /\ job' = [job EXCEPT ![t] = [Idle EXCEPT
                  !.pc = "begun", !.chat = c, !.do = do, !.arg = arg, !.verb = verb,
                  !.row = Len(events) + 1, !.now = clock]]

Wait(t, do, arg, verb) ==
    /\ job' = [job EXCEPT ![t] = [Idle EXCEPT
                  !.pc = "queued", !.do = do, !.arg = arg, !.verb = verb]]
    /\ UNCHANGED events

Arrive(t, c, do, arg, verb) ==
    /\ job[t] = Idle
    /\ \/ ~ Present(t) /\ JoinEmpty(t, c) /\ Begin(t, c, do, arg, verb)
       \/ ~ Present(t) /\ JoinLine(t, c) /\ Wait(t, do, arg, verb)
    /\ UNCHANGED <<sessions, executions, sweep, known, clock, shown, ghosts, crashes>>

Say(t, c, m) ==
    /\ m \notin sent
    /\ sent' = sent \cup {m}
    /\ Arrive(t, c, "text", m, "")
    /\ UNCHANGED taps

\* A press on any button ever shown in this chat, once or twice in a row.
Tap(t, c, do, arg, verb) ==
    /\ taps < MaxTaps
    /\ taps' = taps + 1
    /\ Arrive(t, c, do, arg, verb)
    /\ UNCHANGED sent

Verbs == {"option", "inbox", "cancel", "free_text"}

Press(t, c) ==
    \/ \E b \in shown[c] : \E verb \in Verbs : b[1] = "a" /\ Tap(t, c, "answer", b[2], verb)
    \/ \E b \in shown[c] : b[1] = "u" /\ Tap(t, c, "undo", b[2], "")
    \/ \E b \in shown[c] : b[1] = "i" /\ Tap(t, c, "offer", b[2], "")
    \/ executions # <<>> /\ Tap(t, c, "undo_latest", 0, "")
    \/ sessions[c] # None /\ Tap(t, c, "cancel", 0, "")

\* The turn that waited longest is let in.
Admit(t, c) ==
    /\ t \in Handlers
    /\ job[t].pc = "queued"
    /\ Enter(t, c)
    /\ Begin(t, c, job[t].do, job[t].arg, job[t].verb)
    /\ UNCHANGED <<sessions, executions, sweep, known, clock, user, ghosts, crashes>>

\* _finish, the end of `async with`, and the reply with its buttons; the sweeper goes on to its
\* next chat.
Visited(c) ==
    /\ sweep' = [sweep EXCEPT !.todo = @ \ {c}]
    /\ job' = [job EXCEPT ![Sweeper] =
                 IF sweep.todo = {c} THEN Idle ELSE [Idle EXCEPT !.pc = "sweeping"]]

Finish(t, c) ==
    /\ Within(t, c)
    /\ job[t].pc = "done"
    /\ events' = [events EXCEPT ![job[t].row].open = FALSE]
    /\ Leave(t, c)
    /\ \/ t = Sweeper /\ Visited(c)
       \/ t # Sweeper /\ job' = [job EXCEPT ![t] = Idle] /\ UNCHANGED sweep
    /\ UNCHANGED <<sessions, executions, known, clock, user, ghosts, crashes>>

----------------------------------------------------------------------------
(* What a step of a turn may do next, its session row and its report aside. *)

Over(t)      == [Idle EXCEPT !.pc = "done", !.chat = job[t].chat, !.row = job[t].row]
Done(t)      == job' = [job EXCEPT ![t] = Over(t)]
Goto(t, pc)  == job' = [job EXCEPT ![t].pc = pc]
Drop(c)      == sessions' = [sessions EXCEPT ![c] = None]
Report(text) == told' = told \cup text
Show(c, bs)  == shown' = [shown EXCEPT ![c] = @ \cup bs]

\* _to_inbox of `text` on behalf of `why`: its first await is _inbox_target.
ToInbox(t, why, text) ==
    job' = [job EXCEPT ![t].pc = "inbox", ![t].why = why, ![t].text = text,
                          ![t].applied = FALSE]

\* What no step within a turn changes: the locks, the sweep, the clock and the world outside.
Frame == UNCHANGED <<queueVars, sweep, clock, sent, taps, crashes>>

At(t, c, pc) == Within(t, c) /\ job[t].pc = pc /\ Frame

----------------------------------------------------------------------------
(* _text. *)

\* An expired question taken before the workspace is there to rescue it.
TextDiscoveryFailsLate(t, c) ==
    /\ At(t, c, "begun")
    /\ job[t].do = "text"
    /\ Report({job[t].arg})
    /\ IF Expired(c, job[t].now) THEN Drop(c) ELSE UNCHANGED sessions
    /\ Done(t)
    /\ UNCHANGED <<events, executions, known, shown, landed, reverts, doubled, dying, lost>>

\* Discovery first: without a workspace nothing is looked up, so nothing is lost with it.
TextDiscoveryFails(t, c) ==
    /\ At(t, c, "begun")
    /\ job[t].do = "text"
    /\ Report({job[t].arg})
    /\ Done(t)
    /\ UNCHANGED <<store, known, shown, landed, reverts, doubled, dying, lost>>

\* Then an expired question is rescued on the way past, or a live one is answered by the message.
TextDiscovers(t, c) ==
    /\ At(t, c, "begun")
    /\ job[t].do = "text"
    /\ known' = TRUE
    /\ \/ /\ Expired(c, job[t].now)
          /\ Drop(c)
          /\ ToInbox(t, "expired", sessions[c].text)
       \/ /\ ~ Expired(c, job[t].now)
          /\ job' = [job EXCEPT ![t].pc = "read", ![t].session = sessions[c],
                                ![t].text = {job[t].arg} \cup sessions[c].text]
          /\ UNCHANGED sessions
    /\ UNCHANGED <<events, executions, shown, ghosts>>

\* The model fails: the text goes to the inbox, and a question it answered stays open.
ReadFails(t, c) ==
    /\ At(t, c, "read")
    /\ ToInbox(t, "fallback", job[t].text)
    /\ UNCHANGED <<store, known, shown, ghosts>>

----------------------------------------------------------------------------
(* _dispatch, _research and _ask, for a fresh reading and for an answered question alike. *)

Understood(t, c) == At(t, c, "read") \/ At(t, c, "resume") \/ At(t, c, "researched")

\* EXECUTE: the question is closed before the write begins.
DispatchExecute(t, c) ==
    /\ Understood(t, c)
    /\ Drop(c)
    /\ job' = [job EXCEPT ![t].pc = "write", ![t].why = "execute"]
    /\ known' = TRUE
    /\ UNCHANGED <<events, executions, shown, ghosts>>

\* CLARIFY: the next question replaces the open one, and its buttons carry a token of its own.
\* One question at most is asked per turn here, so the turn's row stands for the token.
Asked(t) == job[t].session.asked + (IF job[t].do = "answer" THEN 1 ELSE 0)

\* Asking on, whatever was answered already.
DispatchAskOn(t, c) ==
    /\ Understood(t, c)
    /\ sessions' = [sessions EXCEPT ![c] = [token |-> job[t].row, text |-> job[t].text,
                        asked |-> Asked(t), expires |-> job[t].now + SESSION_TTL]]
    /\ Show(c, {Answer(job[t].row)})
    /\ Done(t)
    /\ known' = TRUE
    /\ UNCHANGED <<events, executions, ghosts>>

DispatchAsk(t, c) ==
    /\ Understood(t, c)
    /\ Asked(t) < MAX_QUESTIONS
    /\ sessions' = [sessions EXCEPT ![c] = [token |-> job[t].row, text |-> job[t].text,
                        asked |-> Asked(t), expires |-> job[t].now + SESSION_TTL]]
    /\ Show(c, {Answer(job[t].row)})
    /\ Done(t)
    /\ known' = TRUE
    /\ UNCHANGED <<events, executions, ghosts>>

\* REJECT, nothing left to ask, or MAX_QUESTIONS spent.
DispatchReject(t, c) ==
    /\ Understood(t, c)
    /\ Drop(c)
    /\ ToInbox(t, "fallback", job[t].text)
    /\ known' = TRUE
    /\ UNCHANGED <<events, executions, shown, ghosts>>

\* EXECUTE of a web query: searched for first, with the question still open.
DispatchResearch(t, c) ==
    /\ At(t, c, "read") \/ At(t, c, "resume")
    /\ Goto(t, "researched")
    /\ known' = TRUE
    /\ UNCHANGED <<store, shown, ghosts>>

\* The search fails, times out or is not available.
ResearchFails(t, c) ==
    /\ At(t, c, "researched")
    /\ ToInbox(t, "fallback", job[t].text)
    /\ UNCHANGED <<store, known, shown, ghosts>>

----------------------------------------------------------------------------
(* _callback on a question, and _resume. *)

Quiet == UNCHANGED <<events, executions, known, shown, landed, reverts, doubled, dying, lost>>

\* The question is gone, has expired (and is dropped by the lookup) or is another one.
AnswerStale(t, c) ==
    /\ At(t, c, "begun")
    /\ job[t].do = "answer"
    /\ \/ Live(c, job[t].now) /\ sessions[c].token # job[t].arg /\ UNCHANGED <<sessions, told>>
       \/ ~ Live(c, job[t].now) /\ Drop(c) /\ Report(sessions[c].text)
    /\ Done(t)
    /\ Quiet

\* Any button taken for an answer to the question on screen now.
AnswersAnything(t, c, verb) ==
    /\ At(t, c, "begun")
    /\ job[t].do = "answer"
    /\ job[t].verb = verb
    /\ Live(c, job[t].now)

Answers(t, c, verb) ==
    /\ At(t, c, "begun")
    /\ job[t].do = "answer"
    /\ job[t].verb = verb
    /\ Live(c, job[t].now)
    /\ sessions[c].token = job[t].arg

AnswerCancel(t, c) ==
    /\ Answers(t, c, "cancel")
    /\ Drop(c)
    /\ Report(sessions[c].text)
    /\ Done(t)
    /\ Quiet

\* The question stays: the next message answers it.
AnswerFreeText(t, c) ==
    /\ Answers(t, c, "free_text")
    /\ Done(t)
    /\ UNCHANGED <<sessions, told>>
    /\ Quiet

\* An option, or the inbox button: both act on the session read here, after an await.
AnswerTaken(t, c) ==
    /\ \/ Answers(t, c, "option") /\ job' = [job EXCEPT ![t].pc = "resume",
              ![t].session = sessions[c], ![t].text = sessions[c].text]
       \/ Answers(t, c, "inbox") /\ job' = [job EXCEPT ![t].pc = "inbox", ![t].why = "button",
              ![t].session = sessions[c], ![t].text = sessions[c].text]
    /\ UNCHANGED <<sessions, told>>
    /\ Quiet

\* _resume reads a fresh snapshot; without one the question stays open.
ResumeDiscoveryFails(t, c) ==
    /\ At(t, c, "resume")
    /\ Done(t)
    /\ UNCHANGED <<sessions, told>>
    /\ Quiet

\* /cancel, whether the question has expired or not.
CancelCommand(t, c) ==
    /\ At(t, c, "begun")
    /\ job[t].do = "cancel"
    /\ Drop(c)
    /\ Report(sessions[c].text)
    /\ Done(t)
    /\ Quiet

\* An offer taken as often as it is pressed.
OfferTakenAgain(t, c) ==
    /\ At(t, c, "begun")
    /\ job[t].do = "offer"
    /\ LET e == events[job[t].arg]
           refused == e.chat # c \/ job[t].now - e.ts > SESSION_TTL
       IN  \/ refused /\ Done(t)
           \/ ~ refused /\ ToInbox(t, "offer", e.text)
    /\ UNCHANGED <<sessions, told>>
    /\ Quiet

\* _inbox_event: the offer replays its own event's text, once and only while it is young.
OfferTaken(t, c) ==
    /\ At(t, c, "begun")
    /\ job[t].do = "offer"
    /\ LET e == events[job[t].arg]
           refused == e.chat # c \/ job[t].now - e.ts > SESSION_TTL \/ e.executed
       IN  \/ refused /\ Done(t)
           \/ ~ refused /\ ToInbox(t, "offer", e.text)
    /\ UNCHANGED <<sessions, told>>
    /\ Quiet

----------------------------------------------------------------------------
(* The inbox and the writes. *)

\* _inbox_target, by the mode alone: a press may save in both modes, the code only in "auto".
Allowed(why) ==
    \/ InboxMode = "auto"
    \/ InboxMode = "button" /\ why \in {"button", "offer"}

\* After the rescue of an expired question, the message that came past it is read on its own.
GoOn(t) == job' = [job EXCEPT ![t].pc = "read", ![t].why = "", ![t].text = {job[t].arg},
                             ![t].applied = FALSE]

\* Nothing was saved: what each caller of _rescue and _to_inbox makes of it.  The fallback offers
\* a button when the turn's own row holds exactly the text; a pressed question stays open.
Unsaved(t, c, reported) ==
    LET j == job[t] IN
    /\ CASE j.why = "fallback" -> Report(j.text)
         [] j.why = "offer" -> Report(j.text)
         [] j.why = "button" -> UNCHANGED told
         [] j.why \in {"sweep", "expired"} -> IF reported THEN Report(j.text) ELSE UNCHANGED told
    /\ IF j.why = "fallback" /\ InboxMode # "off" /\ j.text = events[j.row].text
       THEN Show(c, {Offer(j.row)}) ELSE UNCHANGED shown
    /\ IF j.why = "expired" THEN GoOn(t) ELSE Done(t)

\* There is nowhere to write: the mode forbids it, or discovery fails and nothing is cached.
NoInbox(t, c) ==
    /\ At(t, c, "inbox")
    /\ ~ Allowed(job[t].why) \/ ~ known
    /\ Unsaved(t, c, FALSE)
    /\ UNCHANGED <<store, known, landed, reverts, doubled, dying, lost>>

InboxFound(t, c) ==
    /\ At(t, c, "inbox")
    /\ Allowed(job[t].why)
    /\ known' = TRUE
    /\ Goto(t, "write")
    /\ UNCHANGED <<store, shown, ghosts>>

\* Executor.run reaches Notion, or does not.
Send(t, c) ==
    /\ At(t, c, "write")
    /\ \E applied \in BOOLEAN :
        /\ job' = [job EXCEPT ![t].pc = "written", ![t].applied = applied]
        /\ landed' = [m \in Messages |->
                        landed[m] + (IF applied /\ m \in job[t].text THEN 1 ELSE 0)]
    /\ UNCHANGED <<store, known, shown, reverts, told, doubled, dying, lost>>

\* The command is refused before it is sent, or is a search: a reply, and nothing written.
NothingToWrite(t, c) ==
    /\ At(t, c, "write")
    /\ job[t].why = "execute"
    /\ Report(job[t].text)
    /\ Done(t)
    /\ UNCHANGED <<store, known, shown, landed, reverts, doubled, dying, lost>>

\* Notion answers: record the undo (its window starts now), and close what the text came from.
WriteSucceeds(t, c) ==
    /\ At(t, c, "written")
    /\ job[t].applied
    /\ LET j == job[t] IN
        /\ executions' = Append(executions,
                [chat |-> c, undone |-> FALSE, expires |-> clock + UNDO_WINDOW])
        /\ reverts' = Append(reverts, 0)
        /\ IF j.why \in {"sweep", "expired"} THEN UNCHANGED shown
           ELSE Show(c, {Undo(Len(executions) + 1)})
        /\ IF j.why = "button" THEN Drop(c) ELSE UNCHANGED sessions
        /\ events' = IF j.why = "offer" THEN [events EXCEPT ![j.arg].executed = TRUE] ELSE events
        /\ doubled' = IF j.why = "fallback" THEN doubled \cup (j.text \cap sessions[c].text)
                      ELSE doubled
        /\ IF j.why = "expired" THEN GoOn(t) ELSE Done(t)
    /\ UNCHANGED <<known, landed, told, dying, lost>>

\* An error comes back.  The write may have happened all the same: the answer was lost, not it.
LoseAnswer(t) ==
    /\ job[t].applied => lost < MaxLost
    /\ lost' = lost + (IF job[t].applied THEN 1 ELSE 0)

WriteFails(t, c) ==
    /\ At(t, c, "written")
    /\ LoseAnswer(t)
    /\ \/ /\ job[t].why = "execute"
          /\ ToInbox(t, "fallback", job[t].text)
          /\ UNCHANGED <<told, shown>>
       \/ /\ job[t].why # "execute"
          /\ Unsaved(t, c, TRUE)
    /\ UNCHANGED <<store, known, landed, reverts, doubled, dying>>

----------------------------------------------------------------------------
(* _undo. *)

\* latest_execution: the newest write of this chat that is not undone and not too old.
Undoable(c, now) ==
    {x \in DOMAIN executions :
        executions[x].chat = c /\ ~ executions[x].undone /\ executions[x].expires > now}

Target(t, c) ==
    IF job[t].do = "undo" THEN {job[t].arg} \cap Undoable(c, job[t].now)
    ELSE {x \in Undoable(c, job[t].now) : \A y \in Undoable(c, job[t].now) : y <= x}

UndoBegins(t, c) ==
    /\ At(t, c, "begun")
    /\ job[t].do \in {"undo", "undo_latest"}
    /\ \/ Target(t, c) = {} /\ Done(t)
       \/ \E x \in Target(t, c) : job' = [job EXCEPT ![t].pc = "undo", ![t].arg = x]
    /\ UNCHANGED <<sessions, told>>
    /\ Quiet

SendUndo(t, c) ==
    /\ At(t, c, "undo")
    /\ \E applied \in BOOLEAN :
        /\ job' = [job EXCEPT ![t].pc = "undone", ![t].applied = applied]
        /\ reverts' = [reverts EXCEPT ![job[t].arg] = @ + (IF applied THEN 1 ELSE 0)]
    /\ UNCHANGED <<store, known, shown, landed, told, doubled, dying, lost>>

\* An undo that leaves its row as it was.
UndoAnsweredOnly(t, c) ==
    /\ At(t, c, "undone")
    /\ \/ job[t].applied /\ UNCHANGED lost
       \/ LoseAnswer(t)
    /\ Done(t)
    /\ UNCHANGED <<store, known, shown, landed, reverts, told, doubled, dying>>

UndoAnswered(t, c) ==
    /\ At(t, c, "undone")
    /\ \/ /\ job[t].applied
          /\ executions' = [executions EXCEPT ![job[t].arg].undone = TRUE]
          /\ UNCHANGED lost
       \/ /\ LoseAnswer(t)
          /\ UNCHANGED executions
    /\ Done(t)
    /\ UNCHANGED <<sessions, events, known, shown, landed, reverts, told, doubled, dying>>

----------------------------------------------------------------------------
(* flush_expired_sessions: one chat at a time, under that chat's lock, by the clock it read first. *)

SweepFrame == UNCHANGED <<executions, clock, user, ghosts, crashes>>

SweepBegins ==
    /\ job[Sweeper] = Idle
    /\ \E c \in Chats : Expired(c, clock)
    /\ sweep' = [now |-> clock, todo |-> {}]
    /\ Goto(Sweeper, "scanned")
    /\ UNCHANGED <<queueVars, sessions, events, known>>
    /\ SweepFrame

SweepDiscoveryFails ==
    /\ job[Sweeper].pc = "scanned"
    /\ job' = [job EXCEPT ![Sweeper] = Idle]
    /\ UNCHANGED <<queueVars, sessions, events, known, sweep>>
    /\ SweepFrame

\* A question is taken only after the instant it expires at.
SweepScansLate ==
    /\ job[Sweeper].pc = "scanned"
    /\ known' = TRUE
    /\ LET found == {c \in Chats : Expired(c, sweep.now) /\ sessions[c].expires < sweep.now} IN
        /\ sweep' = [sweep EXCEPT !.todo = found]
        /\ job' = [job EXCEPT ![Sweeper] =
                        IF found = {} THEN Idle ELSE [Idle EXCEPT !.pc = "sweeping"]]
    /\ UNCHANGED <<queueVars, sessions, events>>
    /\ SweepFrame

SweepScans ==
    /\ job[Sweeper].pc = "scanned"
    /\ known' = TRUE
    /\ LET found == {c \in Chats : Expired(c, sweep.now)} IN
        /\ sweep' = [sweep EXCEPT !.todo = found]
        /\ job' = [job EXCEPT ![Sweeper] =
                        IF found = {} THEN Idle ELSE [Idle EXCEPT !.pc = "sweeping"]]
    /\ UNCHANGED <<queueVars, sessions, events>>
    /\ SweepFrame

Inside(c) == job' = [job EXCEPT ![Sweeper].pc = "pop", ![Sweeper].chat = c]

\* A visit that does not wait for the chat's own turns.
SweepVisitsUnlocked(c) ==
    /\ job[Sweeper].pc = "sweeping"
    /\ c \in sweep.todo
    /\ Inside(c)
    /\ UNCHANGED <<queueVars, sessions, events, known, sweep>>
    /\ SweepFrame

SweepVisits(c) ==
    /\ job[Sweeper].pc = "sweeping"
    /\ c \in sweep.todo
    /\ \/ JoinEmpty(Sweeper, c) /\ Inside(c)
       \/ JoinLine(Sweeper, c) /\ Goto(Sweeper, "queued")
    /\ UNCHANGED <<sessions, events, known, sweep>>
    /\ SweepFrame

SweepEnters(c) ==
    /\ job[Sweeper].pc = "queued"
    /\ Enter(Sweeper, c)
    /\ Inside(c)
    /\ UNCHANGED <<sessions, events, known, sweep>>
    /\ SweepFrame

\* Nothing to take, and the lock kept.
SweepSkipsHolding(c) ==
    /\ Within(Sweeper, c)
    /\ job[Sweeper].pc = "pop"
    /\ ~ Expired(c, sweep.now)
    /\ Visited(c)
    /\ UNCHANGED <<queueVars, sessions, events, known>>
    /\ SweepFrame

\* pop_expired_one looks again, under the lock: answered, renewed or swept since the scan.
SweepSkips(c) ==
    /\ Within(Sweeper, c)
    /\ job[Sweeper].pc = "pop"
    /\ ~ Expired(c, sweep.now)
    /\ Leave(Sweeper, c)
    /\ Visited(c)
    /\ UNCHANGED <<sessions, events, known>>
    /\ SweepFrame

\* Whatever question the chat has now is taken, on the word of the scan.
SweepPopsUnseen(c) ==
    /\ Within(Sweeper, c)
    /\ job[Sweeper].pc = "pop"
    /\ sessions[c] # None
    /\ Drop(c)
    /\ events' = Opened(c, {})
    /\ job' = [job EXCEPT ![Sweeper] = [Idle EXCEPT
                  !.pc = "inbox", !.chat = c, !.do = "sweep", !.why = "sweep", !.text = sessions[c].text,
                  !.row = Len(events) + 1, !.now = clock]]
    /\ UNCHANGED <<queueVars, known, sweep>>
    /\ SweepFrame

SweepPops(c) ==
    /\ Within(Sweeper, c)
    /\ job[Sweeper].pc = "pop"
    /\ Expired(c, sweep.now)
    /\ Drop(c)
    /\ events' = Opened(c, {})
    /\ job' = [job EXCEPT ![Sweeper] = [Idle EXCEPT
                  !.pc = "inbox", !.chat = c, !.do = "sweep", !.why = "sweep", !.text = sessions[c].text,
                  !.row = Len(events) + 1, !.now = clock]]
    /\ UNCHANGED <<queueVars, known, sweep>>
    /\ SweepFrame

----------------------------------------------------------------------------
TextStep(t, c) ==
    TextDiscoveryFails(t, c) \/ TextDiscovers(t, c) \/ ReadFails(t, c)

DispatchStep(t, c) ==
    \/ DispatchExecute(t, c) \/ DispatchAsk(t, c) \/ DispatchReject(t, c)
    \/ DispatchResearch(t, c) \/ ResearchFails(t, c)

CallbackStep(t, c) ==
    \/ AnswerStale(t, c) \/ AnswerCancel(t, c) \/ AnswerFreeText(t, c) \/ AnswerTaken(t, c)
    \/ ResumeDiscoveryFails(t, c) \/ CancelCommand(t, c) \/ OfferTaken(t, c)

WriteStep(t, c) ==
    \/ NoInbox(t, c) \/ InboxFound(t, c) \/ Send(t, c) \/ NothingToWrite(t, c)
    \/ WriteSucceeds(t, c) \/ WriteFails(t, c)

UndoStep(t, c) == UndoBegins(t, c) \/ SendUndo(t, c) \/ UndoAnswered(t, c)

TurnStep(t, c) ==
    \/ TextStep(t, c) \/ DispatchStep(t, c) \/ CallbackStep(t, c) \/ WriteStep(t, c)
    \/ UndoStep(t, c) \/ Finish(t, c) \/ Admit(t, c)

SweepStep ==
    \/ SweepBegins \/ SweepDiscoveryFails \/ SweepScans
    \/ \E c \in Chats : SweepVisits(c) \/ SweepEnters(c) \/ SweepSkips(c) \/ SweepPops(c)

UserStep ==
    \E t \in Handlers, c \in Chats : Press(t, c) \/ \E m \in Messages : Say(t, c, m)

Next ==
    \/ \E t \in Turns, c \in Chats : TurnStep(t, c)
    \/ SweepStep
    \/ UserStep
    \/ Tick
    \/ Crash

Spec == Init /\ [][Next]_vars

\* Every await of a turn ends, in an answer or in an error or a timeout; the sweeper's timer ticks
\* for as long as the process lives; and Notion does not stay away for ever.
Fairness ==
    /\ \A t \in Turns, c \in Chats : WF_vars(TurnStep(t, c))
    /\ WF_vars(SweepStep)
    /\ SF_vars(SweepScans)

FairSpec == Spec /\ Fairness

----------------------------------------------------------------------------
(* Properties. *)

Question == [token : Nat, text : SUBSET Messages, asked : 0 .. MAX_QUESTIONS - 1, expires : Nat]

\* In particular no question is asked once MAX_QUESTIONS were answered by button.
TypeOK ==
    /\ owner \in [Chats -> Turns \cup {Nobody}]
    /\ \A c \in Chats : InLine(c) \subseteq Turns
    /\ sessions \in [Chats -> Question]
    /\ \A e \in DOMAIN events :
            events[e] \in [chat : Chats, text : SUBSET Messages, ts : Times, open : BOOLEAN,
                          executed : BOOLEAN]
    /\ \A x \in DOMAIN executions :
            executions[x] \in [chat : Chats, undone : BOOLEAN, expires : Nat]
    /\ \A t \in Turns :
            /\ job[t].pc \in {"idle", "queued", "begun", "read", "resume", "researched", "inbox",
                             "write", "written", "undo", "undone", "done", "scanned", "sweeping",
                             "pop"}
            /\ job[t].chat \in Chats \cup {NoChat}
            /\ job[t].row \in 0 .. Len(events)
            /\ job[t].text \subseteq Messages
            /\ job[t].session \in Question
    /\ sweep \in [now : Times, todo : SUBSET Chats]
    /\ landed \in [Messages -> Nat]
    /\ DOMAIN reverts = DOMAIN executions

\* Everything a turn read before an await still holds when it acts on it after: the question a
\* message is read with, a button resumes or the inbox saves is the one the chat has open, and
\* where the turn found none there is none.
WhatWasReadHolds ==
    \A t \in Turns :
        job[t].pc \in {"read", "resume", "researched"} \/ job[t].why = "button" =>
            sessions[job[t].chat] = job[t].session

\* No message is dropped in silence while the inbox is on: it is in Notion, or in the question the
\* chat has open, or in a turn's hands, or its failure was reported, or the process died over it.
NothingLost ==
    \A m \in sent :
        \/ landed[m] > 0
        \/ m \in told \cup dying
        \/ \E c \in Chats : m \in sessions[c].text
        \/ \E t \in Turns : m \in InHand(t)

\* A message lands in Notion once, however its question is answered, pressed twice, rescued or
\* swept; only a lost answer or a crash may add a copy.
LandsOnce == \A m \in Messages : landed[m] <= 1 + crashes + lost

\* The same for every message but those the inbox took while their question stayed open.
LandsOnceUnlessDoubled ==
    \A m \in Messages \ doubled : landed[m] <= 1 + crashes + lost

\* A write is undone once, by its own button, by /undo or by both at once.
UndoneOnce == \A x \in DOMAIN reverts : reverts[x] <= 1 + crashes + lost

\* A press changes its chat's question only if it is an answer to that very question, or the
\* question has expired: an old keyboard never acts on a newer request.
PressesMeetTheirQuestion ==
    [][\A t \in Turns, c \in Chats :
        job[t].do = "answer" /\ job[t].chat = c /\ job'[t] # job[t] /\ sessions'[c] # sessions[c] =>
            sessions[c].token = job[t].arg \/ sessions[c].expires <= clock]_vars

\* The sweeper never takes a question that is still open, whatever its scan saw before.
SweepSparesTheLiving ==
    [][\A c \in Chats :
        job'[Sweeper] # job[Sweeper] /\ sessions'[c] # sessions[c] /\ crashes' = crashes =>
            sessions[c].expires <= clock]_vars

\* Every turn ends, and with it the wait of the turns behind it.
EveryTurnEnds == \A t \in Handlers : job[t] # Idle ~> job[t] = Idle

\* A question nobody answers in time is taken off the table even if its chat stays quiet.
ExpiredIsSwept ==
    \A c \in Chats : sessions[c].token # 0 /\ sessions[c].expires <= clock
                        ~> sessions[c].expires > clock \/ sessions[c].token = 0
=============================================================================
