----------------------------- MODULE ChatQueue -----------------------------
(***************************************************************************)
(* What Orchestrator._chat_lock promises, without lock objects, reference  *)
(* counts or futures: every chat has at most one turn inside it and a line *)
(* of turns that are let in one at a time, in the order they came.         *)
(* ChatLock shows that the code keeps this promise; Conversation is built  *)
(* on it.                                                                  *)
(***************************************************************************)
EXTENDS Integers, Sequences, SequencesExt

CONSTANTS
    Turns,  \* the tasks that take turns: Telegram handlers and the sweeper
    Chats,  \* chat ids
    Nobody  \* the owner of a chat nobody is inside

ASSUME NobodyIsNoTurn == Nobody \notin Turns

VARIABLES
    owner,  \* owner[c]: the turn inside chat c, or Nobody
    line    \* line[c]: the turns waiting for chat c, first come first

queueVars == <<owner, line>>

InLine(c) == {line[c][i] : i \in DOMAIN line[c]}
Present(t) == \E c \in Chats : owner[c] = t \/ t \in InLine(c)

QueueInit ==
    /\ owner = [c \in Chats |-> Nobody]
    /\ line  = [c \in Chats |-> <<>>]

----------------------------------------------------------------------------
\* An empty chat is entered at once, whatever else is going on elsewhere.
JoinEmpty(t, c) ==
    /\ owner[c] = Nobody
    /\ line[c] = <<>>
    /\ owner' = [owner EXCEPT ![c] = t]
    /\ UNCHANGED line

JoinLine(t, c) ==
    /\ owner[c] # Nobody \/ line[c] # <<>>
    /\ line' = [line EXCEPT ![c] = Append(@, t)]
    /\ UNCHANGED owner

Join(t, c) == ~ Present(t) /\ (JoinEmpty(t, c) \/ JoinLine(t, c))

\* Only the head of the line may enter, and only once the chat is empty.
Enter(t, c) ==
    /\ owner[c] = Nobody
    /\ line[c] # <<>>
    /\ Head(line[c]) = t
    /\ owner' = [owner EXCEPT ![c] = t]
    /\ line'  = [line EXCEPT ![c] = Tail(@)]

Leave(t, c) ==
    /\ owner[c] = t
    /\ owner' = [owner EXCEPT ![c] = Nobody]
    /\ UNCHANGED line

\* A turn whose task is cancelled while it waits gives up its place.
GiveUp(t, c) ==
    \E i \in DOMAIN line[c] :
        /\ line[c][i] = t
        /\ line' = [line EXCEPT ![c] = RemoveAt(@, i)]
        /\ UNCHANGED owner

QueueNext ==
    \E t \in Turns, c \in Chats :
        Join(t, c) \/ Enter(t, c) \/ Leave(t, c) \/ GiveUp(t, c)

QueueSpec == QueueInit /\ [][QueueNext]_queueVars
=============================================================================
