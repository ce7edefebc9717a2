------------------------------ MODULE ChatLock ------------------------------
(***************************************************************************)
(* Orchestrator._chat_lock: one asyncio.Lock per chat with a turn in       *)
(* flight, found through the table _locks, counted in _waiting, and        *)
(* dropped from both when the last turn that took it leaves.               *)
(*                                                                         *)
(* A lock is an object with an identity: two turns exclude each other only *)
(* when they hold the same object, so the module keeps apart the table     *)
(* entry locks[c] and the object lockOf[t] a turn fetched from it.  The    *)
(* asyncio.Lock itself is external: held is its _locked, queue its         *)
(* _waiters, and woken the turns whose future release() has set and that   *)
(* the event loop has not resumed yet.  Between those two moments the lock *)
(* is free, and another turn may arrive.                                   *)
(***************************************************************************)
EXTENDS Integers, Sequences, FiniteSets, SequencesExt

CONSTANTS
    Turns,   \* tasks that call an entry point, each with one chat at a time
    Chats,   \* chat ids
    Locks,   \* identities of asyncio.Lock objects, reused once unreferenced
    NoLock,  \* no entry in _locks, or no lock fetched
    NoChat,  \* the chat of a turn that is not in flight
    Nobody   \* ChatQueue's owner of an empty chat

ASSUME TurnsAreFinite == IsFiniteSet(Turns)
ASSUME NoLockIsNoLock == NoLock \notin Locks
ASSUME NoChatIsNoChat == NoChat \notin Chats
ASSUME NobodyIsNoTurn == Nobody \notin Turns

VARIABLES
    pc,       \* "idle", "queued" (awaiting acquire) or "inside" the lock
    chatOf,   \* the chat_id a turn was called with
    lockOf,   \* the local variable `lock` of a turn's _chat_lock
    locks,    \* _locks
    waiting,  \* _waiting, 0 standing for no entry
    held,     \* asyncio.Lock._locked
    queue,    \* asyncio.Lock._waiters
    woken     \* turns whose waiter future is set

vars == <<pc, chatOf, lockOf, locks, waiting, held, queue, woken>>

Pending(c)  == {t \in Turns : pc[t] # "idle" /\ chatOf[t] = c}
Referenced  == {lockOf[t] : t \in Turns} \cup {locks[c] : c \in Chats}

TypeOK ==
    /\ pc \in [Turns -> {"idle", "queued", "inside"}]
    /\ chatOf \in [Turns -> Chats \cup {NoChat}]
    /\ lockOf \in [Turns -> Locks \cup {NoLock}]
    /\ locks \in [Chats -> Locks \cup {NoLock}]
    /\ waiting \in [Chats -> Nat]
    /\ held \in [Locks -> BOOLEAN]
    /\ queue \in [Locks -> Seq(Turns)]
    /\ woken \in SUBSET Turns

Init ==
    /\ pc = [t \in Turns |-> "idle"]
    /\ chatOf = [t \in Turns |-> NoChat]
    /\ lockOf = [t \in Turns |-> NoLock]
    /\ locks = [c \in Chats |-> NoLock]
    /\ waiting = [c \in Chats |-> 0]
    /\ held = [l \in Locks |-> FALSE]
    /\ queue = [l \in Locks |-> <<>>]
    /\ woken = {}

----------------------------------------------------------------------------
(* asyncio.Lock, external. *)

\* A newcomer that overtakes the waiters of a free lock.
AcquireOvertaking(t, l) ==
    /\ ~ held[l]
    /\ held' = [held EXCEPT ![l] = TRUE]
    /\ pc' = [pc EXCEPT ![t] = "inside"]
    /\ UNCHANGED <<queue, woken>>

\* acquire() returns without suspending when nobody holds the lock and nobody waits.
AcquireFast(t, l) ==
    /\ ~ held[l]
    /\ queue[l] = <<>>
    /\ held' = [held EXCEPT ![l] = TRUE]
    /\ pc' = [pc EXCEPT ![t] = "inside"]
    /\ UNCHANGED <<queue, woken>>

\* Otherwise it appends a future to _waiters and suspends.
AcquireSlow(t, l) ==
    /\ held[l] \/ queue[l] # <<>>
    /\ queue' = [queue EXCEPT ![l] = Append(@, t)]
    /\ pc' = [pc EXCEPT ![t] = "queued"]
    /\ UNCHANGED <<held, woken>>

\* _wake_up_first over the waiters q: set the first one's future, if there is one.
WakeFirst(q) == IF q = <<>> THEN {} ELSE {Head(q)}

----------------------------------------------------------------------------
(* _chat_lock. *)

\* A table entry deleted as soon as its holder leaves, and one that is never deleted.
ForgetEarly(c) ==
    /\ waiting' = [waiting EXCEPT ![c] = @ - 1]
    /\ locks' = [locks EXCEPT ![c] = NoLock]

ForgetNever(c) ==
    /\ waiting' = [waiting EXCEPT ![c] = @ - 1]
    /\ UNCHANGED locks

\* The counter and the table on the way out: `remaining`, and both entries dropped at zero.
Forget(c) ==
    /\ waiting' = [waiting EXCEPT ![c] = @ - 1]
    /\ locks' = IF waiting[c] = 1 THEN [locks EXCEPT ![c] = NoLock] ELSE locks

\* An arrival that is not counted.
ArriveUncounted(t, c) ==
    /\ pc[t] = "idle"
    /\ \E l \in Locks :
        /\ IF locks[c] = NoLock THEN l \notin Referenced ELSE l = locks[c]
        /\ locks' = [locks EXCEPT ![c] = l]
        /\ lockOf' = [lockOf EXCEPT ![t] = l]
        /\ chatOf' = [chatOf EXCEPT ![t] = c]
        /\ AcquireFast(t, l) \/ AcquireSlow(t, l)
    /\ UNCHANGED waiting

\* A turn reaches an entry point: fetch or create the chat's lock, count itself, acquire.
\* There is no await before acquire, so all of it is one step.
Arrive(t, c) ==
    /\ pc[t] = "idle"
    /\ \E l \in Locks :
        /\ IF locks[c] = NoLock THEN l \notin Referenced ELSE l = locks[c]
        /\ locks' = [locks EXCEPT ![c] = l]
        /\ lockOf' = [lockOf EXCEPT ![t] = l]
        /\ chatOf' = [chatOf EXCEPT ![t] = c]
        /\ waiting' = [waiting EXCEPT ![c] = @ + 1]
        /\ AcquireFast(t, l) \/ AcquireSlow(t, l)

\* The event loop resumes a woken waiter, which takes the lock without looking at it again.
Resume(t) ==
    /\ pc[t] = "queued"
    /\ t \in woken
    /\ LET l == lockOf[t] IN
        \E i \in DOMAIN queue[l] :
            /\ queue[l][i] = t
            /\ queue' = [queue EXCEPT ![l] = RemoveAt(@, i)]
            /\ held' = [held EXCEPT ![l] = TRUE]
    /\ woken' = woken \ {t}
    /\ pc' = [pc EXCEPT ![t] = "inside"]
    /\ UNCHANGED <<chatOf, lockOf, locks, waiting>>

\* A turn that ends with an exception before it releases the lock.
LeaveHolding(t) ==
    /\ pc[t] = "inside"
    /\ Forget(chatOf[t])
    /\ pc' = [pc EXCEPT ![t] = "idle"]
    /\ chatOf' = [chatOf EXCEPT ![t] = NoChat]
    /\ lockOf' = [lockOf EXCEPT ![t] = NoLock]
    /\ UNCHANGED <<held, queue, woken>>

\* The turn is over, with a reply or an exception: release the lock, then forget the turn.
LeaveTurn(t) ==
    /\ pc[t] = "inside"
    /\ LET l == lockOf[t] IN
        /\ held' = [held EXCEPT ![l] = FALSE]
        /\ woken' = woken \cup WakeFirst(queue[l])
    /\ Forget(chatOf[t])
    /\ pc' = [pc EXCEPT ![t] = "idle"]
    /\ chatOf' = [chatOf EXCEPT ![t] = NoChat]
    /\ lockOf' = [lockOf EXCEPT ![t] = NoLock]
    /\ UNCHANGED queue

\* A cancelled waiter that takes the wake-up it was given with it.
CancelAwake(t) ==
    /\ pc[t] = "queued"
    /\ LET l == lockOf[t] IN
        \E i \in DOMAIN queue[l] :
            /\ queue[l][i] = t
            /\ queue' = [queue EXCEPT ![l] = RemoveAt(@, i)]
    /\ woken' = woken \ {t}
    /\ Forget(chatOf[t])
    /\ pc' = [pc EXCEPT ![t] = "idle"]
    /\ chatOf' = [chatOf EXCEPT ![t] = NoChat]
    /\ lockOf' = [lockOf EXCEPT ![t] = NoLock]
    /\ UNCHANGED held

\* A waiting turn's task is cancelled, before or after its future was set: acquire() removes the
\* waiter, passes the wake-up on when the lock is free, and `finally` forgets the turn.
Cancel(t) ==
    /\ pc[t] = "queued"
    /\ LET l == lockOf[t] IN
        \E i \in DOMAIN queue[l] :
            /\ queue[l][i] = t
            /\ queue' = [queue EXCEPT ![l] = RemoveAt(@, i)]
            /\ woken' = (woken \ {t}) \cup
                            (IF held[l] THEN {} ELSE WakeFirst(RemoveAt(queue[l], i)))
    /\ Forget(chatOf[t])
    /\ pc' = [pc EXCEPT ![t] = "idle"]
    /\ chatOf' = [chatOf EXCEPT ![t] = NoChat]
    /\ lockOf' = [lockOf EXCEPT ![t] = NoLock]
    /\ UNCHANGED held

Next == \E t \in Turns : Resume(t) \/ LeaveTurn(t) \/ Cancel(t) \/ \E c \in Chats : Arrive(t, c)

\* The event loop runs every ready task, and no turn stays inside for ever: each of its awaits
\* (HTTP, model, thread) has a timeout.  Arrivals and cancellations are nobody's duty.
Fairness == \A t \in Turns : WF_vars(Resume(t)) /\ WF_vars(LeaveTurn(t))

Spec == Init /\ [][Next]_vars
FairSpec == Spec /\ Fairness

----------------------------------------------------------------------------
(* Properties. *)

\* Two turns of one chat are never inside together, whatever lock objects they fetched: the
\* guards of orchestrator.py are reads followed by awaits and writes, and are safe only so.
MutualExclusion ==
    \A t, u \in Turns :
        pc[t] = "inside" /\ pc[u] = "inside" /\ chatOf[t] = chatOf[u] => t = u

\* The tables hold an entry for exactly the chats with a turn in flight, counted right, and
\* every turn in flight holds the very object a newcomer would be given.
TablesTrackTurns ==
    \A c \in Chats :
        /\ waiting[c] = Cardinality(Pending(c))
        /\ locks[c] # NoLock <=> Pending(c) # {}
        /\ \A t \in Pending(c) : lockOf[t] = locks[c]

\* No lock is left held, or left free with sleepers nobody has woken.
NobodyForgotten ==
    \A l \in Locks :
        /\ held[l] => \E t \in Turns : pc[t] = "inside" /\ lockOf[t] = l
        /\ ~ held[l] /\ queue[l] # <<>> => Head(queue[l]) \in woken

\* A turn that queued up gets in, unless it is cancelled first: the line is first come, first
\* served, so a busy chat cannot starve one of its own messages.
EveryoneGetsIn == \A t \in Turns : pc[t] = "queued" ~> pc[t] # "queued"

\* The detailed lock implements the abstract line of turns.
Inside(c) == {t \in Turns : pc[t] = "inside" /\ chatOf[t] = c}
Owner(c)  == IF Inside(c) = {} THEN Nobody ELSE CHOOSE t \in Turns : t \in Inside(c)
Line(c)   == IF locks[c] = NoLock THEN <<>> ELSE queue[locks[c]]

Queue == INSTANCE ChatQueue WITH
            owner <- [c \in Chats |-> Owner(c)],
            line  <- [c \in Chats |-> Line(c)]

ImplementsQueue == Queue!QueueSpec
=============================================================================
