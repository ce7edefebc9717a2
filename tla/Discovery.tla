----------------------------- MODULE Discovery -----------------------------
(***************************************************************************)
(* notion/discovery.py: the cached picture of the workspace that every     *)
(* message is read against.  A picture past its TTL is still served and    *)
(* replaced behind the answer; an invalidation, from a command, from the   *)
(* admin page's threads or from a write the picture has no room for, makes *)
(* the next reader wait for a new one; and a write that created something  *)
(* is patched into the picture so that the next step of a plan finds it.   *)
(*                                                                         *)
(* A refresh is three awaits: the search (pages), the queries (rows) and   *)
(* what is built of them.  The two stores of invalidate, and the compare   *)
(* and clear at the end of get, hold no call and no jump, so CPython lets  *)
(* no other thread in between: each is one step.                           *)
(***************************************************************************)
EXTENDS TargetsFile

CONSTANTS
    Database, Page,    \* the two places the user shared: one holds rows, one holds pages
    Things,            \* what is created in Notion, by turns or by hand
    Readers,           \* tasks that call get: turns, the sweeper, /refresh
    Behind,            \* the task _refreshing
    ITEMS,             \* items_per_target
    TTL, STALE_MAX

ASSUME PlacesAre   == Places = {Database, Page} \cup Things
ASSUME BehindIsNot == Behind \notin Readers
ASSUME Ages        == /\ {ITEMS, TTL, STALE_MAX} \subseteq Nat \ {0}
                      /\ TTL < STALE_MAX

VARIABLES
    notion,   \* what was created, newest first: [id, under]
    last,     \* _last
    force,    \* _force
    line,     \* _lock: its holder and, behind it, the tasks that wait for it
    task,     \* task[r]: a call of get with its local variables
    age,      \* how long ago `last` was taken, STALE_MAX when longer
    overtaken \* history: what was in a picture until a refresh older than the write replaced it

vars == <<fileVars, notion, last, force, line, task, age, overtaken>>

Tasks == Readers \cup {Behind}

None == [items |-> <<>>, inbox |-> NoPlace, late |-> FALSE]
Idle == [pc |-> "idle", age |-> 0, hit |-> FALSE, late |-> FALSE, pages |-> <<>>, rows |-> <<>>, places |-> {},
         made |-> NoPlace, under |-> NoPlace]

Known == last # None

cache   == <<last, force, age>>

\* The places of a picture: each has its newest rows or sub-pages, newest first.
PlacesOf(picture) == DOMAIN picture.items

PagesOf(s) == {s[i].id : i \in {j \in DOMAIN s : s[j].under # Database}}

Newest(s, p) ==
    LET at == {j \in DOMAIN s : s[j].under = p}
        Rank(j) == Cardinality({k \in at : k <= j})
        all == Cardinality(at)
    IN [i \in 1 .. IF all < ITEMS THEN all ELSE ITEMS |-> s[CHOOSE j \in at : Rank(j) = i].id]

Init ==
    /\ FileInit
    /\ notion = <<>>
    /\ last = None
    /\ force = FALSE
    /\ line = <<>>
    /\ task = [r \in Tasks |-> Idle]
    /\ age = 0
    /\ overtaken = {}

Tick ==
    /\ Known
    /\ age < STALE_MAX
    /\ age' = age + 1
    /\ UNCHANGED <<fileVars, notion, last, force, line, task, overtaken>>

----------------------------------------------------------------------------
(* invalidate sets the flag, and its count tells the refresh under way that it was hit.  Whatever *)
(* was read before it is late.  `tasks` is what `task` would be without it.                       *)
Fetching(r) == task[r].pc \in {"searching", "querying", "building"}

Outdated(picture) == IF Known THEN [picture EXCEPT !.late = TRUE] ELSE picture

Invalidated(tasks) ==
    /\ force' = TRUE
    /\ task' = [r \in Tasks |-> IF Fetching(r) THEN [tasks[r] EXCEPT !.hit = TRUE, !.late = TRUE]
                                               ELSE tasks[r]]

----------------------------------------------------------------------------
(* get *)
\* A call has returned `picture`; the turn may use it until its next call.
Served(picture) == [Idle EXCEPT !.places = PlacesOf(picture)]
InLine(r) == \E i \in DOMAIN line : line[i] = r
Holds(r) == line # <<>> /\ Head(line) = r

\* A fresh picture is returned, an old one too, with a refresh started behind it.
Fresh(r) ==
    /\ task[r].pc = "idle"
    /\ Known /\ ~ force
    /\ age < TTL
    /\ task' = [task EXCEPT ![r] = Served(last)]
    /\ UNCHANGED <<fileVars, notion, cache, line, overtaken>>

Stale(r) ==
    /\ task[r].pc = "idle"
    /\ Known /\ ~ force
    /\ TTL <= age /\ age < STALE_MAX
    /\ IF task[Behind].pc = "idle"
       THEN /\ task' = [task EXCEPT ![r] = Served(last), ![Behind].pc = "waiting"]
            /\ line' = Append(line, Behind)
       ELSE /\ task' = [task EXCEPT ![r] = Served(last)]
            /\ UNCHANGED line
    /\ UNCHANGED <<fileVars, notion, cache, overtaken>>

\* No picture, one invalidated or one too old: wait for the lock.
Queue(r) ==
    /\ task[r].pc = "idle"
    /\ ~ Known \/ force \/ age >= STALE_MAX
    /\ task' = [task EXCEPT ![r] = [Idle EXCEPT !.pc = "waiting"]]
    /\ line' = Append(line, r)
    /\ UNCHANGED <<fileVars, notion, cache, overtaken>>

\* /refresh invalidates and waits.
Refresh(r) ==
    /\ task[r].pc = "idle"
    /\ Invalidated([task EXCEPT ![r] = [Idle EXCEPT !.pc = "waiting"]])
    /\ line' = Append(line, r)
    /\ last' = Outdated(last)
    /\ UNCHANGED <<fileVars, notion, age, overtaken>>

\* Inside the lock: somebody before may have refreshed already.  The task behind does not look.
Enter(r) ==
    /\ task[r].pc = "waiting"
    /\ Holds(r)
    /\ IF r = Behind \/ ~ Known \/ force \/ age >= TTL
       THEN /\ task' = [task EXCEPT ![r].pc = "searching", ![r].age = age]
            /\ UNCHANGED line
       ELSE /\ task' = [task EXCEPT ![r] = Served(last)]
            /\ line' = Tail(line)
    /\ UNCHANGED <<fileVars, notion, cache, overtaken>>

Search(r) ==
    /\ task[r].pc = "searching"
    /\ task' = [task EXCEPT ![r].pc = "querying", ![r].pages = notion, ![r].late = FALSE]
    /\ UNCHANGED <<fileVars, notion, cache, line, overtaken>>

Query(r) ==
    /\ task[r].pc = "querying"
    /\ task' = [task EXCEPT ![r].pc = "building", ![r].rows = notion]
    /\ UNCHANGED <<fileVars, notion, cache, line, overtaken>>

\* The inbox of a picture: the environment's choice, or the lowest id that is flagged.
Inbox(places, meta) ==
    LET flagged == {p \in places : meta[p].inbox}
    IN CASE InboxEnv # NoPlace -> IF InboxEnv \in places THEN InboxEnv ELSE NoPlace
         [] InboxEnv = NoPlace /\ flagged = {} -> NoPlace
         [] OTHER -> CHOOSE p \in flagged : TRUE

\* What task r's search and queries found, put together.
Picture(r) ==
    LET places == {Database, Page} \cup PagesOf(task[r].pages)
    IN [items |-> [p \in places |->
                      Newest(IF p = Database THEN task[r].rows ELSE task[r].pages, p)],
        inbox |-> Inbox(places, Loaded),
        late  |-> task[r].late]

\* Is `x`, created under `p`, in the picture?  It may have been pushed off the end of a long list.
Shows(picture, x, p) ==
    IF p = Database
    THEN \E i \in DOMAIN picture.items[p] : picture.items[p][i] = x \/ i = ITEMS
    ELSE x \in PlacesOf(picture)

\* What turns created and the cache was told of.
Noted == {notion[i].id : i \in DOMAIN notion} \ {task[r].made : r \in Readers}

Home(x) == (CHOOSE i \in DOMAIN notion : notion[i].id = x)
Shown(picture, x) == Shows(picture, x, notion[Home(x)].under)

\* The new picture replaces the old one; get, but not the task behind, takes the force off, unless
\* somebody invalidated since it took the lock.
BuildForcing(r) ==
    /\ task[r].pc = "building"
    /\ Ensure
    /\ last' = Picture(r)
    /\ force' = FALSE
    /\ overtaken' = overtaken \cup {x \in Noted : ~ Shown(Picture(r), x)}
    /\ task' = [task EXCEPT ![r] = IF r = Behind THEN Idle ELSE Served(Picture(r))]
    /\ line' = Tail(line)
    /\ age' = 0
    /\ UNCHANGED <<tab, saves, notion>>

Build(r) ==
    /\ task[r].pc = "building"
    /\ Ensure
    /\ last' = Picture(r)
    /\ force' = (force /\ (r = Behind \/ task[r].hit))
    /\ overtaken' = overtaken \cup {x \in Noted : ~ Shown(Picture(r), x)}
    /\ task' = [task EXCEPT ![r] = IF r = Behind THEN Idle ELSE Served(Picture(r))]
    /\ line' = Tail(line)
    /\ age' = 0
    /\ UNCHANGED <<tab, saves, notion>>

\* Notion refuses or does not answer: the old picture will do for an hour after it was taken.
FailHolding(r) ==
    /\ task[r].pc \in {"searching", "querying"}
    /\ task' = [task EXCEPT ![r] =
           IF r # Behind /\ Known /\ task[r].age < STALE_MAX THEN Served(last) ELSE Idle]
    /\ UNCHANGED <<fileVars, notion, cache, line, overtaken>>

Fail(r) ==
    /\ task[r].pc \in {"searching", "querying"}
    /\ task' = [task EXCEPT ![r] =
           IF r # Behind /\ Known /\ task[r].age < STALE_MAX THEN Served(last) ELSE Idle]
    /\ line' = Tail(line)
    /\ UNCHANGED <<fileVars, notion, cache, overtaken>>

----------------------------------------------------------------------------
(* What the caller does with it. *)

\* Executor.run creates a row or a page in a place of the picture the turn was given.
Create(r, x, p) ==
    /\ task[r].pc = "idle"
    /\ p \in task[r].places
    /\ \A i \in DOMAIN notion : notion[i].id # x
    /\ notion' = <<[id |-> x, under |-> p]>> \o notion
    /\ task' = [task EXCEPT ![r] = [Idle EXCEPT !.pc = "created", !.made = x, !.under = p]]
    /\ UNCHANGED <<fileVars, cache, line, overtaken>>

\* note_new_page: the page becomes a place of the picture, whether or not its parent is one.
WithPlace(picture, x) ==
    IF x \in PlacesOf(picture) THEN picture
    ELSE [picture EXCEPT !.items = [p \in PlacesOf(picture) \cup {x} |->
                                       IF p = x THEN <<>> ELSE picture.items[p]]]

\* note_new_item: the newest item of its place, which keeps ITEMS of them.
WithItem(picture, x, p) ==
    IF \E i \in DOMAIN picture.items[p] : picture.items[p][i] = x THEN picture
    ELSE [picture EXCEPT !.items[p] = SubSeq(<<x>> \o @, 1, IF Len(@) < ITEMS THEN Len(@) + 1
                                                                              ELSE ITEMS)]

\* _note_new_item: what the picture has no room for is left to the next refresh.
NoteItem(r) ==
    /\ task[r].pc = "created"
    /\ IF task[r].under \in PlacesOf(last)
       THEN /\ last' = WithItem(last, task[r].made, task[r].under)
            /\ task' = [task EXCEPT ![r] = Idle]
            /\ UNCHANGED force
       ELSE /\ last' = Outdated(last)
            /\ Invalidated([task EXCEPT ![r] = Idle])
    /\ UNCHANGED <<fileVars, notion, line, age, overtaken>>

Note(r) ==
    /\ task[r].pc = "created"
    /\ LET x == task[r].made
           p == task[r].under
           picture == IF p = Database THEN last ELSE WithPlace(last, x)
       IN IF p \in PlacesOf(picture)
          THEN /\ last' = WithItem(picture, x, p)
               /\ task' = [task EXCEPT ![r] = Idle]
               /\ UNCHANGED force
          ELSE /\ last' = Outdated(picture)
               /\ Invalidated([task EXCEPT ![r] = Idle])
    /\ UNCHANGED <<fileVars, notion, line, age, overtaken>>

----------------------------------------------------------------------------
(* The admin page, from its own threads. *)
Serve(a) ==
    /\ \/ Known /\ (Open(a, PlacesOf(last)) \/ Post(a, PlacesOf(last)))
       \/ Save(a) \/ RestRefused(a)
    /\ UNCHANGED <<notion, cache, line, task, overtaken>>

\* All was saved: do_POST invalidates before it answers.
Accepted(a) ==
    /\ tab[a].pc = "saved"
    /\ tab' = [tab EXCEPT ![a] = Closed]
    /\ last' = Outdated(last)
    /\ Invalidated(task)
    /\ UNCHANGED <<file, saves, notion, line, age, overtaken>>

EditFile ==
    /\ HandEdit
    /\ UNCHANGED <<notion, cache, line, task, overtaken>>

----------------------------------------------------------------------------
Get(r) == Fresh(r) \/ Stale(r) \/ Queue(r) \/ Refresh(r)
Step(r) == Enter(r) \/ Search(r) \/ Query(r) \/ Build(r) \/ Fail(r)
Turn(r) == Note(r) \/ \E x \in Things, p \in Places : Create(r, x, p)

Next ==
    \/ Tick
    \/ \E r \in Readers : Get(r) \/ Turn(r)
    \/ \E r \in Tasks : Step(r)
    \/ \E a \in Requests : Serve(a) \/ Accepted(a)
    \/ EditFile

Spec == Init /\ [][Next]_vars

----------------------------------------------------------------------------
TypeOK ==
    /\ FileTypeOK
    /\ \A i \in DOMAIN notion : notion[i] \in [id : Things, under : Places]
    /\ PlacesOf(last) \subseteq Places
    /\ \A p \in PlacesOf(last) : Len(last.items[p]) <= ITEMS
    /\ force \in BOOLEAN
    /\ \A r \in Tasks :
           /\ task[r].pc \in {"idle", "waiting", "searching", "querying", "building", "created"}
           /\ InLine(r) <=> task[r].pc \in {"waiting", "searching", "querying", "building"}
           /\ task[r].pc \in {"searching", "querying", "building"} => Holds(r)

\* A picture that is served without waiting was read from Notion after the latest invalidation: the
\* refresh that was under way when it came may not take it back.
InvalidationHolds ==
    Known /\ ~ force => ~ last.late

\* What a step of a plan created is there for the next step to name, unless a refresh that had
\* read Notion before the write replaced the picture after it.
CreatedIsFound ==
    Known /\ ~ force => \A x \in Noted \ overtaken : Shown(last, x)
=============================================================================
