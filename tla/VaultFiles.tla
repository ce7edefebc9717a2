----------------------------- MODULE VaultFiles -----------------------------
(***************************************************************************)
(* app/vault: the files of the Obsidian vault, the bot's turns that write  *)
(* them from worker threads, the linking that goes on behind the reply,    *)
(* Undo, and the user, who edits the same files.                           *)
(*                                                                         *)
(* A write reads the file, works out its new text, spills it into          *)
(* <name>.tmp and moves that over the file.  Nothing keeps two threads     *)
(* from doing so at once: turns of two chats share the vault, and linking  *)
(* holds no lock.  A text is the set of its lines: where in it a line goes *)
(* is left out here.                                                       *)
(***************************************************************************)
EXTENDS Integers, Sequences, FiniteSets, Functions, TLC

CONSTANTS
    Turns,
    ChatOf,        \* ChatOf[t]: the chat of turn t
    Pages, Inbox,  \* the pages of lines: tasks, day, inbox
    Skipped,       \* SKIP_NOTES and inbox writes: the pages the linker leaves alone
    Names,         \* the free names of a title, in the order unique() tries them
    Old, Hand,     \* a line that was there before the bot, and one the user types
    Typed,         \* bound: the notes the user may type it into
    MaxActions,    \* bound: what the model asks of one turn (MAX_ACTIONS is 10)
    MaxWrites,     \* bound: all turns together
    MaxCrashes     \* bound: the process dies

Notes == {Names[i] : i \in DOMAIN Names}
Paths == Pages \cup Notes

ASSUME LinesDiffer == {Old, Hand} \cap (Turns \X (1 .. MaxActions)) = {}
ASSUME PathsDiffer == Pages \cap Notes = {} /\ Inbox \in Skipped /\ Skipped \subseteq Pages
ASSUME NamesAreThere == 1 \in DOMAIN Names
ASSUME TypedArePaths == Typed \subseteq Paths
ASSUME TurnsAreFinite == IsFiniteSet(Turns) /\ DOMAIN ChatOf = Turns
ASSUME Bounds == {MaxActions, MaxWrites, MaxCrashes} \subseteq Nat

VARIABLES
    files,    \* what is in the vault: [the paths that exist -> text]
    spill,    \* spill[p]: p's .tmp: <<>> or <<the write it belongs to>>
    trash,    \* trash[p]: what was moved or copied to .trash under p's name, oldest first
    index,    \* VaultIndex._notes: the paths it knows of
    job,      \* job[t]: turn t's vault task, and later its Undo
    link,     \* link[t]: the linking behind turn t's reply
    crashes,
    before,   \* history: before[t]: the files as they were when t first opened them, <<>> if absent
    foreign,  \* history: foreign[t]: of those, the ones somebody else wrote since
    unseen,   \* history: lines put over by a text whose author had not read them: they came after it
              \* read the file, or it was to replace their section and never read that
    written   \* history: every line that was in the vault, or was thought to be

vars == <<files, spill, trash, index, job, link, crashes, before, foreign, unseen, written>>

\* A turn's k-th action writes the line <<turn, k>>.
Line == {Old, Hand} \cup (Turns \X (1 .. MaxActions))
\* Of what stands around the lines: is the box that an update means ticked, which lines have links.
Text == [lines : SUBSET Line, done : BOOLEAN, linked : SUBSET Line]
Blank == [lines |-> {}, done |-> FALSE, linked |-> {}]
Of(w) == [Blank EXCEPT !.lines = {w}]
With(text, w) == [text EXCEPT !.lines = @ \cup {w}]
\* replace_section, or the whole text as one section: the box goes when nothing of the text is left.
Replaced(text, section, lines) ==
    LET all == (text.lines \ section) \cup lines
    IN [lines |-> all, done |-> text.done /\ section # text.lines, linked |-> text.linked \cap all]

Put(p, x, f) == [q \in DOMAIN f \cup {p} |-> IF q = p THEN x ELSE f[q]]

\* VaultWriter._read: the text, or None.
Read(p) == IF p \in DOMAIN files THEN <<files[p]>> ELSE <<>>
OrBlank(maybe) == IF maybe = <<>> THEN Blank ELSE maybe[1]
LinesOf(maybe) == OrBlank(maybe).lines

\* Where a write goes, the text Undo brings back, the text it makes, and the lines it knew of.
Plan(p, previous, new, seen) == [path |-> p, previous |-> previous, new |-> new, seen |-> seen]
NoPlan == Plan(Inbox, <<>>, Blank, {})

Idle == [pc |-> "idle", listed |-> {}, acts |-> <<>>, asked |-> 0, plan |-> NoPlan,
         undos |-> <<>>, left |-> 0, refused |-> FALSE, wished |-> FALSE]
Unlinked == [pc |-> "idle", todo |-> <<>>, seen |-> Blank, new |-> Blank]

Init ==
    /\ files = [p \in {Names[1]} |-> Of(Old)]
    /\ spill = [p \in Paths |-> <<>>]
    /\ trash = [p \in Paths |-> <<>>]
    /\ index = {}
    /\ job = [t \in Turns |-> Idle]
    /\ link = [t \in Turns |-> Unlinked]
    /\ crashes = 0
    /\ before = [t \in Turns |-> <<>>]
    /\ foreign = [t \in Turns |-> {}]
    /\ unseen = {}
    /\ written = {Old}

disk    == <<files, spill, trash>>
history == <<before, foreign, unseen, written>>

\* The linker writes on the event loop's own thread: what else runs there waits for it.
LoopIsFree == \A t \in Turns : link[t].pc # "spilled"

\* A turn and an Undo hold their chat's lock.
Busy(t) == job[t].pc \notin {"idle", "done", "undone", "dead"}
LockIsFree(t) == \A u \in Turns : Busy(u) => ChatOf[u] # ChatOf[t]

----------------------------------------------------------------------------
(* handle: refresh the index in a thread, ask the model, check, prepare the rewrites *)

Begin(t) ==
    /\ LoopIsFree /\ job[t].pc = "idle" /\ LockIsFree(t)
    /\ job' = [job EXCEPT ![t].pc = "indexing", ![t].listed = DOMAIN files]
    /\ UNCHANGED <<disk, index, link, crashes, history>>

\* VaultIndex.refresh: what was listed and can be read is known, what was not listed is forgotten,
\* a note that somebody made meanwhile with it.
Index(t) ==
    /\ job[t].pc = "indexing"
    /\ index' = job[t].listed \cap (index \cup DOMAIN files)
    /\ job' = [job EXCEPT ![t].pc = "filing", ![t].listed = {}]
    /\ UNCHANGED <<disk, link, crashes, history>>

Filings == {n \in 1 .. MaxActions : n + FoldFunction(+, 0, [t \in Turns |-> job[t].asked]) <= MaxWrites}

Act(kind, p, w) == [kind |-> kind, note |-> p, word |-> w, body |-> {}]

\* What check lets through: a line for a page, a new note, or a note that is there; anything else
\* becomes a line of the inbox.
Checked(w) ==
    {Act("line", p, w) : p \in Pages} \cup {Act("note", Inbox, w)}
        \cup {Act(kind, p, w) : kind \in {"append", "update", "rewrite"}, p \in index \cap Notes}

\* The model cannot be used, the gate stays shut, or it was a question: nothing is written.
NothingFiled(t) ==
    /\ LoopIsFree /\ job[t].pc = "filing"
    /\ job' = [job EXCEPT ![t].pc = "done"]
    /\ UNCHANGED <<disk, index, link, crashes, history>>

File(t) ==
    /\ LoopIsFree /\ job[t].pc = "filing"
    /\ \E n \in Filings : \E acts \in [1 .. n -> UNION {Checked(<<t, k>>) : k \in 1 .. n}] :
           /\ \A k \in 1 .. n : acts[k].word = <<t, k>>
           /\ job' = [job EXCEPT ![t].pc = "writing", ![t].acts = acts, ![t].asked = n]
    /\ UNCHANGED <<disk, index, link, crashes, history>>

Unprepared(t) == {i \in DOMAIN job[t].acts : /\ job[t].acts[i].kind = "rewrite"
                                             /\ job[t].acts[i].body = {}}

\* _rewritten: read the note as it is now and let the model edit it or write it anew.  The answer comes much later, but only what was read goes into it.
Prepare(t) ==
    /\ job[t].pc = "writing" /\ Unprepared(t) # {}
    /\ \E i \in Unprepared(t) :
           /\ \A j \in Unprepared(t) : i <= j
           /\ LET act == job[t].acts[i]
              IN \/ /\ act.note \in index \cap DOMAIN files
                    /\ \E keep \in {files[act.note].lines, {}} :
                           job' = [job EXCEPT ![t].acts[i].body = keep \cup {act.word}]
                 \/ \* the note is gone or unreadable, or the model has nothing to change in it
                    job' = [job EXCEPT ![t].acts = SubSeq(@, 1, i - 1) \o SubSeq(@, i + 1, Len(@))]
    /\ UNCHANGED <<disk, index, link, crashes, history>>

----------------------------------------------------------------------------
(* VaultWriter.run: an action is worked out from the file as it is now. *)

AddTo(p, w) == Plan(p, Read(p), With(OrBlank(Read(p)), w), LinesOf(Read(p)))

\* unique(): the first name the index does not have.
Free == {i \in DOMAIN Names : Names[i] \notin index /\ \A j \in 1 .. i - 1 : Names[j] \in index}
FreeName == Names[CHOOSE i \in Free : TRUE]
\* Bound: no note is made when all the names are taken.
NameLeft(act) == act.kind = "note" => Free # {}
NewNote(name, w) == Plan(name, <<>>, Of(w), IF name \in index THEN LinesOf(Read(name)) ELSE {})

\* Which lines stand under the heading that an action names, nobody knows before the write; all
\* of them when it names none.
Sections(p) == IF p \in DOMAIN files THEN SUBSET files[p].lines ELSE {}

\* An update ticks a box or sets a property, if it is found, and puts its text in the place of a
\* section, if that is found.  The filer wrote that text without having read the note, and .trash
\* gets no copy of the section.
Updated(act, text) ==
    {Plan(act.note, <<text>>, [text EXCEPT !.done = ~ @], text.lines)}
        \cup {Plan(act.note, <<text>>, Replaced(text, section, {act.word}), text.lines \ section) :
                   section \in Sections(act.note)}

\* A rewrite puts its text in the place of the note's or of a section's.
Rewritten(act, text) ==
    {Plan(act.note, <<text>>, Replaced(text, section, act.body), text.lines) :
         section \in Sections(act.note) \cup {text.lines}}

\* What an action may come to; the inbox gets what finds nothing to change.
Outcomes(act) ==
    LET text == OrBlank(Read(act.note))
        instead == AddTo(Inbox, act.word)
        found == act.note \in index    \* by_name finds it still
    IN CASE act.kind = "line" -> {AddTo(act.note, act.word)}
         [] act.kind = "note" -> {NewNote(FreeName, act.word)}
         [] act.kind = "append" /\ found ->
                {Plan(act.note, <<text>>, With(text, act.word), text.lines)}
         [] act.kind = "update" /\ found -> Updated(act, text) \cup {instead}
         [] act.kind = "rewrite" /\ found -> Rewritten(act, text) \cup {instead}
         [] act.kind \notin {"line", "note"} /\ ~ found -> {instead}

\* .trash keeps everything: a name that is taken gets a number (_unused).
TrashedOver(p, text) == [trash EXCEPT ![p] = IF text.lines = {} THEN @ ELSE <<text>>]
Trashed(p, text) == [trash EXCEPT ![p] = IF text.lines = {} THEN @ ELSE Append(@, text)]

\* _to_trash comes before the rewrite itself.
Copied(act, plan) ==
    IF act.kind = "rewrite" /\ plan.path = act.note THEN Trashed(plan.path, plan.previous[1])
                                                    ELSE trash

OpenStaying(t) ==
    /\ job[t].pc = "writing" /\ Unprepared(t) = {} /\ job[t].acts # <<>>
    /\ NameLeft(Head(job[t].acts))
    /\ LET act == Head(job[t].acts)
       IN \E plan \in Outcomes(act) :
          /\ job' = [job EXCEPT ![t].pc = "opened", ![t].plan = plan]
          /\ trash' = Copied(act, plan)
          /\ before' = [before EXCEPT ![t] =
                 IF plan.path \in DOMAIN @ THEN @ ELSE Put(plan.path, Read(plan.path), @)]
          /\ foreign' = [foreign EXCEPT ![t] =
                 IF plan.path \in DOMAIN files \ index THEN @ \cup {plan.path} ELSE @]
    /\ UNCHANGED <<files, spill, index, link, crashes, unseen, written>>

Open(t) ==
    /\ job[t].pc = "writing" /\ Unprepared(t) = {} /\ job[t].acts # <<>>
    /\ NameLeft(Head(job[t].acts))
    /\ LET act == Head(job[t].acts)
       IN \E plan \in Outcomes(act) :
          /\ job' = [job EXCEPT ![t].pc = "opened", ![t].acts = Tail(@), ![t].plan = plan]
          /\ trash' = Copied(act, plan)
          /\ before' = [before EXCEPT ![t] =
                 IF plan.path \in DOMAIN @ THEN @ ELSE Put(plan.path, Read(plan.path), @)]
          /\ foreign' = [foreign EXCEPT ![t] =
                 IF plan.path \in DOMAIN files \ index THEN @ \cup {plan.path} ELSE @]
    /\ UNCHANGED <<files, spill, index, link, crashes, unseen, written>>

\* p or its .tmp is written: meddling, to every turn that wrote it but `whose`.
Meddles(whose, p) ==
    foreign' = [u \in Turns |-> IF u \notin whose /\ p \in DOMAIN before[u]
                                THEN foreign[u] \cup {p} ELSE foreign[u]]

Spill(t) ==
    /\ job[t].pc \in {"opened", "restoring"}
    /\ spill' = [spill EXCEPT ![job[t].plan.path] = <<job[t].plan>>]
    /\ Meddles({t}, job[t].plan.path)
    /\ job' = [job EXCEPT ![t].pc = IF @ = "opened" THEN "spilled" ELSE "respilled"]
    /\ UNCHANGED <<files, trash, index, link, crashes, before, unseen, written>>

\* os.replace and note_changed.  What lands is what is in the .tmp, whoever put it there.
Landed(p) ==
    /\ files' = Put(p, spill[p][1].new, files)
    /\ spill' = [spill EXCEPT ![p] = <<>>]
    /\ index' = index \cup {p}

\* `new` was to land at p: what is gone, and was not known to the author of what did land.
Overwritten(p, new) ==
    unseen' = unseen \cup (((LinesOf(Read(p)) \ spill[p][1].seen) \cup new.lines) \ spill[p][1].new.lines)

Land(t) ==
    /\ job[t].pc = "spilled"
    /\ LET plan == job[t].plan
       IN /\ spill[plan.path] # <<>>
          /\ Landed(plan.path)
          /\ Overwritten(plan.path, plan.new)
          /\ Meddles({t}, plan.path)
          /\ written' = written \cup plan.new.lines
          /\ job' = [job EXCEPT ![t].pc = "writing", ![t].plan = NoPlan,
                                ![t].undos = Append(@, [path |-> plan.path, previous |-> plan.previous])]
    /\ UNCHANGED <<trash, link, crashes, before>>

RefusedQuietly(t) ==
    /\ job[t].pc = "opened" \/ (job[t].pc = "spilled" /\ spill[job[t].plan.path] = <<>>)
    /\ job' = [job EXCEPT ![t].pc = "done", ![t].plan = NoPlan, ![t].acts = <<>>, ![t].undos = <<>>]
    /\ UNCHANGED <<disk, index, link, crashes, history>>

\* The disk refuses, or another thread has moved the .tmp away: the writes that were made are
\* dropped with their undos, and the reply says that it failed.
Refused(t) ==
    /\ job[t].pc = "opened" \/ (job[t].pc = "spilled" /\ spill[job[t].plan.path] = <<>>)
    /\ job' = [job EXCEPT ![t].pc = "done", ![t].plan = NoPlan, ![t].acts = <<>>, ![t].undos = <<>>,
                          ![t].refused = TRUE]
    /\ UNCHANGED <<disk, index, link, crashes, history>>

\* All are written.  The reply goes out with its Undo, and the linking starts unless switched off.
Written(t) ==
    /\ LoopIsFree /\ job[t].pc = "writing" /\ job[t].acts = <<>>
    /\ job' = [job EXCEPT ![t].pc = "done"]
    /\ \E todo \in {<<>>, [i \in DOMAIN job[t].undos |-> job[t].undos[i].path]} :
           link' = [link EXCEPT ![t].todo = todo]
    /\ UNCHANGED <<disk, index, crashes, history>>

----------------------------------------------------------------------------
(* Linker.link, one write after the other *)

LinkRead(t) ==
    /\ LoopIsFree /\ link[t].pc = "idle" /\ link[t].todo # <<>>
    /\ LET p == Head(link[t].todo)
       IN link' = IF p \in DOMAIN files \ Skipped
                  THEN [link EXCEPT ![t].pc = "asking", ![t].seen = files[p]]
                  ELSE [link EXCEPT ![t].todo = Tail(@)]
    /\ UNCHANGED <<disk, index, job, crashes, history>>

\* The next write's note; nothing to link, or the call failed.
LinkNext(t) == [Unlinked EXCEPT !.todo = Tail(link[t].todo)]

LinkNothing(t) ==
    /\ LoopIsFree /\ link[t].pc = "asking"
    /\ link' = [link EXCEPT ![t] = LinkNext(t)]
    /\ UNCHANGED <<disk, index, job, crashes, history>>

\* A turn's own links are part of what its Undo takes away, unless that has begun.
Owners(t) == IF job[t].pc = "done" THEN {t} ELSE {}

\* Links are only put around words that are in the text.
LinkSpill(t) ==
    /\ LoopIsFree /\ link[t].pc = "asking"
    /\ link[t].seen.linked # link[t].seen.lines
    /\ LET p == Head(link[t].todo)
           new == [link[t].seen EXCEPT !.linked = link[t].seen.lines]
       IN /\ spill' = [spill EXCEPT ![p] = <<Plan(p, <<>>, new, link[t].seen.lines)>>]
          /\ Meddles(Owners(t), p)
          /\ link' = [link EXCEPT ![t].pc = "spilled", ![t].new = new]
    /\ UNCHANGED <<files, trash, index, job, crashes, before, unseen, written>>

LinkLand(t) ==
    /\ link[t].pc = "spilled"
    /\ LET p == Head(link[t].todo)
       IN IF spill[p] = <<>>
          THEN UNCHANGED <<files, spill, index, foreign, unseen>>
          ELSE /\ Landed(p)
               /\ Overwritten(p, link[t].new)
               /\ Meddles(Owners(t), p)
    /\ link' = [link EXCEPT ![t] = LinkNext(t)]
    /\ UNCHANGED <<trash, job, crashes, before, written>>

----------------------------------------------------------------------------
(* Undo: every file of the turn, newest first, each in a thread. *)

\* What the user wants gone: the turn's own words.
OwnWords(t) == {t} \X (1 .. MaxActions)

OldestFirst(t) == job[t].undos[Len(job[t].undos) - job[t].left + 1]

\* The undo of the latest write that has not been taken back.
Latest(t) == job[t].undos[job[t].left]

Undo(t) ==
    /\ LoopIsFree /\ job[t].pc = "done" /\ job[t].undos # <<>> /\ LockIsFree(t)
    /\ job' = [job EXCEPT ![t].pc = "undoing", ![t].left = Len(job[t].undos), ![t].wished = TRUE]
    /\ UNCHANGED <<disk, index, link, crashes, history>>

\* A note that was created goes to .trash with whatever is in it by now.
Bin(t) ==
    /\ job[t].pc = "undoing" /\ job[t].left > 0
    /\ Latest(t).previous = <<>>
    /\ LET p == Latest(t).path
       IN /\ trash' = IF p \in DOMAIN files THEN Trashed(p, files[p]) ELSE trash
          /\ files' = [q \in DOMAIN files \ {p} |-> files[q]]
          /\ index' = index \ {p}
          /\ Meddles({t}, p)
    /\ job' = [job EXCEPT ![t].left = @ - 1]
    /\ UNCHANGED <<spill, link, crashes, before, unseen, written>>

\* A note that was there gets its text from before, whatever it says now.
Restore(t) ==
    /\ job[t].pc = "undoing" /\ job[t].left > 0
    /\ Latest(t).previous # <<>>
    /\ job' = [job EXCEPT ![t].pc = "restoring", ![t].left = @ - 1,
                          ![t].plan = Plan(Latest(t).path, <<>>, Latest(t).previous[1], OwnWords(t))]
    /\ UNCHANGED <<disk, index, link, crashes, history>>

Reland(t) ==
    /\ job[t].pc = "respilled" /\ spill[job[t].plan.path] # <<>>
    /\ LET plan == job[t].plan
       IN /\ Landed(plan.path)
          /\ Overwritten(plan.path, plan.new)
          /\ Meddles({t}, plan.path)
    /\ job' = [job EXCEPT ![t].pc = "undoing", ![t].plan = NoPlan]
    /\ UNCHANGED <<trash, link, crashes, before, written>>

\* The disk refuses: the rest stays as it is, and the reply says it was undone all the same.
UndoRefused(t) ==
    /\ \/ job[t].pc = "undoing" /\ job[t].left > 0
       \/ job[t].pc = "restoring"
       \/ job[t].pc = "respilled" /\ spill[job[t].plan.path] = <<>>
    /\ job' = [job EXCEPT ![t].pc = "undone", ![t].plan = NoPlan, ![t].undos = <<>>, ![t].left = 0,
                          ![t].refused = TRUE]
    /\ UNCHANGED <<disk, index, link, crashes, history>>

Undone(t) ==
    /\ LoopIsFree /\ job[t].pc = "undoing" /\ job[t].left = 0
    /\ job' = [job EXCEPT ![t].pc = "undone", ![t].undos = <<>>]
    /\ UNCHANGED <<disk, index, link, crashes, history>>

----------------------------------------------------------------------------
(* Around it *)

\* The user types a line into a note, or makes one.
Type(p) ==
    /\ Hand \notin written
    /\ written' = written \cup {Hand}
    /\ files' = Put(p, With(OrBlank(Read(p)), Hand), files)
    /\ foreign' = [u \in Turns |-> IF p \in DOMAIN before[u] THEN foreign[u] \cup {p} ELSE foreign[u]]
    /\ UNCHANGED <<spill, trash, index, job, link, crashes, before, unseen>>

\* What was in memory is gone.  A turn that was not recorded is never undone; one that was being
\* undone still has its row, and its button.
Crash ==
    /\ crashes < MaxCrashes
    /\ \E p \in Paths : spill[p] # <<>>  \* elsewhere a crash only forgets
    /\ crashes' = crashes + 1
    /\ index' = {}
    /\ job' = [t \in Turns |->
           IF job[t].wished /\ Busy(t) THEN [job[t] EXCEPT !.pc = "done", !.left = 0, !.plan = NoPlan]
           ELSE IF Busy(t) THEN [Idle EXCEPT !.pc = "dead", !.asked = job[t].asked]
           ELSE job[t]]
    /\ link' = [t \in Turns |-> Unlinked]
    /\ UNCHANGED <<disk, history>>

Next ==
    \/ \E t \in Turns :
           \/ Begin(t) \/ Index(t) \/ NothingFiled(t) \/ File(t) \/ Prepare(t)
           \/ Open(t) \/ Spill(t) \/ Land(t) \/ Refused(t) \/ Written(t)
           \/ LinkRead(t) \/ LinkNothing(t) \/ LinkSpill(t) \/ LinkLand(t)
           \/ Undo(t) \/ Bin(t) \/ Restore(t) \/ Reland(t) \/ UndoRefused(t) \/ Undone(t)
    \/ \E p \in Typed : Type(p)
    \/ Crash

Spec == Init /\ [][Next]_vars

----------------------------------------------------------------------------
TypeOK ==
    /\ DOMAIN files \subseteq Paths /\ index \subseteq Paths
    /\ \A p \in DOMAIN files : files[p] \in Text
    /\ \A p \in Paths : Len(spill[p]) <= 1
    /\ \A t \in Turns :
           /\ job[t].plan.new \in Text /\ link[t].new \in Text
           /\ Len(job[t].acts) + Len(job[t].undos) <= MaxActions
           /\ job[t].pc \in {"opened", "spilled"} => job[t].plan.path \in DOMAIN before[t]

\* Whatever was in the vault once is in a note or in .trash, but for three things: what was undone;
\* what a writer put its own text over, having read the note before that was there; and a section
\* that an update replaced, whose lines are left to Undo alone, without the copy in .trash that a
\* rewrite makes.  Writes that interleave lose no more than that, and a crash loses nothing.
Kept == UNION ({files[p].lines : p \in DOMAIN files}
               \cup UNION {{trash[p][i].lines : i \in DOMAIN trash[p]} : p \in Paths})
NothingIsLost == written \subseteq Kept \cup unseen \cup UNION {OwnWords(t) : t \in {u \in Turns : job[u].wished}}

\* Undo puts every file of the turn back as it was before its first write, links included, unless
\* somebody else wrote to it since it was last indexed, or the turn's linking was still at work
\* on it.  A note that was
\* not there and one that is empty are alike: an append makes the one into the other.
UndoIsExact ==
    \A t \in Turns : job[t].pc = "undone" /\ ~ job[t].refused =>
        \A p \in DOMAIN before[t] \ foreign[t] : OrBlank(Read(p)) = OrBlank(before[t][p])

\* What a turn put into the vault is within reach of its Undo, or its reply says it failed.
UndoableOrReported ==
    \A t \in Turns : job[t].pc = "done" /\ ~ (job[t].refused \/ job[t].wished) =>
        \A p \in DOMAIN files : files[p].lines \cap OwnWords(t) # {} =>
            \E i \in DOMAIN job[t].undos : job[t].undos[i].path = p
=============================================================================
