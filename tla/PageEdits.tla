----------------------------- MODULE PageEdits -----------------------------
(***************************************************************************)
(* app/commands/executor.py on one Notion page, through the retrying       *)
(* client of app/notion/direct.py: lines appended to a page, a page edited *)
(* in places by a script, a page's text replaced as a whole, and Undo.     *)
(*                                                                         *)
(* A command reads the page, thinks about it for as long as a model needs, *)
(* and then works through its requests one by one, while the user goes on  *)
(* editing the page in Notion.                                             *)
(***************************************************************************)
EXTENDS Integers, Sequences, SequencesExt, FiniteSets, FiniteSetsExt, Picks

CONSTANTS
    StartPages,               \* the pages to begin with: sequences of blocks, with what Markdown makes of each
    MAX_BLOCKS_PER_REQUEST,
    MAX_PAGE_BLOCKS,          \* a rewrite reads no more of a page than this
    PAGE_SIZE,                \* and an append no more than block_children reads when not told otherwise
    MAX_RETRIES,              \* DirectNotionProvider's max_retries
    MAX_MATCHED_LINES,        \* a longer append joins no list
    MaxOps,                   \* bound: operations of an edit script (MAX_OPS is 40)
    MaxLines,                 \* bound: lines of a text
    MaxFaults,                \* bound: requests that go wrong
    MaxHand,                  \* bound: the user's own edits
    MaxPresses                \* bound: presses of Undo

ASSUME PageBounds ==
    /\ {MAX_PAGE_BLOCKS, PAGE_SIZE, MAX_RETRIES, MAX_MATCHED_LINES, MaxOps, MaxLines, MaxFaults, MaxHand, MaxPresses} \subseteq Nat
    /\ MAX_BLOCKS_PER_REQUEST \in Nat \ {0}

\* "kept" stands for a sub-page, a table, a block with children; "media" for pictures and files.
Kinds == {"head", "para", "item", "media", "kept"}
Rewritable == {"head", "para", "item"}
Editable(line) == line.kind \in Rewritable
Removable(line) == line.kind \in Rewritable \cup {"media"}

\* A block written as Markdown and read again is as many blocks as it has lines: none when it is an
\* empty paragraph.  Assumed: no line of it opens a code fence that swallows the next block.
StartBlock == [kind : Kinds, lines : Nat]
ASSUME PagesAreBlocks ==
    \A p \in StartPages : p \in Seq(StartBlock) /\ \A i \in DOMAIN p : p[i].lines = 0 => p[i].kind = "para"

VARIABLES
    page,     \* the page's blocks, top to bottom
    trash,    \* the blocks in Notion's trash
    ids,      \* how many ids Notion has given out
    job,      \* the command, and later its Undo
    tries,    \* the attempts of the request at hand that failed, by kind of failure
    faults, hand, presses,
    read,     \* history: the page when the command read it
    binned    \* history: the ids of the blocks that the bot's requests moved to the trash

pageVars == <<page, trash, ids, job, tries, faults, hand, presses, read, binned>>

\* Of a text: whose it is ("was" on the page, "part" of such a one, the model's "new" one, by
\* "hand"), which, and of what was on the page or came by hand how many lines it has.
Text == {"was", "part", "new", "hand"} \X Nat \X Nat
Block == [id : Nat, kind : Kinds, text : Text]
IdsOf(blocks) == {blocks[i].id : i \in DOMAIN blocks}
TextsOf(blocks) == [i \in DOMAIN blocks |-> blocks[i].text]
Position(id) == CHOOSE i \in DOMAIN page : page[i].id = id
OnPage(id) == id \in IdsOf(page)
Trashed(id) == \E b \in trash : b.id = id
\* What the command saw of the page.
Seen == SubSeq(read, 1, Min({Len(read), IF job.cmd = "append" THEN PAGE_SIZE ELSE MAX_PAGE_BLOCKS}))

----------------------------------------------------------------------------
(* Requests.  Nowhere as an anchor is the end of the page.  A request whose failure is *)
(* swallowed has a part: the rest of the part is given up with it.  Part 0 raises.     *)

Nowhere == 0
Request(op, id, part) ==
    [op |-> op, id |-> id, part |-> part, kind |-> "para", blocks |-> <<>>, known |-> {}, got |-> <<>>]
Update(id, kind, text) ==
    [Request("update", id, 0) EXCEPT !.kind = kind, !.blocks = <<[kind |-> kind, text |-> text]>>]
Append_(after, blocks, known) ==
    [Request("append", after, 0) EXCEPT !.blocks = blocks, !.known = known]
Delete(id, part) == Request("delete", id, part)
Restore(id, part) == Request("restore", id, part)
NoTries == [net |-> 0, server |-> 0, busy |-> 0]

Batch(r) == [i \in 1 .. Min({MAX_BLOCKS_PER_REQUEST, Len(r.blocks)}) |-> r.blocks[i]]
Rest(r) == SubSeq(r.blocks, Len(Batch(r)) + 1, Len(r.blocks))
Created(r) == [i \in DOMAIN Batch(r) |-> [id |-> ids + i, kind |-> Batch(r)[i].kind, text |-> Batch(r)[i].text]]

\* What Notion can act on.  Whether it takes a block that is in the trash for one that is there is its own affair.
Possible(r) ==
    CASE r.op = "append"  -> r.id = Nowhere \/ OnPage(r.id)
      [] r.op = "update"  -> OnPage(r.id)
      [] OTHER            -> OnPage(r.id) \/ Trashed(r.id)

\* Notion carries a request out, whether or not its answer arrives.
Applied(r) ==
    CASE r.op = "append" ->
           LET at == IF r.id = Nowhere THEN Len(page) ELSE Position(r.id) IN
           /\ page' = SubSeq(page, 1, at) \o Created(r) \o SubSeq(page, at + 1, Len(page))
           /\ ids' = ids + Len(Batch(r))
           /\ UNCHANGED <<trash, binned>>
      [] r.op = "update" ->
           /\ page' = [page EXCEPT ![Position(r.id)].text = r.blocks[1].text]
           /\ UNCHANGED <<trash, ids, binned>>
      [] r.op = "delete" /\ OnPage(r.id) ->
           /\ page' = RemoveAt(page, Position(r.id))
           /\ trash' = trash \cup {page[Position(r.id)]}
           /\ binned' = binned \cup {r.id}
           /\ UNCHANGED ids
      [] r.op = "restore" /\ ~OnPage(r.id) ->
           LET b == CHOOSE b \in trash : b.id = r.id IN
           /\ page' = Append(page, b)
           /\ trash' = trash \ {b}
           /\ UNCHANGED <<ids, binned>>
      [] OTHER -> UNCHANGED <<page, trash, ids, binned>>

\* append_blocks answers an insert with the new blocks and every sibling that follows them.
Results(r) ==
    LET new == [i \in DOMAIN Batch(r) |-> ids + i] IN
    IF r.id = Nowhere THEN new
    ELSE new \o [i \in 1 .. Len(page) - Position(r.id) |-> page[Position(r.id) + i].id]

FreshIds(r) ==
    CASE r.id = Nowhere -> Results(r)
      [] r.id # Nowhere /\ r.known # {} -> Chosen(Results(r), Nat \ (r.known \cup ToSet(r.got)))
      [] OTHER          -> [i \in DOMAIN Batch(r) |-> Results(r)[i]]

----------------------------------------------------------------------------
(* Scripts: the model's operations against the numbered lines, and what check lets through *)

Op(op, at, to, n, kind) == [op |-> op, at |-> at, to |-> to, lines |-> n, kind |-> kind]
\* An "image" is an insert of one block, taken as it is when it cannot be re-hosted.
Ops ==
    LET at == 0 .. Len(page) + 1 IN
         {Op("replace", n, 0, 1, kind) : n \in at, kind \in {"para", "head"}}
    \cup {Op("insert", n, 0, k, "para") : n \in at, k \in 1 .. MaxLines}
    \cup {Op("insert", n, 0, 1, "media") : n \in at}
    \cup {Op("delete", n, m, 0, "para") : n \in at, m \in at}

Exists(n) == n \in DOMAIN Seen
Anchor(n) == IF Exists(n) THEN n ELSE IF n < 1 THEN 1 ELSE Len(Seen)
Span(e) == e.at .. (IF e.to >= e.at THEN e.to ELSE e.at)

Edit(e, k) == [op |-> e.op, at |-> e.at, kind |-> e.kind,
               texts |-> [j \in 1 .. e.lines |-> <<"new", k, j>>]]
\* One operation of the plan becomes none, one, or one removal per line.
Allowed(e, k) ==
    CASE e.op = "replace" ->
           IF Exists(e.at) /\ Editable(Seen[e.at]) THEN <<Edit(e, k)>> ELSE <<>>
      [] e.op = "insert" -> <<[Edit(e, k) EXCEPT !.at = Anchor(e.at)]>>
      [] e.op = "delete" ->
           LET keep == Chosen([n \in DOMAIN Seen |-> n], {n \in Span(e) : Exists(n) /\ Removable(Seen[n])}) IN
           [i \in DOMAIN keep |-> [Edit(e, k) EXCEPT !.at = keep[i]]]

TooMany(out) ==
    LET deletes == Cardinality({i \in DOMAIN out : out[i].op = "delete"})
        half == Len(Seen) \div 2
    IN deletes > (IF half > 1 THEN half ELSE 1)

Check(script) ==
    LET out == FlattenSeq([k \in DOMAIN script |-> Allowed(script[k], k)])
    IN IF TooMany(out) THEN <<>> ELSE out

----------------------------------------------------------------------------
(* What a script, a whole new text and an append come to, as requests *)

Of(edits, op) == Chosen(edits, {e \in ToSet(edits) : e.op = op})
\* sorted(..., reverse=True) keeps the order of equals.
BottomUp(edits) ==
    FlattenSeq([i \in DOMAIN Seen |-> Chosen(edits, {e \in ToSet(edits) : e.at = Len(Seen) + 1 - i})])
BlocksOf(e) == [j \in DOMAIN e.texts |-> [kind |-> e.kind, text |-> e.texts[j]]]

\* Notion cannot change a block's type: the new one goes in and the old one goes.
Retyped(e) == e.kind # Seen[e.at].kind
SwappedKeeping(edits) ==
    edits \o FlattenSeq([i \in DOMAIN edits |->
        IF edits[i].op = "replace" /\ Retyped(edits[i]) THEN <<[edits[i] EXCEPT !.op = "insert"]>> ELSE <<>>])
Swapped(edits) ==
    edits \o FlattenSeq([i \in DOMAIN edits |->
        IF edits[i].op = "replace" /\ Retyped(edits[i])
        THEN <<[edits[i] EXCEPT !.op = "insert"], [edits[i] EXCEPT !.op = "delete"]>> ELSE <<>>])

Updates(edits) ==
    LET inPlace == Chosen(edits, {e \in ToSet(edits) : e.op = "replace" /\ ~Retyped(e)}) IN
    [i \in DOMAIN inPlace |->
        Update(Seen[inPlace[i].at].id, inPlace[i].kind, inPlace[i].texts[1])]
Inserts(edits) ==
    LET sorted == BottomUp(Of(Swapped(edits), "insert")) IN
    [i \in DOMAIN sorted |-> Append_(Seen[sorted[i].at].id, BlocksOf(sorted[i]), IdsOf(Seen))]
Deletes(edits) ==
    LET sorted == BottomUp(Of(Swapped(edits), "delete")) IN
    [i \in DOMAIN sorted |-> Delete(Seen[sorted[i].at].id, i)]
Apply(edits) == Updates(edits) \o Inserts(edits) \o Deletes(edits)

Replaceable == Chosen(Seen, {line \in ToSet(Seen) : Editable(line)})

\* What content_blocks makes of a block's Markdown: a block of its kind and then paragraphs, a line
\* each.  The words are all there, formatting is left out here, and the mark of an empty heading or
\* item comes back as a paragraph.
Reread(line) ==
    LET which == line.text[2]
        count == line.text[3]
    IN [j \in 1 .. count |-> [kind |-> IF j = 1 THEN line.kind ELSE "para",
                               text |-> IF count = 1 THEN line.text ELSE <<"part", which, j>>]]
OldMarkdown == FlattenSeq([i \in DOMAIN Replaceable |-> Reread(Replaceable[i])])

NewText(n, kind) == [j \in 1 .. n |-> [kind |-> kind, text |-> <<"new", 1, j>>]]
\* After the last kept block that comes before the text.
Before == LET first == CHOOSE i \in DOMAIN Seen : /\ Editable(Seen[i])
                                                  /\ \A j \in 1 .. i - 1 : ~Editable(Seen[j])
          IN IF first = 1 THEN Nowhere ELSE Seen[first - 1].id
Archive == [i \in DOMAIN Replaceable |-> Delete(Replaceable[i].id, i)]
ReplaceTextArchivingFirst(n) == Archive \o <<Append_(Before, NewText(n, "para"), IdsOf(Seen))>>
ReplaceText(n) == <<Append_(Before, NewText(n, "para"), IdsOf(Seen))>> \o Archive

\* The last items of the page's lists: lines in the last place of their section.
ListTails == {i \in DOMAIN Seen : /\ Seen[i].kind = "item"
                                  /\ i = Len(Seen) \/ Seen[i + 1].kind = "head"}
JoinList(n, tail) == <<Append_(Seen[tail].id, NewText(n, "item"), IdsOf(Seen))>>
AtTheEnd(n) == <<Append_(Nowhere, NewText(n, "para"), {})>>

----------------------------------------------------------------------------
(* The command *)

NoJob == [pc |-> "idle", cmd |-> "none", script |-> <<>>, todo |-> <<>>, done |-> <<>>, ids |-> <<>>]

PageInit ==
    /\ \E start \in StartPages :
           /\ page = [i \in DOMAIN start |->
                         [id |-> i, kind |-> start[i].kind, text |-> <<"was", i, start[i].lines>>]]
           /\ ids = Len(start)
    /\ trash = {}
    /\ job = NoJob
    /\ tries = NoTries
    /\ faults = 0 /\ hand = 0 /\ presses = 0
    /\ read = <<>>
    /\ binned = {}

onNotion == <<page, trash, ids, binned>>
counts == <<faults, hand, presses>>

\* Read the page, and let the model think about it.
Read ==
    /\ job.pc = "idle"
    /\ read' = page
    /\ \E cmd \in {"rewrite", "append"} : job' = [job EXCEPT !.pc = "thinking", !.cmd = cmd]
    /\ UNCHANGED <<onNotion, tries, counts>>

\* A note that was shaped on purpose or is long, or a page that could not be read: no list to join.
AppendUnread ==
    /\ job.pc = "idle"
    /\ read' = page
    /\ \E n \in 1 .. MaxLines :
           job' = [job EXCEPT !.pc = "working", !.cmd = "append", !.todo = AtTheEnd(n)]
    /\ UNCHANGED <<onNotion, tries, counts>>

AppendRead ==
    /\ job.pc = "thinking" /\ job.cmd = "append"
    /\ \E n \in 1 .. MaxLines :
           \E todo \in IF n > MAX_MATCHED_LINES \/ ListTails = {} THEN {AtTheEnd(n)}
                       ELSE {JoinList(n, tail) : tail \in ListTails} :
               job' = [job EXCEPT !.pc = "working", !.todo = todo]
    /\ UNCHANGED <<onNotion, tries, counts, read>>

Scripts == UNION {[1 .. n -> Ops] : n \in 1 .. MaxOps}

\* Refused outright, the model failed or found nothing to change, or nothing of it is allowed.
Refused ==
    /\ job.pc = "thinking" /\ job.cmd = "rewrite"
    /\ job' = [job EXCEPT !.pc = "failed"]
    /\ UNCHANGED <<onNotion, tries, counts, read>>

PlanEdits ==
    /\ job.pc = "thinking" /\ job.cmd = "rewrite"
    /\ \E line \in ToSet(Seen) : Editable(line) \/ Removable(line)
    /\ \E script \in Scripts :
           /\ Check(script) # <<>>
           /\ job' = [job EXCEPT !.pc = "working", !.cmd = "edits", !.script = Check(script),
                                 !.todo = Apply(Check(script))]
    /\ UNCHANGED <<onNotion, tries, counts, read>>

PlanText ==
    /\ job.pc = "thinking" /\ job.cmd = "rewrite"
    /\ Replaceable # <<>> /\ OldMarkdown # <<>>
    /\ \E n \in 1 .. MaxLines :
           job' = [job EXCEPT !.pc = "working", !.cmd = "text", !.todo = ReplaceText(n)]
    /\ UNCHANGED <<onNotion, tries, counts, read>>

Part(kind, list, old) == [kind |-> kind, ids |-> list, old |-> old]
OldText(id) == (CHOOSE b \in ToSet(Seen) : b.id = id).text

\* What the command keeps of a request that was answered.
KeptLastBatch(r) ==
    IF r.op = "append"
    THEN IF Rest(r) # <<>>
         THEN [job EXCEPT !.todo[1].blocks = Rest(r), !.todo[1].id = IF r.id # Nowhere THEN Last(FreshIds(r)) ELSE @]
         ELSE [job EXCEPT !.todo = Tail(@), !.ids = FreshIds(r), !.done = Append(@, Part("added", FreshIds(r), <<>>))]
    ELSE [job EXCEPT !.todo = Tail(@)]
Kept(r) ==
    CASE r.op = "append" ->
           LET got == r.got \o FreshIds(r)
               left == [r EXCEPT !.blocks = Rest(r), !.got = got,
                                 !.id = IF r.id # Nowhere /\ got # <<>> THEN Last(got) ELSE r.id] IN
           IF Rest(r) # <<>>
           THEN [job EXCEPT !.todo = <<left>> \o Tail(@)]
           ELSE [job EXCEPT !.todo = Tail(@), !.ids = got,
                            !.done = IF got # <<>> THEN Append(@, Part("added", got, <<>>)) ELSE @]
      [] r.op = "update" ->
           [job EXCEPT !.todo = Tail(@), !.done = Append(@, Part("replaced", <<r.id>>, OldText(r.id)))]
      [] r.op = "delete" /\ job.cmd = "edits" ->
           [job EXCEPT !.todo = Tail(@), !.done = Append(@, Part("deleted", <<r.id>>, <<>>))]
      [] OTHER -> [job EXCEPT !.todo = Tail(@)]

\* An Undo's own appends have batches too, and keep nothing.
Progress(r) ==
    IF job.pc = "undoing"
    THEN IF r.op = "append" /\ Rest(r) # <<>> THEN [job EXCEPT !.todo = <<[r EXCEPT !.blocks = Rest(r)]>> \o Tail(@)]
         ELSE [job EXCEPT !.todo = Tail(@)]
    ELSE Kept(r)

Busy == job.pc \in {"working", "undoing"} /\ job.todo # <<>>

Answer ==
    /\ Busy /\ Possible(Head(job.todo))
    /\ Applied(Head(job.todo))
    /\ job' = Progress(Head(job.todo))
    /\ tries' = NoTries
    /\ UNCHANGED <<counts, read>>

\* NotionError reaches the code that asked: it skips the part, or the command is over.
RaisedGoingOn(r) ==
    CASE job.pc = "undoing" -> [job EXCEPT !.pc = "done", !.todo = Tail(@)]
      [] OTHER -> [job EXCEPT !.pc = "failed", !.todo = Tail(@)]
Raised(r) ==
    CASE r.part # 0 -> [job EXCEPT !.todo = Chosen(@, {q \in ToSet(@) : q.part # r.part})]
      [] r.part = 0 /\ job.pc = "undoing" -> [job EXCEPT !.pc = "done", !.todo = <<>>]
      [] OTHER -> [job EXCEPT !.pc = "failed", !.todo = <<>>]

\* The block is not there (any more): 404, or an archived one.
NotThere ==
    /\ Busy /\ Head(job.todo).op # "restore" /\ Head(job.todo).id \notin IdsOf(page) \cup {Nowhere}
    /\ job' = Raised(Head(job.todo))
    /\ tries' = NoTries
    /\ UNCHANGED <<onNotion, counts, read>>

Attempts == [net |-> MAX_RETRIES, server |-> Min({MAX_RETRIES, 2}), busy |-> MAX_RETRIES]
\* No answer, 5xx, 429: a PATCH and a DELETE go out again after any of them.
Retried(why) ==
    IF tries[why] < Attempts[why]
    THEN tries' = [tries EXCEPT ![why] = @ + 1] /\ UNCHANGED job
    ELSE tries' = NoTries /\ job' = Raised(Head(job.todo))

RequestFails(why) ==
    /\ Busy /\ faults < MaxFaults
    /\ faults' = faults + 1
    /\ Retried(why)
    /\ UNCHANGED <<hand, presses, read>>

\* Any other 4xx is final.
Rejected ==
    /\ Busy /\ faults < MaxFaults
    /\ faults' = faults + 1
    /\ tries' = NoTries /\ job' = Raised(Head(job.todo))
    /\ UNCHANGED <<onNotion, hand, presses, read>>

Unapplied == \E why \in {"net", "server", "busy"} : RequestFails(why) /\ UNCHANGED onNotion
AnswerLost ==
    /\ Busy /\ Possible(Head(job.todo))
    /\ \E why \in {"net", "server"} : RequestFails(why) /\ Applied(Head(job.todo))

\* An edit script that changed nothing is refused; an append or a text that left no ids has no button.
Finish ==
    /\ job.pc = "working" /\ job.todo = <<>>
    /\ job' = [job EXCEPT !.pc = IF job.done # <<>> THEN "done" ELSE "failed"]
    /\ UNCHANGED <<onNotion, tries, counts, read>>

----------------------------------------------------------------------------
(* Undo *)

Unedit(part, i) ==
    [j \in DOMAIN part.ids |->
        CASE part.kind = "replaced" -> [Update(part.ids[j], "para", part.old) EXCEPT !.part = i]
          [] part.kind = "added"    -> Delete(part.ids[j], i)
          [] part.kind = "deleted"  -> Restore(part.ids[j], i)]
Unedits == Reverse([i \in DOMAIN job.done |-> Unedit(job.done[i], i)])
Removals == [i \in DOMAIN job.ids |-> Delete(job.ids[i], i)]
PutBack == IF OldMarkdown = <<>> THEN <<>> ELSE <<Append_(Nowhere, OldMarkdown, {})>>
UndoRequests ==
    CASE job.cmd = "edits"  -> FlattenSeq(Unedits)
      [] job.cmd = "append" -> Removals
      [] job.cmd = "text"   -> Removals \o PutBack

Undo ==
    /\ job.pc = "done" /\ presses < MaxPresses
    /\ presses' = presses + 1
    /\ job' = [job EXCEPT !.pc = "undoing", !.todo = UndoRequests]
    /\ UNCHANGED <<onNotion, tries, faults, hand, read>>

UndoneUnmarked ==
    /\ job.pc = "undoing" /\ job.todo = <<>>
    /\ job' = [job EXCEPT !.pc = "done"]
    /\ UNCHANGED <<onNotion, tries, counts, read>>

Undone ==
    /\ job.pc = "undoing" /\ job.todo = <<>>
    /\ job' = [job EXCEPT !.pc = "undone"]
    /\ UNCHANGED <<onNotion, tries, counts, read>>

(* The user, in Notion *)
ByHand == job.pc # "idle" /\ hand < MaxHand /\ hand' = hand + 1
          /\ UNCHANGED <<binned, job, tries, faults, presses, read>>
WriteByHand ==
    /\ ByHand
    /\ \E at \in 0 .. Len(page) :
           page' = SubSeq(page, 1, at) \o <<[id |-> ids + 1, kind |-> "para", text |-> <<"hand", ids + 1, 1>>]>>
                       \o SubSeq(page, at + 1, Len(page))
    /\ ids' = ids + 1 /\ UNCHANGED trash
DeleteByHand ==
    /\ ByHand
    /\ \E at \in DOMAIN page : page' = RemoveAt(page, at) /\ trash' = trash \cup {page[at]}
    /\ UNCHANGED ids

PageNext ==
    \/ Read \/ AppendUnread \/ AppendRead
    \/ Refused \/ PlanEdits \/ PlanText
    \/ Answer \/ NotThere \/ Rejected \/ Unapplied \/ AnswerLost
    \/ Finish \/ Undo \/ Undone
    \/ WriteByHand \/ DeleteByHand

PageSpec == PageInit /\ [][PageNext]_pageVars

----------------------------------------------------------------------------
(* Properties *)

\* The page and the trash hold every block once, and the job is where its requests say it is.
PageTypeOK ==
    /\ page \in Seq(Block) /\ trash \subseteq Block
    /\ IsInjective([i \in DOMAIN page |-> page[i].id])
    /\ IdsOf(page) \cap {b.id : b \in trash} = {}
    /\ IdsOf(page) \cup {b.id : b \in trash} \subseteq 1 .. ids
    /\ job.pc \in {"idle", "thinking", "working", "done", "failed", "undoing", "undone"}
    /\ job.todo # <<>> => job.pc \in {"working", "undoing"}
    /\ \A why \in DOMAIN tries : tries[why] <= MAX_RETRIES

\* The blocks that the command may take away: those its answer names for it, and never a sub-page or the like.
Meant ==
    CASE job.cmd = "edits" -> {Seen[e.at].id : e \in {e \in ToSet(job.script) :
                                  e.op = "delete" \/ (e.op = "replace" /\ Retyped(e))}}
      [] job.cmd = "text"  -> IdsOf(Replaceable)
      [] OTHER             -> {}

\* Of the blocks that the command has seen, the bot puts into the trash only what it was to take
\* away, Undo and its lists of ids included: Notion answers an insert with the user's own lines
\* below it, and _append has to tell them from its own.
ReadBlocksAreSafe ==
    /\ binned \cap IdsOf(Seen) \subseteq Meant
    /\ \A i \in DOMAIN Seen : Seen[i].kind = "kept" => Seen[i].id \notin binned

\* "Those trailing ids are the user's own blocks, and treating them as ours would put them in an
\* undo record -- so Undo would delete lines nobody added."  Of every line that stood on the page,
\* seen or not, or that the user writes, the bot takes away only what it was to take away.
UndoTakesNobodysLines ==
    \A b \in trash :
        b.id \in binned /\ (b.id \in IdsOf(read) \/ b.text[1] = "hand") => b.id \in Meant

\* While a page's text is replaced, and wherever that stops, there is too much rather than too
\* little: once a block of the old text is gone, the new text has been written as a whole.
TooMuchRatherThanTooLittle ==
    job.cmd = "text" /\ job.pc \in {"working", "done", "failed"} /\ binned \cap IdsOf(read) # {} =>
        job.ids # <<>> /\ \A id \in ToSet(job.ids) : OnPage(id) \/ Trashed(id)

\* Whatever the bot does to a page and wherever it stops, what stood there is safe: it takes away only
\* what it was to take away, and the old text only once the new one is there.
BlocksAreSafe == ReadBlocksAreSafe /\ TooMuchRatherThanTooLittle

\* What app/vault/mdedit.py makes of the same script on the lines of a note.
InPlace(script) ==
    LET on(op, n) == SelectSeq(script, LAMBDA e : e.op = op /\ e.at = n)
        line(n) == IF on("delete", n) # <<>> THEN <<>>
                   ELSE IF on("replace", n) # <<>> THEN Last(on("replace", n)).texts ELSE <<read[n].text>>
        added(n) == FlattenSeq([i \in DOMAIN on("insert", n) |-> on("insert", n)[i].texts])
    IN FlattenSeq([n \in DOMAIN read |-> line(n) \o added(n)])

Undisturbed == faults = 0 /\ hand = 0
NamesOnce(script, ops) ==
    \A i, j \in DOMAIN script : {script[i].op, script[j].op} \subseteq ops /\ script[i].at = script[j].at => i = j

InsertsFit(script) ==
    \A e \in ToSet(script) : e.op = "insert" =>
        Len(e.texts) <= MAX_BLOCKS_PER_REQUEST \/ Len(Of(Swapped(script), "insert")) = 1

\* The page is no longer than what the command reads of it.  Of a longer one _append may take the
\* user's own lines for the bot's: that is UndoTakesNobodysLines.
SawItAll == Len(Seen) = Len(read)

\* A script that changes a line in one way only and adds nothing twice after the same line leaves
\* a page that was read as a whole as it leaves a note: blocks that move, come and go never shift
\* each other's targets.  Several additions have to fit into a request each: the ids that an answer
\* lists below a new block may be those of an earlier addition, and _append would chain its next
\* batch to them.
LandsAsNumbered ==
    job.cmd = "edits" /\ job.pc = "done" /\ presses = 0 /\ Undisturbed /\ SawItAll
        /\ NamesOnce(job.script, {"replace", "delete"}) /\ NamesOnce(job.script, {"insert"})
        /\ InsertsFit(job.script)
    => TextsOf(page) = InPlace(job.script)

Copies(text) == Cardinality({i \in DOMAIN page : page[i].text = text})
\* What was read, as it comes back: a replaced text goes through Markdown, so that its empty
\* paragraphs stay away and a block of several lines comes back as several; all else is as it was.
Old(block) == IF job.cmd = "text" /\ Editable(block) THEN TextsOf(Reread(block)) ELSE <<block.text>>
Promised == FlattenSeq([i \in DOMAIN read |-> Old(read[i])])

\* On a page that was read as a whole, Undo brings every line back, once and a replaced text in its
\* order, and takes every line of the bot away; and what was never taken from its place is still
\* there.
UndoBringsBack ==
    job.pc = "undone" /\ Undisturbed /\ SawItAll =>
        /\ \A text \in ToSet(Promised) : Copies(text) = 1
        /\ Len(page) = Len(Promised)
        /\ job.cmd = "text" => Chosen(TextsOf(page), ToSet(TextsOf(OldMarkdown))) = TextsOf(OldMarkdown)
        /\ SelectSeq(page, LAMBDA b : b.id \in IdsOf(read) \ binned) = SelectSeq(read, LAMBDA b : b.id \notin binned)

\* Requests that are sent again, and Undos that are pressed again, put at most one more copy of a
\* line on the page for every request that went wrong.
OneCopyPerFault ==
    \A i \in DOMAIN page : Copies(page[i].text) <= 1 + faults

=============================================================================
