# A TLA+ model of the Notion and Obsidian assistant

The program is a Telegram bot. A chat sends it thoughts; a language model reads them, the bot
asks what it could not understand, writes to Notion and to an Obsidian vault, and lets the user
undo what it wrote. It runs on one asyncio event loop, keeps its memory in SQLite, and calls
services that are slow and fail. This directory models the parts of it that decide what becomes of
a message and of the user's files, model-checks them with TLC on small instances, and proves, for
instances of every size, what is claimed of the lock, the conversation, the two stores, the cached
workspace and the vault.

## The system

| part (under `src/app`) | state | operations | talks to |
|---|---|---|---|
| chat lock (`conversation/orchestrator.py`, `_chat_lock`) | `_locks`, `_waiting`, the waiters of each `asyncio.Lock` | enter, leave, be cancelled while waiting | every entry point and the sweeper |
| conversation (`conversation/orchestrator.py`, `session.py`, `inbox.py`) | the turn in flight, one question per chat | text, button, `/undo`, `/cancel`, sweep | everything below |
| validation, policy, resolver (`validation/`, `conversation/resolver.py`, `steps.py`) | what the open question keeps of a reading | check a reading, choose a question, take its answer, rebuild | conversation, discovery |
| plans (`conversation/plan.py`, `_start_plan` to `_plan_done`) | steps, index, history, undo list; saved with a question | step, check, ask, resume, close | planner, executor, vault |
| audit store (`audit/store.py`) | tables `events`, `sessions`, `executions` | one SQL statement each, committed | conversation |
| sweeper (`main.py`) | a timer | `flush_expired_sessions` | conversation |
| executor and Notion client (`commands/`, `notion/direct.py`, `notion/titles.py`) | the titles of a message's tables | run a command in several requests, undo a record, retry | Notion |
| discovery cache (`notion/discovery.py`) | the last snapshot, `_force`, `_invalidations`, a refresh behind | get, refresh, invalidate, note_new_item, note_new_page | conversation, admin page |
| vault pipeline (`vault/pipeline.py`) | tasks in flight | handle (file, wait at the gate, write), undo, link | conversation |
| grocery page (`vault/groceries.py`, `src/tools/groceries_setup.py`) | one line per product, ticked or not | tick, untick, add; move products out of the task file | pipeline, the user in Obsidian |
| vault files (`vault/writer.py`, `linker.py`, `index.py`) | the notes and what the index knows of them | write, replace, undo, refresh | pipeline, the user in Obsidian |
| import (`vault/notion_import.py`) | the manifest of what it wrote | plan, put, save the manifest | Notion, the vault |
| models (`llm/`) | a cooldown, the reason of the last failure | interpret, plan, research, rewrite | Anthropic, Ollama |
| schedules (`daily.py`, `mail/`) | the mailbox position | digests at fixed times | Telegram, IMAP |
| admin page (`admin/server.py`, `notion/descriptions.py`) | the file of descriptions | show, save, from HTTP threads | discovery, conversation |
| updater (`src/apply_update.py`, `audit/migrate.py`, `instance_lock.py`) | the installed tree, its backups, the schema | apply, roll back, migrate | the file system |

What is hard about it:

* Every guard of the orchestrator is a read, an `await` and a write. The chat lock makes that safe
  inside one chat; the sweeper, the vault task and the HTTP thread run beside it.
* Buttons never leave the screen. They are pressed late, twice, and after what they meant is gone.
* A message may exist in one place only: in a question, in a turn's local variables, in the inbox.
  Every failure path moves it, and a path that forgets to loses it, or writes it twice.
* Two stores are written side by side, and one of them has to wait until the other knows what the
  message is. Undo has to find both halves afterwards.
* A plan outlives a turn: it is saved with its question and taken up again by the answer.
* One command is many requests to Notion, each of which may fail, be applied without an answer, or
  meet a page the user is editing. What was read is old when it is used, and the undo record is put
  together from answers that also list the user's own blocks.
* Notes are read and written as whole files, by worker threads, by the linker that goes on behind
  the reply, and by the user in Obsidian. Nothing locks them.
* Digests, updates and imports remember what they did in one small file each, which is written
  before or after the deed, and the process may die in between.

`main.py` builds the Telegram application without `concurrent_updates`, so today one handler runs
at a time and the chat lock separates handlers from the sweeper only. The orchestrator's own
contract (the docstring of `_chat_lock`, `src/documentation/ARCHITECTURE.md` section 7, its tests)
is stronger: concurrent handlers. The modules check that contract. In the vault even one chat at a
time is enough for an overlap, because linking holds no lock.

## The modules

| module | part | stands on |
|---|---|---|
| `ChatQueue` | what the lock promises: a chat has an owner and a line | |
| `ChatLock`, `ChatLockProofs` | `_chat_lock` over a modelled `asyncio.Lock`, its proofs, and that it is a `ChatQueue` | `ChatQueue` |
| `Conversation`, `ConversationProofs` | messages, questions, buttons, the inbox, undo, the sweep, restarts | `ChatQueue` |
| `TwoStores`, `TwoStoresProofs` | plans, the vault gate, web research and the undo rows | one turn at a time, which is what the lock is for |
| `Questions`, `QuestionsProofs` | which question a reading leads to, what its answer does, what is written in the end | one turn at a time; `Picks` |
| `TargetsFile`, `Discovery`, `DiscoveryProofs` | the descriptions and the admin page's saves; the cached snapshot built with them | |
| `VaultFiles`, `VaultFilesProofs` | notes, writer, linker, undo, the user | one turn at a time per chat |
| `PageEdits`, `PartsProofs` | the requests inside one Notion page, and their undo | `Picks` |
| `TableRows`, `PartsProofs` | creates into a table that must not repeat a title | |
| `Schedules`, `PartsProofs` | the digest's loop and the mailbox position | |
| `Updater`, `PartsProofs` | update, rollback, migrations, instance lock | `Picks` |
| `VaultImport`, `PartsProofs` | repeated imports of Notion into the vault | `Picks` |
| `Groceries`, `PartsProofs` | the grocery page under messages, the user and the tool that sets it up | `Picks` |
| `Picks` | a list comprehension with a condition, as a recursive function that can be reasoned about | |
| `SequenceLemmas` | what appending, removing, changing, picking from and flattening does to a sequence: lemmas the proofs share | `Picks` |

`MCParts` composes `PageEdits`, `TableRows`, `Updater`, `Schedules`, `VaultImport`, `Groceries`
and `Questions` for one run. The seven share no variable, so their steps commute and no invariant could see two of
them move; a part moves only while the others stand where they began, which reaches every state of
each part and none of their products.

### ChatLock

| definition | code |
|---|---|
| `locks`, `waiting` | `_locks`, `_waiting` |
| `lockOf[t]` | the local variable `lock` |
| `held`, `queue`, `woken` | `asyncio.Lock._locked`, `_waiters`, and the waiters whose future is set |
| `Arrive` | `_chat_lock` up to the suspension in `acquire`, one step since nothing is awaited before |
| `Resume` | the event loop runs a woken waiter; it takes the lock without another look |
| `LeaveTurn` | `release()`, then `finally` |
| `Cancel` | the task is cancelled while it waits, before or after it was woken |

Lock objects have an identity, so that two turns with two objects for one chat could run together
if the code let them.

### Conversation

`job[t]` is a task's program counter and its local variables; `sessions`, `events` and `executions`
are the three tables. A turn's steps follow the code from await to await: discovery, model call,
research, Notion write, answer. A Notion write is two steps, `Send` (it takes effect or it does
not) and the answer (which may be lost), so a crash fits in between. `Crash` forgets the tasks, the
locks and the cached snapshot and keeps the tables. A text is the set of the messages it was put
together from, because a free-text answer is read together with its request. The sweeper is a task
of its own: it scans, then visits each chat under that chat's lock. What a message means is data
here: the model's reading and the policy's verdict are a choice between `DispatchExecute`,
`DispatchAsk`, `DispatchReject` and `DispatchResearch`. `landed`, `reverts`, `told`, `doubled` and
`dying` are history variables the properties speak of.

### TwoStores

`turn` is the one turn in flight, `tasks` the vault pipelines it started (they outlive it if nobody
waits), `notion` the Notion writes that can be reverted, `rows` the `executions` table, `pending`
the question with its plan. `tasks[i].gate` is the future `_Turn.vault_go`: unset, yes or no, and
its first word counts. The clock, tokens and the inbox offer are left to `Conversation`; an Undo
button may be pressed whenever its row is there.

### Questions

A reading of the model (`Interpretation`) goes through `Validate` (semantic.py: what does not exist
or does not fit is dropped or put in doubt, the places are ranked), `Evaluate` (policy.py: execute,
or the ordered set of questions), `Ask` or `Execute` (builder.py). `Press` is `apply_answer`, the
saved session rebuilt against today's workspace (`Rebuilt`, `ResultFrom`) and evaluated again;
`Message` is a message or an answer in the user's words; `PlanStep` is steps.py, which reads a step
without the model when its names settle it, and reuses the answers the user gave to earlier steps;
`Disappears` is the user removing a target, row, column or option while a question is open.
Keys are the ids themselves, a list value is one option, columns are asked about in any order.
`chosen` and `settled` are history variables: the places that were read as good as the best one,
or the one that was picked, each with the row it was read with; and the values that were read for
sure, spelled out by a plan or answered. `WrittenAsMeant` compares what is written with these two.
`ReadingsAre` says what the parsers of `interpretation/models.py` let through (a `null` for a value
is `Unfit`, which no column takes), and `Thresholds` the order of `config.py`'s defaults: narrowing
an ambiguous value to one (0.5) does not make it sure, and `policy_target_margin` is not 0. With a
margin of 0, which the settings allow, the first of two equal places would be taken unasked.
Failures of discovery and model are `Conversation`'s, web research and the planning of a failed
step `TwoStores`'.

### TargetsFile and Discovery

`last`, `force` and `line` are `_last`, `_force` and `_lock`; `hit` is the comparison of
`_invalidations` with the count a refresh took along. A refresh is a search and queries, each an
await, and the building of the picture from them. `invalidate` and the compare-and-clear at the end
of `get` are one step each: they hold no call and no backward jump, so CPython switches no thread
inside. `age` counts ticks and stops at `STALE_MAX`, beyond which the code does not distinguish
ages; the clock has no other bound. `TargetsFile` is `data/targets.yaml` with `Descriptions.ensure`,
a hand edit that breaks it, and a browser tab that shows what was true when it was opened, posts
all of it, merges, and saves in a step of its own.

### VaultFiles

A text is the set of its lines, with a box that may be ticked and links around some of them.
`Open` reads and works out the new text, `Spill` writes the `.tmp`, `Land` is `os.replace` with the
index update; opening and filling the `.tmp` are one step, as are replacing and indexing. `.tmp` is
shared by all writers of a path, as in the code. `Prepare` reads the note a rewrite is about long
before it is written. The linker's write runs on the loop's own thread, and `LoopIsFree` keeps the
loop's other steps out meanwhile, worker threads not. `Undo` goes through the turn's writes, newest
first. No note is made when all of `Names` are taken (`NameLeft`), a bound: the code counts on. The
linker leaves the pages of `Skipped` alone. An
update ticks or sets something, or puts the filer's text in the place of a section; a rewrite
replaces the note or a section. Which lines stand under a heading, and whether an action finds what
it names, is a choice made when the note is opened (`Outcomes`). The user types a line. Deleting
notes by hand is left out.

### PageEdits

`page` is the page's blocks with ids, `job.todo` the requests still to be made. A request is
applied and answered, applied and not answered, or refused; `tries` are the counters of
`DirectNotionProvider._request`. `Check` is `check_edits`, `Apply` the order in which a script's
edits become requests, `ReplaceText` the replacement of a whole text, `FreshIds` what `_append`
takes for its own of an answer, `Undone` and its neighbours `_unedit`. `InPlace`, the reference
that `LandsAsNumbered` compares with, is what `vault/mdedit.py` makes of the same script.

The Undo of a replaced text has only the Markdown that `_replace_text` kept (executor.py:563, 593)
and makes blocks of it again (649-651). Each block has a number of lines: `Reread` makes one of a
line, none of an empty paragraph, and several blocks of several lines, the first of the old kind and
the others paragraphs. Left out are formatting, the mark of an empty heading or item (it comes back
as a paragraph), and a line that opens a code fence or carries a mark of its own. The Undo of edits is
exact and takes no such way. `LandsAsNumbered` and `UndoBringsBack` speak of pages that were read as a
whole (`SawItAll`), which in `parts` all are: a page read in part is the subject of `page_undo`, where
Undo does take the user's lines, and of `BlocksAreSafe`, which is proved for both.

### TableRows, Schedules, Updater, VaultImport, Groceries

`TableRows`: messages read a table's titles once (`titles.py`), trust them for all their creates,
and ask for one title when the table was cut short. `Schedules`: `daily.py`'s sleep and grace,
`imap.py`'s search above a uid, `UIDVALIDITY`, the saving of the position before the send;
suspensions stop the loop's clock and not the wall's. `Updater`: the tree file by file, one
backup per release, `MidUpdate` from manifest and `VERSION`, `VERSION` emptied and then written.
`VaultImport`: `VaultPlan` names every note and picture; `Look`, `Replace` and `SaveManifest` are
`put` and the end of `run`; the plan is read in one step, and two imports at once are left out. `Groceries`: `ApplyNames` is
`groceries.apply`, with the line numbers it works by and the new products it keeps for the end;
`AsGrocery` is filer's lookup, made long before the write, and `CheckedActions` also its
`_or_new_task`, which makes a task of an update that finds none; `WorksOut` and `PutsDown` are the two
halves of a write. Which names are alike is a constant: a relation on words, not always transitive.

## The runs

| run | bounds | what it shows |
|---|---|---|
| `chat_lock` | 4 turns, 2 chats, 4 lock identities | exclusion, clean tables, no forgotten sleeper, everyone gets in, and that `ChatLock` implements `ChatQueue` |
| `conversation` | 1 chat, 2 handlers and the sweeper, 2 messages, 2 presses, 1 crash, 1 lost answer | what was read holds after the await, nothing is lost in silence, nothing lands or is undone twice beyond one copy per crash or lost answer, old buttons are harmless, the sweeper spares live questions |
| `conversation_chats` | 2 chats, 1 handler and the sweeper | chats do not disturb each other; every turn ends; every expired question is swept |
| `conversation_twice` | 1 chat, 1 handler and the sweeper, 1 press | violation: `LandsOnce` |
| `two_stores` | a goal and a thought, plans of up to 2 steps (3 planned), 1 button question, 1 undo | the gate, its closing button, and that every whole write can be undone |
| `two_stores_ends` | 1 message, 1 flip of a switch, 2 answers | no turn and no vault task waits for ever, and a message starts no more than `MaxTasks` of them |
| `two_stores_twice`, `two_stores_step` | 1 message | violations: `OneWriter`, `OneUndoForBothStores` |
| `discovery` | 1 reader, the refresh behind, 1 tab opened twice, 2 things to create, lists of 1 | an invalidation is not taken back, a created page or row is found, one inbox flag |
| `vault` | 2 turns of 2 chats, 2 writes, 4 names, the user's line, 1 crash | what may be lost and what may not, exact undo, undoable or reported |
| `parts`: PageEdits | pages of 2 and 3 blocks of 0 to 2 lines, read as a whole, scripts of 2, texts of 2 lines, 1 fault and 1 edit by hand (both only beside scripts of 1), 2 presses | what was read is safe (`BlocksAreSafe`), scripts land as numbered, undo brings back, one copy per fault |
| `parts`: TableRows | 2 messages with 2 creates, 2 titles, an index of 2 rows, 1 fault, 1 edit by hand | no row is written twice |
| `parts`: Updater | 3 releases, 2 locks, 1 migration, 4 starts, 2 stops, 2 backups | a rollback restores |
| `parts`: Schedules | days of 6 ticks with 2 times, 2 mails, 2 starts, 1 fault, 1 renumbering | digests come once |
| `parts`: VaultImport | 3 workspaces with pages of one title, 2 runs, 1 death, 1 edit, 1 change | the import minds its own |
| `parts`: Groceries | 5 names of 2 products, 2 turns, 2 runs of the tool, 1 edit by hand | one line per product, also for a new one named twice, and only what was asked for changes |
| `parts`: Questions | 2 tables and 1 page, 4 columns, one removal, 3 plans, two texts | what is written is what was meant |
| `page_undo` | as PageEdits, a page size of 2, no fault, no hand | violation: `UndoTakesNobodysLines` |

Why the bounds are enough. A race on the lock needs a holder, a woken waiter and a newcomer, and a
fourth turn to be overtaken; a second chat lets a lock identity be reused. A race in a chat needs
one turn inside, one behind it and the sweeper; expiry needs one tick before and one after the
write; two presses are a double tap. A free-text answer needs two messages. A plan needs one step
before and one after its question, and one planned step more than the hard stop. `MAX_STEPS` is 25
and `MAX_QUESTIONS` 3 in the code; only "reached" and "not reached" matter to the code. A refresh
is overtaken by one write and hit by one invalidation; two things let one be made inside the other.
A lost line in the vault needs two writers and one path. Requests of one block make every text of
two lines a text of two batches, and a page one block longer than a page size has a block that was
not read; blocks of no line, of one and of two are all that Markdown tells apart. A product that is
named twice and one named in two forms are both in the task file that the tool moves. A digest is doubled or lost between two times of a day and one start; a second backup has
to exist before one is pruned, and a third release before one is skipped.

Deadlock is checked for `ChatLock` only: in the others, once all messages are sent, all presses
spent and all bounds reached, the system rests.

### Fairness

A waiter that is woken runs, and a turn that is inside leaves: the event loop runs what is ready,
and every await of a turn (HTTP, a model, a thread) has a timeout. In `Conversation` that is weak
fairness of each task's steps. The sweeper's timer is weakly fair, and strong fairness of
`SweepScans` says that discovery does not fail for ever. Users owe nothing: no arrival, press,
cancellation or crash is fair. `TwoStores` asks the same of the turn and of each vault task. The
other modules state safety only: their processes may stop at any point, and what they leave behind
is the question.

### What the violations show

* **A message that needs a search is written to the vault twice** (`two_stores_twice`).
  `_text` gives the gate its word (`let_vault_write(True)`, orchestrator.py:558) before
  `_research` tries to take it back (line 724), and the first word counts. The bare message is
  written, the found text is written beside it, and the first write is in no undo row, because
  `turn.vault` was replaced. The existing test names the same note in both, so it sees one file.
* **A message lands in Notion twice** (`conversation_twice`). When the model or a search fails over
  an answer, the text goes to the inbox and its question stays: the next press, answer or sweep
  writes it again. `LandsOnceUnlessDoubled` shows that this is the only way it happens.
* **The Undo button of a plan's step reverts one store** (`two_stores_step`). The step's row is
  written from the Notion half; the vault half is only in the plan's closing row.
* **Undo deletes a line nobody added** (`page_undo`). A page is read in part when a line is to join
  one of its lists; Notion's answer to the insert lists everything below it, and `_append` takes
  what it does not know for its own. `BlocksAreSafe` shows that nothing that was read is
  touched.

## Where the code and its documents part, beside the runs

What was met on the way, is in the models (as a behaviour they have or a case a property names) and
has no run of its own.

Questions:
* A rewrite or append whose sub-page disappears while its question is open is carried out on the
  parent page (`resolver.py:117`, `builder.py:111-127`); `LandsWhereMeant` allows it. If the place
  itself disappears, the answer is applied to the second guess, if that is sure enough.
* Answering a required multi-select or relation by button raises in `_rebuild_value`, although
  `rebuild_candidate` says "Never raises"; the question stays (`Stumbles`).
* A required column that is gone, or whose options are, is dropped, and the row created without it,
  unasked (`WentFrom`).
* "Not found, add it?" is asked alone, before the place is (`policy.py:152-155`): when one of two places
  within the margin disappears while it is open, the other is taken unasked. `LandsWhereMeant` allows it.
* `turn.asked_field` is never cleared, so the value a planner filled in for the same column in a
  later step of that turn replaces the user's remembered answer, against orchestrator.py:1284-1286.
* `src/README.md:126` says an expired question's text is rescued "in `auto`/`button` inbox mode",
  `src/documentation/FLOWS.md:192` that in mode `button` it "is dropped silently". The code follows
  the second.

Notion:
* A line that the user adds below the insertion point between read and insert is taken for the
  bot's own (the window is that of `page_undo`, smaller). Two inserts after the same line land in
  reverse order. Several insertions of more than 100 blocks chain to each other's ids, which is why
  `LandsAsNumbered` asks that they fit into a request. In an undo, one vanished block of an "added"
  part gives up the rest of that part.
* The Undo of a replaced text does not bring back what Markdown does not keep: an empty paragraph is
  archived and stays away, and a block with a line break in it comes back as two. `executor.py:642-644`
  admits to new ids and promises the words; `UndoBringsBack` says which blocks they are in.
* `titles.py:31-32` speaks of "Three requests at Notion's 100 rows a page"; one request is sent.

Discovery and admin page:
* A refresh that had read Notion before a write replaces the picture after it (`overtaken`), against
  discovery.py:98-101 and 113-119.
* A post whose later parts are refused answers 400 after the descriptions were saved, and without an
  invalidation (admin/server.py:166-169). A post also overwrites a malformed file that `ensure`
  leaves alone.

Vault:
* `_write_all` drops the undos of the actions before the one that raised; the reply says it failed
  and the notes stay. An `update` with a heading and a body (`prompts.py:470-472` asks for
  it) replaces the section's lines, which the filer never read, without the copy in `.trash` that
  `_rewrite` makes: only its Undo brings them back, where writer.py:4 says "Nothing is ever deleted" and
  the docstring of `_rewrite` that it is "the one write that can lose something". `NothingIsLost` names
  the case. A linker in flight writes an undone note back. Writers of one path share one
  `.tmp`, so one may land the other's text. A turn is marked undone although its vault undo failed
  (orchestrator.py:1050-1055).
* Files of an import that died are taken for the user's own ever after (`orphans`). A picture that
  is there is never fetched again, so when an image is inserted before it, or two pages of one title
  change places, the note shows the wrong one. A user's file that equals the import's is adopted and
  may be overwritten later, against "any file it did not create". A page inside a block of a skipped
  page is migrated.

Groceries:
* Two lines of one name, made by hand, are never told apart again: `match` gives up, and every
  message about the product adds a line, against groceries.py:3-5 "the page never grows except when
  a genuinely new product appears" (the exception in `PageMinded`).
* `same` looks at words of four letters and more (`index.py:38`), so names that differ in a shorter
  word only are one product, against "word by word in both directions" (groceries.py:88).
* Whether a message is about groceries is decided before the turn ends and written after it: a
  product that another message adds meanwhile is filed as a task. The tool puts its texts over
  pages that a running bot may have changed (`overwritten`), without a temporary file, and when it
  is run again after it died between two files, what was unticked meanwhile is ticked again.

Schedules:
* Before the first time of a day, `previous` is yesterday's first time, where the comment at
  daily.py:94 says the last. The grace is looked at when the loop starts only, so after a suspension
  a digest comes at any lateness. The position is saved before the send: a send that fails loses
  those messages (`dropped`).

Updater:
* A backup that a crash cut short is taken for a finished one; an update started on an interrupted
  rollback backs up a mixed tree; the newest backup is the one of the highest version. These are the
  three exceptions of `RollbackRestores`. Besides, a retry after a failed sync computes `need_sync`
  from the new manifest and leaves the runtime old, and a bot can be started during an update.

## What is proved

Every theorem is about the specification the runs check, with no bound on its constants but the
assumptions named in the modules: sets of turns, places and names are finite, null values are none
of the real ones, a limit is a number, and lists of 100 or 25 or 3 are of any length. Each module
proves an inductive invariant (`Invariance`) and what follows from it. TLC has checked every part
of each invariant on the instance of its run, which is how most of the parts were found: a property
fails to be inductive on a state no run reaches, and the part says why.

| module | properties, as theorems |
|---|---|
| `ChatLockProofs` | `TypeOK`, `MutualExclusion`, `TablesTrackTurns`, `NobodyForgotten`, `ImplementsQueue` |
| `ConversationProofs` | `TypeOK`, `WhatWasReadHolds`, `UndoneOnce`, `NothingLost` (for `InboxMode = "auto"`), `LandsOnceUnlessDoubled`, `PressesMeetTheirQuestion`, `SweepSparesTheLiving` |
| `TwoStoresProofs` | `TypeOK`, `PlanGoalIsNotWritten`, `VaultWritesAreUndoable`, `UndoneMeansReverted`, `ClosingButtonCoversThePlan` |
| `DiscoveryProofs` | `TypeOK`, `InvalidationHolds`, `CreatedIsFound`, `OneInboxFlag` |
| `VaultFilesProofs` | `TypeOK`, `NothingIsLost`, `UndoIsExact`, `UndoableOrReported` |
| `QuestionsProofs` | `QuestionsTypeOK`, `WrittenAsMeant` |
| `PartsProofs` | `RowsTypeOK` and `NoRowTwice` of `TableRows`, `UpdaterTypeOK` and `RollbackRestores` of `Updater`, `SchedTypeOK` and `DigestsComeOnce` of `Schedules`, `ImportTypeOK` and `ImportMindsItsOwn` of `VaultImport`, `PageTypeOK` and `BlocksAreSafe` of `PageEdits`, `GroceriesTypeOK` and `GroceriesKept` of `Groceries` |

**The lock.** `MutualExclusion` is not inductive. Two turns of one chat exclude each other because
they hold the same object (`Bound`); they hold the same object because the table entry outlives
every turn that read it and belongs to no other chat (`Entries`); it outlives them because the
counter is exact (`Counted`, by the cardinality of the set of turns in flight); and one object has
one holder because the woken waiter is the head of the line of a free lock (`Waiters`, `Wakings`)
and a newcomer is let past only an empty line (`Holders`). `LockInv` is the conjunction.

`Refinement` maps the owner of a chat to the turn inside it and its line to the waiters of the
object in the table. `Arrive` maps to `Join`, `Resume` to `Enter` (a woken turn is the head, by
`Wakings`), `LeaveTurn` to `Leave` and `Cancel` to `GiveUp`; the case that needs care is the
departure that drops the table entry, where the exact counter shows that no waiter is dropped with
it. So what `Conversation` assumes of the lock by extending `ChatQueue` is a theorem about
`_chat_lock`.

**The conversation.** `ConvInv` rests on two parts. `Owned`: a turn past the lock of a chat is the
one inside it, so nobody else moves the chat's question between its read and its write. `Jobs`: a
turn's local variables belong together; which of them are set at which await, on whose behalf it
writes, and which text, question or write its argument names (`Fits`, in five parts). From these
`Reads` says that the question a turn goes by is still its chat's, which is `WhatWasReadHolds`;
`Undoing` that nobody else undoes what a turn is undoing; `Counted` that each undo of a write
beyond one per crash or lost answer is known to its row or to the turn that is about to mark it,
which gives `UndoneOnce`; `Landed` that a text counted as written is in Notion, and `Kept` is
`NothingLost` itself: a text in hand moves to Notion, to the question, to an offer or to the reply
in every step of every failure path. `PressesMeetTheirQuestion` and `SweepSparesTheLiving` are
action properties and follow from the invariant step by step.

`LandsOnceUnlessDoubled` needs to know where a message is, and that nobody else has it: a second
invariant, `OnceInv`, proved from `ConvInv`. `Voiced`: a message came with one turn, and one audit
row carries it. `Homed`: wherever it is, it is in the chat of that row, so two turns that had it
would both be inside one chat. `Apart`: no question holds what a turn is still called with, nor what
it took from a question to write. `Offers`: what an inbox offer stands for is in no question and in
no hand but the one that takes the offer up, which is why the offer is made only for the turn's own
row. `Spent`: a landing beyond the crashes and the lost answers is owed to a turn that waits for its
answer, or nothing holds the message any more. A step changes none of this but through the texts it
moves; `Carries` says what a step may do with them, every action is shown to be such a step, and each
part is shown to outlive one.

**The two stores.** `StoresInv` makes exact what the turn in flight carries. `Gated`: a gate is
decided once, it is undecided until the message was read, and a task whose gate is not "yes" has
written nothing. `StepsJoin`: only a plan has a step to join and no other step's task is running.
`PlanCovered`: the undo a plan has collected, in the turn or in the question it was saved with,
misses none of its steps. `Joins`: every vault task is joined by its turn, replaced by another,
wrote nothing to undo, or is in a row.

**The cached workspace.** `DiscoveryInv`: one task fetches, the lock's holder (`Lined`); a fetch that
was hit leaves the force on, and one that was not has read Notion after every invalidation so far
(`Hits`); a thing has one place in Notion, and the call that made it knows it (`Homes`); what was
noted is in the picture or the force is on (`Found`). For `Found` the lemma `Ranks` shows by
counting that the newest `ITEMS` of a place are well defined. `Flags` carries `OneInboxFlag` over
what a tab has merged and not saved yet.

**The vault.** `VaultInv` has the shapes (`Shaped`, `Ordered`, `Wishing`) and one idea for each
property. `Accounted`: a text on its way to a file, in a plan or a `.tmp`, leaves out only lines
that are in the trash or that somebody asked to be undone, or that its author never saw, as it
never sees the section an update replaces; whoever lands it. `Reached`: a word of a turn that may still be undone is held, in a file, a `.tmp`, a plan,
an undo, a prepared rewrite or a linker's memory, only for notes that its Undo reaches. `Remembered`:
the oldest undo of a note, or the write that is under way, holds the text the turn found there, and
once it is taken back that text is what the note says. All three speak of
every `.tmp` and every text in memory, whoever put it there, which is why they survive a `.tmp` that
two writers share and a crash that leaves one behind.

**The questions.** What is written comes from a question that was asked long before, so
`QuestionsInv` says what the candidates of an open question keep (`Meant`): each has the row it was read
with until that row is gone, lacks a column of its table only when the column or options of it went, and
holds no sure value that was not read for sure, spelled out or answered; and every place that was as
good as the best when it was read is, while it is there, still within the margin of the best. Beside
that the candidates are ranked and one of a place (`WellRanked`). A reading gets there through
`Validate` (`ValidateFacts`, `FirstMeant`), an answer changes the first candidate or leaves one
(`AnsweredFacts`, by the kinds of question), and rebuilding drops candidates and columns but invents
nothing (`ResultFacts`). From such candidates `Dispatched` shows the property: `Evaluate` lets
a write through only when no second place is within the margin, so the place is the only one that
was good enough; when every value that is written is sure, which is `settled`; and when no required column
is without a value. That `Ranked` and `BestPerTarget` sort and keep one of a place is induction over
their lists, made of `Least` (a set of numbers that is not empty has a smallest, the first place where the claim
would fail) and of `Recursion` (a function defined by recursion exists).

**The smaller parts.** `RowsInv`: a table that a message holds as a whole has the title of every row
that still stands of those it saw (`Known`), so a create is sent only while no such row has its title
(`Checked`), and no later row changes that, since its id is new to everybody. That a shorter answer
than `MAX_INDEX_ROWS` is the whole table is counted once (`ReadWhole`). `UpdaterInv` is about states
that none of the three cases in the comment of `RollbackRestores` has spoilt, to which no step leads
back. Its heart is that the backup of the release in place is made while the tree is whole and is
whole before the tree is touched (`BackedUp`), that VERSION names either that release or one laid
completely since (`Standing`), and that releases only go up (`Rising`), so the newest backup is the
one a rollback wants. `UpdaterTypeOK` is about every state and has an invariant of its own, `UpdInv`:
a backup is begun before anything is copied to it and a rollback has only what a backup holds
(`UpdStages`), and the number of backups (`UpdCount`). Its bound was found by the proof: with three
releases one more than `KEEP_BACKUPS` seemed enough while an update makes its backup, and TLC agreed; with four a run that
died making one and the next run's own are two more.

`SchedInv` gives every mail a budget: as many tellings as there were numberings of the mailbox and
faults. `Paid`: how often a mail was told, plus one if it is in the loop's hand, plus one if the saved
position is still before it, stays within that; a renumbering puts every mail before the position
again, a failed save leaves one both in the hand and before it. `Accounts` is the other half: a mail
that the position has passed was told, was dropped with a send that failed, or is in the hand. Both
are said of the saved position and of the one the run is about to save. `Punctual`: while the loop
sleeps, either this time's message is still to come or the next time of the day lies within the
sleep, so none sends two.

`ImportInv` is about two books, the saved manifest and the one the run keeps. `Booked`: of a file that
neither the user nor a run that died has put there, both say what is in it, but for what the run
itself has written. So what the import takes for foreign is the user's or an orphan, and what it
overwrites was not the user's words when it looked (`WordsStay`). `InOrder`: what is left to do is the
plan from its k-th file on, the notes before are up to date, and no later file of the plan has the path
of a note, because names are numbered apart (`NamesDiffer`). That the plan is what it is taken for, a
sequence of files, is shown of its recursive functions one by one: `Recursion` shows that a function
defined by recursion exists, and the claim about each value follows by the least index at which it
would fail.

`PageInv` is about ids. `Sheet`: the page and the trash hold every id that Notion has given out, each
once, so a block that was made after the command read the page is none of those it read. `OwnIds` are
these; the requests that are left, the parts of an edit record and the ids an append or a text keeps
for Undo name only them, or what the command is to take away (`SafeRequests`, `SafeParts`). That is not
so for every answer an insert could get: `_append` has to take the lines that the answer lists below
the new blocks out of it, and it can because a command that inserts among lines knows all of those it
read (`WorkRequests`; `FreshFacts`). Only an insert of an Undo knows none, and an Undo keeps nothing.
So whatever was trashed is the bot's own or was meant (`Harmless`), and what was meant is no sub-page,
since `Check` lets no edit of one through (`CheckFacts`, through `SafeEdits`) and `Replaceable` leaves
them out. `Written`: of a whole new text the ids are kept, or its append is still the first request and
nothing was taken away, or it failed before anything was.

`GroceriesInv` is small: a text that waits to be written was worked out from the one that was read
(`Worked`), and once the tool has put the page down, all it takes from the task file is on the page or
was lost when another text was put over it (`Prepared`). The work is in what `ApplyNames` does to any
page (`MessageFacts`). Through the loop over the names, `Held` keeps that lines change only in their
places and only where a form of an asked name stands, that what is yet to be added did not stand there
once, and that no two of it are forms of one product (`Apart`); each name is `Met`, by a line or by
what waits. Then each insertion leaves every choice of lines as it was, but for the new line
(`SortedFacts`, `WithNewFacts`).

How the proofs go: a lemma says what each step does to the record it changes, once (`...Moves`,
`...Fields`, `...Facts`); then each part of the invariant has a lemma or a group of them with one
case per action; `Invariance` puts them together.

Model-checked only:
* liveness under fairness (`EveryoneGetsIn`, `EveryTurnEnds`, `ExpiredIsSwept`, `EveryTaskEnds`),
  which needs `ENABLED`;
* what a script or an undo leaves on a page word for word (`LandsAsNumbered`, `UndoBringsBack`,
  `OneCopyPerFault` of `PageEdits`): they compare the result of a whole run with a reference that goes
  through the same script in another way.

`PartsTypeOK` is the conjunction of seven type invariants, each of them a theorem.

## What is not modelled, and the plan

Not modelled, because no property here depends on it: wording, formatting and logging; audit
columns nobody branches on; conversions between Notion's blocks and Markdown, but for the number of
blocks that a replaced text comes back as; what the models actually answer; voice, authorisation, settings; the building of the object graph and of a release.
The agenda and search only read. The cooldown of `llm/fallback.py` chooses between two
models whose answers are both a choice. Where in a note a line goes is left to the code's own
tests. `PROJECT.json` lists every component with its status and every hazard with the property that
covers it or the reason why none does.

Next, in this order:

1. The rescue of an expired question inside `TwoStores`, whose row the vault's undo may join.

## Running it

    tlc -workers 2 -config MCChatLock.cfg MCChatLock
    tlc -workers 2 -config MCParts.cfg MCParts
    for m in ChatLock Conversation TwoStores Discovery VaultFiles Questions Parts; do tlapm ${m}Proofs.tla; done

The largest runs, `parts`, `vault` and `discovery`, take two to three minutes each, the others about
one. The proofs take about half an hour from nothing, a third of it each for `ConversationProofs` and
`PartsProofs`.
