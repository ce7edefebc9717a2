------------------------------ MODULE Updater ------------------------------
(***************************************************************************)
(* apply_update.py and app/audit/migrate.py: a release archive is laid     *)
(* over the installed tree after a backup, files it no longer ships are    *)
(* pruned, the runtime is synced, migrations are applied, and VERSION is   *)
(* written last.  Any step may fail, the process may die between any two   *)
(* files, and the user runs the update again or rolls back.                *)
(***************************************************************************)
EXTENDS Integers, Sequences, SequencesExt, FiniteSets, FiniteSetsExt, Picks

CONSTANTS
    Shipped,         \* Shipped[v]: the files of release v, in the archive's order
    Migrations,      \* the files among them that are migrations, in the order of their numbers
    LockOf,          \* LockOf[v]: the uv.lock of release v
    KEEP_BACKUPS,
    MaxRuns,         \* bound: how often the updater is started
    MaxStops         \* bound: steps that fail, and processes that die

Releases == DOMAIN Shipped
FilesOf(v) == IF v \in Releases THEN ToSet(Shipped[v]) ELSE {}
Files == UNION {FilesOf(v) : v \in Releases}
Items == Files \cup {"VERSION", "manifest"}

ASSUME ReleasesAre ==
    /\ Shipped \in Seq(Seq(STRING)) /\ Shipped # <<>>
    /\ DOMAIN LockOf = Releases
    /\ Migrations \in Seq(Files) /\ Files \cap {"VERSION", "manifest"} = {}
    /\ {KEEP_BACKUPS, MaxRuns, MaxStops} \subseteq Nat /\ KEEP_BACKUPS > 0

VARIABLES
    tree,      \* tree[i]: which release's copy of item i is installed, 0 when there is none
    venv,      \* the lock that the runtime was last synced to
    schema,    \* the migrations applied to the database
    backups,   \* backups[v]: the items of .backup/v, by release; Absent when there is none
    upd,       \* the run of the updater
    bot,       \* a bot holds the lock on data/bot.pid
    runs, stops,
    prior,     \* history: the release that was in place as a whole when last an update began on one
    spoilt     \* history: "yes" after what RollbackRestores leaves out, "torn" while a rollback stands half done

updVars == <<tree, venv, schema, backups, upd, bot, runs, stops, prior, spoilt>>

NoItems == [i \in Items |-> 0]
Absent == [i \in Items |-> -1]
Full(v) == [i \in Items |-> IF i \in FilesOf(v) \cup {"VERSION", "manifest"} THEN v ELSE 0]
Off == [pc |-> "off", new |-> 0, old |-> 0, sync |-> FALSE, todo |-> <<>>]

Whole(v) == \A i \in Items : Full(v)[i] # 0 => tree[i] = v

Backups == {v \in DOMAIN backups : backups[v] # Absent}
Newest_ == Max(Backups)
\* The lowest version numbers go.
Pruned(set) == {v \in set : Cardinality({w \in set : w > v}) >= KEEP_BACKUPS}
Pending == {m \in ToSet(Migrations) : tree[m] # 0} \ schema
Lowest(pending) == Chosen(Migrations, pending)[1]
\* The archive's VERSION is passed over.
Extracted(v) == Shipped[v] \o <<"manifest">>

UpdaterInit ==
    /\ tree = Full(1) /\ venv = LockOf[1] /\ schema = ToSet(Migrations) \cap FilesOf(1)
    /\ backups = [v \in 0 .. Len(Shipped) |-> Absent]
    /\ upd = Off /\ bot = FALSE
    /\ runs = 0 /\ stops = 0
    /\ prior = 1 /\ spoilt = "no"

disk == <<tree, venv, schema, backups>>
past == <<prior, spoilt>>

----------------------------------------------------------------------------
(* apply *)

MidUpdate == tree["manifest"] # 0 /\ tree["manifest"] # tree["VERSION"]
BackedUpMidUpdate == MidUpdate
\* No backup is made: there is one of this release, or the tree is no longer whole.
BackupKept == MidUpdate \/ backups[tree["VERSION"]] # Absent

Apply_(new, force) ==
    /\ upd.pc = "off" /\ runs < MaxRuns
    /\ new > tree["VERSION"] \/ force
    /\ ~bot \/ force
    /\ runs' = runs + 1
    /\ LET cur == tree["VERSION"]  old == tree["manifest"] IN
       /\ upd' = [pc |-> IF BackupKept THEN "extract" ELSE "backup", new |-> new, old |-> old,
                  sync |-> old = 0 \/ LockOf[new] # LockOf[old],
                  todo |-> IF BackupKept THEN Extracted(new)
                           ELSE (IF old = 0 THEN <<>> ELSE Shipped[old]) \o <<"VERSION", "manifest">>]
       /\ backups' = IF BackupKept THEN backups ELSE [backups EXCEPT ![cur] = NoItems]
    /\ prior' = CHOOSE v \in Releases : IF \E w \in Releases : Whole(w) THEN Whole(v) ELSE v = prior
    /\ spoilt' = IF spoilt = "torn" \/ new < prior' THEN "yes" ELSE spoilt
    /\ UNCHANGED <<tree, venv, schema, bot, stops>>

Doing(pc) == upd.pc = pc /\ UNCHANGED <<bot, runs, stops>>
Item == Head(upd.todo)
Moved == [upd EXCEPT !.todo = Tail(@)]

BackupItem ==
    /\ Doing("backup") /\ upd.todo # <<>>
    /\ backups' = [backups EXCEPT ![tree["VERSION"]][Item] = tree[Item]]
    /\ upd' = Moved
    /\ UNCHANGED <<tree, venv, schema, past>>
BackupDone ==
    /\ Doing("backup") /\ upd.todo = <<>>
    /\ backups' = [v \in DOMAIN backups |-> IF v \in Pruned(Backups) THEN Absent ELSE backups[v]]
    /\ upd' = [upd EXCEPT !.pc = "extract", !.todo = Extracted(upd.new)]
    /\ UNCHANGED <<tree, venv, schema, past>>
ExtractItem ==
    /\ Doing("extract") /\ upd.todo # <<>>
    /\ tree' = [tree EXCEPT ![Item] = upd.new]
    /\ upd' = Moved
    /\ UNCHANGED <<venv, schema, backups, past>>
ExtractDone ==
    /\ Doing("extract") /\ upd.todo = <<>>
    /\ upd' = [upd EXCEPT !.pc = "prune"]
    /\ UNCHANGED <<disk, past>>
Stale == {i \in FilesOf(upd.old) \ FilesOf(upd.new) : tree[i] # 0}
PruneItem ==
    /\ Doing("prune")
    /\ \E i \in Stale : tree' = [tree EXCEPT ![i] = 0]
    /\ UNCHANGED <<venv, schema, backups, upd, past>>
PruneDone ==
    /\ Doing("prune") /\ Stale = {}
    /\ upd' = [upd EXCEPT !.pc = IF upd.sync THEN "sync" ELSE "migrate"]
    /\ UNCHANGED <<disk, past>>
SyncRuntime ==
    /\ Doing("sync")
    /\ venv' = LockOf[upd.new]
    /\ upd' = [upd EXCEPT !.pc = "migrate"]
    /\ UNCHANGED <<tree, schema, backups, past>>
\* Every migration is a transaction of its own, its row in schema_migrations included.
Migrate ==
    /\ Doing("migrate") /\ Pending # {}
    /\ schema' = schema \cup {Lowest(Pending)}
    /\ UNCHANGED <<tree, venv, backups, upd, past>>
MigrateDone ==
    /\ Doing("migrate") /\ Pending = {}
    /\ upd' = [upd EXCEPT !.pc = "version"]
    /\ UNCHANGED <<disk, past>>
\* write_text opens the file, which empties it, and then writes.
EmptyVersion ==
    /\ Doing("version")
    /\ tree' = [tree EXCEPT !["VERSION"] = 0]
    /\ upd' = [upd EXCEPT !.pc = "written"]
    /\ UNCHANGED <<venv, schema, backups, past>>
WriteVersion ==
    /\ Doing("written")
    /\ tree' = [tree EXCEPT !["VERSION"] = upd.new]
    /\ upd' = Off
    /\ UNCHANGED <<venv, schema, backups, past>>

\* Extracting, pruning, syncing or migrating raises: exit code 2, the tree stays as it is.
StepFails ==
    /\ upd.pc \in {"extract", "prune", "sync", "migrate"} /\ stops < MaxStops
    /\ stops' = stops + 1
    /\ upd' = Off
    /\ UNCHANGED <<disk, bot, runs, past>>
Dies ==
    /\ upd.pc # "off" /\ stops < MaxStops
    /\ stops' = stops + 1
    /\ upd' = Off
    /\ spoilt' = CASE upd.pc = "backup" -> "yes"
                   [] upd.pc = "rollback" /\ spoilt = "no" -> "torn"
                   [] OTHER -> spoilt
    /\ UNCHANGED <<disk, bot, runs, prior>>

----------------------------------------------------------------------------
(* rollback: the newest backup is copied over the tree, in any order; what is not in it stays *)

Rollback ==
    /\ upd.pc = "off" /\ runs < MaxRuns /\ ~bot /\ Backups # {}
    /\ runs' = runs + 1
    /\ \E order \in SetToSeqs({i \in Items : backups[Newest_][i] > 0}) :
           upd' = [Off EXCEPT !.pc = "rollback", !.new = Newest_, !.todo = order]
    /\ UNCHANGED <<disk, bot, stops, past>>
RestoreItem ==
    /\ Doing("rollback") /\ upd.todo # <<>>
    /\ tree' = [tree EXCEPT ![Item] = backups[upd.new][Item]]
    /\ upd' = Moved
    /\ UNCHANGED <<venv, schema, backups, past>>
RollbackDone ==
    /\ Doing("rollback") /\ upd.todo = <<>>
    /\ upd' = Off
    /\ spoilt' = IF spoilt = "torn" THEN "no" ELSE spoilt
    /\ UNCHANGED <<disk, prior>>

(* app.main: the lock is held until the process ends; a pending migration ends it at once. *)
StartBot ==
    /\ ~bot /\ Pending = {}
    /\ bot' = TRUE
    /\ UNCHANGED <<disk, upd, runs, stops, past>>
StopBot ==
    /\ bot /\ bot' = FALSE
    /\ UNCHANGED <<disk, upd, runs, stops, past>>

UpdaterNext ==
    \/ \E v \in Releases : \E force \in BOOLEAN : Apply_(v, force)
    \/ BackupItem \/ BackupDone \/ ExtractItem \/ ExtractDone \/ PruneItem \/ PruneDone
    \/ SyncRuntime \/ Migrate \/ MigrateDone \/ EmptyVersion \/ WriteVersion
    \/ StepFails \/ Dies
    \/ Rollback \/ RestoreItem \/ RollbackDone
    \/ StartBot \/ StopBot

UpdaterSpec == UpdaterInit /\ [][UpdaterNext]_updVars

----------------------------------------------------------------------------
(* Properties *)

\* A backup more than are kept is there while one is made, and for every run that died making one.
UpdaterTypeOK ==
    /\ tree \in [Items -> 0 .. Len(Shipped)]
    /\ \A v \in DOMAIN backups : backups[v] = Absent \/ backups[v] \in [Items -> 0 .. Len(Shipped)]
    /\ schema \subseteq ToSet(Migrations) /\ venv \in {LockOf[v] : v \in Releases}
    /\ upd.pc \in {"off", "backup", "extract", "prune", "sync", "migrate", "version", "written", "rollback"}
    /\ upd.todo # <<>> => upd.pc \in {"backup", "extract", "rollback"}
    /\ Cardinality(Backups) <= KEEP_BACKUPS + stops + (IF upd.pc = "backup" THEN 1 ELSE 0)

\* However often an update failed, died or was tried again with this or another archive, a rollback
\* that runs to its end leaves the release that was in place before it, every file, its VERSION and
\* its manifest: the tree is backed up once, while it is whole.  Three cases are left out, in which
\* the code does not: a backup that a crash has cut short is later taken for a finished one; an
\* update that is started on a rollback half done backs up a tree of two releases; and the newest
\* backup is the one of the highest version, not the last made, once an older release was forced.
RollbackRestores ==
    upd.pc = "rollback" /\ upd.todo = <<>> /\ spoilt # "yes" => Whole(prior)

=============================================================================
