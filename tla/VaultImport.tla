---------------------------- MODULE VaultImport ----------------------------
(***************************************************************************)
(* app/vault/notion_import.py, run by hand and run again: Notion's pages   *)
(* become notes and pictures of the vault, each put there only when it is  *)
(* new or still as the import left it, which a manifest remembers that is  *)
(* saved at the end.  Notion changes between the runs, the user writes,    *)
(* deletes and puts back files at any moment, a download fails, a run dies.*)
(***************************************************************************)
EXTENDS Integers, FiniteSets, Sequences, SequencesExt, Picks

CONSTANTS
    Workspaces,       \* what Notion may hold: pages in the order in which it lists them
    SkipPages,        \* titles that the configuration leaves out, with what is below them
    MaxImports, MaxDeaths, MaxEdits, MaxChanges      \* bounds

ASSUME ImportBounds == {MaxImports, MaxDeaths, MaxEdits, MaxChanges} \subseteq Nat

\* Contents are named for the page or the picture they are of; no id is one of these two words.
Unnamed == {"nothing", "the user"}
ASSUME WorkspacesAre ==
    \A pages \in Workspaces :
        /\ pages \in Seq(ToSet(pages))
        /\ \A p \in ToSet(pages) :
               p.id \notin Unnamed /\ p.images \in Seq(ToSet(p.images)) /\ ToSet(p.images) \cap Unnamed = {}

VARIABLES
    notion,      \* the pages
    vault,       \* vault[path], the file's contents
    manifest,    \* manifest[path], the contents that the import left there; the file
    import,      \* the run at hand: what is left to put, and its manifest
    imports, deaths, edits, changes,
    byHand,      \* history: byHand[path], what the user has left there
    orphans,     \* history: files that a run wrote which died before it saved its manifest
    raced        \* history: files the user changed between the import's look and its write

importVars == <<notion, vault, manifest, import, imports, deaths, edits, changes, byHand, orphans, raced>>

\* The files with this one put among them.
With(files, path, data) == [p \in DOMAIN files \cup {path} |-> IF p = path THEN data ELSE files[p]]
Contents(of, text, shows) == [of |-> of, text |-> text, shows |-> shows]
Nothing == Contents("nothing", "", <<>>)
Words == Contents("the user", "words", <<>>)

(* plan(): the names first, then every page's text with the names of its pictures. *)

\* By title, or below such a page; a parent that is no page (a block, a table) ends the walk upwards.
Skipped(pages) ==
    LET below[n \in 0 .. Len(pages)] ==
            IF n = 0 THEN {p.id : p \in {q \in ToSet(pages) : q.title \in SkipPages}}
            ELSE below[n - 1] \cup {p.id : p \in {q \in ToSet(pages) : q.parent \in below[n - 1]}}
    IN  below[Len(pages)]
\* Rows of a table are not skipped by title; the club's go the way of the books.
Migrated(pages) ==
    LET skipped == Skipped(pages)
        of(kind) == Chosen(pages, {p \in ToSet(pages) : p.kind = kind /\ (kind = "book" \/ p.id \notin skipped)})
    IN  of("area") \o of("page") \o of("book")
\* unique(): the n-th of a title is called "title n".
NameOf(ps, i) == <<ps[i].title, Cardinality({j \in 1 .. i : ps[j].title = ps[i].title})>>
PictureAt(ps, i, n) == <<"file", NameOf(ps, i), n>>
Notes(pages) ==
    LET ps == Migrated(pages) IN
    [i \in DOMAIN ps |->
        [path |-> <<ps[i].kind, NameOf(ps, i), 0>>, download |-> FALSE,
         data |-> Contents(ps[i].id, ps[i].text, [n \in DOMAIN ps[i].images |-> PictureAt(ps, i, n)])]]
Downloads(pages) ==
    LET ps == Migrated(pages) IN
    FlattenSeq([i \in DOMAIN ps |->
        [n \in DOMAIN ps[i].images |->
            [path |-> PictureAt(ps, i, n), download |-> TRUE, data |-> Contents(ps[i].images[n], "picture", <<>>)]]])
VaultPlan(pages) == Notes(pages) \o Downloads(pages)
\* Every file that an import may come to write, and what it may write there.
ImportFiles == UNION {ToSet(VaultPlan(w)) : w \in Workspaces}
ImportPaths == {f.path : f \in ImportFiles}
Versions == [path \in ImportPaths |-> {f.data : f \in {g \in ImportFiles : g.path = path}}]

NoImport == [pc |-> "idle", read |-> <<>>, todo |-> <<>>, held |-> <<>>, written |-> {}, saw |-> Nothing]

ImportInit ==
    /\ notion \in Workspaces /\ vault = <<>> /\ manifest = <<>> /\ import = NoImport
    /\ imports = 0 /\ deaths = 0 /\ edits = 0 /\ changes = 0
    /\ byHand = <<>> /\ orphans = {} /\ raced = {}

----------------------------------------------------------------------------
(* apply(): one file after the other.                                      *)

outsideImport == <<notion, imports, deaths, edits, changes, orphans>>
Underway == import.pc \notin {"idle", "done"}

StartImport ==
    /\ ~Underway /\ imports < MaxImports
    /\ imports' = imports + 1
    /\ import' = [NoImport EXCEPT !.pc = "putting", !.read = notion, !.todo = VaultPlan(notion), !.held = manifest]
    /\ UNCHANGED <<notion, vault, manifest, deaths, edits, changes, byHand, orphans, raced>>

File_ == Head(import.todo)
Current == IF File_.path \in DOMAIN vault THEN vault[File_.path] ELSE Nothing
Passed == [import EXCEPT !.pc = "putting", !.todo = Tail(@)]
Remembering == [Passed EXCEPT !.held = With(@, File_.path, File_.data)]

\* A picture that is there and was the import's is not loaded again, whatever page now shows it.
Download ==
    /\ import.pc = "putting" /\ import.todo # <<>> /\ File_.download
    /\ \/ File_.path \in DOMAIN vault \cap DOMAIN import.held /\ import' = Passed
       \/ /\ File_.path \notin DOMAIN vault \cap DOMAIN import.held
          /\ \/ import' = [import EXCEPT !.pc = "loaded"]
             \/ import' = Passed                               \* the download failed
    /\ UNCHANGED <<outsideImport, vault, manifest, byHand, raced>>

\* Whatever the manifest knows is the import's, edited or not.
ForeignIfUnknown == Current # Nothing /\ File_.path \notin DOMAIN import.held
\* Never the import's, or edited since.
Foreign == Current # Nothing /\ (File_.path \notin DOMAIN import.held \/ import.held[File_.path] # Current)
Look ==
    /\ \/ import.pc = "putting" /\ import.todo # <<>> /\ ~File_.download
       \/ import.pc = "loaded"
    /\ import' = CASE Current = File_.data -> Remembering
                   [] Current # File_.data /\ Foreign -> Passed
                   [] Current # File_.data /\ ~Foreign -> [import EXCEPT !.pc = "writing", !.saw = Current]
    /\ UNCHANGED <<outsideImport, vault, manifest, byHand, raced>>
Replace ==
    /\ import.pc = "writing"
    /\ vault' = With(vault, File_.path, File_.data)
    /\ import' = [Remembering EXCEPT !.written = @ \cup {File_.path}, !.saw = Nothing]
    /\ raced' = IF Current = import.saw THEN raced ELSE raced \cup {File_.path}
    /\ byHand' = [p \in {q \in DOMAIN byHand : q # File_.path \/ byHand[q] # Nothing} |-> byHand[p]]
    /\ UNCHANGED <<outsideImport, manifest>>
SaveManifest ==
    /\ import.pc = "putting" /\ import.todo = <<>>
    /\ manifest' = import.held
    /\ import' = [import EXCEPT !.pc = "done"]
    /\ UNCHANGED <<outsideImport, vault, byHand, raced>>
\* A note that cannot be written ends the run as well.
ImportDies ==
    /\ Underway /\ deaths < MaxDeaths
    /\ deaths' = deaths + 1
    /\ import' = NoImport /\ orphans' = orphans \cup import.written
    /\ UNCHANGED <<notion, vault, manifest, imports, edits, changes, byHand, raced>>

----------------------------------------------------------------------------
(* The user, in Obsidian and in Notion.                                    *)

ByHand_(path, contents) ==
    /\ edits < MaxEdits /\ edits' = edits + 1
    /\ byHand' = With(byHand, path, contents)
    /\ UNCHANGED <<notion, manifest, import, imports, deaths, changes, orphans, raced>>
\* Words of the user's own, or an earlier version of the file put back.
WriteFile(path) ==
    \E contents \in {Words} \cup Versions[path] :
        /\ vault' = With(vault, path, contents)
        /\ ByHand_(path, contents)
DeleteFile(path) ==
    /\ path \in DOMAIN vault
    /\ vault' = [p \in DOMAIN vault \ {path} |-> vault[p]]
    /\ ByHand_(path, Nothing)
NotionChanges ==
    /\ changes < MaxChanges /\ changes' = changes + 1
    /\ notion' \in Workspaces \ {notion}
    /\ UNCHANGED <<vault, manifest, import, imports, deaths, edits, byHand, orphans, raced>>

ImportNext ==
    \/ StartImport \/ Download \/ Look \/ Replace \/ SaveManifest \/ ImportDies
    \/ \E path \in ImportPaths : WriteFile(path) \/ DeleteFile(path)
    \/ NotionChanges
ImportSpec == ImportInit /\ [][ImportNext]_importVars

----------------------------------------------------------------------------
(* Properties *)

ImportTypeOK ==
    /\ DOMAIN vault \cup DOMAIN manifest \cup DOMAIN import.held \subseteq ImportPaths
    /\ import.pc \in {"idle", "putting", "loaded", "writing", "done"}
    /\ import.pc \in {"loaded", "writing"} => import.todo # <<>>
    /\ import.written \subseteq DOMAIN import.held

\* "A re-run refreshes its own untouched files and never overwrites one the user has since edited, or
\* any file it did not create": however often it runs, dies in the middle or meets its own half-made
\* work, what the user wrote stays, but for a file changed in the moment between look and write, and
\* words that are the import's own.  And a run that ends has brought every note up to date that the
\* user left alone; only the notes of a run that died may be taken for the user's ever after.
ImportMindsItsOwn ==
    /\ \A path \in DOMAIN byHand \ raced :
           \/ byHand[path] = Nothing
           \/ path \in DOMAIN vault /\ vault[path] = byHand[path]
           \/ byHand[path] # Words
    /\ import.pc = "done" =>
           \A note \in ToSet(Notes(import.read)) :
               \/ note.path \in DOMAIN vault /\ vault[note.path] = note.data
               \/ note.path \in DOMAIN byHand \cup orphans

=============================================================================
