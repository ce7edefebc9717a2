------------------------------ MODULE MCParts ------------------------------
(***************************************************************************)
(* Seven parts that share no variable, checked in one run.  Their steps     *)
(* commute, so nothing is lost by letting a part move only while the       *)
(* others stand where they began: every state of each part is reached, and *)
(* no invariant speaks of two of them.                                     *)
(***************************************************************************)
EXTENDS PageEdits, TableRows, Updater, Schedules, VaultImport, Groceries, MCQuestions

Start(kind, n) == [kind |-> kind, lines |-> n]
TwoPages == {<<Start("para", 0), Start("kept", 1), Start("item", 2)>>, <<Start("item", 1), Start("head", 1)>>}

ThreeReleases == <<<<"app", "old">>, <<"app", "0002">>, <<"app", "0002">>>>
OneMigration == <<"0002">>
TwoLocks == <<"a", "b", "b">>

NotionPage(id, title, kind, parent, text, images) ==
    [id |-> id, title |-> title, kind |-> kind, parent |-> parent, text |-> text, images |-> images]
\* Two pages of one title change places and pictures; a page comes to lie below one that is skipped.
ThreeWorkspaces ==
    {<<NotionPage("a", "t", "page", "none", "v1", <<"i1">>), NotionPage("b", "t", "page", "a", "v1", <<>>)>>,
     <<NotionPage("b", "t", "page", "a", "v2", <<"i2">>), NotionPage("a", "t", "page", "none", "v1", <<>>)>>,
     <<NotionPage("a", "t", "area", "none", "v2", <<"i2", "i1">>), NotionPage("s", "secret", "page", "a", "v1", <<>>),
       NotionPage("b", "t", "page", "s", "v1", <<>>), NotionPage("c", "t", "book", "none", "v1", <<>>)>>}

FiveNames == <<"bags", "milk", "milks", "sacks", "trash">>
FourAlike == {{"bags", "sacks"}, {"bags", "trash"}, {"sacks", "trash"}, {"milk", "milks"}}
OneProduct == <<ProductLine("trash", TRUE)>>
FourChores == <<"milks", "bags", "milk", "milks">>
Heard(action, names, dated, done) == [action |-> action, names |-> names, dated |-> dated, done |-> done]
SomeHeard ==
    {Heard("grocery", <<"bags", "milk", "trash">>, FALSE, FALSE), Heard("task", <<"bags">>, FALSE, FALSE),
     Heard("task", <<"milk">>, TRUE, FALSE), Heard("update", <<"milk", "sacks">>, FALSE, TRUE),
     Heard("update", <<"bags">>, FALSE, FALSE)}

AnyWorkspace == CHOOSE w \in ThreeWorkspaces : TRUE

AnyPage == CHOOSE p \in TwoPages : TRUE
PageAtRest == job = NoJob /\ hand = 0 /\ Len(page) = Len(AnyPage) /\ \A i \in DOMAIN page : page[i].kind = AnyPage[i].kind
RowsAtRest == given = 0 /\ \A m \in Messages : msg[m].left = MaxCreates
UpdaterAtRest == runs = 0 /\ ~bot
SchedulesAtRest == wall = 0 /\ starts = 0 /\ box = <<>> /\ validity = 1
QuestionsAtRest == texts = 0
ImportAtRest == imports = 0 /\ edits = 0 /\ changes = 0 /\ notion = AnyWorkspace
GroceriesAtRest == setups = 0 /\ groceryHand = 0 /\ \A t \in Shoppers : shopper[t] = Idle
\* Bound: a fault and an edit by hand in one behaviour only beside a script of one edit, a text or an append.
PageFew == faults' > 0 /\ hand' > 0 => Len(job.script) <= 1

PartsInit ==
    /\ PageInit /\ RowsInit /\ UpdaterInit /\ SchedInit /\ QuestionsInit /\ ImportInit /\ GroceriesInit
    /\ \/ PageAtRest /\ RowsAtRest
       \/ PageAtRest /\ ImportAtRest
       \/ RowsAtRest /\ ImportAtRest
PartsNext ==
    \/ /\ RowsAtRest /\ UpdaterAtRest /\ SchedulesAtRest /\ QuestionsAtRest /\ ImportAtRest
       /\ GroceriesAtRest /\ PageNext /\ PageFew /\ UNCHANGED <<rowVars, updVars, schedVars, questionVars, importVars, groceryVars>>
    \/ /\ PageAtRest /\ UpdaterAtRest /\ SchedulesAtRest /\ QuestionsAtRest /\ ImportAtRest
       /\ GroceriesAtRest /\ RowsNext /\ UNCHANGED <<pageVars, updVars, schedVars, questionVars, importVars, groceryVars>>
    \/ /\ PageAtRest /\ RowsAtRest /\ SchedulesAtRest /\ QuestionsAtRest /\ ImportAtRest
       /\ GroceriesAtRest /\ UpdaterNext /\ UNCHANGED <<pageVars, rowVars, schedVars, questionVars, importVars, groceryVars>>
    \/ /\ PageAtRest /\ RowsAtRest /\ UpdaterAtRest /\ QuestionsAtRest /\ ImportAtRest
       /\ GroceriesAtRest /\ SchedNext /\ UNCHANGED <<pageVars, rowVars, updVars, questionVars, importVars, groceryVars>>
    \/ /\ PageAtRest /\ RowsAtRest /\ UpdaterAtRest /\ SchedulesAtRest /\ ImportAtRest
       /\ GroceriesAtRest /\ QuestionsNext /\ UNCHANGED <<pageVars, rowVars, updVars, schedVars, importVars, groceryVars>>
    \/ /\ PageAtRest /\ RowsAtRest /\ UpdaterAtRest /\ SchedulesAtRest /\ QuestionsAtRest
       /\ GroceriesAtRest /\ ImportNext /\ UNCHANGED <<pageVars, rowVars, updVars, schedVars, questionVars, groceryVars>>
    \/ /\ PageAtRest /\ RowsAtRest /\ UpdaterAtRest /\ SchedulesAtRest /\ QuestionsAtRest /\ ImportAtRest
       /\ GroceriesNext /\ UNCHANGED <<pageVars, rowVars, updVars, schedVars, questionVars, importVars>>
PartsSpec ==
    PartsInit /\ [][PartsNext]_<<pageVars, rowVars, updVars, schedVars, questionVars, importVars, groceryVars>>

\* The type invariants of the seven.
PartsTypeOK ==
    PageTypeOK /\ RowsTypeOK /\ UpdaterTypeOK /\ SchedTypeOK /\ QuestionsTypeOK /\ ImportTypeOK
    /\ GroceriesTypeOK
=============================================================================
