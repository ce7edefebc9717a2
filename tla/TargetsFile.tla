---------------------------- MODULE TargetsFile ----------------------------
(***************************************************************************)
(* data/targets.yaml: the user's half of what is known about a place in    *)
(* Notion (Descriptions), and the admin page that edits it from threads of *)
(* its own, one per request (ThreadingHTTPServer).                         *)
(*                                                                         *)
(* A save on the page loads and merges, then saves, each under the file's  *)
(* lock but not the two together; Descriptions.ensure is one critical section *)
(* and so one step.  A file is replaced as a whole, so nobody reads half   *)
(* of one.  Fields and options follow the same merge as the target they    *)
(* belong to and are left out, as are names, which the page cannot edit.   *)
(***************************************************************************)
EXTENDS Integers, Sequences, FiniteSets

CONSTANTS
    Places,       \* everything that may become a target
    NoPlace,      \* stands for no target
    InboxEnv,     \* INBOX_TARGET_ID: a place, or NoPlace when it is not set
    Requests,     \* the page's tabs: each posts what it shows
    MaxSaves,     \* bound: pages that are changed
    Described,    \* bound: the places whose description the user changes
    Choosable     \* bound: the places the user picks as the inbox

ASSUME PlacesAreFinite == IsFiniteSet(Places)
ASSUME NoPlaceIsNoPlace == NoPlace \notin Places
ASSUME EnvIsAPlace == InboxEnv \in Places \cup {NoPlace}

VARIABLES
    file,   \* [meta: what the user said of each place, broken: it is no longer YAML]
    tab,    \* tab[a]: a browser tab and the request it made
    saves   \* for its bound

fileVars == <<file, tab, saves>>

Blank == [said |-> FALSE, inbox |-> FALSE]
Meta  == [said : BOOLEAN, inbox : BOOLEAN]
Nothing == [p \in Places |-> Blank]  \* a place that is not in the file is one with nothing said
Partial(S) == UNION {[D -> S] : D \in SUBSET Places}

Closed == [pc |-> "closed", body |-> <<>>]

\* Descriptions._load_locked: a malformed file reads as an empty one.
Loaded == IF file.broken THEN Nothing ELSE file.meta

Flagged(meta) == {p \in DOMAIN meta : meta[p].inbox}

FileInit ==
    /\ file = [meta |-> Nothing, broken |-> FALSE]
    /\ tab = [a \in Requests |-> Closed]
    /\ saves = 0

----------------------------------------------------------------------------
(* The event loop's writer, Descriptions.ensure: what discovery found is added under its name,    *)
(* with nothing said; what the user said stays, and a file that cannot be read is left alone.     *)
Ensure == file' = IF file.broken THEN file ELSE [file EXCEPT !.meta = Loaded]

----------------------------------------------------------------------------
(* The admin page. *)

\* GET /api/targets: the places of the last snapshot with the values of the file, and the
\* environment's inbox as picked, whatever the file says.
View(places) ==
    [p \in places |->
        [said  |-> Loaded[p].said,
         inbox |-> IF InboxEnv = NoPlace THEN Loaded[p].inbox ELSE p = InboxEnv]]

\* What the user makes of it before saving: a description is written or cleared, or the inbox
\* is picked, and a radio button has one winner.
Changed(view) ==
    {[view EXCEPT ![p].said = ~ @] : p \in DOMAIN view \cap Described}
        \cup {[p \in DOMAIN view |-> [view[p] EXCEPT !.inbox = p = q]] :
                  q \in DOMAIN view \cap Choosable}

Open(a, places) ==
    /\ tab[a].pc = "closed"
    /\ saves < MaxSaves
    /\ saves' = saves + 1
    /\ \E body \in Changed(View(places)) : tab' = [tab EXCEPT ![a].pc = "open", ![a].body = body]
    /\ UNCHANGED file

\* _merge_target: an inbox that the environment has locked is not the page's to choose.
Merged(body) ==
    [p \in Places |->
        IF p \notin DOMAIN body THEN Loaded[p]
        ELSE [body[p] EXCEPT !.inbox = IF InboxEnv = NoPlace THEN @ ELSE Loaded[p].inbox]]

\* POST /api/descriptions sends the whole page.  It is refused if it names a place that the
\* snapshot does not know, or if two places would be flagged; nothing changed is not saved.
PostUnchecked(a, places) ==
    /\ tab[a].pc = "open"
    /\ LET body == tab[a].body
       IN tab' = [tab EXCEPT ![a] = IF DOMAIN body \subseteq places
                                    THEN [Closed EXCEPT !.pc = "merged", !.body = Merged(body)]
                                    ELSE Closed]
    /\ UNCHANGED <<file, saves>>

Post(a, places) ==
    /\ tab[a].pc = "open"
    /\ LET body    == tab[a].body
           merged  == Merged(body)
           refused == ~ DOMAIN body \subseteq places \/ Cardinality(Flagged(merged)) > 1
           changed == \E p \in DOMAIN body : merged[p] # Loaded[p]
       IN tab' = [tab EXCEPT ![a] =
              CASE refused -> Closed
                [] ~ refused /\ changed -> [Closed EXCEPT !.pc = "merged", !.body = merged]
                [] OTHER -> [Closed EXCEPT !.pc = "saved"]]
    /\ UNCHANGED <<file, saves>>

Save(a) ==
    /\ tab[a].pc = "merged"
    /\ file' = [meta |-> tab[a].body, broken |-> FALSE]
    /\ tab' = [tab EXCEPT ![a] = [Closed EXCEPT !.pc = "saved"]]
    /\ UNCHANGED saves

\* The note, the buckets, the texts and the switches are saved after the descriptions; a value
\* that one of them refuses answers 400, with no invalidation.
RestRefused(a) ==
    /\ tab[a].pc = "saved"
    /\ tab' = [tab EXCEPT ![a] = Closed]
    /\ UNCHANGED <<file, saves>>

\* The user opens the file in an editor and leaves it malformed.
HandEdit ==
    /\ file' = [file EXCEPT !.broken = TRUE]
    /\ UNCHANGED <<tab, saves>>

----------------------------------------------------------------------------
FileTypeOK ==
    /\ file.meta \in [Places -> Meta]
    /\ file.broken \in BOOLEAN
    /\ \A a \in Requests :
           /\ tab[a].pc \in {"closed", "open", "merged", "saved"}
           /\ tab[a].body \in Partial(Meta)

\* However tabs and discovery interleave, the page never leaves two places flagged as the inbox:
\* a tab that was opened before a place existed posts its own choice next to that place's flag.
OneInboxFlag == Cardinality(Flagged(file.meta)) <= 1

=============================================================================
