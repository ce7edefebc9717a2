----------------------------- MODULE Groceries -----------------------------
(***************************************************************************)
(* The grocery page (app/vault/groceries.py): one line for every product,  *)
(* ticked when it is at home.  Turns of several chats untick, tick and add *)
(* lines, reading the file and putting a new one over it with nothing to   *)
(* keep them apart; the user edits it; tools/groceries_setup.py moves      *)
(* products out of the task file, and may die between the two files.       *)
(*                                                                         *)
(* A name is what bare() leaves of it: no verb, amount, stamp or tag.      *)
(* Of the page only the product lines matter, and of the task file what    *)
(* its lines are about, whatever their boxes and dates.  Undo, which puts  *)
(* back the whole text, is in VaultFiles; the list is answered, not written. *)
(***************************************************************************)
EXTENDS Integers, FiniteSets, Sequences, SequencesExt, Picks

CONSTANTS
    Alphabet,       \* the products' names in the order in which the page sorts them
    Alike,          \* pairs of names that are the same words in other forms or another order
    Consumables,    \* --products
    StartProducts,  \* the page at the start
    StartTasks,     \* what the lines of the task file are about
    Askable,        \* bound: what the model may make of a message
    Shoppers,       \* the turns
    WrittenIn,      \* bound: the names of which the user adds lines
    MaxSetups, MaxGroceryHand     \* bounds

Products == ToSet(Alphabet)
Lines == [name : Products, done : BOOLEAN]

ASSUME GroceryBounds == {MaxSetups, MaxGroceryHand} \subseteq Nat
ASSUME AlphabetSorts == Cardinality(Products) = Len(Alphabet)
ASSUME NamesAreKnown ==
    /\ StartProducts \in Seq(Lines) /\ StartTasks \in Seq(Products)
    /\ Consumables \cup WrittenIn \subseteq Products
ASSUME AskableIsHeard ==
    \A raw \in Askable :
        /\ raw.action \in {"task", "update", "grocery"} /\ {raw.dated, raw.done} \subseteq BOOLEAN
        /\ raw.names \in Seq(Products) /\ raw.names # <<>>
        /\ raw.action = "task" => Len(raw.names) = 1

VARIABLES
    products,      \* the lines of the page
    chores,        \* the lines of the task file
    shopper,       \* shopper[t]: turn t's vault task
    setup,         \* a run of the tool
    setups, groceryHand,  \* for their bounds
    overwritten    \* history: products that were lost when a text was put over a page it had not seen

groceryVars == <<products, chores, shopper, setup, setups, groceryHand, overwritten>>

ProductLine(name, done) == [name |-> name, done |-> done]

Idle == [pc |-> "idle", action |-> "none", names |-> <<>>, done |-> FALSE, saw |-> <<>>, text |-> <<>>]
NoSetup == [pc |-> "off", products |-> <<>>, chores |-> <<>>, saw |-> <<>>, sawChores |-> <<>>]

----------------------------------------------------------------------------
(* Which line a name means, and what apply() makes of the page. *)

\* Word by word in both directions, so that plain milk is not coconut milk.
SameProduct(a, b) == a = b \/ {a, b} \in Alike

\* read(): every line with where it stands.
KnownLines(lines) == [i \in DOMAIN lines |-> [at |-> i, name |-> lines[i].name, done |-> lines[i].done]]

\* The one line that the name means, or none: also when there are several.
MatchingLine(name, known) ==
    LET exact == Chosen(known, {l \in ToSet(known) : l.name = name})
        close == Chosen(known, {l \in ToSet(known) : SameProduct(name, l.name)})
        hits  == IF exact # <<>> THEN exact ELSE close
    IN  IF Len(hits) = 1 THEN hits ELSE <<>>

SortKey(name) == CHOOSE i \in DOMAIN Alphabet : Alphabet[i] = name

\* _insert: before the first line that sorts behind it.
InsertSorted(lines, new) ==
    LET behind == {i \in DOMAIN lines : SortKey(lines[i].name) > SortKey(new.name)}
    IN  InsertAt(lines, IF behind = {} THEN Len(lines) + 1 ELSE CHOOSE i \in behind : \A j \in behind : i <= j, new)

\* A new line put in at once, under the line numbers of the lines below it.
OneNameAtOnce(acc, name, done) ==
    LET found == MatchingLine(name, acc.known) IN
    IF found # <<>>
    THEN [acc EXCEPT !.lines[found[1].at] = ProductLine(found[1].name, done)]
    ELSE [acc EXCEPT !.lines = InsertSorted(@, ProductLine(name, done))]

\* One name of the loop; a new product waits until the loop is over, as known[...].at counts lines.
OneName(acc, name, done) ==
    LET found == MatchingLine(name, acc.known) IN
    IF found # <<>>
    THEN [acc EXCEPT !.lines[found[1].at] = ProductLine(found[1].name, done),
                     !.known = [i \in DOMAIN acc.known |->
                                   IF acc.known[i].at = found[1].at THEN [acc.known[i] EXCEPT !.done = done] ELSE acc.known[i]]]
    ELSE IF \E other \in ToSet(acc.added) : SameProduct(name, other) THEN acc
    ELSE [acc EXCEPT !.added = Append(@, name)]

\* The page after the loop over the names, and the products it has yet to add.
Looped(lines, names, done) ==
    LET upto[n \in 0 .. Len(names)] ==
            IF n = 0 THEN [lines |-> lines, known |-> KnownLines(lines), added |-> <<>>]
            ELSE OneName(upto[n - 1], names[n], done)
    IN  upto[Len(names)]

WithNew(lines, names, done) ==
    LET upto[n \in 0 .. Len(names)] ==
            IF n = 0 THEN lines ELSE InsertSorted(upto[n - 1], ProductLine(names[n], done))
    IN  upto[Len(names)]

ApplyNames(lines, names, done) ==
    LET looped == Looped(lines, names, done) IN WithNew(looped.lines, looped.added, done)

----------------------------------------------------------------------------
(* A message. *)

Asked(action, names, done) == [action |-> action, names |-> names, done |-> done]

\* _as_grocery: "a product already on the page can never be misfiled, whatever the model answered".
AsGrocery(raw, pantry) ==
    LET onPage == Chosen(raw.names, {n \in ToSet(raw.names) : MatchingLine(n, pantry) # <<>>})
    IN  IF raw.action = "task" /\ ~raw.dated /\ onPage # <<>> THEN Asked("grocery", raw.names, FALSE)
        ELSE IF raw.action = "update" /\ raw.done /\ onPage # <<>> THEN Asked("grocery", <<Head(onPage)>>, TRUE)
        ELSE Asked(raw.action, raw.names, raw.done)

\* _or_new_task: an update that ticks nothing off becomes the task that the file does not have.  Whether
\* it has it is asked of the words of its lines, verbs and amounts included, and not of the names: here
\* either may be the answer (as when the update is of another note, or of a property).
CheckedActions(raw, pantry) ==
    LET a == AsGrocery(raw, pantry)
    IN  IF a.action = "update" /\ ~a.done THEN {a, Asked("task", <<Head(a.names)>>, FALSE)} ELSE {a}

\* The model's answer is held against the page as it is then; the turn goes on before it is written.  An
\* update that stays one changes a task's box or date, which do not matter here.
Filed(t) ==
    /\ shopper[t].pc = "idle"
    /\ \E raw \in Askable : \E a \in CheckedActions(raw, KnownLines(products)) :
         shopper' = [shopper EXCEPT ![t] = [Idle EXCEPT !.pc = IF a.action = "update" THEN "done" ELSE "filed",
                                                       !.action = a.action, !.names = a.names, !.done = a.done]]
    /\ UNCHANGED <<products, chores, setup, setups, groceryHand, overwritten>>

\* VaultWriter._grocery and _task up to the new text; what is as it was asked for is not written.
WorksOut(t) ==
    /\ shopper[t].pc = "filed"
    /\ LET grocery == shopper[t].action = "grocery"
           saw  == IF grocery THEN products ELSE chores
           text == IF grocery THEN ApplyNames(saw, shopper[t].names, shopper[t].done) ELSE saw \o shopper[t].names
       IN  shopper' = [shopper EXCEPT ![t].pc = IF text = saw THEN "done" ELSE "writing",
                                      ![t].saw = saw, ![t].text = text]
    /\ UNCHANGED <<products, chores, setup, setups, groceryHand, overwritten>>

Listed(lines) == {l.name : l \in ToSet(lines)}
PutPage(text) ==
    /\ products' = text
    /\ overwritten' = overwritten \cup (Listed(products) \ Listed(text))

\* VaultWriter._write.
PutsDown(t) ==
    /\ shopper[t].pc = "writing"
    /\ shopper' = [shopper EXCEPT ![t].pc = "done"]
    /\ IF shopper[t].action = "grocery"
       THEN PutPage(shopper[t].text) /\ UNCHANGED chores
       ELSE chores' = shopper[t].text /\ UNCHANGED <<products, overwritten>>
    /\ UNCHANGED <<setup, setups, groceryHand>>

----------------------------------------------------------------------------
(* tools/groceries_setup.py --apply: each file in one step; the home page and the guide, written  *)
(* last, are left out.                                                                            *)

ToMove == {name \in Products : \E p \in Consumables : SameProduct(name, p)}
MovedFrom(lines) == Chosen(lines, ToMove)
KeptOf(lines) == Chosen(lines, Products \ ToMove)

SetupReads ==
    /\ setup.pc = "off" /\ setups < MaxSetups
    /\ setups' = setups + 1
    /\ setup' = [pc |-> "page", saw |-> products, sawChores |-> chores,
                 products |-> ApplyNames(products, MovedFrom(chores), TRUE), chores |-> KeptOf(chores)]
    /\ UNCHANGED <<products, chores, shopper, groceryHand, overwritten>>

SetupWritesPage ==
    /\ setup.pc = "page"
    /\ PutPage(setup.products)
    /\ setup' = [setup EXCEPT !.pc = "chores"]
    /\ UNCHANGED <<chores, shopper, setups, groceryHand>>

SetupWritesTasks ==
    /\ setup.pc = "chores"
    /\ chores' = setup.chores
    /\ setup' = NoSetup
    /\ UNCHANGED <<products, shopper, setups, groceryHand, overwritten>>

SetupDies ==
    /\ setup.pc # "off"
    /\ setup' = NoSetup
    /\ UNCHANGED <<products, chores, shopper, setups, groceryHand, overwritten>>

----------------------------------------------------------------------------
(* The user: ticks a box, adds a line wherever it pleases, or merges two of one name. *)

Doubled(lines, i) == \E j \in DOMAIN lines \ {i} : lines[j].name = lines[i].name

ByHandOnPage ==
    /\ groceryHand < MaxGroceryHand
    /\ groceryHand' = groceryHand + 1
    /\ \/ \E i \in DOMAIN products : products' = [products EXCEPT ![i].done = ~ @]
       \/ \E name \in WrittenIn : products' = <<ProductLine(name, FALSE)>> \o products
       \/ \E i \in DOMAIN products : Doubled(products, i) /\ products' = RemoveAt(products, i)
    /\ UNCHANGED <<chores, shopper, setup, setups, overwritten>>

----------------------------------------------------------------------------
GroceriesInit ==
    /\ products = StartProducts /\ chores = StartTasks
    /\ shopper = [t \in Shoppers |-> Idle]
    /\ setup = NoSetup
    /\ setups = 0 /\ groceryHand = 0 /\ overwritten = {}

GroceriesNext ==
    \/ \E t \in Shoppers : Filed(t) \/ WorksOut(t) \/ PutsDown(t)
    \/ SetupReads \/ SetupWritesPage \/ SetupWritesTasks \/ SetupDies
    \/ ByHandOnPage

GroceriesSpec == GroceriesInit /\ [][GroceriesNext]_groceryVars

----------------------------------------------------------------------------
GroceriesTypeOK ==
    /\ products \in Seq(Lines) /\ chores \in Seq(Products)
    /\ \A t \in Shoppers :
         shopper[t].pc \in {"idle", "filed", "writing", "done"} /\ shopper[t].action \in {"none", "task", "update", "grocery"}
    /\ overwritten \subseteq Products
    /\ setup.pc \in {"off", "page", "chores"}
    /\ setups \in 0 .. MaxSetups /\ groceryHand \in 0 .. MaxGroceryHand

TimesListed(name, lines) == Len(Chosen(lines, {l \in Lines : l.name = name}))
Besides(lines, names) == Chosen(lines, {l \in Lines : \A n \in ToSet(names) : ~ SameProduct(n, l.name)})

\* A product of which the page had no line, and has one now.
Learned(n) == TimesListed(n, products) = 0 /\ TimesListed(n, products') > 0

\* What a text that was worked out from the page as it stood does to it when it is put there:
PageMinded(names, done) ==
    \* everything that was asked for is there, as it was asked for;
    /\ \A n \in ToSet(names) : \E l \in ToSet(products') : SameProduct(n, l.name) /\ l.done = done
    \* no other line is touched or moved, and no product goes;
    /\ Besides(products', names) = Besides(products, names)
    /\ \A n \in Products : TimesListed(n, products') >= TimesListed(n, products)
    \* no second line for a product that had one.  (Two lines of one name are never told apart:
    \* then every message about it adds another.)
    /\ \A n \in Products : TimesListed(n, products) = 1 => TimesListed(n, products') = 1
    \* one line for a new product, in however many forms the message or the tool names it.
    /\ \A n, m \in Products :
           Learned(n) /\ Learned(m) /\ SameProduct(n, m) => n = m /\ TimesListed(n, products') = 1

\* "Every product the user buys has one permanent line", whatever is asked of the page in one message or
\* by the tool, several names and forms of a name at once; and what the tool takes from the task file
\* has been on the page by then.  A text is put over a page or a file that
\* changed since it was read all the same: that loses the change, and is the subject of VaultFiles.
GroceriesKept ==
    [][/\ \A t \in Shoppers :
            shopper[t].pc = "writing" /\ shopper'[t].pc = "done" /\ shopper[t].action = "grocery"
                /\ shopper[t].saw = products
            => PageMinded(shopper[t].names, shopper[t].done)
       /\ setup.pc = "page" /\ setup'.pc = "chores" /\ setup.saw = products
            => PageMinded(MovedFrom(setup.sawChores), TRUE)
       /\ setup.pc = "chores" /\ setup'.pc = "off" /\ setup.sawChores = chores
            => \A n \in ToSet(chores) \ ToSet(chores') :
                   \E m \in Listed(products) \cup overwritten : SameProduct(n, m)]_groceryVars
=============================================================================
