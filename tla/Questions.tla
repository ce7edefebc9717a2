----------------------------- MODULE Questions -----------------------------
(***************************************************************************)
(* From a message to one command: app/validation/semantic.py re-checks     *)
(* what the model made of it, policy.py decides to write, to ask or to     *)
(* refuse, session.py keeps the open question, resolver.py turns a button  *)
(* into an answered session and rebuilds it in the workspace as it is by   *)
(* then, builder.py writes the command; steps.py reads a plan's step       *)
(* without the model.  The workspace loses places, rows, columns and       *)
(* options meanwhile.  One chat, one turn at a time: how turns, expiry and *)
(* the inbox go together is Conversation's, the plan's loop TwoStores'.    *)
(***************************************************************************)
EXTENDS Integers, FiniteSets, Sequences, SequencesExt, Picks

CONSTANTS
    Kind,              \* Kind[t]: "database" or "page"
    StartItems,        \* StartItems[t]: rows of a database, sub-pages of a page
    ColumnType,        \* ColumnType[f], of the databases' columns
    Required,          \* the columns that a row has to have
    Options,           \* of the columns that have options
    Readings,          \* Readings[n]: what the model may make of the n-th text
    Plans,             \* what the planner may make of a goal
    MAX_QUESTIONS,
    INTENT_MIN, TARGET_MIN, TARGET_MARGIN, FIELD_MIN, DATE_MIN,
    HALF, SURE,        \* the confidences 0.5 and 1.0
    MaxGone            \* bound: what disappears from the workspace

Targets == DOMAIN Kind
Columns == DOMAIN ColumnType
None == "none"
PageTitle == "page title"       \* the one field of a page, not a column
ItemText == "item text"         \* the words that named a row not found
Unfit == "unfit"                \* a value that is not of its column's type

ListTypes == {"multi_select", "relation"}
OptionTypes == {"select", "status"} \cup ListTypes
TypeOf(f) == IF f = PageTitle THEN "title" ELSE ColumnType[f]
OfOptions(f) == TypeOf(f) \in OptionTypes
Operations(t) == IF Kind[t] = "database" THEN {"create", "update", "search"}
                 ELSE {"create", "append", "rewrite", "search"}

ASSUME Thresholds ==           \* in the order of config.py's defaults
    /\ {INTENT_MIN, TARGET_MIN, FIELD_MIN, DATE_MIN, HALF, SURE, MAX_QUESTIONS, MaxGone} \subseteq Nat
    /\ TARGET_MARGIN \in Nat \ {0} /\ HALF < FIELD_MIN /\ HALF < DATE_MIN
ASSUME WorkspaceIs ==
    /\ \A t \in Targets : Kind[t] \in {"database", "page"} /\ None \notin StartItems[t]
    /\ Required \subseteq Columns /\ PageTitle \notin Columns /\ None \notin Columns
    /\ Options # {} /\ None \notin Options

\* What the parsers let through: interpretation/models.py, llm/plans.
Statuses == {"value", "not_mentioned", "explicit_null", "ambiguous"}
IsRead(v) ==
    /\ DOMAIN v = {"status", "value", "values", "conf"}
    /\ v.status \in Statuses /\ v.conf \in Nat /\ None \notin v.values
    /\ v.status = "value" => v.value # None
    /\ v.status = "explicit_null" => v.value = None
IsCandidate(c) ==
    /\ DOMAIN c = {"target", "conf", "item", "items", "content", "fields"}
    /\ c.conf \in 0 .. SURE
    /\ \A f \in DOMAIN c.fields : IsRead(c.fields[f])
IsReading(r) ==
    /\ DOMAIN r = {"intent", "conf", "clarify", "cands"}
    /\ r.intent # None /\ r.cands \in Seq(Range(r.cands))
    /\ \A c \in Range(r.cands) : IsCandidate(c)
ASSUME ReadingsAre ==
    /\ Len(Readings) \in Nat \ {0}
    /\ \A n \in 1 .. Len(Readings) : \A r \in Readings[n] : IsReading(r)
ASSUME PlansAre ==
    \A steps \in Plans :
        /\ steps \in Seq(Range(steps)) \ {<<>>}
        /\ \A spec \in Range(steps) : spec.action # None /\ \A f \in DOMAIN spec.fields : spec.fields[f] # None

VARIABLES
    world,       \* world[t], the targets discovery still finds
    session,     \* the open question, with the candidates it belongs to
    plan,        \* the steps left, what the user answered, the column just asked about
    outcome,     \* how the last message, press or step ended
    texts,       \* how many texts there have been
    gone,        \* how many things have disappeared
    chosen,      \* history: the places read as good as the best one, or the one picked, each with its row
    settled      \* history: the values that were read for sure, spelled out or answered

questionVars == <<world, session, plan, outcome, texts, gone, chosen, settled>>

NoSession == [intent |-> None]
NoPlan == [steps |-> <<>>, field_answers |-> <<>>, asked_field |-> None]
NoCommand == [op |-> None]
Open == session # NoSession

QuestionsInit ==
    /\ world = [t \in Targets |->
                   [items |-> StartItems[t],
                    columns |-> IF Kind[t] = "database" THEN Columns ELSE {},
                    options |-> [f \in {c \in Columns : OfOptions(c)} |-> Options]]]
    /\ session = NoSession /\ plan = NoPlan
    /\ outcome = [kind |-> "none", command |-> NoCommand]
    /\ texts = 0 /\ gone = 0
    /\ chosen = <<>> /\ settled = {}

----------------------------------------------------------------------------
(* What the model is offered, and the re-check of what it answers.         *)

\* The context: a column of options without one is left out.
Offered(t) ==
    IF Kind[t] = "page" THEN {PageTitle}
    ELSE {f \in world[t].columns : OfOptions(f) => world[t].options[f] # {}}
Fits(t, f, v) == IF OfOptions(f) THEN v \in world[t].options[f] ELSE v # Unfit

Value(v, conf) == [status |-> "value", value |-> v, values |-> {}, conf |-> conf]
NotMentioned == [status |-> "not_mentioned", value |-> None, values |-> {}, conf |-> SURE]
ExplicitNull == [NotMentioned EXCEPT !.status = "explicit_null"]
Ambiguous(vs) == [status |-> "ambiguous", value |-> None, values |-> vs, conf |-> 0]

FieldRead(t, f, raw) ==
    LET fit == {v \in raw.values : Fits(t, f, v)}
    IN  CASE raw.status = "explicit_null" /\ TypeOf(f) = "status" -> NotMentioned
          [] raw.status = "ambiguous" /\ fit = {} -> NotMentioned
          [] raw.status = "ambiguous" /\ Cardinality(fit) = 1 -> Value(CHOOSE v \in fit : TRUE, HALF)
          [] raw.status = "ambiguous" /\ fit # {} /\ Cardinality(fit) # 1 -> Ambiguous(fit)
          [] OTHER -> raw

\* One thing that does not hold drops the whole candidate.
Sound(intent, c) ==
    /\ c.target \in DOMAIN world
    /\ intent \in Operations(c.target)
    /\ \A f \in DOMAIN c.fields :
           /\ f \in Offered(c.target)
           /\ c.fields[f].status = "value" => Fits(c.target, f, c.fields[f].value)
    /\ c.items \cup {c.item} \subseteq world[c.target].items \cup {None}
Checked(c) ==
    [c EXCEPT !.fields = [f \in Offered(c.target) |->
                              IF f \in DOMAIN c.fields THEN FieldRead(c.target, f, c.fields[f]) ELSE NotMentioned]]

OfConf(cs, conf) == {c \in Range(cs) : c.conf = conf}
Ranked(cs) == FlattenSeq([i \in 1 .. SURE + 1 |-> Chosen(cs, OfConf(cs, SURE + 1 - i))])
Beaten(cs, i) ==
    \E j \in DOMAIN cs : /\ cs[j].target = cs[i].target
                         /\ cs[j].conf > cs[i].conf \/ (cs[j].conf = cs[i].conf /\ j < i)
BestPerTarget(cs) ==
    LET kept == Chosen([i \in DOMAIN cs |-> i], {i \in DOMAIN cs : ~Beaten(cs, i)})
    IN  [k \in DOMAIN kept |-> cs[kept[k]]]
Validate(intent, cs) ==
    LET sound == Chosen(cs, {c \in Range(cs) : Sound(intent, c)})
    IN  Ranked(BestPerTarget([i \in DOMAIN sound |-> Checked(sound[i])]))

----------------------------------------------------------------------------
(* Policy.evaluate: what has to be asked about a reading r, in this order. *)

Order == <<"clarify", "target", "intent_confirm", "item", "item_not_found", "field_required",
           "field_ambiguous", "date", "field_confirm", "content_required", "nothing_to_write">>
FieldTypes == {"field_required", "field_ambiguous", "date", "field_confirm"}
Rank(q) == CHOOSE i \in DOMAIN Order : Order[i] = q.type
Q(type) == [type |-> type, field |-> None]

LowTarget(cs) == 
    \/ cs[1].conf < TARGET_MIN
    \/ Len(cs) > 1 /\ cs[1].conf - cs[2].conf < TARGET_MARGIN
OnlyIntentLow(r) == r.conf < INTENT_MIN /\ ~LowTarget(r.cands) /\ Len(r.cands) = 1

AskedAbout(r, f) ==
    LET c == r.cands[1]
        v == c.fields[f]
    IN  CASE r.intent = "create" /\ f \in Required /\ TypeOf(f) # "checkbox"
             /\ v.status \in {"not_mentioned", "explicit_null"} -> {"field_required"}
          [] v.status = "ambiguous" -> {"field_ambiguous"}
          [] v.status = "value" /\ TypeOf(f) = "date" /\ v.conf < DATE_MIN -> {"date"}
          [] v.status = "value" /\ TypeOf(f) # "date" /\ v.conf < FIELD_MIN -> {"field_confirm"}
          [] OTHER -> {}

NothingMentioned(c) == \A f \in DOMAIN c.fields : c.fields[f].status = "not_mentioned"
Asks(r) ==
    LET c == r.cands[1]
        place == IF OnlyIntentLow(r) THEN {"intent_confirm"}
                 ELSE IF r.conf < INTENT_MIN \/ LowTarget(r.cands) THEN {"target"} ELSE {}
        row == IF r.intent \in {"update", "append", "rewrite"} /\ c.item = None /\ c.items # {} THEN {"item"} ELSE {}
        body == IF c.content THEN {}
                ELSE CASE r.intent = "append" -> {"content_required"}
                       [] r.intent = "rewrite" -> {"nothing_to_write"}
                       [] OTHER -> {}
    IN  {Q(type) : type \in place \cup row \cup body}
        \cup UNION {{[type |-> type, field |-> f] : type \in AskedAbout(r, f)} : f \in DOMAIN c.fields}

Evaluate(r) ==
    LET Decision(kind, qs) == [kind |-> kind, questions |-> qs]
        c == r.cands[1]
    IN  CASE r.clarify -> Decision("CLARIFY", {Q("clarify")})
          [] ~r.clarify /\ r.cands = <<>> -> Decision("REJECT", {})
          [] OTHER ->
               IF r.intent = "update" /\ c.item = None /\ c.items = {}
               THEN Decision("REJECT", {Q("item_not_found")})
               ELSE IF r.intent = "update" /\ c.item # None /\ NothingMentioned(c)
               THEN Decision("REJECT", {Q("nothing_to_write")})
               ELSE Decision(IF Asks(r) = {} THEN "EXECUTE" ELSE "CLARIFY", Asks(r))

----------------------------------------------------------------------------
(* What is written, and what is asked instead.                             *)

\* asks_for_page reads the user's words: a create on a page is a line of it or a page of its own.
OpsOf(intent, c) ==
    CASE intent = "create" /\ Kind[c.target] = "database" -> {"create_item"}
      [] intent = "create" /\ Kind[c.target] = "page" ->
             IF c.content THEN {"create_page"} ELSE {"create_page", "append_blocks"}
      [] intent = "update" -> {"update_item"}
      [] intent = "append" -> {"append_blocks"}
      [] intent = "rewrite" -> {"rewrite_page"}
      [] OTHER -> {"search"}

Writes(c) == {<<f, c.fields[f].value>> :
                  f \in {g \in DOMAIN c.fields \ {PageTitle} : c.fields[g].status \in {"value", "explicit_null"}}}
Command(op, intent, c) ==
    [op |-> op, intent |-> intent, target |-> c.target,
     item |-> IF intent \in {"update", "append", "rewrite"} THEN c.item ELSE None,
     writes |-> IF op \in {"create_item", "update_item"} THEN Writes(c) ELSE {}]

Remembers(f, writes) ==
    /\ f # None
    /\ TypeOf(f) \in {"title", "rich_text", "url", "select", "status"}
    /\ \E w \in writes : w[1] = f /\ w[2] # None
WithAnswer(p, writes) ==
    IF ~Remembers(p.asked_field, writes) THEN p
    ELSE LET answer == (CHOOSE w \in writes : w[1] = p.asked_field)[2]
         IN  [p EXCEPT !.field_answers = [f \in DOMAIN @ \cup {p.asked_field} |->
                                              IF f = p.asked_field THEN answer ELSE @[f]]]
\* The steps that are left.
Advanced(p) == IF Len(p.steps) <= 1 THEN NoPlan ELSE [p EXCEPT !.steps = Tail(@)]

\* Nothing is open any more; what the planner makes of a step that failed is TwoStores'.
Ends(kind) == session' = NoSession /\ plan' = NoPlan /\ outcome' = [kind |-> kind, command |-> NoCommand]

Execute(r, p) ==
    \E op \in OpsOf(r.intent, r.cands[1]) :
        LET command == Command(op, r.intent, r.cands[1]) IN
        /\ session' = NoSession
        /\ plan' = Advanced(WithAnswer(p, command.writes))
        /\ outcome' = [kind |-> "written", command |-> command]

Option(id, of) == [id |-> id, of |-> of]
OptionsFor(q, cs) ==
    {Option("cancel", None), Option("inbox", None)}
    \cup CASE q.type = "target" -> {Option("pick", cs[i].target) : i \in DOMAIN cs}
           [] q.type = "item" -> {Option("pick", i) : i \in cs[1].items}
           [] q.type = "item_not_found" -> {Option("add_new", None)}
           [] q.type = "field_required" /\ OfOptions(q.field) ->
                  {Option("pick", o) : o \in world[cs[1].target].options[q.field]}
           [] q.type = "field_ambiguous" -> {Option("pick", v) : v \in cs[1].fields[q.field].values}
           [] q.type \in {"intent_confirm", "date", "field_confirm"} -> {Option("confirm", None)}
           [] OTHER -> {}
    \cup IF q.type \in {"target", "intent_confirm", "date", "field_confirm"} THEN {Option("other", None)} ELSE {}

\* The first question in order that no button has answered yet; columns come in any order.
Unasked(qs, asked) == {q \in qs : q \notin Range(asked)}
First(qs) == {q \in qs : \A q2 \in qs : Rank(q) <= Rank(q2)}

Ask(r, asked, qs, p) ==
    \E q \in First(Unasked(qs, asked)) :
        /\ session' = [intent |-> r.intent, conf |-> r.conf, cands |-> r.cands, question |-> q,
                       options |-> OptionsFor(q, r.cands), asked |-> asked]
        /\ plan' = [p EXCEPT !.asked_field = None]
        /\ outcome' = [kind |-> "asked", command |-> NoCommand]

\* One reading, dispatched; what cannot be written or asked goes to the inbox.
Dispatch(r, asked, p) ==
    LET d == Evaluate(r)
        open == Unasked(d.questions, asked)
    IN  \/ d.kind = "EXECUTE" /\ (Execute(r, p) \/ Ends("inbox"))
        \/ open # {} /\ Len(asked) < MAX_QUESTIONS /\ Ask(r, asked, d.questions, p)
        \/ d.kind # "EXECUTE" /\ (open = {} \/ Len(asked) >= MAX_QUESTIONS) /\ Ends("inbox")

Sure(f, v) ==
    \/ v.status = "explicit_null"
    \/ v.status = "value" /\ v.conf >= (IF TypeOf(f) = "date" THEN DATE_MIN ELSE FIELD_MIN)
SureIn(cs) == UNION {{<<f, cs[i].fields[f].value>> : f \in {g \in DOMAIN cs[i].fields : Sure(g, cs[i].fields[g])}} :
                         i \in DOMAIN cs}
CandidateFor(cs, target) == CHOOSE c \in Range(cs) : c.target = target
Near(cs) == {c \in Range(cs) : cs[1].conf - c.conf < TARGET_MARGIN}
ChosenIn(cs) == [t \in {c.target : c \in Near(cs)} |-> CandidateFor(cs, t).item]

\* A text: a message of its own, or the answer to the open question in the user's words.
Message ==
    /\ texts < Len(Readings)
    /\ Open \/ plan = NoPlan
    /\ texts' = texts + 1
    /\ \E reading \in Readings[texts + 1] :
           LET cs == Validate(reading.intent, reading.cands) IN
           /\ Dispatch([reading EXCEPT !.cands = cs], IF Open THEN session.asked ELSE <<>>,
                       IF Open /\ plan # NoPlan THEN [plan EXCEPT !.asked_field = session.question.field] ELSE NoPlan)
           /\ chosen' = ChosenIn(cs)
           /\ settled' = (IF plan = NoPlan THEN {} ELSE settled) \cup SureIn(reading.cands)
    /\ UNCHANGED <<world, gone>>

\* A goal: its first step follows.
Goal ==
    /\ ~Open /\ plan = NoPlan /\ texts < Len(Readings)
    /\ texts' = texts + 1
    /\ \E steps \in Plans : plan' = [NoPlan EXCEPT !.steps = steps]
    /\ outcome' = [kind |-> "none", command |-> NoCommand]
    /\ settled' = {}
    /\ UNCHANGED <<world, session, gone, chosen>>

----------------------------------------------------------------------------
(* A plan's step, read without the model where it can be: steps.py.        *)

Spelled(spec) ==
    /\ spec.action # "free"
    /\ spec.target \in DOMAIN world
    /\ spec.action = "update" => spec.item \in world[spec.target].items
    /\ \A f \in DOMAIN spec.fields :
           /\ f \in Offered(spec.target)
           /\ TypeOf(f) \in {"title", "rich_text", "url", "date"} \/ Fits(spec.target, f, spec.fields[f])
\* What the step says, and for the rest what the user has answered where it fits.
StepReading(spec, answers) ==
    LET t == spec.target
        Said(f) == CASE f \in DOMAIN spec.fields -> Value(spec.fields[f], SURE)
                       [] f \notin DOMAIN spec.fields /\ f \in DOMAIN answers /\ Fits(t, f, answers[f]) ->
                              Value(answers[f], SURE)
                       [] OTHER -> NotMentioned
    IN  [intent |-> spec.action, conf |-> SURE, clarify |-> FALSE,
         cands |-> <<[target |-> t, conf |-> SURE, item |-> IF spec.action = "update" THEN spec.item ELSE None,
                      items |-> {}, content |-> spec.action = "append",
                      fields |-> [f \in Offered(t) |-> Said(f)]]>>]

\* The model's guess at a step that names a place has to be for that place.
WrongPlace(spec, r) == spec.target # None /\ r.cands # <<>> /\ r.cands[1].target # spec.target

\* The step is read; the model is asked only about one that its names do not settle.
PlanStep ==
    /\ ~Open /\ plan # NoPlan
    /\ LET spec == Head(plan.steps) IN
           \/ \E reading \in IF Spelled(spec) THEN {StepReading(spec, plan.field_answers)}
                             ELSE {r \in Readings[Len(Readings)] : ~WrongPlace(spec, r)} :
                  LET cs == Validate(reading.intent, reading.cands) IN
                  /\ Dispatch([reading EXCEPT !.cands = cs], <<>>, plan)
                  /\ chosen' = ChosenIn(cs)
                  /\ settled' = settled \cup SureIn(reading.cands)
           \/ /\ ~Spelled(spec)
              /\ Ends("failed")
              /\ UNCHANGED <<chosen, settled>>
    /\ UNCHANGED <<world, texts, gone>>

----------------------------------------------------------------------------
(* A button: the session answered, then rebuilt in today's workspace.      *)

WithField(c, f, v) == IF f \in DOMAIN c.fields THEN [c EXCEPT !.fields[f] = v] ELSE c
TitleColumn(t) == IF \E f \in Columns : TypeOf(f) = "title" THEN CHOOSE f \in Columns : TypeOf(f) = "title" ELSE None

\* apply_answer: what the best candidate is by then, or the one picked becomes the only one.
AnsweredFirst(c, q, o) ==
    CASE q.type = "item" -> [c EXCEPT !.item = o.of]
      [] q.type = "item_not_found" ->
             [WithField(c, TitleColumn(c.target), Value(ItemText, SURE)) EXCEPT !.item = None]
      [] q.type \in {"field_required", "field_ambiguous"} -> WithField(c, q.field, Value(o.of, SURE))
      [] q.type \in {"date", "field_confirm"} -> [c EXCEPT !.fields[q.field].conf = SURE]
      [] OTHER -> c
Answered(s, o) ==
    LET q == s.question IN
    [s EXCEPT !.asked = Append(@, q),
              !.intent = IF q.type = "item_not_found" THEN "create" ELSE @,
              !.conf = IF q.type = "intent_confirm" THEN SURE ELSE @,
              !.cands = IF q.type = "target" THEN <<[CandidateFor(@, o.of) EXCEPT !.conf = SURE]>>
                        ELSE [@ EXCEPT ![1] = AnsweredFirst(s.cands[1], q, o)]]

\* Any option will do: the stored one may be gone.
ResolvesByColumn(t, f, v) == OfOptions(f) => world[t].options[f] # {}

\* rebuild_candidate: what has gone is dropped, a column whose chosen option has gone included.
Resolves(t, f, v) ==
    OfOptions(f) => /\ v.status = "value" => v.value \in world[t].options[f]
                    /\ v.status = "ambiguous" => v.values \subseteq world[t].options[f]
Rebuilt(c) ==
    LET t == c.target IN
    [c EXCEPT !.fields = [f \in {g \in DOMAIN c.fields \cap Offered(t) : Resolves(t, g, c.fields[g])} |-> c.fields[f]],
              !.item = IF c.item \in world[t].items THEN c.item ELSE None,
              !.items = @ \cap world[t].items]
ResultFrom(s) ==
    LET there == Chosen(s.cands, {c \in Range(s.cands) : c.target \in DOMAIN world})
    IN  [intent |-> s.intent, conf |-> s.conf, clarify |-> FALSE,
         cands |-> Ranked([i \in DOMAIN there |-> Rebuilt(there[i])])]

\* A picked option is stored as one thing; rebuilding a column that holds a list of them stumbles over it.
Stumbles(s, o) ==
    /\ s.question.type = "field_required" /\ o.id = "pick" /\ TypeOf(s.question.field) \in ListTypes
    /\ s.cands[1].target \in DOMAIN world /\ s.question.field \in Offered(s.cands[1].target)

Leave == \* Cancel, or the inbox, whose write may fail
    /\ session.options \cap {Option("cancel", None), Option("inbox", None)} # {}
    /\ Ends("cancelled")
    /\ UNCHANGED <<chosen, settled>>
InTheirOwnWords ==
    /\ Option("other", None) \in session.options
    /\ outcome' = [kind |-> "waiting", command |-> NoCommand]
    /\ UNCHANGED <<session, plan, chosen, settled>>

Chooses(o) ==
    LET q == session.question
        c == session.cands[1]
        p == IF plan = NoPlan THEN NoPlan ELSE [plan EXCEPT !.asked_field = q.field]
    IN  /\ IF Stumbles(session, o)
           THEN outcome' = [kind |-> "failed", command |-> NoCommand] /\ UNCHANGED <<session, plan>>
           ELSE LET s == Answered(session, o) IN Dispatch(ResultFrom(s), s.asked, p)
        /\ chosen' = CASE q.type = "target" -> [t \in {o.of} |-> CandidateFor(session.cands, t).item]
                       [] q.type = "item" -> [t \in {c.target} |-> o.of]
                       [] OTHER -> chosen
        /\ settled' = settled \cup CASE q.type \in {"field_required", "field_ambiguous"} -> {<<q.field, o.of>>}
                                     [] q.type \in {"date", "field_confirm"} -> {<<q.field, c.fields[q.field].value>>}
                                     [] q.type = "item_not_found" -> {<<TitleColumn(c.target), ItemText>>}
                                     [] OTHER -> {}
Press ==
    /\ Open
    /\ Leave \/ InTheirOwnWords \/ \E o \in session.options : o.id \in {"pick", "add_new", "confirm"} /\ Chooses(o)
    /\ UNCHANGED <<world, texts, gone>>

\* The user takes something away in Notion, or hides a target on the admin page.
Disappears ==
    /\ Open \/ plan # NoPlan
    /\ gone < MaxGone /\ gone' = gone + 1
    /\ \E t \in DOMAIN world :
           \/ world' = [u \in DOMAIN world \ {t} |-> world[u]]
           \/ \E i \in world[t].items : world' = [world EXCEPT ![t].items = @ \ {i}]
           \/ \E f \in {g \in world[t].columns : TypeOf(g) # "title"} : world' = [world EXCEPT ![t].columns = @ \ {f}]
           \/ \E f \in {g \in world[t].columns : OfOptions(g)} : \E v \in world[t].options[f] :
                  world' = [world EXCEPT ![t].options[f] = @ \ {v}]
    /\ outcome' = [kind |-> "none", command |-> NoCommand]      \* what was written was written before
    /\ UNCHANGED <<session, plan, texts, chosen, settled>>

QuestionsNext == Message \/ Goal \/ PlanStep \/ Press \/ Disappears
QuestionsSpec == QuestionsInit /\ [][QuestionsNext]_questionVars

----------------------------------------------------------------------------
(* Properties                                                              *)

\* Every column asked about is the best candidate's, no question is answered by a button twice, and
\* the budget of questions holds.
QuestionsTypeOK ==
    /\ DOMAIN world \subseteq Targets
    /\ Open => /\ session.question.type # "clarify" => session.cands # <<>>
               /\ session.question.type \in FieldTypes => session.question.field \in DOMAIN session.cands[1].fields
               /\ IsInjective(session.asked) /\ Len(session.asked) < MAX_QUESTIONS
               /\ session.question \notin Range(session.asked)

Written == outcome.kind = "written" /\ outcome.command.op # "search"

LandsWhereMeant(c) ==
    /\ DOMAIN chosen # {} /\ DOMAIN chosen \cap DOMAIN world \subseteq {c.target}
    /\ c.item \in world[c.target].items \cup {None}
    /\ c.intent \in {"update", "append", "rewrite"} /\ c.target \in DOMAIN chosen =>
           c.item \in {chosen[c.target], None} /\ (c.item = None => chosen[c.target] \notin world[c.target].items)
    /\ c.op = "update_item" => c.item # None

WentFrom(t, f) == f \notin world[t].columns \/ (OfOptions(f) /\ world[t].options[f] # Options)
WritesWhatIsSettled(c) ==
    /\ c.writes \subseteq settled
    /\ \A w \in c.writes : w[1] \in world[c.target].columns /\ (w[2] # None => Fits(c.target, w[1], w[2]))
    /\ c.op = "create_item" =>
           \A f \in Required : \/ TypeOf(f) = "checkbox" \/ WentFrom(c.target, f)
                               \/ \E w \in c.writes : (w[1] = f /\ w[2] # None)

\* However many questions lay between, and whatever was removed from the workspace meanwhile:
\* - the write goes to the place, and the row or sub-page, that the user picked or that the model preferred to
\*   every other by the margin, and to another only when that one is gone; while two are still there that the
\*   model could not tell apart, and nobody picked one, nothing is written (resolver.py, rebuild_candidate);
\* - it writes no value that the model was unsure of and the user did not settle, not by answering about
\*   another column or candidate either, and none that is gone (resolver.py, apply_answer);
\* - and a new row has its required columns filled, unless they or options of theirs went (policy.py, evaluate).
WrittenAsMeant == Written => LandsWhereMeant(outcome.command) /\ WritesWhatIsSettled(outcome.command)
=============================================================================
