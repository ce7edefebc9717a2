----------------------------- MODULE TwoStores -----------------------------
(***************************************************************************)
(* What a chat's messages do to the two stores.  A fresh thought goes to   *)
(* Notion through the turn and to Obsidian through a task of its own, that *)
(* files the message while the model is still reading it and is held at a  *)
(* gate (_Turn.vault_go) until the turn knows who is to write: a plan's    *)
(* steps write instead of the message, and a message that needs a web      *)
(* search is written with what the search found.  Every write that can be  *)
(* reverted is recorded in an executions row, a plan's once more in the    *)
(* row of its closing button.                                              *)
(*                                                                         *)
(* The turns of a chat are serialised (ChatLock), so one turn is in flight *)
(* at a time; vault tasks are asyncio tasks and outlive the turn that      *)
(* started them when nobody awaits them.  Clocks, tokens and the inbox     *)
(* offer are Conversation's.                                               *)
(***************************************************************************)
EXTENDS Integers, Sequences, FiniteSets

CONSTANTS
    Messages,      \* what the chat says; each is sent once
    Goals,         \* the messages the model may read as a plan
    MAX_STEPS,     \* hard stop of a plan, whatever the checker says
    MAX_QUESTIONS, \* questions answered by button about one request
    MaxToggles,    \* bound: presses of the admin page's two switches
    MaxUndos,      \* bound: presses of Undo buttons
    MaxAnswers,    \* bound: presses of a question's buttons
    MaxTasks       \* bound: vault tasks that are scheduled fairly

ASSUME BoundsAreNatural ==
    /\ {MAX_STEPS, MAX_QUESTIONS} \subseteq Nat \ {0}
    /\ {MaxToggles, MaxUndos, MaxAnswers, MaxTasks} \subseteq Nat

VARIABLES
    on,       \* the switches that are on: "notion", "obsidian"
    presses,  \* of a switch, an Undo button and an answer, for their bounds
    unsent,   \* the messages not sent yet
    pending,  \* the chat's question: the request it is about, or None, and its plan
    turn,     \* the turn in flight, with its local variables
    tasks,    \* every VaultPipeline.handle started so far
    notion,   \* every Notion write that can be reverted, with the vault task beside it
    rows      \* the executions table

vars == <<on, presses, unsent, pending, turn, tasks, notion, rows>>

None == "none"
NoPlan == [steps |-> 0, index |-> 0, history |-> 0, failures |-> 0, notion |-> {}, vault |-> {}]
NoQuestion == [msg |-> None, asked |-> 0, plan |-> NoPlan]
NoTurn == [pc |-> "idle", msg |-> None, asked |-> 0, plan |-> NoPlan,
           failed |-> FALSE, wrote |-> {}, filed |-> 0, gated |-> 0, vault |-> 0, after |-> FALSE,
           row |-> 0]

Planning == turn.plan.steps > 0

\* VaultPipeline.handle called for a message, for what a search found, or for a plan's step, by
\* a turn whose own gated task is `of`; only that one is given a gate.
Task(msg, kind, of) ==
    [msg |-> msg, kind |-> kind, of |-> of, pc |-> "filing", wrote |-> "nothing",
     gate |-> IF kind = "message" /\ of = 0 THEN "unset" ELSE "yes"]

\* VaultTurn.undos: a write that raised half-way keeps none.
Reversible(i) == tasks[i].wrote = "all"

\* Turn.let_vault_write: the first word counts, later ones find the future done.
LetVaultWrite(word) ==
    IF turn.gated # 0 /\ tasks[turn.gated].gate = "unset"
    THEN [tasks EXCEPT ![turn.gated].gate = word]
    ELSE tasks

\* A Notion write with an undo: `t` is the turn after it, with the row it opened.
Record(t) ==
    /\ notion' = Append(notion, [msg |-> t.msg, step |-> FALSE, beside |-> 0, reverted |-> FALSE])
    /\ rows' = Append(rows, [notion |-> {Len(notion) + 1}, vault |-> {}, plan |-> None,
                             undone |-> FALSE])
    /\ turn' = [t EXCEPT !.row = Len(rows) + 1, !.wrote = {Len(notion) + 1}]

\* _inbox_or_error: a step that fails is the planner's to handle; any other text goes to the
\* inbox, unless there is none or writing it fails.
InboxOrError ==
    \/ /\ turn' = [turn EXCEPT !.pc = IF Planning THEN "stepped" ELSE "ending", !.failed = TRUE]
       /\ UNCHANGED <<notion, rows>>
    \/ ~ Planning /\ Record([turn EXCEPT !.pc = "ending"])

----------------------------------------------------------------------------
Init ==
    /\ on = {"notion", "obsidian"}
    /\ presses = [toggle |-> 0, undo |-> 0, answer |-> 0]
    /\ unsent = Messages
    /\ pending = NoQuestion
    /\ turn = NoTurn
    /\ tasks = <<>>
    /\ notion = <<>>
    /\ rows = <<>>

\* The admin server's thread flips a switch whenever the user presses it.
Toggle(switch) ==
    /\ presses.toggle < MaxToggles
    /\ presses' = [presses EXCEPT !.toggle = @ + 1]
    /\ on' = IF switch \in on THEN on \ {switch} ELSE on \cup {switch}
    /\ UNCHANGED <<unsent, pending, turn, tasks, notion, rows>>

\* _vault_only: Notion is off, so the vault writes the message on its own, with no gate.
SayToVault(m) ==
    /\ turn.pc = "idle"
    /\ m \in unsent
    /\ "notion" \notin on
    /\ unsent' = unsent \ {m}
    /\ IF "obsidian" \in on
       THEN /\ tasks' = Append(tasks, [Task(m, "message", 0) EXCEPT !.gate = "yes"])
            /\ turn' = [NoTurn EXCEPT !.pc = "ending", !.msg = m, !.vault = Len(tasks) + 1]
       ELSE /\ turn' = [NoTurn EXCEPT !.pc = "ending", !.msg = m]
            /\ UNCHANGED tasks
    /\ UNCHANGED <<on, presses, pending, notion, rows>>

\* _text up to the model call: a fresh thought goes to both stores at once, an answer to a
\* question does not; an answer to a plan's question takes the plan up again.
Say(m) ==
    /\ turn.pc = "idle"
    /\ m \in unsent
    /\ "notion" \in on
    /\ unsent' = unsent \ {m}
    /\ LET live == pending # NoQuestion
           both == "obsidian" \in on /\ ~ live
           task == IF both THEN Len(tasks) + 1 ELSE 0
       IN /\ tasks' = IF both THEN Append(tasks, Task(m, "message", 0)) ELSE tasks
          /\ turn' = [NoTurn EXCEPT !.pc = "reading", !.gated = task, !.vault = task,
                          !.msg = IF live THEN pending.msg ELSE m,
                          !.asked = pending.asked, !.plan = pending.plan]
    /\ UNCHANGED <<on, presses, pending, notion, rows>>

\* No workspace to read the message against: it reaches neither store.
DiscoveryFails(m) ==
    /\ turn.pc = "idle"
    /\ m \in unsent
    /\ "notion" \in on
    /\ unsent' = unsent \ {m}
    /\ turn' = [NoTurn EXCEPT !.pc = "ending", !.msg = m]
    /\ UNCHANGED <<on, presses, pending, tasks, notion, rows>>

\* A button answers the question: _resume, with no model call and no vault task.
Press ==
    /\ turn.pc = "idle"
    /\ pending # NoQuestion
    /\ presses.answer < MaxAnswers
    /\ presses' = [presses EXCEPT !.answer = @ + 1]
    /\ turn' = [NoTurn EXCEPT !.pc = "dispatch", !.msg = pending.msg,
                              !.asked = pending.asked + 1, !.plan = pending.plan]
    /\ UNCHANGED <<on, unsent, pending, tasks, notion, rows>>

\* /cancel, the cancel button, or the question's time running out.
QuestionGoes ==
    /\ turn.pc = "idle"
    /\ pending # NoQuestion
    /\ pending' = NoQuestion
    /\ UNCHANGED <<on, presses, unsent, turn, tasks, notion, rows>>

\* The model is not there, or there is nothing to offer it.  An answer keeps its question on
\* screen, and a failed answer to a plan's question ends the turn without a step.
ReadFails ==
    /\ turn.pc = "reading"
    /\ \/ Planning /\ turn' = [turn EXCEPT !.pc = "ending"] /\ UNCHANGED <<notion, rows>>
       \/ ~ Planning /\ InboxOrError
    /\ UNCHANGED <<on, presses, unsent, pending, tasks>>

\* A plan read without holding the task that reads the message too.
ReadAsPlanUnheld ==
    /\ turn.pc = "reading"
    /\ ~ Planning
    /\ turn.msg \in Goals
    /\ turn' = [turn EXCEPT !.pc = "planning"]
    /\ UNCHANGED <<on, presses, unsent, pending, tasks, notion, rows>>

\* The gate is decided as soon as the message's kind is known.
ReadAsPlan ==
    /\ turn.pc = "reading"
    /\ ~ Planning
    /\ turn.msg \in Goals
    /\ tasks' = LetVaultWrite("no")
    /\ turn' = [turn EXCEPT !.pc = "planning"]
    /\ UNCHANGED <<on, presses, unsent, pending, notion, rows>>

ReadAsOne ==
    /\ turn.pc = "reading"
    /\ tasks' = LetVaultWrite("yes")
    /\ turn' = [turn EXCEPT !.pc = "dispatch"]
    /\ UNCHANGED <<on, presses, unsent, pending, notion, rows>>

----------------------------------------------------------------------------
(* One action, of a message or of a plan's step: _dispatch, _research, _ask and _execute. *)

\* A question asked whatever was spent of its budget.
DispatchAskAgain ==
    /\ turn.pc \in {"dispatch", "researched"}
    /\ pending' = [msg |-> turn.msg, asked |-> turn.asked, plan |-> turn.plan]
    /\ turn' = [turn EXCEPT !.pc = "ending"]
    /\ UNCHANGED <<on, presses, unsent, tasks, notion, rows>>

\* A plan saved with its question, but without the undo of the steps it has done.
DispatchAskForgetful ==
    /\ turn.pc \in {"dispatch", "researched"}
    /\ turn.asked < MAX_QUESTIONS
    /\ pending' = [msg |-> turn.msg, asked |-> turn.asked,
                   plan |-> [turn.plan EXCEPT !.notion = {}, !.vault = {}]]
    /\ turn' = [turn EXCEPT !.pc = "ending"]
    /\ UNCHANGED <<on, presses, unsent, tasks, notion, rows>>

\* The question takes the plan with it; what its budget no longer allows is rejected instead.
DispatchAsk ==
    /\ turn.pc \in {"dispatch", "researched"}
    /\ turn.asked < MAX_QUESTIONS
    /\ pending' = [msg |-> turn.msg, asked |-> turn.asked, plan |-> turn.plan]
    /\ turn' = [turn EXCEPT !.pc = "ending"]
    /\ UNCHANGED <<on, presses, unsent, tasks, notion, rows>>

DispatchReject ==
    /\ turn.pc \in {"dispatch", "researched"}
    /\ pending' = NoQuestion
    /\ InboxOrError
    /\ UNCHANGED <<on, presses, unsent, tasks>>

DispatchExecute ==
    /\ turn.pc \in {"dispatch", "researched"}
    /\ pending' = NoQuestion
    /\ turn' = [turn EXCEPT !.pc = "executing"]
    /\ UNCHANGED <<on, presses, unsent, tasks, notion, rows>>

\* The search is about to cost minutes: hold the vault, and run it again with what is found.
Research ==
    /\ turn.pc = "dispatch"
    /\ tasks' = IF "obsidian" \in on THEN LetVaultWrite("no") ELSE tasks
    /\ turn' = [turn EXCEPT !.pc = "researching", !.after = @ \/ "obsidian" \in on]
    /\ UNCHANGED <<on, presses, unsent, pending, notion, rows>>

\* Found something to write, or something to ask the user.
ResearchDone ==
    /\ turn.pc = "researching"
    /\ turn' = [turn EXCEPT !.pc = "researched"]
    /\ UNCHANGED <<on, presses, unsent, pending, tasks, notion, rows>>

\* No researcher, or a search that fails: neither drops a question, so the one being answered
\* stays on screen.
ResearchFails ==
    /\ turn.pc \in {"dispatch", "researching"}
    /\ InboxOrError
    /\ UNCHANGED <<on, presses, unsent, pending, tasks>>

\* Notion failed: what the user said goes to the inbox.
ExecuteFails ==
    /\ turn.pc = "executing"
    /\ InboxOrError
    /\ UNCHANGED <<on, presses, unsent, pending, tasks>>

\* The command was refused, or was a search of Notion, which is done when it found something:
\* nothing is written to either store.
NothingWritten ==
    /\ turn.pc = "executing"
    /\ \E failed \in BOOLEAN :
        turn' = [turn EXCEPT !.pc = IF Planning THEN "stepped" ELSE "ending", !.failed = failed]
    /\ UNCHANGED <<on, presses, unsent, pending, tasks, notion, rows>>

\* Notion wrote a plan's step, or found its row there already: its Obsidian half runs next,
\* inside the turn.
StepExecuted ==
    /\ turn.pc = "executing"
    /\ Planning
    /\ LET filing == "obsidian" \in on IN
        /\ tasks' = IF filing THEN Append(tasks, Task(turn.msg, "step", turn.gated)) ELSE tasks
        /\ \E wrote \in BOOLEAN :
            /\ notion' = IF wrote
                         THEN Append(notion, [msg |-> turn.msg, step |-> TRUE, reverted |-> FALSE,
                                              beside |-> IF filing THEN Len(tasks) + 1 ELSE 0])
                         ELSE notion
            /\ turn' = [turn EXCEPT !.pc = "filing", !.failed = FALSE,
                            !.wrote = IF wrote THEN {Len(notion) + 1} ELSE {},
                            !.filed = IF filing THEN Len(tasks) + 1 ELSE 0]
    /\ UNCHANGED <<on, presses, unsent, pending, rows>>

\* Notion wrote a message: a held vault turn is replaced by one that carries the content.
Executed ==
    /\ turn.pc = "executing"
    /\ ~ Planning
    /\ LET found == turn.after /\ "obsidian" \in on
           done == [turn EXCEPT !.pc = "ending", !.vault = IF found THEN Len(tasks) + 1 ELSE @]
       IN /\ tasks' = IF found THEN Append(tasks, Task(turn.msg, "found", turn.gated)) ELSE tasks
          /\ \/ Record(done)
             \/ turn' = done /\ UNCHANGED <<notion, rows>>
    /\ UNCHANGED <<on, presses, unsent, pending>>

----------------------------------------------------------------------------
(* A plan: _start_plan, _step, _vault_step, _after_step and _plan_done. *)

PlanFails ==
    /\ turn.pc = "planning"
    /\ InboxOrError
    /\ UNCHANGED <<on, presses, unsent, pending, tasks>>

Planned ==
    /\ turn.pc = "planning"
    /\ \E steps \in 1 .. MAX_STEPS + 1 : turn' = [turn EXCEPT !.pc = "step", !.plan.steps = steps]
    /\ UNCHANGED <<on, presses, unsent, pending, tasks, notion, rows>>

\* A step starts with no undo and no question asked about it.
StepReads ==
    /\ turn.pc = "step"
    /\ turn' = [turn EXCEPT !.pc = "dispatch", !.asked = 0, !.wrote = {}, !.filed = 0]
    /\ UNCHANGED <<on, presses, unsent, pending, tasks, notion, rows>>

\* No workspace, no model, or a model that answered with another place than the step's.
StepFails ==
    /\ turn.pc = "step"
    /\ turn' = [turn EXCEPT !.pc = "stepped", !.failed = TRUE, !.wrote = {}, !.filed = 0]
    /\ UNCHANGED <<on, presses, unsent, pending, tasks, notion, rows>>

\* The step's task is over, done or failed; then the step's own row is written.
StepFiled ==
    /\ turn.pc = "filing"
    /\ turn.filed # 0 => tasks[turn.filed].pc = "over"
    /\ IF turn.wrote = {} THEN UNCHANGED rows
       ELSE rows' = Append(rows, [notion |-> turn.wrote, vault |-> {}, plan |-> None,
                                  undone |-> FALSE])
    /\ turn' = [turn EXCEPT !.pc = "stepped", !.row = IF turn.wrote = {} THEN @ ELSE Len(rows) + 1]
    /\ UNCHANGED <<on, presses, unsent, pending, tasks, notion>>

\* The step that just ended goes into the plan's history, its undo into the plan's undo.
Recorded ==
    [turn.plan EXCEPT
        !.index = @ + 1,
        !.history = @ + 1,
        !.failures = IF turn.failed THEN @ + 1 ELSE @,
        !.notion = @ \cup turn.wrote,
        !.vault = @ \cup {i \in {turn.filed} \ {0} : Reversible(i)}]

Exhausted(plan) == plan.history >= MAX_STEPS

\* Every planned step did what it said: the planner has nothing left to decide.
AllDone(plan) == plan.index >= plan.steps /\ plan.failures = 0

\* The planner is asked what to do next only after a failure or when the steps have run out.
Checked(plan) == ~ Exhausted(plan) /\ ~ AllDone(plan) /\ (turn.failed \/ plan.index >= plan.steps)

NextStep ==
    /\ turn.pc = "stepped"
    /\ ~ Exhausted(Recorded) /\ ~ AllDone(Recorded) /\ ~ Checked(Recorded)
    /\ turn' = [turn EXCEPT !.pc = "step", !.plan = Recorded]
    /\ UNCHANGED <<on, presses, unsent, pending, tasks, notion, rows>>

\* The step the checker asks for goes after the planned ones, and is the next to run.
StepAdded ==
    /\ turn.pc = "stepped"
    /\ Checked(Recorded)
    /\ turn' = [turn EXCEPT !.pc = "step",
                    !.plan = [Recorded EXCEPT !.steps = @ + 1, !.index = Recorded.steps]]
    /\ UNCHANGED <<on, presses, unsent, pending, tasks, notion, rows>>

\* One row undoes everything the plan wrote, if it wrote anything.
PlanDone ==
    /\ turn.pc = "stepped"
    /\ LET plan == Recorded IN
        /\ Exhausted(plan) \/ AllDone(plan) \/ Checked(plan)
        /\ IF plan.notion \cup plan.vault = {}
           THEN /\ turn' = [turn EXCEPT !.pc = "ending", !.plan = NoPlan]
                /\ UNCHANGED rows
           ELSE /\ turn' = [turn EXCEPT !.pc = "ending", !.plan = NoPlan, !.row = Len(rows) + 1]
                /\ rows' = Append(rows, [notion |-> plan.notion, vault |-> plan.vault,
                                         plan |-> turn.msg, undone |-> FALSE])
    /\ UNCHANGED <<on, presses, unsent, pending, tasks, notion>>

----------------------------------------------------------------------------
(* _turn, _finish_vault and _undo. *)

\* Any exception of the work above is an INTERNAL reply; _vault_step lets none out.
Breaks ==
    /\ turn.pc \in {"reading", "dispatch", "researching", "executing", "planning", "step", "stepped"}
    /\ turn' = [turn EXCEPT !.pc = "ending"]
    /\ UNCHANGED <<on, presses, unsent, pending, tasks, notion, rows>>

\* A turn that leaves an undecided gate closed.
EndTurnSilently ==
    /\ turn.pc = "ending"
    /\ turn' = [turn EXCEPT !.pc = "joining"]
    /\ UNCHANGED <<on, presses, unsent, pending, tasks, notion, rows>>

\* Whatever happened above, the vault must not be left waiting for permission.
EndTurn ==
    /\ turn.pc = "ending"
    /\ tasks' = LetVaultWrite("yes")
    /\ turn' = [turn EXCEPT !.pc = "joining"]
    /\ UNCHANGED <<on, presses, unsent, pending, notion, rows>>

\* A vault's undo that is kept only beside a Notion write.
JoinedToNotion ==
    /\ turn.pc = "joining"
    /\ turn.vault # 0 => tasks[turn.vault].pc = "over"
    /\ IF turn.vault = 0 \/ ~ Reversible(turn.vault) \/ turn.row = 0 THEN UNCHANGED rows
       ELSE rows' = [rows EXCEPT ![turn.row].vault = @ \cup {turn.vault}]
    /\ turn' = NoTurn
    /\ UNCHANGED <<on, presses, unsent, pending, tasks, notion>>

\* The vault's undo goes into this turn's own row, or into a row of its own.
Joined ==
    /\ turn.pc = "joining"
    /\ turn.vault # 0 => tasks[turn.vault].pc = "over"
    /\ IF turn.vault = 0 \/ ~ Reversible(turn.vault) THEN UNCHANGED rows
       ELSE IF turn.row # 0 THEN rows' = [rows EXCEPT ![turn.row].vault = @ \cup {turn.vault}]
       ELSE rows' = Append(rows, [notion |-> {}, vault |-> {turn.vault}, plan |-> None,
                                  undone |-> FALSE])
    /\ turn' = NoTurn
    /\ UNCHANGED <<on, presses, unsent, pending, tasks, notion>>

\* A row marked whether or not Notion took every part back.
UndoHopefully(r) ==
    /\ turn.pc = "idle"
    /\ ~ rows[r].undone
    /\ presses.undo < MaxUndos
    /\ presses' = [presses EXCEPT !.undo = @ + 1]
    /\ \E stop \in rows[r].notion \cup {0} :
        notion' = [n \in DOMAIN notion |->
                     IF n \in rows[r].notion /\ n > stop
                     THEN [notion[n] EXCEPT !.reverted = TRUE] ELSE notion[n]]
    /\ rows' = [rows EXCEPT ![r].undone = TRUE]
    /\ UNCHANGED <<on, unsent, pending, turn, tasks>>

\* _undo of row r: Notion's parts newest first, where one that fails stops the rest and leaves
\* the row as it was; then the vault's, where a failure is only logged.
Undo(r) ==
    /\ turn.pc = "idle"
    /\ ~ rows[r].undone
    /\ presses.undo < MaxUndos
    /\ presses' = [presses EXCEPT !.undo = @ + 1]
    /\ \E stop \in rows[r].notion \cup {0} :
        /\ notion' = [n \in DOMAIN notion |->
                        IF n \in rows[r].notion /\ n > stop
                        THEN [notion[n] EXCEPT !.reverted = TRUE] ELSE notion[n]]
        /\ rows' = [rows EXCEPT ![r].undone = (stop = 0)]
    /\ UNCHANGED <<on, unsent, pending, turn, tasks>>

----------------------------------------------------------------------------
(* VaultPipeline.handle: refresh and file, wait at the gate, write in a thread. *)

\* The filer answers, or the vault or the filer is not there.
Filed(i) ==
    /\ tasks[i].pc = "filing"
    /\ \E pc \in {"gate", "over"} : tasks' = [tasks EXCEPT ![i].pc = pc]
    /\ UNCHANGED <<on, presses, unsent, pending, turn, notion, rows>>

PassGate(i) ==
    /\ tasks[i].pc = "gate"
    /\ tasks[i].gate # "unset"
    /\ tasks' = [tasks EXCEPT ![i].pc = IF tasks[i].gate = "yes" THEN "writing" ELSE "over"]
    /\ UNCHANGED <<on, presses, unsent, pending, turn, notion, rows>>

\* _write_all runs the actions one by one; one that raises drops the writes, and so the undos,
\* of those that ran before it.  A message that only asks something has none.
Written(i) ==
    /\ tasks[i].pc = "writing"
    /\ \E wrote \in {"nothing", "part", "all"} :
        tasks' = [tasks EXCEPT ![i].pc = "over", ![i].wrote = wrote]
    /\ UNCHANGED <<on, presses, unsent, pending, turn, notion, rows>>

----------------------------------------------------------------------------
TaskStep(i) == Filed(i) \/ PassGate(i) \/ Written(i)

OneStep ==
    \/ DispatchAsk \/ DispatchReject \/ DispatchExecute
    \/ Research \/ ResearchDone \/ ResearchFails
    \/ ExecuteFails \/ NothingWritten \/ StepExecuted \/ Executed

PlanStep ==
    \/ PlanFails \/ Planned \/ StepReads \/ StepFails \/ StepFiled
    \/ NextStep \/ StepAdded \/ PlanDone

TurnStep ==
    \/ ReadFails \/ ReadAsPlan \/ ReadAsOne \/ OneStep \/ PlanStep
    \/ Breaks \/ EndTurn \/ Joined

UserStep ==
    \/ \E m \in Messages : Say(m) \/ SayToVault(m) \/ DiscoveryFails(m)
    \/ Press \/ QuestionGoes
    \/ \E r \in DOMAIN rows : Undo(r)

Next ==
    \/ \E switch \in {"notion", "obsidian"} : Toggle(switch)
    \/ UserStep
    \/ TurnStep
    \/ \E i \in DOMAIN tasks : TaskStep(i)

Spec == Init /\ [][Next]_vars

\* Every await of a turn and of a vault task ends: the calls behind them have timeouts.
FairSpec ==
    /\ Spec
    /\ WF_vars(TurnStep)
    /\ \A i \in 1 .. MaxTasks : WF_vars(i \in DOMAIN tasks /\ TaskStep(i))

----------------------------------------------------------------------------
PlanType ==
    [steps : Nat, index : Nat, history : 0 .. MAX_STEPS, failures : 0 .. MAX_STEPS,
     notion : SUBSET DOMAIN notion, vault : SUBSET DOMAIN tasks]

TypeOK ==
    /\ on \subseteq {"notion", "obsidian"}
    /\ presses \in [toggle : 0 .. MaxToggles, undo : 0 .. MaxUndos,
                    answer : 0 .. MaxAnswers]
    /\ unsent \subseteq Messages
    /\ pending \in [msg : Messages \cup {None}, asked : 0 .. MAX_QUESTIONS - 1, plan : PlanType]
    /\ turn.plan \in PlanType
    /\ {turn.gated, turn.vault, turn.filed} \subseteq DOMAIN tasks \cup {0}
    /\ turn.row \in DOMAIN rows \cup {0}
    /\ \A r \in DOMAIN rows :
        rows[r].notion \subseteq DOMAIN notion /\ rows[r].vault \subseteq DOMAIN tasks

\* A vault task that a turn starts in the place of the message's own is the only one of the two to
\* write: "exactly one write, not one empty note plus one good one"
\* (tests/test_vault_orchestrator.py, and _research's "Hold it - as a plan's steps do").
OneWriter ==
    \A i \in DOMAIN tasks :
        tasks[i].of # 0 /\ tasks[i].wrote # "nothing" => tasks[tasks[i].of].wrote = "nothing"

\* The goal of a plan is never written to the vault by the task that was reading it when the
\* message turned out to be a plan; its steps write instead.
PlanGoalIsNotWritten ==
    \A i \in DOMAIN tasks :
        tasks[i].of # 0 /\ tasks[i].kind = "step" => tasks[tasks[i].of].wrote = "nothing"

\* The closing button of a plan undoes all that its steps have written whole to either store, on
\* whichever side of a question they were written, and even if the plan was closed once before.
ClosingButtonCoversThePlan ==
    [][\A r \in DOMAIN rows' \ DOMAIN rows : rows'[r].plan # None =>
        /\ {n \in DOMAIN notion : notion[n].step /\ notion[n].msg = rows'[r].plan}
              \subseteq rows'[r].notion
        /\ {i \in DOMAIN tasks : tasks[i].kind = "step" /\ tasks[i].msg = rows'[r].plan
                                 /\ Reversible(i)}
              \subseteq rows'[r].vault]_vars

\* Once a chat is quiet, an Undo row reaches every message the vault wrote whole, but for the
\* tasks that another replaced.
VaultWritesAreUndoable ==
    turn.pc = "idle" =>
        \A i \in DOMAIN tasks :
            \/ tasks[i].kind = "step" \/ ~ Reversible(i)
            \/ \E j \in DOMAIN tasks : tasks[j].kind = "found" /\ tasks[j].of = i
            \/ \E r \in DOMAIN rows : i \in rows[r].vault

\* A row reported as undone has every Notion write of it reverted.
UndoneMeansReverted ==
    \A r \in DOMAIN rows : rows[r].undone => \A n \in rows[r].notion : notion[n].reverted

\* A row that undoes the Notion half of a plan's step undoes what the step wrote to the vault:
\* "One Undo for both stores", "Each step's vault undo joins that step's record"
\* (documentation/ARCHITECTURE.md).
OneUndoForBothStores ==
    \A r \in DOMAIN rows, i \in DOMAIN tasks :
        rows[r].notion # {} /\ rows[r].plan = None /\ tasks[i].kind = "step" /\ Reversible(i)
        /\ (\E n \in rows[r].notion : notion[n].beside = i) => i \in rows[r].vault

\* No turn and no vault task waits for ever, for the gate or for each other; MaxTasks counts all
\* the tasks of the run.
EveryTaskEnds ==
    /\ [](Len(tasks) <= MaxTasks)
    /\ turn.pc # "idle" ~> turn.pc = "idle"
    /\ \A i \in 1 .. MaxTasks : (i \in DOMAIN tasks) ~> (i \in DOMAIN tasks /\ tasks[i].pc = "over")
=============================================================================
