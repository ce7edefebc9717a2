-------------------------- MODULE TwoStoresProofs --------------------------
(***************************************************************************)
(* TwoStores for every set of messages and every bound: its types, that a  *)
(* plan's goal is not written beside its steps, that what the vault wrote  *)
(* can be undone, that a row reported as undone is, and that a plan's      *)
(* closing button covers the plan.                                         *)
(*                                                                         *)
(* None of these is inductive.  Each needs what the turn in flight carries *)
(* in its local variables to be exact: the gate it decided, the task it    *)
(* will join, the undo its plan has collected, on this or on the other     *)
(* side of a question.  StoresInv states that, one part per concern.       *)
(***************************************************************************)
EXTENDS TwoStores, SequenceLemmas, TLAPS

TurnPcs ==
    {"idle", "reading", "planning", "step", "dispatch", "researching", "researched", "executing",
     "filing", "stepped", "ending", "joining"}

\* Between two steps, and while one has written nothing yet.
Unwritten == {"reading", "planning", "dispatch", "researching", "researched", "executing"}
Between == Unwritten \cup {"step"}
Stepped == {"filing", "stepped"}
Over == {"ending", "joining"}

Names == Messages \cup {None}

PlanRec ==
    [steps : Nat, index : Nat, history : 0 .. MAX_STEPS, failures : 0 .. MAX_STEPS,
     notion : SUBSET Nat, vault : SUBSET Nat]

TurnRec ==
    [pc : TurnPcs, msg : Names, asked : 0 .. MAX_QUESTIONS, plan : PlanRec,
     failed : BOOLEAN, wrote : SUBSET Nat, filed : Nat, gated : Nat, vault : Nat, after : BOOLEAN,
     row : Nat]

TaskRec ==
    [msg : Names, kind : {"message", "found", "step"}, of : Nat,
     pc : {"filing", "gate", "writing", "over"}, wrote : {"nothing", "part", "all"},
     gate : {"unset", "yes", "no"}]

NotionRec == [msg : Names, step : BOOLEAN, beside : Nat, reverted : BOOLEAN]

RowRec == [notion : SUBSET Nat, vault : SUBSET Nat, plan : Names, undone : BOOLEAN]

\* What the type invariant leaves out: the records' other fields, and a plan always within its
\* hard stop.
Typed ==
    /\ turn \in TurnRec
    /\ tasks \in Seq(TaskRec)
    /\ notion \in Seq(NotionRec)
    /\ rows \in Seq(RowRec)
    /\ turn.wrote \subseteq DOMAIN notion
    /\ turn.plan.failures <= turn.plan.history /\ turn.plan.history < MAX_STEPS
    /\ pending.plan.failures <= pending.plan.history /\ pending.plan.history < MAX_STEPS

\* A gate is decided once.  Until the message is read it is open to either word; a plan's is "no",
\* and that task writes nothing, then or later.
Gated ==
    /\ turn.pc = "reading" /\ turn.gated # 0 => tasks[turn.gated].gate = "unset"
    /\ turn.gated # 0 /\ (turn.pc = "planning" \/ Planning) => tasks[turn.gated].gate = "no"
    /\ \A i \in DOMAIN tasks : tasks[i].gate # "yes" => tasks[i].pc # "writing"
    /\ \A i \in DOMAIN tasks : tasks[i].gate # "yes" => tasks[i].wrote = "nothing"
    /\ \A i \in DOMAIN tasks :
        tasks[i].kind = "step" /\ tasks[i].of # 0 =>
            tasks[i].of \in DOMAIN tasks /\ tasks[tasks[i].of].gate = "no"

\* Only a plan has a step to join, and it is joined before the turn goes on: no other step's task
\* is still running.
StepsJoin ==
    /\ turn.pc \in Stepped \cup {"step"} => Planning
    /\ turn.pc \in Unwritten => turn.wrote = {} /\ turn.filed = 0
    /\ \A i \in DOMAIN tasks : tasks[i].kind = "step" =>
        tasks[i].pc = "over" \/ (turn.pc = "filing" /\ turn.filed = i)
    /\ turn.pc = "filing" /\ turn.filed # 0 => tasks[turn.filed].msg = turn.msg

\* What the steps of request m have written so far, to either store.
NotionSteps(m) == {n \in DOMAIN notion : notion[n].step /\ notion[n].msg = m}
VaultSteps(m) == {i \in DOMAIN tasks : tasks[i].kind = "step" /\ tasks[i].msg = m /\ Reversible(i)}

\* The undo of a plan, in the turn or in the question that waits, misses none of its steps.  A
\* question that a turn is about to write past is gone by then.
PlanCovered ==
    /\ turn.pc \in Between =>
        /\ NotionSteps(turn.msg) \subseteq turn.plan.notion
        /\ VaultSteps(turn.msg) \subseteq turn.plan.vault
    /\ turn.pc \in Stepped =>
        /\ NotionSteps(turn.msg) \subseteq turn.plan.notion \cup turn.wrote
        /\ VaultSteps(turn.msg) \subseteq turn.plan.vault \cup {turn.filed}
    /\ pending # NoQuestion =>
        /\ NotionSteps(pending.msg) \subseteq pending.plan.notion
        /\ VaultSteps(pending.msg) \subseteq pending.plan.vault
        /\ pending.msg \notin unsent
    /\ turn.pc \in {"executing", "filing"} => pending = NoQuestion
    /\ turn.pc # "idle" => turn.msg \notin unsent
    /\ \A m \in unsent : NotionSteps(m) = {} /\ VaultSteps(m) = {}

\* Every task of a message is joined by its turn, replaced by another, or over and done with.
Joins ==
    /\ turn.pc \notin Over \cup {"idle"} => turn.vault = turn.gated
    /\ turn.pc = "idle" => turn.vault = 0
    /\ \A i \in DOMAIN tasks :
        \/ tasks[i].kind = "step"
        \/ \E j \in DOMAIN tasks : tasks[j].kind = "found" /\ tasks[j].of = i
        \/ turn.vault = i
        \/ tasks[i].pc = "over" /\ ~ Reversible(i)
        \/ tasks[i].pc = "over" /\ \E r \in DOMAIN rows : i \in rows[r].vault

StoresInv ==
    /\ TypeOK /\ Typed /\ Gated /\ StepsJoin /\ PlanCovered /\ Joins /\ UndoneMeansReverted

----------------------------------------------------------------------------
(* How the three logs grow: by one entry at the end, or one entry is changed. *)

LEMMA Entries ==
    ASSUME Typed
    PROVE  /\ DOMAIN tasks \subseteq Nat \ {0} /\ \A i \in DOMAIN tasks : tasks[i] \in TaskRec
           /\ DOMAIN notion \subseteq Nat \ {0} /\ \A n \in DOMAIN notion : notion[n] \in NotionRec
           /\ DOMAIN rows \subseteq Nat \ {0} /\ \A r \in DOMAIN rows : rows[r] \in RowRec
BY EntryFacts DEF Typed

\* A word at the gate changes the one task that is held there.
LEMMA WordAtTheGate ==
    ASSUME TypeOK, Typed, NEW word \in {"yes", "no"}, tasks' = LetVaultWrite(word)
    PROVE  /\ tasks' \in Seq(TaskRec)
           /\ DOMAIN tasks' = DOMAIN tasks
           /\ \A i \in DOMAIN tasks :
                tasks'[i] = IF i = turn.gated /\ tasks[i].gate = "unset"
                            THEN [tasks[i] EXCEPT !.gate = word] ELSE tasks[i]
<1>1. CASE turn.gated # 0 /\ tasks[turn.gated].gate = "unset"
    <2> DEFINE g == turn.gated
               e == [tasks[g] EXCEPT !.gate = word]
    <2>1. g \in DOMAIN tasks
        BY <1>1 DEF TypeOK
    <2>2. e \in TaskRec
        BY <2>1, Entries DEF TaskRec
    <2>3. tasks' = [tasks EXCEPT ![g] = e]
        BY <1>1 DEF LetVaultWrite
    <2>4. tasks[g].gate = "unset"
        BY <1>1
    <2> HIDE DEF e
    <2>5. /\ tasks' \in Seq(TaskRec)
          /\ DOMAIN tasks' = DOMAIN tasks
          /\ tasks'[g] = e
          /\ \A j \in DOMAIN tasks : j # g => tasks'[j] = tasks[j]
        BY <2>1, <2>2, <2>3, ChangeFacts DEF Typed
    <2> QED BY <2>4, <2>5 DEF e
<1>2. CASE ~ (turn.gated # 0 /\ tasks[turn.gated].gate = "unset")
    <2>1. tasks' = tasks
        BY <1>2 DEF LetVaultWrite
    <2> QED BY <1>2, <2>1, Entries DEF Typed
<1> QED BY <1>1, <1>2

\* What a task may become by a step of its own.
Moved(i) ==
    LET t == tasks[i] IN
    \/ t.pc = "filing" /\ \E pc \in {"gate", "over"} : tasks'[i] = [t EXCEPT !.pc = pc]
    \/ t.pc = "gate" /\ t.gate = "yes" /\ tasks'[i] = [t EXCEPT !.pc = "writing"]
    \/ t.pc = "gate" /\ t.gate # "yes" /\ tasks'[i] = [t EXCEPT !.pc = "over"]
    \/ t.pc = "writing" /\ \E wrote \in {"nothing", "part", "all"} :
            tasks'[i] = [t EXCEPT !.pc = "over", !.wrote = wrote]

LEMMA TaskMoves ==
    ASSUME Typed, NEW i \in DOMAIN tasks, TaskStep(i)
    PROVE  /\ tasks' \in Seq(TaskRec)
           /\ DOMAIN tasks' = DOMAIN tasks
           /\ Moved(i)
           /\ \A j \in DOMAIN tasks : j # i => tasks'[j] = tasks[j]
<1> DEFINE t == tasks[i]
<1>1. t \in TaskRec
    BY Entries
<1>2. \E e \in TaskRec :
        /\ tasks' = [tasks EXCEPT ![i] = e]
        /\ \/ t.pc = "filing" /\ \E pc \in {"gate", "over"} : e = [t EXCEPT !.pc = pc]
           \/ t.pc = "gate" /\ t.gate = "yes" /\ e = [t EXCEPT !.pc = "writing"]
           \/ t.pc = "gate" /\ t.gate # "yes" /\ e = [t EXCEPT !.pc = "over"]
           \/ t.pc = "writing" /\ \E wrote \in {"nothing", "part", "all"} :
                e = [t EXCEPT !.pc = "over", !.wrote = wrote]
    <2>1. CASE Filed(i)
        <3>1. PICK pc \in {"gate", "over"} : tasks' = [tasks EXCEPT ![i].pc = pc]
            BY <2>1 DEF Filed
        <3>2. [t EXCEPT !.pc = pc] \in TaskRec /\ t.pc = "filing"
            BY <1>1, <2>1 DEF TaskRec, Filed
        <3> QED BY <3>1, <3>2
    <2>2. CASE PassGate(i)
        <3> DEFINE e == [t EXCEPT !.pc = IF t.gate = "yes" THEN "writing" ELSE "over"]
        <3>1. tasks' = [tasks EXCEPT ![i] = e] /\ t.pc = "gate"
            BY <2>2 DEF PassGate
        <3>2. e \in TaskRec
            BY <1>1 DEF TaskRec
        <3> QED BY <3>1, <3>2
    <2>3. CASE Written(i)
        <3>1. PICK wrote \in {"nothing", "part", "all"} :
                tasks' = [tasks EXCEPT ![i].pc = "over", ![i].wrote = wrote]
            BY <2>3 DEF Written
        <3> DEFINE e == [t EXCEPT !.pc = "over", !.wrote = wrote]
        <3>2. e \in TaskRec /\ t.pc = "writing"
            BY <1>1, <2>3 DEF TaskRec, Written
        <3>3. tasks' = [tasks EXCEPT ![i] = e]
            BY <3>1, EntryFacts DEF Typed
        <3> QED BY <3>2, <3>3
    <2> QED BY <2>1, <2>2, <2>3 DEF TaskStep
<1>3. PICK e \in TaskRec :
        /\ tasks' = [tasks EXCEPT ![i] = e]
        /\ \/ t.pc = "filing" /\ \E pc \in {"gate", "over"} : e = [t EXCEPT !.pc = pc]
           \/ t.pc = "gate" /\ t.gate = "yes" /\ e = [t EXCEPT !.pc = "writing"]
           \/ t.pc = "gate" /\ t.gate # "yes" /\ e = [t EXCEPT !.pc = "over"]
           \/ t.pc = "writing" /\ \E wrote \in {"nothing", "part", "all"} :
                e = [t EXCEPT !.pc = "over", !.wrote = wrote]
    BY <1>2
<1>4. /\ tasks' \in Seq(TaskRec)
      /\ DOMAIN tasks' = DOMAIN tasks
      /\ tasks'[i] = e
      /\ \A j \in DOMAIN tasks : j # i => tasks'[j] = tasks[j]
    BY <1>3, ChangeFacts DEF Typed
<1> QED BY <1>3, <1>4 DEF Moved

\* A Notion write, and the row of its undo, by the turn after it.
LEMMA Recordings ==
    ASSUME Typed, NEW t \in TurnRec, Record(t)
    PROVE  /\ \E e \in NotionRec : notion' = Append(notion, e) /\ e.step = FALSE
           /\ \E e \in RowRec : /\ rows' = Append(rows, e)
                                /\ e.notion = {Len(notion) + 1} /\ e.vault = {}
                                /\ e.plan = None /\ ~ e.undone
           /\ turn' = [t EXCEPT !.row = Len(rows) + 1, !.wrote = {Len(notion) + 1}]
<1> DEFINE n == [msg |-> t.msg, step |-> FALSE, beside |-> 0, reverted |-> FALSE]
           r == [notion |-> {Len(notion) + 1}, vault |-> {}, plan |-> None, undone |-> FALSE]
<1>1. n \in NotionRec
    BY DEF NotionRec, TurnRec
<1>2. r \in RowRec
    BY EntryFacts DEF RowRec, Typed, Names
<1>3. notion' = Append(notion, n) /\ rows' = Append(rows, r)
      /\ turn' = [t EXCEPT !.row = Len(rows) + 1, !.wrote = {Len(notion) + 1}]
    BY DEF Record
<1> QED BY <1>1, <1>2, <1>3

\* What an undo leaves of the Notion log: nothing but `reverted` changes, and never back.
LEMMA Reversions ==
    ASSUME Typed, NEW r \in DOMAIN rows, Undo(r)
    PROVE  /\ notion' \in Seq(NotionRec)
           /\ DOMAIN notion' = DOMAIN notion
           /\ \A n \in DOMAIN notion :
                /\ notion'[n].step = notion[n].step
                /\ notion'[n].msg = notion[n].msg
                /\ notion[n].reverted => notion'[n].reverted
           /\ \E e \in RowRec :
                /\ rows' = [rows EXCEPT ![r] = e]
                /\ e.notion = rows[r].notion /\ e.vault = rows[r].vault /\ e.plan = rows[r].plan
                /\ e.undone => \A n \in rows[r].notion \cap DOMAIN notion : notion'[n].reverted
<1>1. PICK stop \in rows[r].notion \cup {0} :
        /\ notion' = [n \in DOMAIN notion |->
                        IF n \in rows[r].notion /\ n > stop
                        THEN [notion[n] EXCEPT !.reverted = TRUE] ELSE notion[n]]
        /\ rows' = [rows EXCEPT ![r].undone = (stop = 0)]
    BY DEF Undo
<1>2. \A n \in DOMAIN notion : notion[n] \in NotionRec /\ n \in Nat \ {0}
    BY Entries
<1>3. \A n \in DOMAIN notion : notion'[n] \in NotionRec
    BY <1>1, <1>2 DEF NotionRec
<1>4. Len(notion) \in Nat /\ DOMAIN notion = 1 .. Len(notion)
    BY EntryFacts DEF Typed
<1>5. notion' \in Seq(NotionRec) /\ DOMAIN notion' = DOMAIN notion
    <2>1. notion' = [n \in 1 .. Len(notion) |-> notion'[n]]
        BY <1>1, <1>4
    <2> QED BY <1>3, <1>4, <2>1, IsASeq
<1>6. \A n \in DOMAIN notion :
        /\ notion'[n].step = notion[n].step
        /\ notion'[n].msg = notion[n].msg
        /\ notion[n].reverted => notion'[n].reverted
    BY <1>1, <1>2 DEF NotionRec
<1>7. stop = 0 => \A n \in rows[r].notion \cap DOMAIN notion : notion'[n].reverted
    BY <1>1, <1>2 DEF NotionRec
<1> DEFINE e == [rows[r] EXCEPT !.undone = (stop = 0)]
<1>8. e \in RowRec /\ rows' = [rows EXCEPT ![r] = e]
    BY <1>1, Entries DEF RowRec
<1>9. e.notion = rows[r].notion /\ e.vault = rows[r].vault /\ e.plan = rows[r].plan
      /\ (e.undone <=> stop = 0)
    BY Entries DEF RowRec
<1> QED BY <1>5, <1>6, <1>7, <1>8, <1>9

\* A step only adds to the Notion log, and what a plan's step adds is the turn's own.
NotionGrows ==
    /\ notion' \in Seq(NotionRec)
    /\ DOMAIN notion \subseteq DOMAIN notion'
    /\ \A n \in DOMAIN notion :
        /\ notion'[n].step = notion[n].step
        /\ notion'[n].msg = notion[n].msg
        /\ notion[n].reverted => notion'[n].reverted
    /\ \A n \in DOMAIN notion' \ DOMAIN notion :
        notion'[n].step => /\ turn.pc = "executing" /\ turn'.pc = "filing"
                           /\ notion'[n].msg = turn.msg /\ n \in turn'.wrote

LEMMA NotionStep == ASSUME TypeOK, Typed, Next PROVE NotionGrows
<1> USE DEF NotionGrows
<1>0. notion \in Seq(NotionRec)
    BY DEF Typed
<1>1. CASE UNCHANGED notion
    BY <1>0, <1>1
<1>2. ASSUME NEW t \in TurnRec, Record(t) PROVE NotionGrows
    <2>1. PICK e \in NotionRec : notion' = Append(notion, e) /\ e.step = FALSE
        BY <1>2, Recordings
    <2> QED BY <1>0, <2>1, GrowthFacts
<1>3. CASE InboxOrError
    <2>1. [turn EXCEPT !.pc = "ending"] \in TurnRec
        BY DEF Typed, TurnRec, TurnPcs
    <2> QED BY <1>1, <1>2, <1>3, <2>1 DEF InboxOrError
<1>4. CASE StepExecuted
    <2> DEFINE e(b) == [msg |-> turn.msg, step |-> TRUE, reverted |-> FALSE, beside |-> b]
    <2>1. PICK wrote \in BOOLEAN :
            /\ notion' = IF wrote
                         THEN Append(notion, e(IF "obsidian" \in on THEN Len(tasks) + 1 ELSE 0))
                         ELSE notion
            /\ turn'.pc = "filing"
            /\ turn'.wrote = IF wrote THEN {Len(notion) + 1} ELSE {}
        BY <1>4 DEF StepExecuted, Typed, TurnRec
    <2>2. Len(tasks) + 1 \in Nat
        BY EntryFacts DEF Typed
    <2>3. \A b \in Nat : e(b) \in NotionRec
        BY DEF NotionRec, Typed, TurnRec
    <2>4. turn.pc = "executing"
        BY <1>4 DEF StepExecuted
    <2>5. \A b \in Nat : e(b).msg = turn.msg
        OBVIOUS
    <2> HIDE DEF e
    <2>6. CASE wrote
        <3>1. PICK b \in Nat : notion' = Append(notion, e(b))
            BY <2>1, <2>2, <2>6
        <3> QED BY <1>0, <2>1, <2>3, <2>4, <2>5, <2>6, <3>1, GrowthFacts
    <2> QED BY <1>1, <2>1, <2>6
<1>5. CASE Executed
    <2> DEFINE v == IF turn.after /\ "obsidian" \in on THEN Len(tasks) + 1 ELSE turn.vault
               d == [turn EXCEPT !.pc = "ending", !.vault = v]
    <2>1. v \in Nat
        BY EntryFacts DEF Typed, TurnRec
    <2>2. Record(d) \/ UNCHANGED notion
        BY <1>5 DEF Executed
    <2> HIDE DEF v
    <2>3. d \in TurnRec
        BY <2>1 DEF Typed, TurnRec, TurnPcs
    <2> QED BY <1>1, <1>2, <2>2, <2>3
<1>6. ASSUME NEW r \in DOMAIN rows, Undo(r) PROVE NotionGrows
    BY <1>6, Reversions
<1>7. CASE \E switch \in {"notion", "obsidian"} : Toggle(switch)
    BY <1>1, <1>7 DEF Toggle
<1>8. CASE UserStep
    BY <1>1, <1>6, <1>8 DEF UserStep, Say, SayToVault, DiscoveryFails, Press, QuestionGoes
<1>9. CASE OneStep
    BY <1>1, <1>3, <1>4, <1>5, <1>9
       DEF OneStep, DispatchAsk, DispatchReject, DispatchExecute, Research, ResearchDone,
           ResearchFails, ExecuteFails, NothingWritten
<1>10. CASE PlanStep
    BY <1>1, <1>3, <1>10
       DEF PlanStep, PlanFails, Planned, StepReads, StepFails, StepFiled, NextStep, StepAdded,
           PlanDone
<1>11. CASE TurnStep
    BY <1>1, <1>3, <1>9, <1>10, <1>11
       DEF TurnStep, ReadFails, ReadAsPlan, ReadAsOne, Breaks, EndTurn, Joined
<1>12. CASE \E i \in DOMAIN tasks : TaskStep(i)
    BY <1>1, <1>12 DEF TaskStep, Filed, PassGate, Written
<1> QED BY <1>7, <1>8, <1>11, <1>12 DEF Next

\* A step starts at most one task, moves one, or says a word at one's gate; what a task has done
\* for whom does not change, and what is over stays as it is.
TasksGrow ==
    /\ tasks' \in Seq(TaskRec)
    /\ DOMAIN tasks \subseteq DOMAIN tasks'
    /\ \A i \in DOMAIN tasks :
        /\ tasks'[i].kind = tasks[i].kind
        /\ tasks'[i].of = tasks[i].of
        /\ tasks'[i].msg = tasks[i].msg
        /\ tasks[i].pc = "over" => tasks'[i].pc = "over"
        /\ tasks'[i].pc # tasks[i].pc => turn' = turn /\ pending' = pending
        /\ tasks'[i].pc = "writing" => tasks[i].pc = "writing" \/ tasks[i].gate = "yes"
        /\ tasks'[i].wrote = tasks[i].wrote \/ (tasks[i].pc = "writing" /\ tasks'[i].pc = "over")
        /\ tasks[i].gate # "unset" => tasks'[i].gate = tasks[i].gate
        /\ tasks'[i].gate # tasks[i].gate => turn'.pc # "reading"
    /\ \A i \in DOMAIN tasks' \ DOMAIN tasks :
        /\ tasks'[i].pc = "filing" /\ tasks'[i].wrote = "nothing"
        /\ \/ tasks'[i].kind = "message" /\ tasks'[i].of = 0 /\ turn.pc = "idle"
              /\ turn'.vault = i
           \/ tasks'[i].kind = "found" /\ tasks'[i].of = turn.gated /\ turn.pc = "executing"
              /\ turn'.vault = i
           \/ tasks'[i].kind = "step" /\ tasks'[i].of = turn.gated /\ turn.pc = "executing"
              /\ Planning /\ tasks'[i].msg = turn.msg /\ turn'.pc = "filing" /\ turn'.filed = i

\* A new task.
LEMMA TaskStarts ==
    ASSUME Typed, NEW m \in Names, NEW kind \in {"message", "found", "step"}, NEW of \in Nat
    PROVE  /\ Task(m, kind, of) \in TaskRec
           /\ Task(m, kind, of).msg = m
           /\ Task(m, kind, of).kind = kind
           /\ Task(m, kind, of).of = of
           /\ Task(m, kind, of).pc = "filing"
           /\ Task(m, kind, of).wrote = "nothing"
           /\ kind # "message" => Task(m, kind, of).gate = "yes"
           /\ kind = "message" /\ of = 0 => Task(m, kind, of).gate = "unset"
BY DEF Task, TaskRec

LEMMA TasksStep == ASSUME TypeOK, Typed, Next PROVE TasksGrow
<1> USE DEF TasksGrow
<1>0. tasks \in Seq(TaskRec) /\ turn \in TurnRec
    BY DEF Typed
<1>1. CASE UNCHANGED tasks
    BY <1>0, <1>1
<1>2. ASSUME NEW word \in {"yes", "no"}, tasks' = LetVaultWrite(word), turn'.pc # "reading"
      PROVE  TasksGrow
    <2>1. \A i \in DOMAIN tasks : tasks[i] \in TaskRec
        BY Entries
    <2>2. turn'.pc # "reading"
        BY <1>2
    <2> QED BY ZenonT(60), <1>2, <2>1, <2>2, WordAtTheGate DEF TaskRec
<1>3. CASE \E i \in DOMAIN tasks : TaskStep(i)
    <2>1. PICK i \in DOMAIN tasks : TaskStep(i)
        BY <1>3
    <2>2. turn' = turn /\ pending' = pending
        BY <2>1 DEF TaskStep, Filed, PassGate, Written
    <2>3. /\ tasks' \in Seq(TaskRec)
          /\ DOMAIN tasks' = DOMAIN tasks
          /\ Moved(i)
          /\ \A j \in DOMAIN tasks : j # i => tasks'[j] = tasks[j]
        BY <2>1, TaskMoves
    <2>4. \A j \in DOMAIN tasks : tasks[j] \in TaskRec
        BY Entries
    <2>5. /\ tasks'[i].kind = tasks[i].kind
          /\ tasks'[i].of = tasks[i].of
          /\ tasks'[i].msg = tasks[i].msg
          /\ tasks'[i].gate = tasks[i].gate
        BY <2>3, <2>4 DEF Moved, TaskRec
    <2>6. /\ tasks[i].pc # "over"
          /\ tasks'[i].pc = "writing" => tasks[i].gate = "yes"
          /\ tasks'[i].wrote = tasks[i].wrote
                \/ (tasks[i].pc = "writing" /\ tasks'[i].pc = "over")
        BY <2>3, <2>4 DEF Moved, TaskRec
    <2> QED BY <2>2, <2>3, <2>5, <2>6
<1>4. ASSUME NEW e \in TaskRec, tasks' = Append(tasks, e),
             e.pc = "filing", e.wrote = "nothing",
             \/ e.kind = "message" /\ e.of = 0 /\ turn.pc = "idle" /\ turn'.vault = Len(tasks) + 1
             \/ /\ e.kind = "found" /\ e.of = turn.gated /\ turn.pc = "executing"
                /\ turn'.vault = Len(tasks) + 1
             \/ /\ e.kind = "step" /\ e.of = turn.gated /\ turn.pc = "executing" /\ Planning
                /\ e.msg = turn.msg /\ turn'.pc = "filing" /\ turn'.filed = Len(tasks) + 1
      PROVE  TasksGrow
    <2>1. /\ tasks' \in Seq(TaskRec)
          /\ Len(tasks) + 1 \notin DOMAIN tasks
          /\ DOMAIN tasks' = DOMAIN tasks \cup {Len(tasks) + 1}
          /\ tasks'[Len(tasks) + 1] = e
          /\ \A j \in DOMAIN tasks : tasks'[j] = tasks[j]
        BY <1>0, <1>4, GrowthFacts
    <2> QED BY <1>4, <2>1
<1>5. ASSUME NEW m \in Messages, SayToVault(m) PROVE TasksGrow
    <2> DEFINE e == [Task(m, "message", 0) EXCEPT !.gate = "yes"]
    <2>1. CASE "obsidian" \in on
        <3>1. /\ tasks' = Append(tasks, e)
              /\ turn' = [NoTurn EXCEPT !.pc = "ending", !.msg = m, !.vault = Len(tasks) + 1]
              /\ turn.pc = "idle"
            BY <1>5, <2>1 DEF SayToVault
        <3>2. /\ e \in TaskRec /\ e.pc = "filing" /\ e.wrote = "nothing"
              /\ e.kind = "message" /\ e.of = 0
            BY DEF Task, TaskRec, Names
        <3>3. turn'.vault = Len(tasks) + 1
            BY <3>1 DEF NoTurn
        <3> HIDE DEF e
        <3> QED BY <1>4, <3>1, <3>2, <3>3
    <2> QED BY <1>1, <1>5, <2>1 DEF SayToVault
<1>6. ASSUME NEW m \in Messages, Say(m) PROVE TasksGrow
    <2> DEFINE both == "obsidian" \in on /\ pending = NoQuestion
               e == Task(m, "message", 0)
    <2>1. CASE both
        <3>1. /\ tasks' = Append(tasks, e)
              /\ turn'.vault = Len(tasks) + 1
              /\ turn.pc = "idle"
            BY <1>6, <2>1 DEF Say, NoTurn
        <3>2. /\ e \in TaskRec /\ e.pc = "filing" /\ e.wrote = "nothing"
              /\ e.kind = "message" /\ e.of = 0
            BY TaskStarts DEF Names
        <3> HIDE DEF e
        <3> QED BY <1>4, <3>1, <3>2
    <2>2. CASE ~ both
        BY <1>1, <1>6, <2>2 DEF Say
    <2> QED BY <2>1, <2>2
<1>7. CASE StepExecuted
    <2> DEFINE e == Task(turn.msg, "step", turn.gated)
    <2>1. CASE "obsidian" \in on
        <3>1. /\ tasks' = Append(tasks, e)
              /\ turn'.pc = "filing" /\ turn'.filed = Len(tasks) + 1
              /\ turn.pc = "executing" /\ Planning
            BY <1>0, <1>7, <2>1 DEF StepExecuted, TurnRec
        <3>2. /\ e \in TaskRec /\ e.pc = "filing" /\ e.wrote = "nothing"
              /\ e.kind = "step" /\ e.of = turn.gated /\ e.msg = turn.msg
            BY <1>0, TaskStarts DEF TurnRec
        <3> HIDE DEF e
        <3> QED BY <1>4, <3>1, <3>2
    <2> QED BY <1>1, <1>7, <2>1 DEF StepExecuted
<1>8. CASE Executed
    <2> DEFINE found == turn.after /\ "obsidian" \in on
               e == Task(turn.msg, "found", turn.gated)
    <2>1. CASE found
        <3>1. tasks' = Append(tasks, e) /\ turn.pc = "executing"
            BY <1>8, <2>1 DEF Executed
        <3> DEFINE d == [turn EXCEPT !.pc = "ending", !.vault = Len(tasks) + 1]
        <3>2. Record(d) \/ turn' = d
            BY <1>8, <2>1 DEF Executed
        <3>3. turn'.vault = Len(tasks) + 1
            BY <1>0, <3>2 DEF Record, TurnRec
        <3>4. /\ e \in TaskRec /\ e.pc = "filing" /\ e.wrote = "nothing"
              /\ e.kind = "found" /\ e.of = turn.gated
            BY <1>0, TaskStarts DEF TurnRec
        <3> HIDE DEF e
        <3> QED BY <1>4, <3>1, <3>3, <3>4
    <2>2. CASE ~ found
        BY <1>1, <1>8, <2>2 DEF Executed
    <2> QED BY <2>1, <2>2
<1>9. CASE \E switch \in {"notion", "obsidian"} : Toggle(switch)
    BY <1>1, <1>9 DEF Toggle
<1>10. CASE UserStep
    BY <1>1, <1>5, <1>6, <1>10 DEF UserStep, DiscoveryFails, Press, QuestionGoes, Undo
<1>11. CASE Research
    <2>1. turn'.pc # "reading"
        BY <1>0, <1>11 DEF Research, TurnRec
    <2> QED BY <1>1, <1>2, <1>11, <2>1 DEF Research
<1>12. CASE ReadAsPlan \/ ReadAsOne \/ EndTurn
    <2>1. turn'.pc # "reading"
        BY <1>0, <1>12 DEF ReadAsPlan, ReadAsOne, EndTurn, TurnRec
    <2> QED BY <1>2, <1>12, <2>1 DEF ReadAsPlan, ReadAsOne, EndTurn
<1>13. CASE OneStep
    BY <1>1, <1>7, <1>8, <1>13, <1>11
       DEF OneStep, DispatchAsk, DispatchReject, DispatchExecute, ResearchDone,
           ResearchFails, ExecuteFails, NothingWritten
<1>14. CASE PlanStep
    BY <1>1, <1>14
       DEF PlanStep, PlanFails, Planned, StepReads, StepFails, StepFiled, NextStep, StepAdded,
           PlanDone
<1>15. CASE TurnStep
    BY <1>1, <1>13, <1>14, <1>15, <1>12
       DEF TurnStep, ReadFails, Breaks, Joined
<1> QED BY <1>3, <1>9, <1>10, <1>15 DEF Next

\* A plan that has recorded one more step.
LEMMA RecordedStep ==
    ASSUME TypeOK, Typed
    PROVE  /\ Recorded \in PlanRec
           /\ Recorded.steps = turn.plan.steps
           /\ Recorded.notion = turn.plan.notion \cup turn.wrote
           /\ Recorded.vault = turn.plan.vault \cup {i \in {turn.filed} \ {0} : Reversible(i)}
           /\ Recorded.notion \subseteq DOMAIN notion
           /\ Recorded.vault \subseteq DOMAIN tasks
           /\ Recorded.failures <= Recorded.history
           /\ Recorded.history <= MAX_STEPS
<1> DEFINE f == IF turn.failed THEN turn.plan.failures + 1 ELSE turn.plan.failures
           w == {i \in {turn.filed} \ {0} : Reversible(i)}
           p == turn.plan
<1>1. /\ turn.plan \in PlanRec
      /\ turn.wrote \in SUBSET Nat /\ turn.filed \in Nat /\ turn.failed \in BOOLEAN
      /\ turn.plan.failures <= turn.plan.history /\ turn.plan.history < MAX_STEPS
      /\ MAX_STEPS \in Nat
    BY BoundsAreNatural DEF Typed, TurnRec
<1>2. /\ p.steps \in Nat /\ p.index \in Nat /\ p.history \in Nat /\ p.failures \in Nat
      /\ p.notion \in SUBSET Nat /\ p.vault \in SUBSET Nat
    BY <1>1 DEF PlanRec
<1>3. p.index + 1 \in Nat /\ p.history + 1 \in 0 .. MAX_STEPS /\ f \in 0 .. MAX_STEPS
      /\ f <= p.history + 1
    BY <1>1, <1>2
<1>4. w \in SUBSET Nat /\ w \subseteq DOMAIN tasks
    BY <1>1 DEF TypeOK
<1>5. p.notion \subseteq DOMAIN notion /\ turn.wrote \subseteq DOMAIN notion
      /\ p.vault \subseteq DOMAIN tasks
    BY DEF TypeOK, Typed, PlanType
<1>6. Recorded = [turn.plan EXCEPT !.index = p.index + 1, !.history = p.history + 1,
                    !.failures = f, !.notion = p.notion \cup turn.wrote,
                    !.vault = p.vault \cup w]
    BY <1>1 DEF Recorded, PlanRec
<1>7. p.notion \cup turn.wrote \in SUBSET Nat /\ p.vault \cup w \in SUBSET Nat
    BY <1>1, <1>2, <1>4
<1> HIDE DEF f, w
<1>8. /\ Recorded \in PlanRec
      /\ Recorded.steps = turn.plan.steps
      /\ Recorded.notion = turn.plan.notion \cup turn.wrote
      /\ Recorded.vault = turn.plan.vault \cup w
      /\ Recorded.failures = f
      /\ Recorded.history = p.history + 1
    BY <1>1, <1>3, <1>6, <1>7 DEF PlanRec
<1> QED BY <1>3, <1>4, <1>5, <1>8 DEF w

\* A step opens at most one row, or adds a vault task to one, or marks one.  The row of a plan is
\* opened by the plan's end, with what the plan has recorded.
RowsGrow ==
    /\ rows' \in Seq(RowRec)
    /\ DOMAIN rows \subseteq DOMAIN rows'
    /\ \A r \in DOMAIN rows :
        /\ rows'[r].notion = rows[r].notion
        /\ rows[r].vault \subseteq rows'[r].vault
        /\ rows'[r].vault \subseteq rows[r].vault \cup ({turn.vault} \ {0})
        /\ rows'[r].undone /\ ~ rows[r].undone =>
                \A n \in rows[r].notion \cap DOMAIN notion : notion'[n].reverted
    /\ \A r \in DOMAIN rows' \ DOMAIN rows :
        /\ rows'[r].notion \subseteq DOMAIN notion'
        /\ rows'[r].vault \subseteq DOMAIN tasks
        /\ ~ rows'[r].undone
        /\ rows'[r].plan # None =>
            /\ turn.pc = "stepped" /\ notion' = notion /\ tasks' = tasks
            /\ rows'[r].plan = turn.msg
            /\ rows'[r].notion = Recorded.notion
            /\ rows'[r].vault = Recorded.vault

LEMMA RowsStep == ASSUME TypeOK, Typed, Next PROVE RowsGrow
<1> USE DEF RowsGrow
<1>0. rows \in Seq(RowRec) /\ turn \in TurnRec /\ None \in Names
    BY DEF Typed, Names
<1>1. CASE UNCHANGED rows
    BY <1>0, <1>1
<1>2. ASSUME NEW e \in RowRec, rows' = Append(rows, e),
             e.notion \subseteq DOMAIN notion', e.vault \subseteq DOMAIN tasks, ~ e.undone,
             e.plan # None =>
                /\ turn.pc = "stepped" /\ notion' = notion /\ tasks' = tasks
                /\ e.plan = turn.msg
                /\ e.notion = Recorded.notion /\ e.vault = Recorded.vault
      PROVE  RowsGrow
    <2>1. /\ rows' \in Seq(RowRec)
          /\ DOMAIN rows' = DOMAIN rows \cup {Len(rows) + 1}
          /\ rows'[Len(rows) + 1] = e
          /\ \A j \in DOMAIN rows : rows'[j] = rows[j]
        BY <1>0, <1>2, GrowthFacts
    <2> QED BY <1>2, <2>1
<1>3. ASSUME NEW t \in TurnRec, Record(t) PROVE RowsGrow
    <2>1. PICK e \in RowRec : /\ rows' = Append(rows, e)
                              /\ e.notion = {Len(notion) + 1} /\ e.vault = {}
                              /\ e.plan = None /\ ~ e.undone
        BY <1>3, Recordings
    <2>2. PICK n \in NotionRec : notion' = Append(notion, n)
        BY <1>3, Recordings
    <2>3. DOMAIN notion' = DOMAIN notion \cup {Len(notion) + 1}
        BY <2>2, GrowthFacts DEF Typed
    <2> QED BY <1>2, <2>1, <2>3
<1>4. CASE InboxOrError
    <2>1. [turn EXCEPT !.pc = "ending"] \in TurnRec
        BY DEF Typed, TurnRec, TurnPcs
    <2> QED BY <1>1, <1>3, <1>4, <2>1 DEF InboxOrError
<1>5. CASE Executed
    <2> DEFINE v == IF turn.after /\ "obsidian" \in on THEN Len(tasks) + 1 ELSE turn.vault
               d == [turn EXCEPT !.pc = "ending", !.vault = v]
    <2>1. v \in Nat
        BY EntryFacts DEF Typed, TurnRec
    <2>2. Record(d) \/ UNCHANGED rows
        BY <1>5 DEF Executed
    <2> HIDE DEF v
    <2>3. d \in TurnRec
        BY <2>1 DEF Typed, TurnRec, TurnPcs
    <2> QED BY <1>1, <1>3, <2>2, <2>3
<1>6. CASE StepFiled
    <2> DEFINE e == [notion |-> turn.wrote, vault |-> {}, plan |-> None, undone |-> FALSE]
    <2>1. CASE turn.wrote # {}
        <3>1. rows' = Append(rows, e) /\ notion' = notion
            BY <1>6, <2>1 DEF StepFiled
        <3>2. /\ e \in RowRec /\ e.notion = turn.wrote /\ e.vault = {} /\ e.plan = None
              /\ ~ e.undone
            BY <1>0 DEF RowRec, TurnRec
        <3>3. turn.wrote \subseteq DOMAIN notion
            BY DEF Typed
        <3> HIDE DEF e
        <3> QED BY <1>2, <3>1, <3>2, <3>3
    <2> QED BY <1>1, <1>6, <2>1 DEF StepFiled
<1>7. CASE PlanDone
    <2> DEFINE e == [notion |-> Recorded.notion, vault |-> Recorded.vault, plan |-> turn.msg,
                     undone |-> FALSE]
    <2>1. rows' = Append(rows, e) \/ rows' = rows
        BY <1>7 DEF PlanDone
    <2>2. turn.pc = "stepped" /\ notion' = notion /\ tasks' = tasks
        BY <1>7 DEF PlanDone
    <2>3. /\ e \in RowRec /\ e.notion = Recorded.notion /\ e.vault = Recorded.vault
          /\ e.plan = turn.msg /\ ~ e.undone
        BY <1>0, RecordedStep DEF RowRec, TurnRec, PlanRec
    <2> HIDE DEF e
    <2> QED BY <1>1, <1>2, <2>1, <2>2, <2>3, RecordedStep
<1>8. CASE Joined
    <2> DEFINE e == [rows[turn.row] EXCEPT !.vault = @ \cup {turn.vault}]
               o == [notion |-> {}, vault |-> {turn.vault}, plan |-> None, undone |-> FALSE]
    <2>1. turn.row \in DOMAIN rows \cup {0} /\ turn.vault \in DOMAIN tasks \cup {0}
        BY DEF TypeOK
    <2>2. turn.vault \in Nat
        BY <1>0 DEF TurnRec
    <2>3. CASE rows' = [rows EXCEPT ![turn.row].vault = @ \cup {turn.vault}]
               /\ turn.row # 0 /\ turn.vault # 0
        <3>1. turn.row \in DOMAIN rows /\ rows' = [rows EXCEPT ![turn.row] = e]
            BY <2>1, <2>3
        <3>2. rows[turn.row] \in RowRec
            BY <3>1, Entries
        <3>3. /\ e \in RowRec
              /\ e.notion = rows[turn.row].notion /\ e.undone = rows[turn.row].undone
              /\ e.vault = rows[turn.row].vault \cup {turn.vault}
            BY <2>2, <3>2 DEF RowRec
        <3> HIDE DEF e
        <3>4. /\ rows' \in Seq(RowRec)
              /\ DOMAIN rows' = DOMAIN rows
              /\ rows'[turn.row] = e
              /\ \A j \in DOMAIN rows : j # turn.row => rows'[j] = rows[j]
            BY <1>0, <3>1, <3>3, ChangeFacts
        <3> QED BY <2>3, <3>3, <3>4
    <2>4. CASE rows' = Append(rows, o) /\ turn.vault # 0
        <3>1. /\ o \in RowRec /\ o.notion = {} /\ o.vault = {turn.vault} /\ o.plan = None
              /\ ~ o.undone
            BY <1>0, <2>2 DEF RowRec
        <3> HIDE DEF o
        <3> QED BY <1>2, <2>1, <2>4, <3>1
    <2> QED BY <1>1, <1>8, <2>3, <2>4 DEF Joined
<1>9. ASSUME NEW r \in DOMAIN rows, Undo(r) PROVE RowsGrow
    <2>1. PICK e \in RowRec :
            /\ rows' = [rows EXCEPT ![r] = e]
            /\ e.notion = rows[r].notion /\ e.vault = rows[r].vault /\ e.plan = rows[r].plan
            /\ e.undone => \A n \in rows[r].notion \cap DOMAIN notion : notion'[n].reverted
        BY <1>9, Reversions
    <2>2. /\ rows' \in Seq(RowRec)
          /\ DOMAIN rows' = DOMAIN rows
          /\ rows'[r] = e
          /\ \A j \in DOMAIN rows : j # r => rows'[j] = rows[j]
        BY <1>0, <2>1, ChangeFacts
    <2> QED BY <2>1, <2>2
<1>10. CASE \E switch \in {"notion", "obsidian"} : Toggle(switch)
    BY <1>1, <1>10 DEF Toggle
<1>11. CASE UserStep
    BY <1>1, <1>9, <1>11 DEF UserStep, Say, SayToVault, DiscoveryFails, Press, QuestionGoes
<1>12. CASE OneStep
    BY <1>1, <1>4, <1>5, <1>12
       DEF OneStep, DispatchAsk, DispatchReject, DispatchExecute, Research, ResearchDone,
           ResearchFails, ExecuteFails, NothingWritten, StepExecuted
<1>13. CASE PlanStep
    BY <1>1, <1>4, <1>6, <1>7, <1>13
       DEF PlanStep, PlanFails, Planned, StepReads, StepFails, NextStep, StepAdded
<1>14. CASE TurnStep
    BY <1>1, <1>4, <1>8, <1>12, <1>13, <1>14
       DEF TurnStep, ReadFails, ReadAsPlan, ReadAsOne, Breaks, EndTurn
<1>15. CASE \E i \in DOMAIN tasks : TaskStep(i)
    BY <1>1, <1>15 DEF TaskStep, Filed, PassGate, Written
<1> QED BY <1>10, <1>11, <1>14, <1>15 DEF Next

----------------------------------------------------------------------------
(* The types. *)

\* A turn whose references are to the logs' entries ns, ts and rs.
Fits(t, ns, ts, rs) ==
    /\ t \in TurnRec
    /\ t.wrote \subseteq ns /\ t.plan.notion \subseteq ns
    /\ t.plan.vault \subseteq ts /\ {t.gated, t.vault, t.filed} \subseteq ts \cup {0}
    /\ t.row \in rs \cup {0}
    /\ t.plan.failures <= t.plan.history /\ t.plan.history < MAX_STEPS

\* A question whose plan refers to the logs' entries ns and ts.
Asks(q, ns, ts) ==
    /\ q \in [msg : Names, asked : 0 .. MAX_QUESTIONS - 1, plan : PlanRec]
    /\ q.plan.notion \subseteq ns /\ q.plan.vault \subseteq ts
    /\ q.plan.failures <= q.plan.history /\ q.plan.history < MAX_STEPS

LEMMA Fitting ==
    ASSUME TypeOK, Typed
    PROVE  /\ Fits(turn, DOMAIN notion, DOMAIN tasks, DOMAIN rows)
           /\ Asks(pending, DOMAIN notion, DOMAIN tasks)
<1>1. \A n \in DOMAIN notion : n \in Nat
    BY Entries
<1>2. \A i \in DOMAIN tasks : i \in Nat
    BY Entries
<1>3. pending.plan \in PlanRec
    BY <1>1, <1>2 DEF TypeOK, PlanType, PlanRec
<1>4. Asks(pending, DOMAIN notion, DOMAIN tasks)
    BY <1>3 DEF TypeOK, Typed, Asks, PlanType, Names
<1>5. Fits(turn, DOMAIN notion, DOMAIN tasks, DOMAIN rows)
    BY DEF TypeOK, Typed, Fits, PlanType
<1> QED BY <1>4, <1>5

LEMMA NothingFits ==
    /\ NoPlan \in PlanRec /\ NoPlan.notion = {} /\ NoPlan.vault = {}
    /\ NoPlan.failures = 0 /\ NoPlan.history = 0 /\ NoPlan.steps = 0
    /\ NoTurn \in TurnRec /\ NoTurn.wrote = {} /\ NoTurn.plan = NoPlan
    /\ NoTurn.gated = 0 /\ NoTurn.vault = 0 /\ NoTurn.filed = 0 /\ NoTurn.row = 0
    /\ \A ns, ts, rs : Fits(NoTurn, ns, ts, rs) /\ Asks(NoQuestion, ns, ts)
<1>1. MAX_STEPS \in Nat \ {0} /\ MAX_QUESTIONS \in Nat \ {0}
    BY BoundsAreNatural
<1>2. NoPlan \in PlanRec
    BY <1>1 DEF NoPlan, PlanRec
<1>3. NoTurn \in TurnRec
    BY <1>1, <1>2 DEF NoTurn, TurnRec, TurnPcs, Names
<1>4. 0 \in 0 .. MAX_QUESTIONS - 1
    BY <1>1
<1>5. NoQuestion \in [msg : Names, asked : 0 .. MAX_QUESTIONS - 1, plan : PlanRec]
    BY <1>2, <1>4 DEF NoQuestion, Names
<1>6. /\ NoPlan.notion = {} /\ NoPlan.vault = {}
      /\ NoPlan.failures = 0 /\ NoPlan.history = 0 /\ NoPlan.steps = 0
    BY DEF NoPlan
<1>7. /\ NoTurn.wrote = {} /\ NoTurn.plan = NoPlan
      /\ NoTurn.gated = 0 /\ NoTurn.vault = 0 /\ NoTurn.filed = 0 /\ NoTurn.row = 0
      /\ NoQuestion.plan = NoPlan
    BY DEF NoTurn, NoQuestion
<1> QED BY <1>1, <1>2, <1>3, <1>5, <1>6, <1>7 DEF Fits, Asks

\* What the turn's own fields become.
LEMMA TurnFits ==
    ASSUME TypeOK, Typed, Next, NotionGrows, TasksGrow, RowsGrow
    PROVE  Fits(turn', DOMAIN notion', DOMAIN tasks', DOMAIN rows')
<1> DEFINE Goal == Fits(turn', DOMAIN notion', DOMAIN tasks', DOMAIN rows')
<1>0. /\ DOMAIN notion \subseteq DOMAIN notion' /\ DOMAIN tasks \subseteq DOMAIN tasks'
      /\ DOMAIN rows \subseteq DOMAIN rows'
    BY DEF NotionGrows, TasksGrow, RowsGrow
<1>a. Fits(turn, DOMAIN notion, DOMAIN tasks, DOMAIN rows)
    BY Fitting
<1>b. Asks(pending, DOMAIN notion, DOMAIN tasks)
    BY Fitting
<1>c. MAX_QUESTIONS \in Nat \ {0} /\ MAX_STEPS \in Nat \ {0}
    BY BoundsAreNatural
<1>d. /\ Len(notion) + 1 \in Nat \ {0} /\ Len(tasks) + 1 \in Nat \ {0}
      /\ Len(rows) + 1 \in Nat \ {0}
    BY EntryFacts DEF Typed
<1>1. CASE UNCHANGED turn
    BY <1>0, <1>a, <1>1 DEF Fits
<1>2. ASSUME NEW t, Fits(t, DOMAIN notion, DOMAIN tasks', DOMAIN rows), Record(t) PROVE Goal
    <2>1. t \in TurnRec
        BY <1>2 DEF Fits
    <2>2. /\ \E e \in NotionRec : notion' = Append(notion, e)
          /\ \E e \in RowRec : rows' = Append(rows, e)
          /\ turn' = [t EXCEPT !.row = Len(rows) + 1, !.wrote = {Len(notion) + 1}]
        BY <1>2, <2>1, Recordings
    <2>3. Len(notion) + 1 \in DOMAIN notion' /\ Len(rows) + 1 \in DOMAIN rows'
        BY <2>2, GrowthFacts DEF Typed
    <2>4. /\ turn' \in TurnRec /\ turn'.row = Len(rows) + 1 /\ turn'.wrote = {Len(notion) + 1}
          /\ turn'.plan = t.plan /\ turn'.gated = t.gated /\ turn'.vault = t.vault
          /\ turn'.filed = t.filed
        BY <1>d, <2>1, <2>2 DEF TurnRec
    <2> QED BY <1>0, <1>2, <2>3, <2>4 DEF Fits
<1>3. CASE InboxOrError
    <2>1. CASE Record([turn EXCEPT !.pc = "ending"])
        <3>1. Fits([turn EXCEPT !.pc = "ending"], DOMAIN notion, DOMAIN tasks', DOMAIN rows)
            BY <1>0, <1>a DEF Fits, TurnRec, TurnPcs
        <3> QED BY <1>2, <2>1, <3>1
    <2>2. CASE turn' = [turn EXCEPT !.pc = IF Planning THEN "stepped" ELSE "ending",
                                    !.failed = TRUE]
        BY <1>0, <1>a, <2>2 DEF Fits, TurnRec, TurnPcs
    <2> QED BY <1>3, <2>1, <2>2 DEF InboxOrError
<1>4. CASE \E pc \in TurnPcs : turn' = [turn EXCEPT !.pc = pc]
    BY <1>0, <1>a, <1>4 DEF Fits, TurnRec
<1>5. ASSUME NEW m \in Messages, SayToVault(m) PROVE Goal
    <2>1. CASE "obsidian" \in on
        <3>1. Len(tasks) + 1 \in DOMAIN tasks'
            <4>1. tasks' = Append(tasks, [Task(m, "message", 0) EXCEPT !.gate = "yes"])
                BY <1>5, <2>1 DEF SayToVault
            <4>2. [Task(m, "message", 0) EXCEPT !.gate = "yes"] \in TaskRec
                BY DEF Task, TaskRec, Names
            <4> QED BY <4>1, <4>2, GrowthFacts DEF Typed
        <3>2. turn' = [NoTurn EXCEPT !.pc = "ending", !.msg = m, !.vault = Len(tasks) + 1]
            BY <1>5, <2>1 DEF SayToVault
        <3>3. /\ turn' \in TurnRec /\ turn'.wrote = {} /\ turn'.plan = NoPlan
              /\ turn'.gated = 0 /\ turn'.vault = Len(tasks) + 1 /\ turn'.filed = 0
              /\ turn'.row = 0
            BY <1>d, <3>2, NothingFits DEF TurnRec, TurnPcs, Names
        <3> QED BY <1>c, <3>1, <3>3, NothingFits DEF Fits
    <2>2. CASE turn' = [NoTurn EXCEPT !.pc = "ending", !.msg = m]
        <3>1. /\ turn' \in TurnRec /\ turn'.wrote = {} /\ turn'.plan = NoPlan
              /\ turn'.gated = 0 /\ turn'.vault = 0 /\ turn'.filed = 0 /\ turn'.row = 0
            BY <2>2, NothingFits DEF TurnRec, TurnPcs, Names
        <3> QED BY <1>c, <3>1, NothingFits DEF Fits
    <2> QED BY <1>5, <2>1, <2>2 DEF SayToVault
<1>6. ASSUME NEW m \in Messages, DiscoveryFails(m) PROVE Goal
    <2>1. turn' = [NoTurn EXCEPT !.pc = "ending", !.msg = m]
        BY <1>6 DEF DiscoveryFails
    <2>2. /\ turn' \in TurnRec /\ turn'.wrote = {} /\ turn'.plan = NoPlan
          /\ turn'.gated = 0 /\ turn'.vault = 0 /\ turn'.filed = 0 /\ turn'.row = 0
        BY <2>1, NothingFits DEF TurnRec, TurnPcs, Names
    <2> QED BY <1>c, <2>2, NothingFits DEF Fits
<1>7. ASSUME NEW m \in Messages, Say(m) PROVE Goal
    <2> DEFINE both == "obsidian" \in on /\ pending = NoQuestion
               task == IF both THEN Len(tasks) + 1 ELSE 0
               who == IF pending # NoQuestion THEN pending.msg ELSE m
    <2>1. task \in DOMAIN tasks' \cup {0} /\ task \in Nat
        <3>1. CASE both
            <4>1. tasks' = Append(tasks, Task(m, "message", 0))
                BY <1>7, <3>1 DEF Say
            <4>2. Task(m, "message", 0) \in TaskRec
                BY TaskStarts DEF Names
            <4> QED BY <3>1, <4>1, <4>2, GrowthFacts DEF Typed
        <3> QED BY <3>1
    <2>2. turn' = [NoTurn EXCEPT !.pc = "reading", !.gated = task, !.vault = task, !.msg = who,
                                 !.asked = pending.asked, !.plan = pending.plan]
        BY <1>7 DEF Say
    <2>3. who \in Names
        BY <1>b DEF Asks, Names
    <2> HIDE DEF task, who
    <2>4. /\ turn' \in TurnRec /\ turn'.wrote = {} /\ turn'.plan = pending.plan
          /\ turn'.gated = task /\ turn'.vault = task /\ turn'.filed = 0 /\ turn'.row = 0
        <3>1. pending.plan \in PlanRec /\ pending.asked \in 0 .. MAX_QUESTIONS
            BY <1>b, <1>c DEF Asks
        <3> QED BY <2>1, <2>2, <2>3, <3>1, NothingFits DEF TurnRec, TurnPcs
    <2> QED BY <1>0, <1>b, <2>1, <2>4 DEF Fits, Asks
<1>8. CASE Press
    <2>1. turn' = [NoTurn EXCEPT !.pc = "dispatch", !.msg = pending.msg,
                                 !.asked = pending.asked + 1, !.plan = pending.plan]
        BY <1>8 DEF Press
    <2>2. /\ pending.plan \in PlanRec /\ pending.asked + 1 \in 0 .. MAX_QUESTIONS
          /\ pending.msg \in Names
        BY <1>b, <1>c DEF Asks
    <2>3. /\ turn' \in TurnRec /\ turn'.wrote = {} /\ turn'.plan = pending.plan
          /\ turn'.gated = 0 /\ turn'.vault = 0 /\ turn'.filed = 0 /\ turn'.row = 0
        BY <2>1, <2>2, NothingFits DEF TurnRec, TurnPcs
    <2> QED BY <1>0, <1>b, <2>3 DEF Fits, Asks
<1>9. CASE Research
    BY <1>0, <1>a, <1>9 DEF Research, Fits, TurnRec, TurnPcs
<1>10. CASE NothingWritten
    <2>1. PICK failed \in BOOLEAN, pc \in TurnPcs :
            turn' = [turn EXCEPT !.pc = pc, !.failed = failed]
        <3>1. "stepped" \in TurnPcs /\ "ending" \in TurnPcs
            BY DEF TurnPcs
        <3> QED BY <1>10, <3>1 DEF NothingWritten
    <2>2. /\ turn' \in TurnRec /\ turn'.wrote = turn.wrote /\ turn'.plan = turn.plan
          /\ turn'.gated = turn.gated /\ turn'.vault = turn.vault /\ turn'.filed = turn.filed
          /\ turn'.row = turn.row
        BY <1>a, <2>1 DEF Fits, TurnRec
    <2> QED BY <1>0, <1>a, <2>2 DEF Fits
<1>11. CASE StepExecuted
    <2> DEFINE filing == "obsidian" \in on
    <2>1. PICK wrote \in BOOLEAN :
            /\ notion' = IF wrote
                         THEN Append(notion, [msg |-> turn.msg, step |-> TRUE, reverted |-> FALSE,
                                              beside |-> IF filing THEN Len(tasks) + 1 ELSE 0])
                         ELSE notion
            /\ turn' = [turn EXCEPT !.pc = "filing", !.failed = FALSE,
                            !.wrote = IF wrote THEN {Len(notion) + 1} ELSE {},
                            !.filed = IF filing THEN Len(tasks) + 1 ELSE 0]
        BY <1>11 DEF StepExecuted
    <2> DEFINE b == IF filing THEN Len(tasks) + 1 ELSE 0
               w == IF wrote THEN {Len(notion) + 1} ELSE {}
    <2>2. b \in DOMAIN tasks' \cup {0} /\ b \in Nat
        <3>1. CASE filing
            <4>1. tasks' = Append(tasks, Task(turn.msg, "step", turn.gated))
                BY <1>11, <3>1 DEF StepExecuted
            <4>2. Task(turn.msg, "step", turn.gated) \in TaskRec
                BY <1>a, TaskStarts DEF Fits, TurnRec
            <4> QED BY <3>1, <4>1, <4>2, GrowthFacts DEF Typed
        <3> QED BY <3>1
    <2>3. w \subseteq DOMAIN notion' /\ w \in SUBSET Nat
        <3>1. CASE wrote
            <4> DEFINE e == [msg |-> turn.msg, step |-> TRUE, reverted |-> FALSE, beside |-> b]
            <4>1. notion' = Append(notion, e)
                BY <2>1, <3>1
            <4>2. e \in NotionRec
                BY <1>a, <2>2 DEF Fits, TurnRec, NotionRec
            <4> HIDE DEF e
            <4> QED BY <1>d, <4>1, <4>2, GrowthFacts DEF Typed
        <3> QED BY <3>1
    <2>4. turn' = [turn EXCEPT !.pc = "filing", !.failed = FALSE, !.wrote = w, !.filed = b]
        BY <2>1
    <2> HIDE DEF b, w
    <2>5. /\ turn' \in TurnRec /\ turn'.wrote = w /\ turn'.plan = turn.plan
          /\ turn'.gated = turn.gated /\ turn'.vault = turn.vault /\ turn'.filed = b
          /\ turn'.row = turn.row
        BY <1>a, <2>2, <2>3, <2>4 DEF Fits, TurnRec, TurnPcs
    <2> QED BY <1>0, <1>a, <2>2, <2>3, <2>5 DEF Fits
<1>12. CASE Executed
    <2> DEFINE found == turn.after /\ "obsidian" \in on
               v == IF found THEN Len(tasks) + 1 ELSE turn.vault
               d == [turn EXCEPT !.pc = "ending", !.vault = v]
    <2>1. v \in DOMAIN tasks' \cup {0} /\ v \in Nat
        <3>1. CASE found
            <4>1. tasks' = Append(tasks, Task(turn.msg, "found", turn.gated))
                BY <1>12, <3>1 DEF Executed
            <4>2. Task(turn.msg, "found", turn.gated) \in TaskRec
                BY <1>a, TaskStarts DEF Fits, TurnRec
            <4> QED BY <3>1, <4>1, <4>2, GrowthFacts DEF Typed
        <3> QED BY <1>0, <1>a, <3>1 DEF Fits, TurnRec
    <2>2. Record(d) \/ turn' = d
        BY <1>12 DEF Executed
    <2> HIDE DEF v
    <2>3. Fits(d, DOMAIN notion, DOMAIN tasks', DOMAIN rows)
        BY <1>0, <1>a, <2>1 DEF Fits, TurnRec, TurnPcs
    <2> HIDE DEF d
    <2>4. CASE turn' = d
        BY <1>0, <2>3, <2>4 DEF Fits
    <2> QED BY <1>2, <2>2, <2>3, <2>4
<1>13. CASE Planned
    <2>1. PICK n \in 1 .. MAX_STEPS + 1 : turn' = [turn EXCEPT !.pc = "step", !.plan.steps = n]
        BY <1>13 DEF Planned
    <2>2. n \in Nat
        BY <1>c
    <2> QED BY <1>0, <1>a, <2>1, <2>2 DEF Fits, TurnRec, TurnPcs, PlanRec
<1>14. CASE StepReads \/ StepFails
    <2>1. 0 \in 0 .. MAX_QUESTIONS
        BY <1>c
    <2>2. /\ turn' \in TurnRec /\ turn'.wrote = {} /\ turn'.plan = turn.plan
          /\ turn'.gated = turn.gated /\ turn'.vault = turn.vault /\ turn'.filed = 0
          /\ turn'.row = turn.row
        <3>1. turn \in TurnRec
            BY <1>a DEF Fits
        <3>2. CASE turn' = [turn EXCEPT !.pc = "dispatch", !.asked = 0, !.wrote = {}, !.filed = 0]
            BY <2>1, <3>1, <3>2 DEF TurnRec, TurnPcs
        <3>3. CASE turn' = [turn EXCEPT !.pc = "stepped", !.failed = TRUE, !.wrote = {}, !.filed = 0]
            BY <3>1, <3>3 DEF TurnRec, TurnPcs
        <3> QED BY <1>14, <3>2, <3>3 DEF StepReads, StepFails
    <2> QED BY <1>0, <1>a, <2>2 DEF Fits
<1>15. CASE StepFiled
    <2> DEFINE r == IF turn.wrote = {} THEN turn.row ELSE Len(rows) + 1
               e == [notion |-> turn.wrote, vault |-> {}, plan |-> None, undone |-> FALSE]
    <2>1. turn' = [turn EXCEPT !.pc = "stepped", !.row = r]
        BY <1>15 DEF StepFiled
    <2>2. r \in DOMAIN rows' \cup {0} /\ r \in Nat
        <3>1. CASE turn.wrote # {}
            <4>1. rows' = Append(rows, e)
                BY <1>15, <3>1 DEF StepFiled
            <4>2. e \in RowRec
                BY <1>a DEF Fits, TurnRec, RowRec, Names
            <4> HIDE DEF e
            <4> QED BY <3>1, <4>1, <4>2, GrowthFacts DEF Typed
        <3> QED BY <1>0, <1>a, <3>1 DEF Fits, TurnRec
    <2> HIDE DEF r
    <2> QED BY <1>0, <1>a, <2>1, <2>2 DEF Fits, TurnRec, TurnPcs
<1>16. CASE NextStep
    <2>1. turn' = [turn EXCEPT !.pc = "step", !.plan = Recorded] /\ ~ Exhausted(Recorded)
        BY <1>16 DEF NextStep
    <2>2. Recorded.history < MAX_STEPS
        BY <1>c, <2>1, RecordedStep DEF Exhausted, PlanRec
    <2> QED BY <1>0, <1>a, <2>1, <2>2, RecordedStep DEF Fits, TurnRec, TurnPcs
<1>17. CASE StepAdded
    <2> DEFINE p == [Recorded EXCEPT !.steps = Recorded.steps + 1, !.index = Recorded.steps]
    <2>1. turn' = [turn EXCEPT !.pc = "step", !.plan = p] /\ ~ Exhausted(Recorded)
        BY <1>17 DEF StepAdded, Checked
    <2>2. Recorded.history < MAX_STEPS
        BY <1>c, <2>1, RecordedStep DEF Exhausted, PlanRec
    <2>3. /\ p \in PlanRec /\ p.notion = Recorded.notion /\ p.vault = Recorded.vault
          /\ p.history = Recorded.history /\ p.failures = Recorded.failures
        <3> DEFINE R == Recorded
        <3>1. R \in PlanRec
            BY RecordedStep
        <3> HIDE DEF R
        <3>2. p = [R EXCEPT !.steps = R.steps + 1, !.index = R.steps]
            BY DEF R
        <3>3. R.steps \in Nat /\ R.steps + 1 \in Nat
            BY <3>1 DEF PlanRec
        <3>4. /\ p \in PlanRec /\ p.notion = R.notion /\ p.vault = R.vault
              /\ p.history = R.history /\ p.failures = R.failures
            BY <3>1, <3>2, <3>3 DEF PlanRec
        <3> QED BY <3>4 DEF R
    <2> HIDE DEF p
    <2> QED BY <1>0, <1>a, <2>1, <2>2, <2>3, RecordedStep DEF Fits, TurnRec, TurnPcs
<1>18. CASE PlanDone
    <2> DEFINE e == [notion |-> Recorded.notion, vault |-> Recorded.vault, plan |-> turn.msg,
                     undone |-> FALSE]
    <2>1. CASE turn' = [turn EXCEPT !.pc = "ending", !.plan = NoPlan]
        BY ZenonT(60), <1>0, <1>a, <1>c, <2>1, NothingFits DEF Fits, TurnRec, TurnPcs
    <2>2. CASE /\ turn' = [turn EXCEPT !.pc = "ending", !.plan = NoPlan, !.row = Len(rows) + 1]
               /\ rows' = Append(rows, e)
        <3>1. e \in RowRec
            BY <1>a, RecordedStep DEF Fits, TurnRec, RowRec, PlanRec
        <3> HIDE DEF e
        <3>2. Len(rows) + 1 \in DOMAIN rows'
            BY <2>2, <3>1, GrowthFacts DEF Typed
        <3> QED BY ZenonT(60), <1>0, <1>a, <1>c, <1>d, <2>2, <3>2, NothingFits DEF Fits, TurnRec, TurnPcs
    <2> QED BY <1>18, <2>1, <2>2 DEF PlanDone
<1>19. CASE Joined
    BY <1>19, NothingFits DEF Joined
<1>20. CASE ReadFails
    BY <1>3, <1>4, <1>20 DEF ReadFails, TurnPcs
<1>21. CASE \E switch \in {"notion", "obsidian"} : Toggle(switch)
    BY <1>1, <1>21 DEF Toggle
<1>22. CASE UserStep
    BY <1>1, <1>5, <1>6, <1>7, <1>8, <1>22 DEF UserStep, QuestionGoes, Undo
<1>23. CASE OneStep
    BY <1>3, <1>4, <1>9, <1>10, <1>11, <1>12, <1>23
       DEF OneStep, DispatchAsk, DispatchReject, DispatchExecute, ResearchDone,
           ResearchFails, ExecuteFails, TurnPcs
<1>24. CASE PlanStep
    BY <1>3, <1>13, <1>14, <1>15, <1>16, <1>17, <1>18, <1>24 DEF PlanStep, PlanFails
<1>25. CASE TurnStep
    BY <1>4, <1>19, <1>20, <1>23, <1>24, <1>25
       DEF TurnStep, ReadAsPlan, ReadAsOne, Breaks, EndTurn, TurnPcs
<1>26. CASE \E i \in DOMAIN tasks : TaskStep(i)
    BY <1>1, <1>26 DEF TaskStep, Filed, PassGate, Written
<1> QED BY <1>21, <1>22, <1>25, <1>26 DEF Next

\* What the question becomes.
LEMMA QuestionFits ==
    ASSUME TypeOK, Typed, Next, NotionGrows, TasksGrow
    PROVE  Asks(pending', DOMAIN notion', DOMAIN tasks')
<1>0. DOMAIN notion \subseteq DOMAIN notion' /\ DOMAIN tasks \subseteq DOMAIN tasks'
    BY DEF NotionGrows, TasksGrow
<1>a. /\ Fits(turn, DOMAIN notion, DOMAIN tasks, DOMAIN rows)
      /\ Asks(pending, DOMAIN notion, DOMAIN tasks)
    BY Fitting
<1>1. CASE UNCHANGED pending
    BY <1>0, <1>a, <1>1 DEF Asks
<1>2. CASE pending' = NoQuestion
    BY <1>2, NothingFits
<1>3. CASE DispatchAsk
    <2>1. /\ pending' = [msg |-> turn.msg, asked |-> turn.asked, plan |-> turn.plan]
          /\ turn.asked < MAX_QUESTIONS
        BY <1>3 DEF DispatchAsk
    <2>2. turn.msg \in Names /\ turn.asked \in 0 .. MAX_QUESTIONS /\ turn.plan \in PlanRec
        BY <1>a DEF Fits, TurnRec
    <2>3. turn.asked \in 0 .. MAX_QUESTIONS - 1
        BY <2>1, <2>2, BoundsAreNatural
    <2> QED BY <1>0, <1>a, <2>1, <2>2, <2>3 DEF Fits, Asks
<1>4. CASE \E switch \in {"notion", "obsidian"} : Toggle(switch)
    BY <1>1, <1>4 DEF Toggle
<1>5. CASE UserStep
    BY <1>1, <1>2, <1>5
       DEF UserStep, Say, SayToVault, DiscoveryFails, Press, QuestionGoes, Undo
<1>6. CASE OneStep
    BY <1>1, <1>2, <1>3, <1>6
       DEF OneStep, DispatchReject, DispatchExecute, Research, ResearchDone,
           ResearchFails, ExecuteFails, NothingWritten, StepExecuted, Executed
<1>7. CASE PlanStep
    BY <1>1, <1>7
       DEF PlanStep, PlanFails, Planned, StepReads, StepFails, StepFiled, NextStep, StepAdded,
           PlanDone
<1>8. CASE TurnStep
    BY <1>1, <1>6, <1>7, <1>8 DEF TurnStep, ReadFails, ReadAsPlan, ReadAsOne, Breaks, EndTurn, Joined
<1>9. CASE \E i \in DOMAIN tasks : TaskStep(i)
    BY <1>1, <1>9 DEF TaskStep, Filed, PassGate, Written
<1> QED BY <1>4, <1>5, <1>8, <1>9 DEF Next

\* The counters of presses, and what is left to say.
LEMMA InputsTyped ==
    ASSUME TypeOK, Next
    PROVE  /\ on' \subseteq {"notion", "obsidian"}
           /\ presses' \in [toggle : 0 .. MaxToggles, undo : 0 .. MaxUndos,
                            answer : 0 .. MaxAnswers]
           /\ unsent' \subseteq unsent
<1>0. /\ on \subseteq {"notion", "obsidian"}
      /\ presses \in [toggle : 0 .. MaxToggles, undo : 0 .. MaxUndos, answer : 0 .. MaxAnswers]
      /\ {MaxToggles, MaxUndos, MaxAnswers} \subseteq Nat
    BY BoundsAreNatural DEF TypeOK
<1>1. CASE UNCHANGED <<on, presses, unsent>>
    BY <1>0, <1>1
<1>2. ASSUME NEW switch \in {"notion", "obsidian"}, Toggle(switch)
      PROVE  /\ on' \subseteq {"notion", "obsidian"}
             /\ presses' \in [toggle : 0 .. MaxToggles, undo : 0 .. MaxUndos,
                              answer : 0 .. MaxAnswers]
             /\ unsent' = unsent
    BY <1>0, <1>2 DEF Toggle
<1>3. ASSUME NEW m \in Messages, Say(m) \/ SayToVault(m) \/ DiscoveryFails(m)
      PROVE  UNCHANGED <<on, presses>> /\ unsent' \subseteq unsent
    BY <1>3 DEF Say, SayToVault, DiscoveryFails
<1>4. CASE Press
    BY <1>0, <1>4 DEF Press
<1>5. ASSUME NEW r \in DOMAIN rows, Undo(r)
      PROVE  /\ UNCHANGED <<on, unsent>>
             /\ presses' \in [toggle : 0 .. MaxToggles, undo : 0 .. MaxUndos,
                              answer : 0 .. MaxAnswers]
    BY <1>0, <1>5 DEF Undo
<1>6. CASE UserStep
    BY <1>0, <1>1, <1>3, <1>4, <1>5, <1>6 DEF UserStep, QuestionGoes
<1>7. CASE OneStep
    BY <1>1, <1>7
       DEF OneStep, DispatchAsk, DispatchReject, DispatchExecute, Research, ResearchDone,
           ResearchFails, ExecuteFails, NothingWritten, StepExecuted, Executed
<1>8. CASE PlanStep
    BY <1>1, <1>8
       DEF PlanStep, PlanFails, Planned, StepReads, StepFails, StepFiled, NextStep, StepAdded,
           PlanDone
<1>9. CASE TurnStep
    BY <1>1, <1>7, <1>8, <1>9
       DEF TurnStep, ReadFails, ReadAsPlan, ReadAsOne, Breaks, EndTurn, Joined
<1>10. CASE \E i \in DOMAIN tasks : TaskStep(i)
    BY <1>1, <1>10 DEF TaskStep, Filed, PassGate, Written
<1> QED BY <1>0, <1>2, <1>6, <1>9, <1>10 DEF Next

LEMMA TypesStep ==
    ASSUME TypeOK, Typed, Next
    PROVE  TypeOK' /\ Typed'
<1>1. NotionGrows /\ TasksGrow /\ RowsGrow
    BY NotionStep, TasksStep, RowsStep
<1>2. /\ Fits(turn', DOMAIN notion', DOMAIN tasks', DOMAIN rows')
      /\ Asks(pending', DOMAIN notion', DOMAIN tasks')
    BY <1>1, TurnFits, QuestionFits
<1>3. Typed'
    BY <1>1, <1>2 DEF Typed, Fits, Asks, NotionGrows, TasksGrow, RowsGrow
<1>4. turn'.plan \in PlanType'
    BY <1>2 DEF Fits, TurnRec, PlanRec, PlanType
<1>5. pending'.plan \in PlanType'
    BY <1>2 DEF Asks, PlanRec, PlanType
<1>6. pending' \in [msg : Messages \cup {None}, asked : 0 .. MAX_QUESTIONS - 1, plan : PlanType']
    BY <1>2, <1>5 DEF Asks, Names
<1>7. \A r \in DOMAIN rows' :
        rows'[r].notion \subseteq DOMAIN notion' /\ rows'[r].vault \subseteq DOMAIN tasks'
    <2> SUFFICES ASSUME NEW r \in DOMAIN rows'
                 PROVE  /\ rows'[r].notion \subseteq DOMAIN notion'
                        /\ rows'[r].vault \subseteq DOMAIN tasks'
        OBVIOUS
    <2>1. DOMAIN notion \subseteq DOMAIN notion' /\ DOMAIN tasks \subseteq DOMAIN tasks'
        BY <1>1 DEF NotionGrows, TasksGrow
    <2>2. CASE r \in DOMAIN rows
        <3>1. rows'[r].notion = rows[r].notion
              /\ rows'[r].vault \subseteq rows[r].vault \cup ({turn.vault} \ {0})
            BY <1>1, <2>2 DEF RowsGrow
        <3> QED BY <2>1, <2>2, <3>1 DEF TypeOK
    <2>3. CASE r \notin DOMAIN rows
        BY <1>1, <2>1, <2>3 DEF RowsGrow
    <2> QED BY <2>2, <2>3
<1>8. /\ on' \subseteq {"notion", "obsidian"}
      /\ presses' \in [toggle : 0 .. MaxToggles, undo : 0 .. MaxUndos, answer : 0 .. MaxAnswers]
      /\ unsent' \subseteq Messages
    BY InputsTyped DEF TypeOK
<1>9. {turn'.gated, turn'.vault, turn'.filed} \subseteq DOMAIN tasks' \cup {0}
      /\ turn'.row \in DOMAIN rows' \cup {0}
    BY <1>2 DEF Fits
<1> QED BY <1>3, <1>4, <1>6, <1>7, <1>8, <1>9 DEF TypeOK

----------------------------------------------------------------------------
(* The steps of a turn, for what its fields are to the logs. *)

\* A turn begins with nothing of its own, but for the task that holds its message: at an open gate
\* unless it answers a question, whose request and plan it takes up.
TurnStarts ==
    /\ turn.pc = "idle" /\ pending' = pending
    /\ turn'.pc \in {"reading", "dispatch", "ending"}
    /\ turn'.wrote = {} /\ turn'.filed = 0
    /\ turn'.pc # "ending" => turn'.vault = turn'.gated /\ turn'.plan = pending.plan
    /\ turn'.pc = "ending" => turn'.plan = NoPlan
    /\ turn'.gated # 0 => /\ pending = NoQuestion /\ turn'.pc = "reading"
                          /\ tasks'[turn'.gated].gate = "unset"
    /\ \/ turn'.msg \in unsent \ unsent' /\ (turn'.pc # "ending" => pending = NoQuestion)
       \/ turn'.msg = pending.msg /\ pending # NoQuestion

\* A turn goes on: what it carries of the plan changes only where a step ends.
TurnMoves ==
    /\ turn.pc # "idle" /\ turn'.pc \notin {"idle", "reading"} /\ unsent' = unsent
    /\ turn'.msg = turn.msg /\ turn'.gated = turn.gated
    /\ \/ turn'.vault = turn.vault
       \/ /\ turn'.pc = "ending" /\ turn'.vault \in DOMAIN tasks'
          /\ turn.pc = "executing"
          /\ tasks'[turn'.vault].kind = "found" /\ tasks'[turn'.vault].of = turn.gated
    /\ \/ /\ turn.pc \in Unwritten /\ turn'.pc \in Unwritten
          /\ turn'.plan = turn.plan /\ turn'.wrote = turn.wrote /\ turn'.filed = turn.filed
          /\ turn'.pc = "planning" => turn.pc = "reading" /\ tasks' = LetVaultWrite("no")
       \/ /\ turn.pc = "planning" /\ turn'.pc = "step" /\ turn'.plan.steps > 0
          /\ turn'.plan.notion = turn.plan.notion /\ turn'.plan.vault = turn.plan.vault
       \/ /\ turn.pc = "step" /\ turn'.pc \in {"dispatch", "stepped"}
          /\ turn'.plan = turn.plan /\ turn'.wrote = {} /\ turn'.filed = 0
       \/ /\ turn.pc \in Unwritten /\ turn'.pc = "stepped" /\ Planning
          /\ turn'.plan = turn.plan /\ turn'.wrote = turn.wrote /\ turn'.filed = turn.filed
       \/ /\ turn.pc = "executing" /\ turn'.pc = "filing" /\ Planning
          /\ turn'.plan = turn.plan
          /\ turn'.filed # 0 => turn'.filed \in DOMAIN tasks' /\ tasks'[turn'.filed].msg = turn.msg
       \/ /\ turn.pc = "filing" /\ turn'.pc = "stepped"
          /\ turn'.plan = turn.plan /\ turn'.wrote = turn.wrote /\ turn'.filed = turn.filed
          /\ turn.filed # 0 => tasks[turn.filed].pc = "over"
       \/ /\ turn.pc = "stepped" /\ turn'.pc = "step" /\ turn'.plan.steps >= turn.plan.steps
          /\ turn'.plan.notion = Recorded.notion /\ turn'.plan.vault = Recorded.vault
       \/ turn.pc # "filing" /\ turn'.pc \in Over /\ (turn'.plan = turn.plan \/ turn'.plan = NoPlan)

LEMMA StartsOfTurns ==
    ASSUME TypeOK, Typed,
           Press \/ \E m \in Messages : Say(m) \/ SayToVault(m) \/ DiscoveryFails(m)
    PROVE  TurnStarts
<1> USE DEF TurnStarts
<1>1. ASSUME NEW m \in Messages, Say(m) PROVE TurnStarts
    <2> DEFINE both == "obsidian" \in on /\ pending = NoQuestion
               task == IF both THEN Len(tasks) + 1 ELSE 0
               who == IF pending # NoQuestion THEN pending.msg ELSE m
    <2>1. turn' = [NoTurn EXCEPT !.pc = "reading", !.gated = task, !.vault = task, !.msg = who,
                                 !.asked = pending.asked, !.plan = pending.plan]
        BY <1>1 DEF Say
    <2>2. turn.pc = "idle" /\ pending' = pending /\ m \in unsent \ unsent'
        BY <1>1 DEF Say
    <2>3. task # 0 => pending = NoQuestion /\ tasks'[task].gate = "unset"
        <3>1. CASE both
            <4>1. tasks' = Append(tasks, Task(m, "message", 0)) /\ task = Len(tasks) + 1
                BY <1>1, <3>1 DEF Say
            <4>2. Task(m, "message", 0) \in TaskRec /\ Task(m, "message", 0).gate = "unset"
                BY TaskStarts DEF Names
            <4> QED BY <3>1, <4>1, <4>2, GrowthFacts DEF Typed
        <3> QED BY <3>1
    <2>4. (who = m /\ pending = NoQuestion) \/ (who = pending.msg /\ pending # NoQuestion)
        OBVIOUS
    <2> HIDE DEF task, who
    <2>5. /\ turn'.pc = "reading" /\ turn'.wrote = {} /\ turn'.filed = 0
          /\ turn'.vault = task /\ turn'.gated = task /\ turn'.msg = who
          /\ turn'.plan = pending.plan
        BY <2>1 DEF NoTurn
    <2> QED BY <2>2, <2>3, <2>4, <2>5
<1>2. ASSUME NEW m \in Messages, SayToVault(m) \/ DiscoveryFails(m) PROVE TurnStarts
    <2>1. /\ turn'.pc = "ending" /\ turn'.wrote = {} /\ turn'.filed = 0
          /\ turn'.gated = 0 /\ turn'.msg = m /\ turn'.plan = NoPlan
        BY ZenonT(60), <1>2 DEF SayToVault, DiscoveryFails, NoTurn
    <2>2. turn.pc = "idle" /\ pending' = pending /\ m \in unsent \ unsent'
        BY <1>2 DEF SayToVault, DiscoveryFails
    <2> QED BY <2>1, <2>2
<1>3. CASE Press
    <2>1. /\ turn'.pc = "dispatch" /\ turn'.wrote = {} /\ turn'.filed = 0
          /\ turn'.gated = 0 /\ turn'.vault = 0 /\ turn'.msg = pending.msg
          /\ turn'.plan = pending.plan
        BY <1>3 DEF Press, NoTurn
    <2>2. turn.pc = "idle" /\ pending' = pending /\ pending # NoQuestion
        BY <1>3 DEF Press
    <2> QED BY <2>1, <2>2
<1> QED BY <1>1, <1>2, <1>3

LEMMA MovesOfTurns ==
    ASSUME TypeOK, Typed, TurnStep, ~ Joined
    PROVE  TurnMoves
<1> USE DEF TurnMoves, Unwritten, Over
<1>0. turn \in TurnRec
    BY DEF Typed
<1>1. ASSUME NEW t \in TurnRec, Record(t), t.pc = "ending"
      PROVE  /\ turn'.pc = "ending" /\ turn'.msg = t.msg /\ turn'.gated = t.gated
             /\ turn'.vault = t.vault /\ turn'.plan = t.plan
    BY ZenonT(60), <1>1, Recordings DEF TurnRec
<1>2. CASE InboxOrError /\ turn.pc \in Unwritten /\ unsent' = unsent
    <2>1. CASE Record([turn EXCEPT !.pc = "ending"])
        <3>1. [turn EXCEPT !.pc = "ending"] \in TurnRec
            BY <1>0 DEF TurnRec, TurnPcs
        <3> QED BY <1>0, <1>1, <1>2, <2>1, <3>1 DEF TurnRec
    <2>2. CASE Planning /\ turn' = [turn EXCEPT !.pc = "stepped", !.failed = TRUE]
        BY <1>0, <1>2, <2>2 DEF TurnRec
    <2>3. CASE ~ Planning /\ turn' = [turn EXCEPT !.pc = "ending", !.failed = TRUE]
        BY <1>0, <1>2, <2>3 DEF TurnRec
    <2> QED BY <1>2, <2>1, <2>2, <2>3 DEF InboxOrError
<1>3. CASE ReadFails
    <2>1. CASE turn' = [turn EXCEPT !.pc = "ending"]
        BY <1>0, <1>3, <2>1 DEF ReadFails, TurnRec
    <2> QED BY <1>2, <1>3, <2>1 DEF ReadFails
<1>4. CASE ReadAsPlan \/ ReadAsOne
    BY <1>0, <1>4 DEF ReadAsPlan, ReadAsOne, TurnRec
<1>5. CASE DispatchAsk \/ DispatchExecute \/ Research \/ ResearchDone
    <2>1. CASE DispatchAsk \/ DispatchExecute
        BY <1>0, <2>1 DEF DispatchAsk, DispatchExecute, TurnRec
    <2>2. CASE Research \/ ResearchDone
        BY <1>0, <2>2 DEF Research, ResearchDone, TurnRec
    <2> QED BY <1>5, <2>1, <2>2
<1>6. CASE DispatchReject \/ ResearchFails \/ ExecuteFails \/ PlanFails
    BY <1>2, <1>6 DEF DispatchReject, ResearchFails, ExecuteFails, PlanFails
<1>7. CASE NothingWritten
    <2>1. PICK failed \in BOOLEAN :
            turn' = [turn EXCEPT !.pc = IF Planning THEN "stepped" ELSE "ending",
                                 !.failed = failed]
        BY <1>7 DEF NothingWritten
    <2>2. CASE Planning
        <3>1. turn' = [turn EXCEPT !.pc = "stepped", !.failed = failed]
            BY <2>1, <2>2
        <3> QED BY <1>0, <1>7, <2>2, <3>1 DEF NothingWritten, TurnRec
    <2>3. CASE ~ Planning
        <3>1. turn' = [turn EXCEPT !.pc = "ending", !.failed = failed]
            BY <2>1, <2>3
        <3> QED BY <1>0, <1>7, <3>1 DEF NothingWritten, TurnRec
    <2> QED BY <2>2, <2>3
<1>8. CASE StepExecuted
    <2> DEFINE filing == "obsidian" \in on
               e == Task(turn.msg, "step", turn.gated)
    <2>1. /\ turn'.pc = "filing" /\ turn'.msg = turn.msg /\ turn'.gated = turn.gated
          /\ turn'.vault = turn.vault /\ turn'.plan = turn.plan
          /\ turn'.filed = IF filing THEN Len(tasks) + 1 ELSE 0
        BY <1>0, <1>8 DEF StepExecuted, TurnRec
    <2>2. turn.pc = "executing" /\ Planning /\ unsent' = unsent
        BY <1>8 DEF StepExecuted
    <2>3. filing => Len(tasks) + 1 \in DOMAIN tasks' /\ tasks'[Len(tasks) + 1].msg = turn.msg
        <3>1. filing => tasks' = Append(tasks, e)
            BY <1>8 DEF StepExecuted
        <3>2. e \in TaskRec /\ e.msg = turn.msg
            BY <1>0, TaskStarts DEF TurnRec
        <3> HIDE DEF e
        <3> QED BY <3>1, <3>2, GrowthFacts DEF Typed
    <2> QED BY <2>1, <2>2, <2>3
<1>9. CASE Executed
    <2> DEFINE found == turn.after /\ "obsidian" \in on
               v == IF found THEN Len(tasks) + 1 ELSE turn.vault
               d == [turn EXCEPT !.pc = "ending", !.vault = v]
               e == Task(turn.msg, "found", turn.gated)
    <2>1. v \in Nat
        BY <1>0, EntryFacts DEF Typed, TurnRec
    <2>2. Record(d) \/ turn' = d
        BY <1>9 DEF Executed
    <2>3. turn.pc = "executing" /\ unsent' = unsent
        BY <1>9 DEF Executed
    <2>4. \/ v = turn.vault
          \/ v \in DOMAIN tasks' /\ tasks'[v].kind = "found" /\ tasks'[v].of = turn.gated
        <3>1. CASE found
            <4>1. tasks' = Append(tasks, e) /\ v = Len(tasks) + 1
                BY <1>9, <3>1 DEF Executed
            <4>2. e \in TaskRec /\ e.kind = "found" /\ e.of = turn.gated
                BY <1>0, TaskStarts DEF TurnRec
            <4> HIDE DEF e
            <4> QED BY <4>1, <4>2, GrowthFacts DEF Typed
        <3> QED BY <3>1
    <2> HIDE DEF v
    <2>5. /\ d \in TurnRec /\ d.pc = "ending" /\ d.vault = v /\ d.msg = turn.msg
          /\ d.gated = turn.gated /\ d.plan = turn.plan
        BY <1>0, <2>1 DEF TurnRec, TurnPcs
    <2> HIDE DEF d
    <2>6. /\ turn'.pc = "ending" /\ turn'.msg = turn.msg /\ turn'.gated = turn.gated
          /\ turn'.vault = v /\ turn'.plan = turn.plan
        BY <1>1, <2>2, <2>5
    <2> QED BY <2>3, <2>4, <2>6
<1>10. CASE Planned
    <2>1. PICK n \in 1 .. MAX_STEPS + 1 : turn' = [turn EXCEPT !.pc = "step", !.plan.steps = n]
        BY <1>10 DEF Planned
    <2>2. n \in Nat /\ n > 0
        BY BoundsAreNatural
    <2>3. turn.pc = "planning" /\ unsent' = unsent
        BY <1>10 DEF Planned
    <2> QED BY <1>0, <2>1, <2>2, <2>3 DEF TurnRec, PlanRec
<1>11. CASE StepReads
    BY <1>0, <1>11 DEF StepReads, TurnRec
<1>12. CASE StepFails
    BY <1>0, <1>12 DEF StepFails, TurnRec
<1>13. CASE StepFiled
    <2> DEFINE r == IF turn.wrote = {} THEN turn.row ELSE Len(rows) + 1
    <2>1. turn' = [turn EXCEPT !.pc = "stepped", !.row = r]
        BY <1>13 DEF StepFiled
    <2> HIDE DEF r
    <2> QED BY <1>0, <1>13, <2>1 DEF StepFiled, TurnRec
<1>14. CASE NextStep
    <2>1. Recorded.steps = turn.plan.steps /\ turn.plan.steps \in Nat
        BY <1>0, RecordedStep DEF TurnRec, PlanRec
    <2>2. turn' = [turn EXCEPT !.pc = "step", !.plan = Recorded]
        BY <1>14 DEF NextStep
    <2> QED BY <1>0, <1>14, <2>1, <2>2 DEF NextStep, TurnRec
<1>15. CASE StepAdded
    <2> DEFINE R == Recorded
    <2>1. R \in PlanRec /\ R.steps = turn.plan.steps
        BY RecordedStep
    <2>2. turn' = [turn EXCEPT !.pc = "step",
                      !.plan = [R EXCEPT !.steps = R.steps + 1, !.index = R.steps]]
        BY <1>15 DEF StepAdded
    <2> HIDE DEF R
    <2>3. /\ turn'.pc = "step" /\ turn'.msg = turn.msg /\ turn'.gated = turn.gated
          /\ turn'.vault = turn.vault
          /\ turn'.plan = [R EXCEPT !.steps = R.steps + 1, !.index = R.steps]
        BY <1>0, <2>2 DEF TurnRec
    <2>4. /\ turn'.plan.steps = R.steps + 1 /\ turn'.plan.notion = R.notion
          /\ turn'.plan.vault = R.vault /\ R.steps \in Nat
        BY <2>1, <2>3 DEF PlanRec
    <2>5. turn'.plan.steps >= turn.plan.steps
        BY <2>1, <2>4
    <2>6. turn.pc = "stepped" /\ unsent' = unsent
        BY <1>15 DEF StepAdded
    <2> QED BY <2>3, <2>4, <2>5, <2>6 DEF R
<1>16. CASE PlanDone
    BY <1>0, <1>16 DEF PlanDone, TurnRec
<1>17. CASE Breaks \/ EndTurn
    BY <1>0, <1>17 DEF Breaks, EndTurn, TurnRec
<1>18. CASE OneStep
    BY <1>5, <1>6, <1>7, <1>8, <1>9, <1>18 DEF OneStep
<1>19. CASE PlanStep
    BY <1>6, <1>10, <1>11, <1>12, <1>13, <1>14, <1>15, <1>16, <1>19 DEF PlanStep
<1> QED BY <1>3, <1>4, <1>17, <1>18, <1>19 DEF TurnStep

\* Every step is a turn's start, its going on or its end, or leaves the turn alone.
LEMMA KindsOfSteps ==
    ASSUME TypeOK, Typed, Next
    PROVE  \/ TurnStarts
           \/ TurnMoves
           \/ Joined
           \/ turn' = turn /\ (pending' = pending \/ pending' = NoQuestion) /\ unsent' = unsent
<1>1. CASE \E switch \in {"notion", "obsidian"} : Toggle(switch)
    BY <1>1 DEF Toggle
<1>2. CASE UserStep
    BY <1>2, StartsOfTurns DEF UserStep, QuestionGoes, Undo
<1>3. CASE TurnStep
    BY <1>3, MovesOfTurns
<1>4. CASE \E i \in DOMAIN tasks : TaskStep(i)
    BY <1>4 DEF TaskStep, Filed, PassGate, Written
<1> QED BY <1>1, <1>2, <1>3, <1>4 DEF Next

\* The question goes, stays as it was while nothing is about to be written, or is asked anew with
\* the plan as it is.
QuestionMoves ==
    \/ pending' = NoQuestion
    \/ /\ pending' = pending
       /\ turn'.pc \in {"executing", "filing"} => turn.pc \in {"executing", "filing"}
    \/ /\ pending'.msg = turn.msg /\ pending'.plan = turn.plan
       /\ turn.pc \in {"dispatch", "researched"} /\ turn'.pc = "ending"
       /\ UNCHANGED <<notion, tasks, unsent>>

LEMMA MovesOfQuestions == ASSUME TypeOK, Typed, Next PROVE QuestionMoves
<1> USE DEF QuestionMoves
<1>0. turn \in TurnRec
    BY DEF Typed
<1>1. CASE turn' = turn /\ (pending' = pending \/ pending' = NoQuestion)
    BY <1>1
<1>2. CASE TurnStarts
    BY <1>2 DEF TurnStarts
<1>3. CASE Joined
    BY <1>3 DEF Joined, NoTurn
<1>4. CASE DispatchAsk
    BY <1>0, <1>4 DEF DispatchAsk, TurnRec
<1>5. CASE TurnStep /\ UNCHANGED pending /\ ~ DispatchExecute /\ ~ Joined
    <2>1. TurnMoves
        BY <1>5, MovesOfTurns
    <2>2. turn'.pc = "filing" => turn.pc \in {"executing", "filing"}
        BY <2>1 DEF TurnMoves, Unwritten, Over
    <2>3. turn'.pc # "executing"
        <3>1. CASE InboxOrError /\ turn.pc \in {"reading", "planning", "executing", "dispatch",
                                               "researching", "researched"}
            <4> DEFINE d == [turn EXCEPT !.pc = "ending"]
            <4>1. d \in TurnRec /\ d.pc = "ending"
                BY <1>0 DEF TurnRec, TurnPcs
            <4> HIDE DEF d
            <4>5. CASE Record(d)
                BY <4>1, <4>5, Recordings DEF TurnRec
            <4>2. CASE Record([turn EXCEPT !.pc = "ending"])
                BY <4>2, <4>5 DEF d
            <4>3. CASE Planning /\ turn' = [turn EXCEPT !.pc = "stepped", !.failed = TRUE]
                BY <1>0, <4>3 DEF TurnRec
            <4>4. CASE ~ Planning /\ turn' = [turn EXCEPT !.pc = "ending", !.failed = TRUE]
                BY <1>0, <4>4 DEF TurnRec
            <4> QED BY <3>1, <4>2, <4>3, <4>4 DEF InboxOrError
        <3>2. CASE Executed
            <4> DEFINE v == IF turn.after /\ "obsidian" \in on THEN Len(tasks) + 1 ELSE turn.vault
                       d == [turn EXCEPT !.pc = "ending", !.vault = v]
            <4>1. v \in Nat
                BY <1>0, EntryFacts DEF Typed, TurnRec
            <4>2. Record(d) \/ turn' = d
                BY <3>2 DEF Executed
            <4> HIDE DEF v
            <4>3. d \in TurnRec /\ d.pc = "ending"
                BY <1>0, <4>1 DEF TurnRec, TurnPcs
            <4> HIDE DEF d
            <4> QED BY <4>2, <4>3, Recordings DEF TurnRec
        <3>3. CASE OneStep
            <4>1. CASE NothingWritten
                <5>1. PICK failed \in BOOLEAN, pc \in {"stepped", "ending"} :
                        turn' = [turn EXCEPT !.pc = pc, !.failed = failed]
                    BY <4>1 DEF NothingWritten
                <5> QED BY <1>0, <5>1 DEF TurnRec
            <4>2. CASE DispatchAsk \/ DispatchReject \/ Research \/ ResearchDone \/ StepExecuted
                BY <1>0, <3>1, <4>2
                   DEF DispatchAsk, DispatchReject, Research, ResearchDone, StepExecuted, TurnRec
            <4>3. CASE ResearchFails \/ ExecuteFails
                BY <3>1, <4>3 DEF ResearchFails, ExecuteFails
            <4> QED BY <1>5, <3>2, <3>3, <4>1, <4>2, <4>3 DEF OneStep
        <3>4. CASE PlanStep
            BY <1>0, <3>1, <3>4
               DEF PlanStep, PlanFails, Planned, StepReads, StepFails, StepFiled, NextStep,
                   StepAdded, PlanDone, TurnRec
        <3> QED BY <1>0, <1>5, <3>1, <3>3, <3>4
                DEF TurnStep, ReadFails, ReadAsPlan, ReadAsOne, Breaks, EndTurn, TurnRec
    <2> QED BY <1>5, <2>2, <2>3
<1>6. CASE TurnStep
    <2>1. CASE OneStep
        BY <1>3, <1>4, <1>5, <1>6, <2>1
           DEF OneStep, DispatchReject, DispatchExecute, Research, ResearchDone,
               ResearchFails, ExecuteFails, NothingWritten, StepExecuted, Executed
    <2>2. CASE ~ OneStep
        <3>1. UNCHANGED pending
            BY <1>6, <2>2
               DEF TurnStep, ReadFails, ReadAsPlan, ReadAsOne, Breaks, EndTurn, Joined, PlanStep,
                   PlanFails, Planned, StepReads, StepFails, StepFiled, NextStep, StepAdded, PlanDone
        <3> QED BY <1>3, <1>5, <1>6, <2>2, <3>1 DEF OneStep
    <2> QED BY <2>1, <2>2
<1>7. CASE UserStep
    BY <1>1, <1>2, <1>7, StartsOfTurns DEF UserStep, QuestionGoes, Undo
<1>8. CASE \E switch \in {"notion", "obsidian"} : Toggle(switch)
    BY <1>1, <1>8 DEF Toggle
<1>9. CASE \E i \in DOMAIN tasks : TaskStep(i)
    BY <1>1, <1>9 DEF TaskStep, Filed, PassGate, Written
<1> QED BY <1>6, <1>7, <1>8, <1>9 DEF Next

----------------------------------------------------------------------------
(* StoresInv is inductive: one lemma per part. *)

LEMMA InitEstablishes == Init => StoresInv
<1> SUFFICES ASSUME Init PROVE StoresInv
    OBVIOUS
<1>1. tasks = <<>> /\ notion = <<>> /\ rows = <<>> /\ turn = NoTurn /\ pending = NoQuestion
    BY DEF Init
<1>2. DOMAIN tasks = {} /\ DOMAIN notion = {} /\ DOMAIN rows = {}
    BY <1>1
<1>3. /\ Fits(turn, DOMAIN notion, DOMAIN tasks, DOMAIN rows)
      /\ Asks(pending, DOMAIN notion, DOMAIN tasks)
    BY <1>1, NothingFits
<1>4. Typed
    <2>1. tasks \in Seq(TaskRec) /\ notion \in Seq(NotionRec) /\ rows \in Seq(RowRec)
        BY <1>1
    <2> QED BY <1>3, <2>1 DEF Typed, Fits, Asks
<1>5. TypeOK
    <2>1. turn.plan \in PlanType /\ pending.plan \in PlanType
        BY <1>3 DEF Fits, Asks, TurnRec, PlanRec, PlanType
    <2>2. presses \in [toggle : 0 .. MaxToggles, undo : 0 .. MaxUndos, answer : 0 .. MaxAnswers]
        BY BoundsAreNatural DEF Init
    <2>3. pending \in [msg : Messages \cup {None}, asked : 0 .. MAX_QUESTIONS - 1, plan : PlanType]
        BY <1>3, <2>1 DEF Asks, Names
    <2>4. /\ {turn.gated, turn.vault, turn.filed} \subseteq DOMAIN tasks \cup {0}
          /\ turn.row \in DOMAIN rows \cup {0}
        BY <1>3 DEF Fits
    <2> QED BY <1>2, <2>1, <2>2, <2>3, <2>4 DEF TypeOK, Init
<1>6. turn.pc = "idle" /\ turn.vault = 0 /\ turn.gated = 0 /\ turn.filed = 0
    BY <1>1 DEF NoTurn
<1>7. Gated /\ StepsJoin /\ Joins /\ UndoneMeansReverted
    BY <1>2, <1>6 DEF Gated, StepsJoin, Joins, UndoneMeansReverted, Stepped, Unwritten
<1>8. PlanCovered
    BY <1>1, <1>2, <1>6
       DEF PlanCovered, Between, Unwritten, Stepped, NotionSteps, VaultSteps
<1> QED BY <1>4, <1>5, <1>7, <1>8 DEF StoresInv

LEMMA GatedStep == ASSUME StoresInv, Next PROVE Gated'
<1> USE DEF StoresInv
<1>0. turn \in TurnRec /\ \A i \in DOMAIN tasks : tasks[i] \in TaskRec
    BY Entries DEF Typed
<1>1. TypeOK' /\ Typed' /\ TasksGrow
    BY TypesStep, TasksStep
<1>2. \A i \in DOMAIN tasks' :
        tasks'[i].gate # "yes" => tasks'[i].pc # "writing" /\ tasks'[i].wrote = "nothing"
    <2> SUFFICES ASSUME NEW i \in DOMAIN tasks', tasks'[i].gate # "yes"
                 PROVE  tasks'[i].pc # "writing" /\ tasks'[i].wrote = "nothing"
        OBVIOUS
    <2>1. CASE i \in DOMAIN tasks
        BY <1>0, <1>1, <2>1 DEF TasksGrow, Gated, TaskRec
    <2>2. CASE i \notin DOMAIN tasks
        BY <1>1, <2>2 DEF TasksGrow
    <2> QED BY <2>1, <2>2
<1>3. \A i \in DOMAIN tasks' :
        tasks'[i].kind = "step" /\ tasks'[i].of # 0 =>
            tasks'[i].of \in DOMAIN tasks' /\ tasks'[tasks'[i].of].gate = "no"
    <2> SUFFICES ASSUME NEW i \in DOMAIN tasks', tasks'[i].kind = "step", tasks'[i].of # 0
                 PROVE  tasks'[i].of \in DOMAIN tasks' /\ tasks'[tasks'[i].of].gate = "no"
        OBVIOUS
    <2>1. CASE i \in DOMAIN tasks
        BY <1>1, <2>1 DEF TasksGrow, Gated
    <2>2. CASE i \notin DOMAIN tasks
        <3>1. tasks'[i].of = turn.gated /\ Planning
            BY <1>1, <2>2 DEF TasksGrow
        <3>2. turn.gated \in DOMAIN tasks /\ tasks[turn.gated].gate = "no"
            BY <3>1 DEF Gated, TypeOK
        <3> QED BY <1>1, <3>1, <3>2 DEF TasksGrow
    <2> QED BY <2>1, <2>2
<1>4. /\ turn'.pc = "reading" /\ turn'.gated # 0 => tasks'[turn'.gated].gate = "unset"
      /\ turn'.gated # 0 /\ (turn'.pc = "planning" \/ Planning') => tasks'[turn'.gated].gate = "no"
    <2>1. CASE turn' = turn
        <3>1. turn.gated # 0 => turn.gated \in DOMAIN tasks
            BY DEF TypeOK
        <3> QED BY <1>1, <2>1, <3>1 DEF TasksGrow, Gated, Planning
    <2>2. CASE TurnStarts
        BY <2>2, NothingFits DEF TurnStarts, Planning, NoQuestion
    <2>3. CASE Joined
        BY <2>3, NothingFits DEF Joined
    <2>4. CASE TurnMoves
        <3> SUFFICES ASSUME turn.gated # 0, turn'.pc = "planning" \/ Planning'
                     PROVE  tasks'[turn.gated].gate = "no"
            BY <2>4 DEF TurnMoves
        <3>1. turn.gated \in DOMAIN tasks
            BY DEF TypeOK
        <3>2. CASE turn.pc = "planning" \/ Planning
            BY <1>1, <3>1, <3>2 DEF TasksGrow, Gated
        <3>3. CASE turn.pc # "planning" /\ ~ Planning
            <4>1. turn'.plan.steps > 0 => turn'.plan # turn.plan
                BY <3>3 DEF Planning
            <4>2. turn.pc \notin Stepped \cup {"step"}
                BY <3>3 DEF StepsJoin
            <4>3. turn'.pc = "planning"
                BY <2>4, <3>3, <4>1, <4>2, NothingFits
                   DEF TurnMoves, Unwritten, Stepped, Over, Planning
            <4>4. turn.pc = "reading" /\ tasks' = LetVaultWrite("no")
                BY <2>4, <3>3, <4>3 DEF TurnMoves, Unwritten, Over
            <4>5. tasks[turn.gated].gate = "unset"
                BY <4>4 DEF Gated
            <4> QED BY ZenonT(60), <1>0, <3>1, <4>4, <4>5, WordAtTheGate DEF TaskRec
        <3> QED BY <3>2, <3>3
    <2> QED BY <2>1, <2>2, <2>3, <2>4, KindsOfSteps
<1> QED BY <1>2, <1>3, <1>4 DEF Gated

LEMMA StepsJoinStep == ASSUME StoresInv, Next PROVE StepsJoin'
<1> USE DEF StoresInv
<1>1. TasksGrow
    BY TasksStep
<1>2. CASE turn' = turn
    <2>1. turn.filed # 0 => turn.filed \in DOMAIN tasks
        BY DEF TypeOK
    <2> QED BY <1>1, <1>2, <2>1 DEF TasksGrow, StepsJoin, Planning
<1>3. ASSUME turn'.pc # "filing", NEW i \in DOMAIN tasks', tasks'[i].kind = "step", turn' # turn
      PROVE  tasks'[i].pc = "over" \/ turn.pc = "filing"
    <2>1. CASE i \in DOMAIN tasks
        BY <1>1, <1>3, <2>1 DEF TasksGrow, StepsJoin
    <2>2. CASE i \notin DOMAIN tasks
        BY <1>1, <1>3, <2>2 DEF TasksGrow
    <2> QED BY <2>1, <2>2
<1>4. CASE TurnStarts
    BY <1>1, <1>3, <1>4 DEF TurnStarts, TasksGrow, StepsJoin, Stepped, Unwritten
<1>5. CASE Joined
    <2>1. turn.pc = "joining" /\ turn'.pc = "idle" /\ turn' # turn
        BY <1>5 DEF Joined, NoTurn
    <2> QED BY <1>3, <2>1 DEF StepsJoin, Stepped, Unwritten
<1>6. CASE TurnMoves /\ turn' # turn
    <2>1. turn'.pc \in Stepped \cup {"step"} => Planning'
        <3>1. turn.plan.steps \in Nat
            BY DEF Typed, TurnRec, PlanRec
        <3>2. CASE turn.pc = "stepped"
            <4>1. turn'.pc \in Stepped \cup {"step"} => turn'.plan.steps >= turn.plan.steps
                BY <1>6, <3>2 DEF TurnMoves, Stepped, Over, Unwritten
            <4>2. turn.plan.steps > 0
                BY <3>2 DEF StepsJoin, Stepped, Planning
            <4>3. turn'.plan.steps \in Nat
                BY TypesStep DEF Typed, TurnRec, PlanRec
            <4> QED BY <3>1, <4>1, <4>2, <4>3 DEF Planning
        <3>3. CASE turn.pc # "stepped"
            <4>1. \/ turn'.pc \notin Stepped \cup {"step"}
                  \/ turn'.pc = "step" /\ turn'.plan.steps > 0
                  \/ turn.pc \in Stepped \cup {"step"} /\ turn'.plan = turn.plan
                  \/ Planning /\ turn'.plan = turn.plan
                BY <1>6, <3>3 DEF TurnMoves, Stepped, Over, Unwritten
            <4> QED BY <4>1 DEF StepsJoin, Planning
        <3> QED BY <3>2, <3>3
    <2>2. turn'.pc \in Unwritten => turn'.wrote = {} /\ turn'.filed = 0
        BY <1>6 DEF TurnMoves, StepsJoin, Over, Unwritten
    <2>3. ASSUME NEW i \in DOMAIN tasks', tasks'[i].kind = "step"
          PROVE  tasks'[i].pc = "over" \/ (turn'.pc = "filing" /\ turn'.filed = i)
        <3>1. CASE i \in DOMAIN tasks /\ turn.pc = "filing"
            <4>1. turn.filed # 0 => tasks[turn.filed].pc = "over"
                BY <1>6, <3>1 DEF TurnMoves, Over, Unwritten, StepsJoin
            <4>2. tasks[i].pc = "over" \/ turn.filed = i
                BY <1>1, <2>3, <3>1 DEF StepsJoin, TasksGrow
            <4>3. i # 0
                BY <3>1, Entries
            <4> QED BY <1>1, <3>1, <4>1, <4>2, <4>3 DEF TasksGrow
        <3>2. CASE i \in DOMAIN tasks /\ turn.pc # "filing"
            BY <1>1, <2>3, <3>2 DEF StepsJoin, TasksGrow
        <3>3. CASE i \notin DOMAIN tasks
            BY <1>1, <2>3, <3>3 DEF TasksGrow
        <3> QED BY <3>1, <3>2, <3>3
    <2>4. turn'.pc = "filing" /\ turn'.filed # 0 => tasks'[turn'.filed].msg = turn'.msg
        BY <1>6 DEF TurnMoves, Over, Unwritten
    <2> QED BY <2>1, <2>2, <2>3, <2>4 DEF StepsJoin
<1> QED BY <1>2, <1>4, <1>5, <1>6, KindsOfSteps

LEMMA RevertedStep == ASSUME StoresInv, Next PROVE UndoneMeansReverted'
<1>1. NotionGrows /\ RowsGrow
    BY NotionStep, RowsStep DEF StoresInv
<1> SUFFICES ASSUME NEW r \in DOMAIN rows', rows'[r].undone, NEW n \in rows'[r].notion
             PROVE  notion'[n].reverted
    BY DEF UndoneMeansReverted
<1>2. r \in DOMAIN rows /\ n \in rows[r].notion /\ n \in DOMAIN notion
    BY <1>1 DEF RowsGrow, StoresInv, TypeOK
<1>3. CASE rows[r].undone
    BY <1>1, <1>2, <1>3 DEF NotionGrows, StoresInv, UndoneMeansReverted
<1>4. CASE ~ rows[r].undone
    BY <1>1, <1>2, <1>4 DEF RowsGrow
<1> QED BY <1>3, <1>4

LEMMA JoinsStep == ASSUME StoresInv, Next PROVE Joins'
<1> USE DEF StoresInv
<1>1. TasksGrow /\ RowsGrow
    BY TasksStep, RowsStep
<1>2. /\ turn'.pc \notin Over \cup {"idle"} => turn'.vault = turn'.gated
      /\ turn'.pc = "idle" => turn'.vault = 0
    <2>1. CASE turn' = turn
        BY <2>1 DEF Joins
    <2>2. CASE TurnStarts
        BY <2>2 DEF TurnStarts, Over
    <2>3. CASE Joined
        BY <2>3 DEF Joined, NoTurn
    <2>4. CASE TurnMoves
        BY <2>4 DEF TurnMoves, Joins, Over, Unwritten
    <2> QED BY <2>1, <2>2, <2>3, <2>4, KindsOfSteps
<1> DEFINE Settled(i) ==
        \/ tasks[i].kind = "step"
        \/ \E j \in DOMAIN tasks : tasks[j].kind = "found" /\ tasks[j].of = i
        \/ turn.vault = i
        \/ tasks[i].pc = "over" /\ ~ Reversible(i)
        \/ tasks[i].pc = "over" /\ \E r \in DOMAIN rows : i \in rows[r].vault
<1>3. ASSUME NEW i \in DOMAIN tasks' PROVE Settled(i)'
    <2>1. CASE i \notin DOMAIN tasks
        BY <1>1, <2>1 DEF TasksGrow
    <2>2. CASE i \in DOMAIN tasks
        <3>1. i # 0 /\ Settled(i)
            BY <2>2, Entries DEF Joins
        <3>2. CASE tasks[i].kind = "step"
            BY <1>1, <2>2, <3>2 DEF TasksGrow
        <3>3. CASE \E j \in DOMAIN tasks : tasks[j].kind = "found" /\ tasks[j].of = i
            BY <1>1, <3>3 DEF TasksGrow
        <3>4. CASE tasks[i].pc = "over" /\ ~ Reversible(i)
            BY <1>1, <2>2, <3>4 DEF TasksGrow, Reversible
        <3>5. CASE tasks[i].pc = "over" /\ \E r \in DOMAIN rows : i \in rows[r].vault
            BY <1>1, <2>2, <3>5 DEF TasksGrow, RowsGrow
        <3>6. CASE turn.vault = i
            <4>1. CASE turn' = turn
                BY <3>6, <4>1
            <4>2. CASE TurnStarts
                BY <3>1, <3>6, <4>2 DEF TurnStarts, Joins
            <4>3. CASE TurnMoves
                BY <3>6, <4>3 DEF TurnMoves, Joins, Over
            <4>4. CASE Joined
                <5>1. tasks' = tasks /\ tasks[i].pc = "over"
                    BY <3>1, <3>6, <4>4 DEF Joined
                <5>2. CASE ~ Reversible(i)
                    BY <5>1, <5>2 DEF Reversible
                <5>3. CASE Reversible(i)
                    <6>1. CASE turn.row # 0
                        <7>1. rows' = [rows EXCEPT ![turn.row].vault = @ \cup {i}]
                            BY <3>1, <3>6, <4>4, <5>3, <6>1 DEF Joined
                        <7>2. turn.row \in DOMAIN rows
                            BY <6>1 DEF TypeOK
                        <7>3. rows[turn.row] \in RowRec
                            BY <7>2, Entries
                        <7>4. turn.row \in DOMAIN rows' /\ i \in rows'[turn.row].vault
                            BY <7>1, <7>2, <7>3 DEF RowRec
                        <7> QED BY <5>1, <7>4
                    <6>2. CASE turn.row = 0
                        <7> DEFINE o == [notion |-> {}, vault |-> {i}, plan |-> None,
                                         undone |-> FALSE]
                        <7>1. rows' = Append(rows, o)
                            BY <3>1, <3>6, <4>4, <5>3, <6>2 DEF Joined
                        <7>2. o \in RowRec /\ o.vault = {i}
                            BY <2>2, Entries DEF RowRec, Names
                        <7> HIDE DEF o
                        <7>3. Len(rows) + 1 \in DOMAIN rows' /\ i \in rows'[Len(rows) + 1].vault
                            BY <7>1, <7>2, GrowthFacts DEF Typed
                        <7> QED BY <5>1, <7>3
                    <6> QED BY <6>1, <6>2
                <5> QED BY <5>2, <5>3
            <4> QED BY <4>1, <4>2, <4>3, <4>4, KindsOfSteps
        <3> QED BY <3>1, <3>2, <3>3, <3>4, <3>5, <3>6
    <2> QED BY <2>1, <2>2
<1> QED BY <1>2, <1>3 DEF Joins

NotionStepsNext(m) == {n \in DOMAIN notion' : notion'[n].step /\ notion'[n].msg = m}
VaultStepsNext(m) ==
    {i \in DOMAIN tasks' : tasks'[i].kind = "step" /\ tasks'[i].msg = m /\ tasks'[i].wrote = "all"}

\* What a step adds to the steps of a request: in Notion what the turn has just written, in the
\* vault what the task it waits for has.
LEMMA StepsSeen ==
    ASSUME StoresInv, Next, NEW m
    PROVE  /\ \A n \in NotionStepsNext(m) :
                \/ n \in NotionSteps(m)
                \/ /\ turn.pc = "executing" /\ turn'.pc = "filing" /\ m = turn.msg
                   /\ n \in turn'.wrote
           /\ \A i \in VaultStepsNext(m) :
                \/ i \in VaultSteps(m)
                \/ /\ turn' = turn /\ pending' = pending /\ turn.pc = "filing" /\ m = turn.msg
                   /\ i = turn.filed
<1> USE DEF StoresInv
<1>1. NotionGrows /\ TasksGrow
    BY NotionStep, TasksStep
<1>2. ASSUME NEW n \in NotionStepsNext(m)
      PROVE  \/ n \in NotionSteps(m)
             \/ turn.pc = "executing" /\ turn'.pc = "filing" /\ m = turn.msg /\ n \in turn'.wrote
    BY <1>1, <1>2 DEF NotionGrows, NotionSteps, NotionStepsNext
<1>3. ASSUME NEW i \in VaultStepsNext(m)
      PROVE  \/ i \in VaultSteps(m)
             \/ /\ turn' = turn /\ pending' = pending /\ turn.pc = "filing" /\ m = turn.msg
                /\ i = turn.filed
    <2>1. i \in DOMAIN tasks' /\ tasks'[i].kind = "step" /\ tasks'[i].msg = m
            /\ tasks'[i].wrote = "all"
        BY DEF VaultStepsNext
    <2>2. i \in DOMAIN tasks
        BY <1>1, <2>1 DEF TasksGrow
    <2>3. tasks[i].kind = "step" /\ tasks[i].msg = m
        BY <1>1, <2>1, <2>2 DEF TasksGrow
    <2>4. CASE tasks[i].wrote = "all"
        BY <2>2, <2>3, <2>4 DEF VaultSteps, Reversible
    <2>5. CASE tasks[i].wrote # "all"
        <3>1. tasks[i].pc = "writing" /\ tasks'[i].pc = "over"
            BY <1>1, <2>1, <2>2, <2>5 DEF TasksGrow
        <3>2. turn' = turn /\ pending' = pending
            BY <1>1, <2>2, <3>1 DEF TasksGrow
        <3>3. turn.pc = "filing" /\ turn.filed = i
            BY <2>2, <2>3, <3>1 DEF StepsJoin
        <3>4. tasks[i].msg = turn.msg
            BY <2>2, <3>3, Entries DEF StepsJoin
        <3> QED BY <2>3, <3>2, <3>3, <3>4
    <2> QED BY <2>4, <2>5
<1> QED BY <1>2, <1>3

LEMMA PlanCoveredStep == ASSUME StoresInv, Next PROVE PlanCovered'
<1> USE DEF StoresInv
<1>1. unsent' \subseteq unsent
    BY InputsTyped
<1>2. QuestionMoves
    BY MovesOfQuestions
<1>3. turn'.pc \in {"executing", "filing"} => pending' = NoQuestion
    <2>1. CASE pending' = pending /\ turn'.pc \in {"executing", "filing"}
               /\ turn.pc \in {"executing", "filing"}
        BY <2>1 DEF PlanCovered
    <2> QED BY <1>2, <2>1 DEF QuestionMoves
<1>4. turn'.pc # "idle" => turn'.msg \notin unsent'
    <2>1. CASE TurnStarts
        BY <1>1, <2>1 DEF TurnStarts, PlanCovered
    <2>2. CASE TurnMoves
        BY <2>2 DEF TurnMoves, PlanCovered
    <2>3. CASE Joined
        BY <2>3 DEF Joined, NoTurn
    <2>4. CASE turn' = turn /\ unsent' = unsent
        BY <2>4 DEF PlanCovered
    <2> QED BY <2>1, <2>2, <2>3, <2>4, KindsOfSteps
<1>5. \A m \in unsent' : NotionStepsNext(m) = {} /\ VaultStepsNext(m) = {}
    <2> SUFFICES ASSUME NEW m \in unsent'
                 PROVE  NotionStepsNext(m) = {} /\ VaultStepsNext(m) = {}
        OBVIOUS
    <2>1. NotionSteps(m) = {} /\ VaultSteps(m) = {}
        BY <1>1 DEF PlanCovered
    <2>2. turn.pc # "idle" => turn.msg # m
        BY <1>1 DEF PlanCovered
    <2> QED BY <2>1, <2>2, StepsSeen
<1>6. pending' # NoQuestion =>
        /\ NotionStepsNext(pending'.msg) \subseteq pending'.plan.notion
        /\ VaultStepsNext(pending'.msg) \subseteq pending'.plan.vault
        /\ pending'.msg \notin unsent'
    <2>1. CASE pending' = pending /\ pending # NoQuestion
        <3>1. turn'.pc # "filing" /\ turn.pc # "filing"
            <4>1. turn.pc # "filing"
                BY <2>1 DEF PlanCovered
            <4> QED BY <1>3, <2>1, <4>1
        <3>2. NotionStepsNext(pending.msg) \subseteq NotionSteps(pending.msg)
            BY <3>1, StepsSeen
        <3>3. VaultStepsNext(pending.msg) \subseteq VaultSteps(pending.msg)
            BY <3>1, StepsSeen
        <3> QED BY <1>1, <2>1, <3>2, <3>3 DEF PlanCovered
    <2>2. CASE /\ pending'.msg = turn.msg /\ pending'.plan = turn.plan
               /\ turn.pc \in {"dispatch", "researched"} /\ turn'.pc = "ending"
        <3>1. /\ NotionSteps(turn.msg) \subseteq turn.plan.notion
              /\ VaultSteps(turn.msg) \subseteq turn.plan.vault
              /\ turn.msg \notin unsent
            BY <2>2 DEF PlanCovered, Between, Unwritten
        <3>2. NotionStepsNext(turn.msg) \subseteq NotionSteps(turn.msg)
            BY <2>2, StepsSeen
        <3>3. VaultStepsNext(turn.msg) \subseteq VaultSteps(turn.msg)
            BY <2>2, StepsSeen
        <3> QED BY <1>1, <2>2, <3>1, <3>2, <3>3
    <2> QED BY <1>2, <2>1, <2>2 DEF QuestionMoves
<1>7. /\ turn'.pc \in Between =>
            /\ NotionStepsNext(turn'.msg) \subseteq turn'.plan.notion
            /\ VaultStepsNext(turn'.msg) \subseteq turn'.plan.vault
      /\ turn'.pc \in Stepped =>
            /\ NotionStepsNext(turn'.msg) \subseteq turn'.plan.notion \cup turn'.wrote
            /\ VaultStepsNext(turn'.msg) \subseteq turn'.plan.vault \cup {turn'.filed}
    <2>1. CASE turn' = turn
        <3>1. NotionStepsNext(turn.msg) \subseteq NotionSteps(turn.msg)
            BY <2>1, StepsSeen
        <3>2. \A i \in VaultStepsNext(turn.msg) : i \in VaultSteps(turn.msg)
                \/ (turn.pc = "filing" /\ i = turn.filed)
            BY <2>1, StepsSeen
        <3> QED BY <2>1, <3>1, <3>2 DEF PlanCovered, Between, Unwritten, Stepped
    <2>2. CASE Joined
        BY <2>2 DEF Joined, NoTurn, Between, Unwritten, Stepped
    <2>3. CASE TurnStarts
        <3> SUFFICES ASSUME turn'.pc \in Between \cup Stepped
                     PROVE  /\ NotionStepsNext(turn'.msg) \subseteq turn'.plan.notion
                            /\ VaultStepsNext(turn'.msg) \subseteq turn'.plan.vault
            OBVIOUS
        <3>1. turn'.plan = pending.plan /\ turn.pc = "idle"
            BY <2>3 DEF TurnStarts, Between, Unwritten, Stepped
        <3>2. /\ NotionSteps(turn'.msg) \subseteq pending.plan.notion
              /\ VaultSteps(turn'.msg) \subseteq pending.plan.vault
            BY <2>3 DEF TurnStarts, PlanCovered
        <3>3. NotionStepsNext(turn'.msg) \subseteq NotionSteps(turn'.msg)
            BY <3>1, StepsSeen
        <3>4. VaultStepsNext(turn'.msg) \subseteq VaultSteps(turn'.msg)
            BY <3>1, StepsSeen
        <3> QED BY <3>1, <3>2, <3>3, <3>4
    <2>4. CASE TurnMoves /\ turn' # turn
        <3>1. turn'.msg = turn.msg
            BY <2>4 DEF TurnMoves
        <3>2. VaultStepsNext(turn.msg) \subseteq VaultSteps(turn.msg)
            BY <2>4, StepsSeen
        <3>3. \A n \in NotionStepsNext(turn.msg) : n \in NotionSteps(turn.msg)
                \/ (turn'.pc = "filing" /\ n \in turn'.wrote)
            BY StepsSeen
        <3>4. CASE turn.pc \in Between /\ turn'.plan.notion = turn.plan.notion
                   /\ turn'.plan.vault = turn.plan.vault
            <4>1. /\ NotionSteps(turn.msg) \subseteq turn.plan.notion
                  /\ VaultSteps(turn.msg) \subseteq turn.plan.vault
                BY <3>4 DEF PlanCovered
            <4> QED BY <3>1, <3>2, <3>3, <3>4, <4>1 DEF Between, Unwritten
        <3>5. CASE turn.pc = "filing" /\ turn'.pc = "stepped" /\ turn'.plan = turn.plan
                   /\ turn'.wrote = turn.wrote /\ turn'.filed = turn.filed
            <4>1. /\ NotionSteps(turn.msg) \subseteq turn.plan.notion \cup turn.wrote
                  /\ VaultSteps(turn.msg) \subseteq turn.plan.vault \cup {turn.filed}
                BY <3>5 DEF PlanCovered, Stepped
            <4> QED BY <3>1, <3>2, <3>3, <3>5, <4>1 DEF Between, Unwritten
        <3>6. CASE turn.pc = "stepped" /\ turn'.pc = "step"
                   /\ turn'.plan.notion = Recorded.notion /\ turn'.plan.vault = Recorded.vault
            <4>1. /\ NotionSteps(turn.msg) \subseteq Recorded.notion
                  /\ VaultSteps(turn.msg) \subseteq Recorded.vault
                <5>1. /\ NotionSteps(turn.msg) \subseteq turn.plan.notion \cup turn.wrote
                      /\ VaultSteps(turn.msg) \subseteq turn.plan.vault \cup {turn.filed}
                    BY <3>6 DEF PlanCovered, Stepped
                <5>2. \A i \in VaultSteps(turn.msg) : Reversible(i) /\ i # 0
                    BY Entries DEF VaultSteps
                <5> QED BY <5>1, <5>2, RecordedStep
            <4> QED BY <3>1, <3>2, <3>3, <3>6, <4>1 DEF Stepped
        <3>7. CASE turn'.pc \in Over
            BY <3>7 DEF Over, Between, Unwritten, Stepped
        <3> QED BY <2>4, <3>4, <3>5, <3>6, <3>7 DEF TurnMoves, Between, Unwritten
    <2> QED BY <2>1, <2>2, <2>3, <2>4, KindsOfSteps
<1>8. \A m \in unsent' : NotionSteps(m)' = {} /\ VaultSteps(m)' = {}
    BY <1>5 DEF NotionSteps, NotionStepsNext, VaultSteps, VaultStepsNext, Reversible
<1>9. pending' # NoQuestion =>
        /\ NotionSteps(pending.msg)' \subseteq pending'.plan.notion
        /\ VaultSteps(pending.msg)' \subseteq pending'.plan.vault
    BY <1>6 DEF NotionSteps, NotionStepsNext, VaultSteps, VaultStepsNext, Reversible
<1>10. NotionSteps(turn.msg)' = NotionStepsNext(turn'.msg)
       /\ VaultSteps(turn.msg)' = VaultStepsNext(turn'.msg)
    BY DEF NotionSteps, NotionStepsNext, VaultSteps, VaultStepsNext, Reversible
<1> QED BY <1>3, <1>4, <1>6, <1>7, <1>8, <1>9, <1>10 DEF PlanCovered

----------------------------------------------------------------------------
(* What holds of every run. *)

\* Everything the turn in flight carries agrees with the two stores, in every reachable state.
THEOREM Invariance == Spec => []StoresInv
<1>1. StoresInv /\ [Next]_vars => StoresInv'
    <2> SUFFICES ASSUME StoresInv, [Next]_vars PROVE StoresInv'
        OBVIOUS
    <2>1. CASE Next
        <3>1. TypeOK' /\ Typed'
            BY <2>1, TypesStep DEF StoresInv
        <3> QED BY <2>1, <3>1, GatedStep, StepsJoinStep, PlanCoveredStep, JoinsStep, RevertedStep
                DEF StoresInv
    <2>2. CASE UNCHANGED vars
        <3> USE <2>2 DEF vars, StoresInv
        <3>1. TypeOK' /\ Typed'
            BY DEF TypeOK, PlanType, Typed
        <3>2. Gated' /\ StepsJoin'
            BY DEF Gated, StepsJoin, Planning
        <3>3. PlanCovered'
            BY DEF PlanCovered, NotionSteps, VaultSteps, Reversible
        <3>4. Joins' /\ UndoneMeansReverted'
            BY DEF Joins, Reversible, UndoneMeansReverted
        <3> QED BY <3>1, <3>2, <3>3, <3>4
    <2> QED BY <2>1, <2>2
<1> QED BY <1>1, InitEstablishes, PTL DEF Spec

\* Every variable keeps its type; a plan is never longer than its hard stop.
THEOREM TypeCorrect == Spec => []TypeOK
<1>1. StoresInv => TypeOK
    BY DEF StoresInv
<1> QED BY <1>1, Invariance, PTL

\* The task that was reading a message when it turned out to be a plan's goal has written nothing,
\* whatever it had come to: its gate was decided before the first step.
THEOREM GoalsStayUnwritten == Spec => []PlanGoalIsNotWritten
<1>1. StoresInv => PlanGoalIsNotWritten
    BY DEF StoresInv, Gated, PlanGoalIsNotWritten
<1> QED BY <1>1, Invariance, PTL

\* No message the vault wrote whole is without its Undo once its chat is quiet.
THEOREM EveryVaultWriteHasItsUndo == Spec => []VaultWritesAreUndoable
<1>1. StoresInv => VaultWritesAreUndoable
    <2> SUFFICES ASSUME StoresInv, turn.pc = "idle", NEW i \in DOMAIN tasks
                 PROVE  \/ tasks[i].kind = "step" \/ ~ Reversible(i)
                        \/ \E j \in DOMAIN tasks : tasks[j].kind = "found" /\ tasks[j].of = i
                        \/ \E r \in DOMAIN rows : i \in rows[r].vault
        BY DEF VaultWritesAreUndoable
    <2>1. turn.vault = 0 /\ i # 0
        BY Entries DEF StoresInv, Joins
    <2> QED BY <2>1 DEF StoresInv, Joins
<1> QED BY <1>1, Invariance, PTL

\* A row is not reported as undone while one of its Notion writes stands.
THEOREM UndoneIsReverted == Spec => []UndoneMeansReverted
<1>1. StoresInv => UndoneMeansReverted
    BY DEF StoresInv
<1> QED BY <1>1, Invariance, PTL

\* The closing button of a plan covers the plan, however long the plan, however often a question
\* has interrupted it and whatever else the chat has said meanwhile.
THEOREM ClosingButtonsCover == Spec => ClosingButtonCoversThePlan
<1>1. StoresInv /\ [Next]_vars =>
        [\A r \in DOMAIN rows' \ DOMAIN rows : rows'[r].plan # None =>
            /\ {n \in DOMAIN notion : notion[n].step /\ notion[n].msg = rows'[r].plan}
                  \subseteq rows'[r].notion
            /\ {i \in DOMAIN tasks : tasks[i].kind = "step" /\ tasks[i].msg = rows'[r].plan
                                     /\ Reversible(i)}
                  \subseteq rows'[r].vault]_vars
    <2> SUFFICES ASSUME StoresInv, Next, NEW r \in DOMAIN rows' \ DOMAIN rows, rows'[r].plan # None
                 PROVE  /\ NotionSteps(rows'[r].plan) \subseteq rows'[r].notion
                        /\ VaultSteps(rows'[r].plan) \subseteq rows'[r].vault
        BY DEF NotionSteps, VaultSteps
    <2>1. /\ turn.pc = "stepped" /\ rows'[r].plan = turn.msg
          /\ rows'[r].notion = Recorded.notion /\ rows'[r].vault = Recorded.vault
        BY RowsStep DEF RowsGrow, StoresInv
    <2>2. /\ NotionSteps(turn.msg) \subseteq turn.plan.notion \cup turn.wrote
          /\ VaultSteps(turn.msg) \subseteq turn.plan.vault \cup {turn.filed}
        BY <2>1 DEF StoresInv, PlanCovered, Stepped
    <2>3. \A i \in VaultSteps(turn.msg) : Reversible(i) /\ i # 0
        BY Entries DEF VaultSteps, StoresInv
    <2> QED BY <2>1, <2>2, <2>3, RecordedStep DEF StoresInv
<1> QED BY <1>1, Invariance, PTL DEF Spec, ClosingButtonCoversThePlan
=============================================================================
