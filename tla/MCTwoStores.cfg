SPECIFICATION Spec
CONSTANTS
    m1 = m1
    m2 = m2
    Messages = {m1, m2}
    Goals = {m1}
    MAX_STEPS = 2
    MAX_QUESTIONS = 1
    MaxToggles = 0
    MaxUndos = 1
    MaxAnswers = 1
    MaxTasks = 5
INVARIANTS TypeOK PlanGoalIsNotWritten VaultWritesAreUndoable UndoneMeansReverted
PROPERTIES ClosingButtonCoversThePlan
CHECK_DEADLOCK FALSE
