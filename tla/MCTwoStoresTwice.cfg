SPECIFICATION Spec
CONSTANTS
    m1 = m1
    m2 = m2
    Messages = {m1}
    Goals = {m1}
    MAX_STEPS = 2
    MAX_QUESTIONS = 1
    MaxToggles = 0
    MaxUndos = 0
    MaxAnswers = 0
    MaxTasks = 3
INVARIANTS OneWriter
CHECK_DEADLOCK FALSE
