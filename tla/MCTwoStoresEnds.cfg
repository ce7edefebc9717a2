SPECIFICATION FairSpec
CONSTANTS
    m1 = m1
    m2 = m2
    Messages = {m1}
    Goals = {m1}
    MAX_STEPS = 2
    MAX_QUESTIONS = 1
    MaxToggles = 1
    MaxUndos = 0
    MaxAnswers = 2
    MaxTasks = 3
PROPERTIES EveryTaskEnds
CHECK_DEADLOCK FALSE
