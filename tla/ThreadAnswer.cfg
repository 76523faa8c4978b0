SPECIFICATION Spec
CONSTANTS
    c1 = c1
    c2 = c2
    Client <- MCClient
    Modes <- MCModes
    MaxQuestions = 2
    MaxStatus = 2
    MaxStops = 1
    MaxErrors = 1
INVARIANTS
    OneAnswerOfAJob
    FlagEnds
PROPERTIES
    QuestionIsAnswered
CHECK_DEADLOCK FALSE
