SPECIFICATION FairDriversSpec
CONSTANTS
    Polls = 2
    MaxCommands = 4
    Lengths = {0, 1, 3}
INVARIANTS TypeOK OwnAnswer Accepting ErrorsTraced TransfersSound
PROPERTIES AnswersRequests CallReturns SPMIAnswers SPMICallReturns
CHECK_DEADLOCK FALSE
