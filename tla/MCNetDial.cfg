SPECIFICATION LiveSpec
CONSTANTS
    Scenarios <- MCScenarios
    Messages <- MCMessages
    Timeout = 2
    SaneMinimum = 2
    MaxName = 4
    MaxLabel = 2
INVARIANTS QuestionsAreNames DeadlineKept LookupTime LookupFinds OneLaneIsEnough EveryAddressTried
PROPERTIES CallReturns
CHECK_DEADLOCK FALSE
