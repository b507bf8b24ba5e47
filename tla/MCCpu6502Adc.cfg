CONSTANTS
    Memories <- SumsMemory
    Debugging = FALSE
    MaxNmi = 0
SPECIFICATION HistorySpec
PROPERTY AdcSetsOverflow
CHECK_DEADLOCK FALSE
