CONSTANTS
    Memories <- NoMemories
    Debugging = FALSE
    MaxNmi = 0
SPECIFICATION OneInstruction
INVARIANTS TypeOK TableHolds
PROPERTY StepsAreInstructions
CHECK_DEADLOCK FALSE
