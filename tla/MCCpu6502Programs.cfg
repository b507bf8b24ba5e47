CONSTANTS
    Memories <- ProgramMemories
    Debugging = TRUE
    MaxNmi = 2
SPECIFICATION ProgramsSpec
INVARIANTS StartsAtStepZero NmiIsPrompt
PROPERTIES NmiTaken ImplementsIsa InterruptIsTransparent
CHECK_DEADLOCK FALSE
