SPECIFICATION Spec
INVARIANTS TypeOK NothingFreedInUse DebuggerHasTheLastWord
PROPERTIES EndsWhenAsked InterruptPrompts
CHECK_DEADLOCK FALSE
