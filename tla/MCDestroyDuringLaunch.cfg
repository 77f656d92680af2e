\* A shell that is destroyed right after its launch, under fair scheduling.
SPECIFICATION ShellFairSpec
CONSTANTS
    MaxViews = 0
PROPERTIES
    DestructorReturns
CHECK_DEADLOCK FALSE
