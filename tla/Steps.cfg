SPECIFICATION Spec
CONSTANTS
    MaxCoordinate = 3
    MaxButtonMask = 1
    MaxDragSteps = 2
    DefaultDragSteps = 2
    Keys = {"a", "b"}
    Steps <- AllSteps
INVARIANT PassIsTyped
INVARIANT CloseIsTruthful
INVARIANT ActsOnlyWithConsent
PROPERTY StepEnds
CHECK_DEADLOCK FALSE
