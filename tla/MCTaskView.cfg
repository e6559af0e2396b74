SPECIFICATION Spec
CONSTANTS
    Tasks = {a, b}
    Processes = 2
    MaxEvents = 2
    MaxCalls = 2
    MaxStreams = 2
    MaxClicks = 3
    MaxFaults = 1
    a = a
    b = b
SYMMETRY Symmetry
CONSTRAINT StillInOrder
INVARIANT ShownIsCurrent
INVARIANT EndedViewIsComplete
CHECK_DEADLOCK FALSE
