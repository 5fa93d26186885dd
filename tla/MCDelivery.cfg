SPECIFICATION Spec
CONSTANTS
    Owners <- MCOwners
    Tasks = {"ta", "tb"}
    TaskOwner <- MCTaskOwner
    Setups <- MCSetups
    MaxChannel = 4
    MaxAction = 3
    MaxRun = 2
    MaxRow = 4
    MaxTime = 1
    Workers = {w}
    Slots = {s1, s2}
    w = w
    s1 = s1
    s2 = s2
    MaxAsked = 3
INVARIANTS
    BindingsHold
    RetriesContinue
    PreviewIsTrue
PROPERTIES
    NotificationEnds
CHECK_DEADLOCK FALSE
