SPECIFICATION Spec
CONSTANTS
    Sessions = {s1, s2}
    Requests = {r1, r2}
    MaxTimers = 1
    MaxBreaks = 1
    MaxDisturbed = 1
INVARIANTS
    TypeOK
    SavedStaysSaved
    Attended
    OwnMessages
CHECK_DEADLOCK FALSE
