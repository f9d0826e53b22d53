CONSTANTS
    None = None
    RecentKept = 1
    MaxEdits = 2
    MaxWrites = 2
    MaxMishaps = 1
SPECIFICATION EditorSpec
INVARIANT NoEditLost
CHECK_DEADLOCK FALSE
