CONSTANTS
    None = None
    RecentKept = 1
    MaxEdits = 2
    MaxWrites = 2
    MaxMishaps = 1
SPECIFICATION EditorSpec
INVARIANTS EditorTypeOK EditsKept StoredOnce SavesSawBase NoSelfConflict ShowsNews
PROPERTIES PeopleDecide
CHECK_DEADLOCK FALSE
