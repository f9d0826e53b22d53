CONSTANTS
    Targets = {"slot", "exam"}
    Nodes = {}
    Category = "exam"
    Footprint <- SlotAlone
    Values = {empty, a, b}
    Empty = empty
    Documents <- UniformDocuments
    OldMarks <- NoOldMarks
    Runs = {r1, r2}
    None = None
    JournalKept = 1
    MaxWrites = 3
SPECIFICATION Spec
INVARIANTS NewestRunKept
PROPERTIES FillTouchesOnlyEmpty UndoIsExact
SYMMETRY ValueSymmetry
CHECK_DEADLOCK FALSE
