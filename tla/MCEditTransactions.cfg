CONSTANTS
    Targets = {"group", "slot", "exam"}
    Nodes = {}
    Category = "exam"
    Footprint <- GroupAndSlot
    Values = {empty, a}
    Empty = empty
    Documents <- UniformDocuments
    OldMarks <- NoOldMarks
    Runs = {r1, r2}
    None = None
    JournalKept = 1
    MaxWrites = 3
SPECIFICATION Spec
INVARIANTS EditTypeOK
PROPERTIES RepairKeepsPersonChoice LateEditsKept CategoryKept
SYMMETRY RunSymmetry
CHECK_DEADLOCK FALSE
