CONSTANTS
    e1 = e1
    e2 = e2
    Exam <- Exams
    MaxPublish = 3
    MaxCrashes = 2
    MaxFailures = 2
SYMMETRY Symmetry
SPECIFICATION Spec
INVARIANTS NasTypeOK NothingLost WholeAtRest ScriptsStay
PROPERTY ByWholePublications
CONSTRAINT Covered
CHECK_DEADLOCK FALSE
