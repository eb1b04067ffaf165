CONSTANTS
    IntW = 4
    Assignments <- MCAssignments
    Values <- MCValues
SPECIFICATION Spec
INVARIANTS PythonMeans CMeans
\* code is generated once
CHECK_DEADLOCK FALSE
