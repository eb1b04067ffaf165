CONSTANTS
    Width <- MCWidth
    Fields <- MCFields
    Wide = 3
    Locals <- MCLocals
    Members <- MCMembers
    FirstTemp = 10
    FirstRmw = 24
    WriteOnly = {"wo"}
    Bodies <- MCBodies
    Oracles <- MCOracles
SPECIFICATION Spec
INVARIANTS TypeOK ReductionMeans ExpansionMeans SequencingKeeps ReadsAreStatements RefusedForCause
\* a body has a last pass
CHECK_DEADLOCK FALSE
