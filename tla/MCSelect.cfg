CONSTANTS
    Width <- MCWidth
    Fields <- MCFields
    Wide = 3
    Locals <- MCLocals
    Members <- MCMembers
    FirstTemp = 10
    FirstRmw = 24
    WriteOnly = {"wo"}
    Bodies <- MCNarrow
    Oracles <- MCOracles
SPECIFICATION Spec
INVARIANT SelectKeeps
CHECK_DEADLOCK FALSE
