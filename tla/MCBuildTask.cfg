CONSTANTS
    Builtins <- MCBuiltins
    Plugins <- MCEither
    Installations <- MCInstallations
    Good = {v1, v2}
    Bad = {bad}
    Tasks <- MCTasks
    MaxChanges = 2
    MaxRuns = 3
SPECIFICATION Spec
SYMMETRY MCSymmetry
INVARIANTS TypeOK NoSilentSubstitution AllOrNone HealthyLoads FreshReuse
PROPERTY RebuildHasCause
\* the runs and the changes are bounded
CHECK_DEADLOCK FALSE
