CONSTANTS
    Inputs <- MCInputs
SPECIFICATION Spec
INVARIANTS FailureExits DecisionCovers GoMeansClean IndexMatchesDisk
CHECK_DEADLOCK FALSE
