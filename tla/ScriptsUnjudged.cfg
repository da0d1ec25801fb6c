SPECIFICATION Spec
CONSTANT Programs <- MCNoReload
CHECK_DEADLOCK FALSE
INVARIANTS ZeroMeansRestored
