SPECIFICATION Spec
CONSTANT Programs <- MCPrograms
CHECK_DEADLOCK FALSE
INVARIANTS KeepsRules HonestExit CleanedUp Guarded
