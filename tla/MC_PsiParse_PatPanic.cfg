CONSTANT Inputs <- MCPatInputs
SPECIFICATION Spec
CHECK_DEADLOCK FALSE
INVARIANT SectionErrorsAreLocal
