CONSTANT Inputs <- MCPmtHeadInputs
SPECIFICATION Spec
CHECK_DEADLOCK FALSE
INVARIANT SectionErrorsAreLocal
