CONSTANT Inputs <- MCInputs
SPECIFICATION Spec
\* One section is parsed per behaviour; the parse stops when new_table has
\* the PIDs or the processor panicked.
CHECK_DEADLOCK FALSE
INVARIANT TypeOK PatProgramsAsSpecified PmtStreamsAsSpecified
