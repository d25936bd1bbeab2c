SPECIFICATION Spec
CONSTANT Assembly <- MCAssembly
INVARIANT ShiftsAreSupported
\* One word is decoded.
CHECK_DEADLOCK FALSE
