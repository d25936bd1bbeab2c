SPECIFICATION Spec
CONSTANT Assembly <- MCAssembly
INVARIANTS DecodesAsEncoded ImmediateFormsAgree PrintsWhatRuns CompressedAsEncoded
\* One word is decoded.
CHECK_DEADLOCK FALSE
