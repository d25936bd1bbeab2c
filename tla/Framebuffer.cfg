SPECIFICATION Spec
CONSTANTS
  control_base = 0
  framebuffer_base = 32
  Byte = {0, 1}
  Color = {0, 1}
  ControlValues <- MCControlValues
  Accesses <- MCAccesses
  MinFreq = 1
  MaxFreq = 2
  FreqStep = 2
  InitialFreq = 1
  MaxKeys = 2
INVARIANTS TypeOK WindowConsistent ShownIsCurrent
PROPERTIES ChangesAreShown QuitCloses
\* The emulator ends.
CHECK_DEADLOCK FALSE
