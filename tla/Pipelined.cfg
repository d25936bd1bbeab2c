SPECIFICATION Spec
CONSTANTS
  Modulus <- MCModulus
  NumRegs = 4
  MemoryState <- MCMemoryState
  ALU <- MCALU
  Access <- MCAccess
  Load <- MCLoad
  Store <- MCStore
  LowByte <- MCLowByte
  Pipelining = TRUE
  TestMode = TRUE
  Programs <- PaddedPrograms
  Entry = 16
  InitialRegisters <- MCInitialRegisters
  InitialMemory <- MCInitialMemory
  MaxCycles = 18
  TextLength = 8
INVARIANTS TypeOK OperandsAreCurrent InstructionsConserved CleanStopDrained
PROPERTY ImplementsHart
CHECK_DEADLOCK FALSE
