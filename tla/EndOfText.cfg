SPECIFICATION FairSpec
CONSTANTS
  Modulus <- MCModulus
  NumRegs = 4
  MemoryState <- MCMemoryState
  ALU <- MCALU
  Access <- MCAccess
  Load <- MCLoad
  Store <- MCStore
  LowByte <- MCLowByte
  Pipelining = TRUE
  TestMode = TRUE
  Programs <- NoEndMarker
  Entry = 16
  InitialRegisters <- MCInitialRegisters
  InitialMemory <- MCInitialMemory
  MaxCycles = 18
  TextLength = 2
INVARIANT CleanStopDrained
CHECK_DEADLOCK FALSE
