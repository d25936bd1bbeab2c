SPECIFICATION Spec
CONSTANTS
  Modulus <- MCModulus
  NumRegs = 4
  MemoryState <- MCMemoryState
  ALU <- MCALU
  Access <- MCAccess
  Load <- MCLoad
  Store <- MCStore
  LowByte <- MCLowByte
  Pipelining = FALSE
  TestMode = TRUE
  Programs <- FaultyPrograms
  Entry = 16
  InitialRegisters <- MCInitialRegisters
  InitialMemory <- MCInitialMemory
  MaxCycles = 30
  TextLength = 4
INVARIANTS TypeOK InstructionsConserved
PROPERTY ImplementsHart
CHECK_DEADLOCK FALSE
