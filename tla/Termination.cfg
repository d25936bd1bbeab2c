SPECIFICATION FairSpec
CONSTANTS
  Modulus <- MCModulus
  NumRegs = 4
  MemoryState <- MCMemoryState
  ALU <- MCALU
  Access <- MCAccess
  Load <- MCLoad
  Store <- MCStore
  LowByte <- MCLowByte
  Pipelining = TRUE
  TestMode = TRUE
  Programs <- ForwardPrograms
  Entry = 16
  InitialRegisters <- MCInitialRegisters
  InitialMemory <- MCInitialMemory
  MaxCycles = 24
  TextLength = 8
INVARIANT FaultIsOnPath
PROPERTIES FollowsHartToTheFault Terminates
CHECK_DEADLOCK FALSE
