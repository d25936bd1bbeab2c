CONSTANTS
  ByteSize = 2
  Top = 256
  Files <- MCFiles
  SerialBase = 40
  StatusBase = 48
  Requests <- MCRequests
  MaxAccesses = 3

SPECIFICATION Spec

INVARIANTS TypeOK DisassembledIsFetched

PROPERTY ImplementsFlatMemory

\* The number of accesses is bounded, and a file may be refused.
CHECK_DEADLOCK FALSE
