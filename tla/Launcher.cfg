SPECIFICATION Spec
CONSTANTS
  MaxRegs = 8
  NumRegs = 3
  Values = {0, 1, 2}
  Names <- MCNames
  CommandLines <- MCCommandLines
INVARIANTS TypeOK VerdictIsRight RunStartsAsAsked
\* The process ends.
CHECK_DEADLOCK FALSE
