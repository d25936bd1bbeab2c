SPECIFICATION Spec
CONSTANTS
  Width = 8
  OperandsA <- MCOperandsA
  OperandsB <- MCOperandsB
INVARIANT ComputesReference
