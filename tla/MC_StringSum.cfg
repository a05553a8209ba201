CONSTANTS
  Strs = {o1, o2, o3, h, res}
  Bufs = {b1, b2, b3, b4, b5}
  Chars = {A, B}
  NUL = NUL
  NullPtr = NullPtr
  o1 = o1
  o2 = o2
  o3 = o3
  Helper = h
  Result = res
  SSO_CAPACITY <- MC_SSO_CAPACITY
  MaxAlloc <- MC_MaxAlloc
  MaxInput <- MC_MaxInput
  SizeBits <- MC_SizeBits
  Operands <- MC_Operands

SPECIFICATION SumSpec

INVARIANT ChainDropsWholeOperands

SYMMETRY Symm

\* The evaluation of the expression ends: the last state is terminal.
CHECK_DEADLOCK FALSE
