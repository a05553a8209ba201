CONSTANTS
  Strs = {s1, s2}
  Bufs = {b1, b2}
  Chars = {A, B}
  NUL = NUL
  NullPtr = NullPtr
  SSO_CAPACITY <- MC_SSO_CAPACITY
  MaxAlloc <- MC_MaxAlloc
  MaxInput <- MC_MaxInput
  SizeBits <- MC_SizeBits

SPECIFICATION Spec

INVARIANT TypeOK
INVARIANT OwnershipExclusive
INVARIANT StorageWellFormed

PROPERTY ContractSpec
SYMMETRY Symm
VIEW StorageView
