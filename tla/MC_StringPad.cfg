CONSTANTS
  Lengths <- MC_Lengths
  Widths <- MC_Widths
SPECIFICATION Spec
INVARIANT PadsOnDocumentedSide
