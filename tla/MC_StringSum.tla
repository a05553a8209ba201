---------------------------- MODULE MC_StringSum ----------------------------
(***************************************************************************)
(* Model-checking instance of StringSum: a sum of three operands of up to  *)
(* two bytes each over two byte values, an SSO capacity of one byte and    *)
(* allocations of up to three bytes, so that an operand, the helper copy,  *)
(* an append (the helper outgrowing SSO, then outgrowing its block) or the *)
(* final copy can each fail, the sum can exceed what can be allocated,     *)
(* and each String can hold a heap block of its own.                      *)
(***************************************************************************)
EXTENDS StringSum, TLC

MC_SSO_CAPACITY == 1
MC_MaxAlloc     == 3
MC_MaxInput     == 2
MC_SizeBits     == 3

CONSTANTS o1, o2, o3   \* the operand temporaries, as model values

MC_Operands == <<o1, o2, o3>>

Symm == Permutations(Bufs) \cup Permutations(Chars)
=============================================================================
