----------------------------- MODULE MC_WString -----------------------------
(***************************************************************************)
(* Model-checking instance of WString: two Strings, two heap blocks, two  *)
(* byte values, an SSO capacity of one byte, allocations of up to three    *)
(* bytes of content and C-string inputs of up to two bytes, so that every  *)
(* mode change (null -> SSO -> heap, realloc in place and to a new block)  *)
(* happens.  size_t is 3 bits wide so that SIZE_MAX arithmetic in remove() *)
(* wraps within the model.                                                 *)
(***************************************************************************)
EXTENDS WString, TLC

MC_SSO_CAPACITY == 1
MC_MaxAlloc     == 3
MC_MaxInput     == 2
MC_SizeBits     == 3

\* The value of each String as the API shows it.
AbsVal == [s \in Strs |-> IF IsNull(Cur(s)) THEN NullPtr ELSE Content(Cur(s))]

Contract == INSTANCE StringContract WITH val <- AbsVal, Null <- NullPtr

(* WString implements StringContract: each call changes only the Strings  *)
(* it names, as the API documents, and leaves everything as it was when it *)
(* reports an allocation failure.                                          *)
ContractSpec == Contract!Spec

\* The call record op is a history variable: no step reads op, so states
\* that differ only in it have the same futures.  ContractSpec is checked
\* on every transition TLC generates, before states are merged.
StorageView == <<sset, sso, ptr, heap, held>>

Symm == Permutations(Strs) \cup Permutations(Bufs) \cup Permutations(Chars)
=============================================================================
