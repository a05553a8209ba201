----------------------------- MODULE StringSum -----------------------------
(***************************************************************************)
(* A chained sum  String tmp = String(x1) + String(x2) + ... + String(xn)  *)
(* evaluated with the String operations of WString.  WString.h declares    *)
(* the pieces (lines 382-392 and 878-921) and its header comment (lines   *)
(* 29-45) says what they do when an allocation fails:                      *)
(*   - each operand String(xi) is a temporary built from a C string, and   *)
(*     is invalid if its allocation fails;                                 *)
(*   - the first is converted to a StringSumHelper by copy construction,   *)
(*     StringSumHelper(const String&) : String(s);                         *)
(*   - each operator+(const StringSumHelper&, const String&) appends the   *)
(*     next operand to that same helper, concat(rhs.cbuffer(),             *)
(*     rhs.length()), and returns it;                                      *)
(*   - tmp is copy-constructed from the helper; the temporaries are        *)
(*     destroyed at the end of the full expression, helper first.          *)
(* The evaluation is a fixed program of WString calls; allocation failure  *)
(* may happen at each of them.                                             *)
(***************************************************************************)
EXTENDS WString

LOCAL INSTANCE SequencesExt

CONSTANTS
  Operands,   \* the operand temporaries, in source order (a sequence of Strs)
  Helper,     \* the StringSumHelper temporary
  Result      \* the String initialised from the sum

VARIABLES
  terms,      \* the C strings x1 .. xn
  prog        \* the calls of the expression still to run

sumVars == <<vars, terms, prog>>

N == Len(Operands)

Do(call, i) == [call |-> call, i |-> i]

\* Evaluation order: operand 1, the helper, then each further operand and
\* the operator+ that consumes it, the initialisation of Result, and the
\* destruction of the temporaries in reverse order of construction.
Program ==
  <<Do("operand", 1), Do("helper", 1)>>
  \o FlattenSeq([k \in 1 .. N - 1 |-> <<Do("operand", k + 1), Do("plus", k + 1)>>])
  \o <<Do("result", 0), Do("destroyHelper", 0)>>
  \o [k \in 1 .. N |-> Do("destroyOperand", N + 1 - k)]

SumInit ==
  /\ Init
  /\ terms \in [1 .. N -> Inputs]
  /\ prog = Program

\* Run the next call of the expression.
Step(call, A) ==
  /\ prog # <<>>
  /\ Head(prog).call = call
  /\ A
  /\ prog' = Tail(prog)
  /\ UNCHANGED terms

\* String(xi): construct operand i from its C string.
MakeOperand == Step("operand", AssignCStr(Operands[Head(prog).i], terms[Head(prog).i]))

\* StringSumHelper(const String& s) : String(s).
MakeHelper == Step("helper", AssignString(Helper, Operands[1]))

\* operator+(lhs, rhs): lhs.concat(rhs.cbuffer(), rhs.length()); return lhs.
Plus == Step("plus", ConcatString(Helper, Operands[Head(prog).i]))

\* String tmp = <the helper>: copy construction.
InitResult == Step("result", AssignString(Result, Helper))

DestroyHelper  == Step("destroyHelper", Destroy(Helper))
DestroyOperand == Step("destroyOperand", Destroy(Operands[Head(prog).i]))

SumNext ==
  \/ MakeOperand \/ MakeHelper \/ Plus \/ InitResult
  \/ DestroyHelper \/ DestroyOperand

SumSpec == SumInit /\ [][SumNext]_sumVars

-----------------------------------------------------------------------------

Done == prog = <<>>

\* x1 .. xn with the operands outside kept replaced by "".
Kept(kept) == FlattenSeq([k \in 1 .. N |-> IF k \in kept THEN terms[k] ELSE <<>>])

\* The value of Result as the API shows it.
ResultValue == IF IsNull(Cur(Result)) THEN NullPtr ELSE Content(Cur(Result))

(* The contract spec.md asks of a chained sum: all or nothing, so tmp is   *)
(* either invalid or the whole left-to-right concatenation.                *)
ChainAllOrNothing ==
  Done => ResultValue \in {NullPtr, FlattenSeq(terms)}

(* What a sum does guarantee when allocations fail: tmp is invalid, or it  *)
(* is the concatenation of some of the operands, each whole and in source  *)
(* order.  A failed operand or append drops that operand, never part of  *)
(* it, and never corrupts or repeats what was already accumulated.         *)
ChainDropsWholeOperands ==
  Done => ResultValue \in {NullPtr} \cup {Kept(kept) : kept \in SUBSET (1 .. N)}
=============================================================================
