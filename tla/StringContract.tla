--------------------------- MODULE StringContract ---------------------------
(***************************************************************************)
(* What a Sming String promises to the code that uses it, with the storage *)
(* representation abstracted away.  Each String object is either Null     *)
(* (invalid, "if (s)" is false) or a sequence of bytes.  The variable op    *)
(* records the last call made on the String API, its arguments and its     *)
(* result.  Every step is one of the calls below and changes no String     *)
(* other than the ones the call names: this is the independence of copies  *)
(* (spec I6) and the all-or-nothing rule under allocation failure (spec     *)
(* section 7).  WString implements this specification.                   *)
(***************************************************************************)
EXTENDS Naturals, Sequences
LOCAL INSTANCE StringOps

CONSTANTS
  Strs,   \* the String objects
  Null    \* the value of an invalid String

VARIABLES
  val,    \* val[s]: Null, or the content of String s
  op      \* the last call: [name, s, t, arg, ret]

vars == <<val, op>>

\* Content as read through c_str(): a null String reads as "".
Str(v) == IF v = Null THEN <<>> ELSE v

\* Only String s changes, and it becomes v.
Set(s, v) == val' = [val EXCEPT ![s] = v]

Called(name) == op'.name = name

(* reserve(): on success a Null String becomes "" and content is kept.     *)
ReserveOp ==
  /\ Called("reserve")
  /\ IF op'.ret THEN Set(op'.s, Str(val[op'.s])) ELSE UNCHANGED val

(* setLength(n): the first min(n, length) bytes are kept and the rest are  *)
(* undefined; on failure nothing changes.                                  *)
SetLengthOp ==
  LET s    == op'.s
      n    == op'.arg
      keep == IF n < Len(Str(val[s])) THEN n ELSE Len(Str(val[s]))
  IN  /\ Called("setLength")
      /\ IF op'.ret
           THEN /\ val'[s] # Null
                /\ Len(val'[s]) = n
                /\ SubSeq(val'[s], 1, keep) = SubSeq(Str(val[s]), 1, keep)
                /\ \A x \in Strs \ {s} : val'[x] = val[x]
           ELSE UNCHANGED val

(* s = cstr: a null pointer or a failed allocation leaves s invalid.       *)
AssignOp ==
  /\ Called("assign")
  /\ Set(op'.s, IF op'.arg # Null /\ op'.ret THEN op'.arg ELSE Null)

(* s = t (copy): a deep copy of t, or Null if t is Null or allocation     *)
(* fails.                                                                  *)
CopyOp ==
  /\ Called("copy")
  /\ Set(op'.s, IF op'.ret THEN val[op'.t] ELSE Null)

(* s = std::move(t): s takes t's value and t becomes Null; moving a String *)
(* onto itself changes nothing.                                            *)
MoveOp ==
  /\ Called("move")
  /\ IF op'.s = op'.t
       THEN UNCHANGED val
       ELSE val' = [val EXCEPT ![op'.s] = val[op'.t], ![op'.t] = Null]

(* concat(arg): on success arg is appended; on failure s is unchanged.     *)
(* A null or invalid argument is unsuccessful (WString.h line 312);       *)
(* appending nothing succeeds and leaves s as it was, Null included.       *)
ConcatOp ==
  /\ Called("concat")
  /\ op'.arg = Null => ~op'.ret
  /\ IF op'.ret /\ op'.arg # <<>>
       THEN Set(op'.s, Str(val[op'.s]) \o op'.arg)
       ELSE UNCHANGED val

(* The destructor, and invalidate(), leave the String Null.                *)
InvalidateOp ==
  /\ Called("invalidate")
  /\ Set(op'.s, Null)

(* setCharAt(i, c) writes byte i when it exists and is a no-op otherwise.  *)
SetCharAtOp ==
  LET s == op'.s
      i == op'.arg[1]
  IN  /\ Called("setCharAt")
      /\ IF i < Len(Str(val[s]))
           THEN Set(s, [val[s] EXCEPT ![i + 1] = op'.arg[2]])
           ELSE UNCHANGED val

(* remove(index, count) deletes [index, index + count) clamped to the      *)
(* content.                                                                *)
RemoveOp ==
  LET s     == op'.s
      v     == Str(val[s])
      index == op'.arg[1]
      stop  == IF op'.arg[2] > Len(v) - index THEN Len(v) ELSE index + op'.arg[2]
  IN  /\ Called("remove")
      /\ IF index < Len(v)
           THEN Set(s, SubSeq(v, 1, index) \o SubSeq(v, stop + 1, Len(v)))
           ELSE UNCHANGED val

(* replace(find, replace) replaces every occurrence, scanning left to     *)
(* right, or on failure leaves s as it was; a Null String stays Null.      *)
ReplaceOp ==
  /\ Called("replace")
  /\ IF op'.ret /\ val[op'.s] # Null
       THEN Set(op'.s, replace(val[op'.s], op'.arg[1], op'.arg[2]))
       ELSE UNCHANGED val

(* replace(find, c) and trim(set) rewrite a valid String's bytes in place. *)
ReplaceCharOp ==
  /\ Called("replaceChar")
  /\ IF val[op'.s] # Null
       THEN Set(op'.s, replaceChar(val[op'.s], op'.arg[1], op'.arg[2]))
       ELSE UNCHANGED val

TrimOp ==
  /\ Called("trim")
  /\ IF val[op'.s] # Null
       THEN Set(op'.s, trim(val[op'.s], op'.arg))
       ELSE UNCHANGED val

(* getBuffer() hands the content to the caller and leaves s Null.          *)
GetBufferOp ==
  /\ Called("getBuffer")
  /\ op'.ret \in {Null} \cup (IF val[op'.s] = Null THEN {} ELSE {val[op'.s]})
  /\ Set(op'.s, Null)

(* setBuffer() makes the caller's content the value of s.                  *)
SetBufferOp ==
  /\ Called("setBuffer")
  /\ Set(op'.s, op'.arg)

(* Allocations and frees the application makes itself touch no String.    *)
ExternalOp ==
  /\ Called("external")
  /\ UNCHANGED val

Init ==
  /\ val = [s \in Strs |-> Null]
  /\ op.name = "init"

Next ==
  \/ ReserveOp \/ SetLengthOp \/ AssignOp \/ CopyOp \/ MoveOp \/ ConcatOp
  \/ InvalidateOp \/ SetCharAtOp \/ RemoveOp \/ GetBufferOp \/ SetBufferOp
  \/ ReplaceOp \/ ReplaceCharOp \/ TrimOp \/ ExternalOp

Spec == Init /\ [][Next]_vars
=============================================================================
