------------------------------ MODULE StringPad ------------------------------
(***************************************************************************)
(* String::padLeft / padRight (Sming/Wiring/WString.h lines 765-800).     *)
(* Both take a uint16_t minimum width and call pad(int16_t width, c),      *)
(* which pads at the start when width < 0 and at the end otherwise, up to  *)
(* |width| characters.  Content is abstracted to its length: a call's      *)
(* effect is the number of fill characters put before and after it.       *)
(***************************************************************************)
EXTENDS Integers, TLC

CONSTANTS
  Lengths,   \* lengths of the String being padded
  Widths     \* uint16_t minWidth arguments

VARIABLE call   \* the last call: [fn, len, minWidth, left, right]

\* Conversion to int16_t (modular, as GCC defines it).
Int16(x) == ((x + 32768) % 65536) - 32768

\* pad(minWidth, c): fill before (minWidth < 0) or after, up to |minWidth|.
pad(len, minWidth) ==
  LET w    == IF minWidth < 0 THEN -minWidth ELSE minWidth
      fill == IF w > len THEN w - len ELSE 0
  IN  IF minWidth < 0 THEN [left |-> fill, right |-> 0]
                      ELSE [left |-> 0, right |-> fill]

padLeft(len, minWidth)  == pad(len, Int16(-minWidth))
padRight(len, minWidth) == pad(len, Int16(minWidth))

Calls(fn, Op(_, _)) ==
  {[fn |-> fn, len |-> n, minWidth |-> w] @@ Op(n, w) : n \in Lengths, w \in Widths}

Init == call \in Calls("padLeft", padLeft) \cup Calls("padRight", padRight)

\* The application pads a String: String(value).padLeft(10, '.').
PadLeft  == call' \in Calls("padLeft", padLeft)
PadRight == call' \in Calls("padRight", padRight)

Next == PadLeft \/ PadRight

Spec == Init /\ [][Next]_call

(* padLeft(w) puts fill characters only before the content, and          *)
(* padRight(w) only after it, until the String is w characters long, for  *)
(* every uint16_t w the signatures accept.                                 *)
PadsOnDocumentedSide ==
  LET fill == IF call.minWidth > call.len THEN call.minWidth - call.len ELSE 0 IN
  IF call.fn = "padLeft" THEN call.left = fill /\ call.right = 0
                         ELSE call.left = 0 /\ call.right = fill
=============================================================================
