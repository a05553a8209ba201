------------------------------- MODULE WString -------------------------------
(***************************************************************************)
(* The storage of the Sming String class (Sming/Wiring/WString.h): the     *)
(* union of the heap descriptor PtrBuf {buffer, len, capacity} and the      *)
(* small-string buffer SsoBuf {buffer, len, set}, the heap blocks behind    *)
(* it, and the buffers the application owns after getBuffer().             *)
(*                                                                         *)
(* A byte buffer is modelled by the bytes 0 .. len of the String that uses *)
(* it: the content followed by the byte at index len, which must be the    *)
(* NUL terminator.  Bytes past it are never read by a correct String and   *)
(* are not modelled.  An operation is a function from the storage of one   *)
(* String (a record r, with the whole heap) to the set of its possible     *)
(* results: allocation may fail at any request, and r.ok is the result the *)
(* call reports.                                                           *)
(***************************************************************************)
EXTENDS Naturals, Sequences, FiniteSets
LOCAL INSTANCE SequencesExt
LOCAL INSTANCE StringOps

CONSTANTS
  Strs,          \* the String objects of the program
  Bufs,          \* the heap blocks malloc can return
  Chars,         \* byte values other than NUL
  NUL,           \* the terminator byte '\0'
  NullPtr,       \* nullptr
  SSO_CAPACITY,  \* String::SSO_CAPACITY (STRING_OBJECT_SIZE - 2)
  MaxAlloc,      \* largest content a heap block holds; larger requests fail
  MaxInput,      \* longest C string the program passes in
  SizeBits       \* width of size_t

ASSUME SSO_CAPACITY \in Nat /\ MaxAlloc > SSO_CAPACITY /\ SizeBits \in Nat

SIZE_MAX == 2^SizeBits - 1
Byte     == Chars \cup {NUL}
Inputs   == BoundedSeq(Chars, MaxInput)

VARIABLES
  sset,   \* sset[s]: sso.set, the String is in small-string mode
  sso,    \* sso[s]: bytes 0 .. sso.len of sso.buffer
  ptr,    \* ptr[s]: the PtrBuf [buffer, len, capacity]
  heap,   \* heap[b]: [size, data] of a block; size 0 when the block is free
  held,   \* blocks owned by the application (getBuffer, its own malloc)
  op      \* the last API call, for the refinement of StringContract

vars == <<sset, sso, ptr, heap, held, op>>

NullRec   == [buffer |-> NullPtr, len |-> 0, capacity |-> 0]
FreeBlock == [size |-> 0, data |-> <<>>]
FreeBlocks(h) == {b \in Bufs : h[b].size = 0}

-----------------------------------------------------------------------------
(* Accessors of one String's storage r (WString.h lines 238-241, 836-872). *)

Cur(s) == [ok |-> TRUE, sset |-> sset[s], sso |-> sso[s], ptr |-> ptr[s], heap |-> heap]

IsNull(r)   == ~r.sset /\ r.ptr.buffer = NullPtr
Length(r)   == IF r.sset THEN Len(r.sso) - 1 ELSE r.ptr.len
Capacity(r) == IF r.sset THEN SSO_CAPACITY ELSE r.ptr.capacity
CBuffer(r)  == IF r.sset THEN r.sso
               ELSE IF r.ptr.buffer = NullPtr THEN <<>>
               ELSE r.heap[r.ptr.buffer].data
Content(r)  == SubSeq(CBuffer(r), 1, Length(r))

\* Replace the bytes of r's current buffer.
Store(r, bytes) ==
  IF r.sset THEN [r EXCEPT !.sso = bytes]
  ELSE [r EXCEPT !.heap[r.ptr.buffer].data = bytes]

\* memcpy(buffer() + off, xs, Len(xs))
WriteAt(bytes, off, xs) ==
  [i \in 1 .. (IF off + Len(xs) > Len(bytes) THEN off + Len(xs) ELSE Len(bytes)) |->
     IF off < i /\ i <= off + Len(xs) THEN xs[i - off] ELSE bytes[i]]

Write(r, off, xs) == Store(r, WriteAt(CBuffer(r), off, xs))

\* setlen() with the terminator write dropped.
SetLenNoNul(r, len) ==
  LET old == CBuffer(r)
      b   == IF len < Len(old) THEN SubSeq(old, 1, len + 1)
             ELSE old \o <<CHOOSE c \in Chars : TRUE>>
  IN  IF r.sset THEN [r EXCEPT !.sso = b]
      ELSE IF r.ptr.buffer = NullPtr THEN [r EXCEPT !.ptr.len = len]
      ELSE [r EXCEPT !.ptr.len = len, !.heap[r.ptr.buffer].data = b]

\* setlen(len): set the length of the active mode and write the NUL.
SetLen(r, len) ==
  LET b == SubSeq(CBuffer(r), 1, len) \o <<NUL>>
  IN  IF r.sset THEN [r EXCEPT !.sso = b]
      ELSE IF r.ptr.buffer = NullPtr THEN [r EXCEPT !.ptr.len = len]
      ELSE [r EXCEPT !.ptr.len = len, !.heap[r.ptr.buffer].data = b]

\* invalidate() that resets the String but does not free its heap block.
InvalidateNoFree(r) ==
  [r EXCEPT !.sset = FALSE, !.sso = <<>>, !.ptr = NullRec]

\* invalidate(): free any heap block and go to non-SSO mode with nullptr.
Invalidate(r) ==
  [r EXCEPT !.sset = FALSE, !.sso = <<>>, !.ptr = NullRec,
            !.heap = IF IsNull(r) \/ r.sset THEN @
                     ELSE [@ EXCEPT ![r.ptr.buffer] = FreeBlock]]

-----------------------------------------------------------------------------
(* Allocation policy: reserve(size) (WString.h lines 218-226).             *)

Fail(r) == [r EXCEPT !.ok = FALSE]

\* A new heap block nb of capacity n holding the current bytes.
ToHeap(r, n, nb) ==
  [r EXCEPT !.sset = FALSE, !.sso = <<>>,
            !.ptr  = [buffer |-> nb, len |-> Length(r), capacity |-> n],
            !.heap[nb] = [size |-> n + 1,
                          data |-> IF IsNull(r) THEN <<NUL>> ELSE CBuffer(r)]]

\* realloc() of the heap block to capacity n: in place, or moved to nb.
Realloc(r, n) ==
  LET b == r.ptr.buffer IN
  {[r EXCEPT !.ptr.capacity = n, !.heap[b].size = n + 1]} \cup
  {[r EXCEPT !.ptr.buffer = nb, !.ptr.capacity = n,
             !.heap = [@ EXCEPT ![nb] = [size |-> n + 1, data |-> r.heap[b].data],
                                ![b]  = FreeBlock]] : nb \in FreeBlocks(r.heap)}

\* reserve() whose switch from SSO to the heap does not copy the SSO bytes.
ReserveNoSsoCopy(r, n) ==
  IF ~IsNull(r) /\ n <= Capacity(r) THEN {r}
  ELSE IF IsNull(r) /\ n <= SSO_CAPACITY
    THEN {[r EXCEPT !.sset = TRUE, !.sso = <<NUL>>]}
  ELSE {Fail(r)} \cup
       IF n > MaxAlloc THEN {}
       ELSE IF r.sset \/ IsNull(r)
         THEN {[ToHeap(r, n, nb) EXCEPT !.heap[nb].data = [i \in 1 .. Length(r) + 1 |-> NUL]] :
                 nb \in FreeBlocks(r.heap)}
       ELSE Realloc(r, n)

Reserve(r, n) ==
  IF ~IsNull(r) /\ n <= Capacity(r) THEN {r}
  ELSE IF IsNull(r) /\ n <= SSO_CAPACITY
    THEN {[r EXCEPT !.sset = TRUE, !.sso = <<NUL>>]}
  ELSE {Fail(r)} \cup
       IF n > MaxAlloc THEN {}
       ELSE IF r.sset \/ IsNull(r) THEN {ToHeap(r, n, nb) : nb \in FreeBlocks(r.heap)}
       ELSE Realloc(r, n)

-----------------------------------------------------------------------------
(* Operations on one String, as sets of outcomes.                          *)

\* copy(cstr, length): on allocation failure the String is invalidated.
Copy(r, xs) ==
  {IF q.ok THEN SetLen(Write(q, 0, xs), Len(xs)) ELSE Invalidate(q) :
     q \in Reserve(r, Len(xs))}

\* concat(cstr, length): all or nothing; a null argument (nullptr, or the
\* cbuffer() of an invalid String) fails; appending nothing succeeds.
Concat(r, xs) ==
  IF xs = NullPtr THEN {Fail(r)}
  ELSE IF xs = <<>> THEN {r}
  ELSE {IF q.ok THEN SetLen(Write(q, Length(r), xs), Length(r) + Len(xs)) ELSE q :
          q \in Reserve(r, Length(r) + Len(xs))}

\* remove(): the count clamped with index + count computed in size_t.
RemoveCountWrapped(len, index, count) ==
  IF (index + count) % (SIZE_MAX + 1) > len THEN len - index ELSE count

\* remove(): the number of bytes actually removed.
RemoveCount(len, index, count) ==
  IF count > len - index THEN len - index ELSE count

RemoveBytes(r, index, count) ==
  LET len == Length(r)
      n   == RemoveCount(len, index, count)
      b   == CBuffer(r)
  IN  IF index >= len THEN r
      ELSE SetLen(Store(r, SubSeq(b, 1, index) \o SubSeq(b, index + n + 1, Len(b))),
                  len - n)

\* replace(find, replace): grows through reserve(), all or nothing; when
\* the result is no longer it is written in place.
ReplaceBytes(r, f, x) ==
  LET w == replace(Content(r), f, x) IN
  IF Len(w) > Length(r)
    THEN {IF q.ok THEN SetLen(Write(q, 0, w), Len(w)) ELSE q : q \in Reserve(r, Len(w))}
  ELSE IF IsNull(r) THEN {r}
  ELSE {SetLen(Write(r, 0, w), Len(w))}

\* Rewrite the content of a valid String in place as w, Len(w) <= length().
InPlace(r, w) == IF IsNull(r) THEN r ELSE SetLen(Write(r, 0, w), Len(w))

-----------------------------------------------------------------------------
(* Actions: one per String API call.                                       *)

Commit(s, r) ==
  /\ sset' = [sset EXCEPT ![s] = r.sset]
  /\ sso'  = [sso  EXCEPT ![s] = r.sso]
  /\ ptr'  = [ptr  EXCEPT ![s] = r.ptr]
  /\ heap' = r.heap

Called(name, s, t, arg, ret) ==
  op' = [name |-> name, s |-> s, t |-> t, arg |-> arg, ret |-> ret]

DoReserve(s, n) ==
  /\ \E q \in Reserve(Cur(s), n) :
       Commit(s, q) /\ Called("reserve", s, s, n, q.ok)
  /\ UNCHANGED held

\* setLength(n): reserve(n), then setlen(n); new bytes are undefined.
SetLength(s, n) ==
  /\ \E q \in Reserve(Cur(s), n) :
       IF q.ok
         THEN \E fill \in [1 .. (n - Length(q)) -> Byte] :
                /\ Commit(s, SetLen(Write(q, Length(q), fill), n))
                /\ Called("setLength", s, s, n, TRUE)
         ELSE Commit(s, q) /\ Called("setLength", s, s, n, FALSE)
  /\ UNCHANGED held

\* s = cstr, String(cstr): a nullptr leaves s invalid.
AssignCStr(s, x) ==
  /\ IF x = NullPtr
       THEN Commit(s, Invalidate(Cur(s))) /\ Called("assign", s, s, x, TRUE)
       ELSE \E q \in Copy(Cur(s), x) :
              Commit(s, q) /\ Called("assign", s, s, x, q.ok)
  /\ UNCHANGED held

\* operator=(const String& rhs): copy rhs's bytes, or invalidate if rhs is null.
\* Its body is in WString.cpp, so s = s is the same copy of s's own bytes,
\* read as a value before the reserve.
AssignString(s, t) ==
  /\ IF IsNull(Cur(t))
       THEN Commit(s, Invalidate(Cur(s))) /\ Called("copy", s, t, NullPtr, FALSE)
       ELSE \E q \in Copy(Cur(s), Content(Cur(t))) :
              Commit(s, q) /\ Called("copy", s, t, NullPtr, q.ok)
  /\ UNCHANGED held

\* move(rhs) with the destination's own block not released.
MoveKeepBlock(s, t) ==
  /\ sset' = [sset EXCEPT ![s] = sset[t], ![t] = FALSE]
  /\ sso'  = [sso  EXCEPT ![s] = sso[t],  ![t] = <<>>]
  /\ ptr'  = [ptr  EXCEPT ![s] = ptr[t],  ![t] = NullRec]
  /\ UNCHANGED heap

\* move(rhs): release s's storage, take rhs's bits verbatim, reset rhs to null.
Move(s, t) ==
  /\ sset' = [sset EXCEPT ![s] = sset[t], ![t] = FALSE]
  /\ sso'  = [sso  EXCEPT ![s] = sso[t],  ![t] = <<>>]
  /\ ptr'  = [ptr  EXCEPT ![s] = ptr[t],  ![t] = NullRec]
  /\ heap' = Invalidate(Cur(s)).heap

\* operator=(String&& rval) without the self-assignment test.
MoveAssignUnguarded(s, t) ==
  /\ Move(s, t)
  /\ Called("move", s, t, NullPtr, TRUE)
  /\ UNCHANGED held

\* operator=(String&& rval): if(this != &rval) move(rval).
MoveAssign(s, t) ==
  /\ IF s # t THEN Move(s, t) ELSE UNCHANGED <<sset, sso, ptr, heap>>
  /\ Called("move", s, t, NullPtr, TRUE)
  /\ UNCHANGED held

ConcatCStr(s, x) ==
  /\ \E q \in Concat(Cur(s), x) :
       Commit(s, q) /\ Called("concat", s, s, x, q.ok)
  /\ UNCHANGED held

\* concat(const String& str): concat(str.cbuffer(), str.length()); str may be s.
ConcatString(s, t) ==
  LET xs == IF IsNull(Cur(t)) THEN NullPtr ELSE Content(Cur(t)) IN
  /\ \E q \in Concat(Cur(s), xs) :
       Commit(s, q) /\ Called("concat", s, t, xs, q.ok)
  /\ UNCHANGED held

\* ~String(): invalidate().
Destroy(s) ==
  /\ Commit(s, Invalidate(Cur(s)))
  /\ Called("invalidate", s, s, NullPtr, TRUE)
  /\ UNCHANGED held

\* setCharAt(index, c): ignored when index is out of range.
SetCharAt(s, i, c) ==
  /\ IF i < Length(Cur(s)) THEN Commit(s, Write(Cur(s), i, <<c>>))
                            ELSE UNCHANGED <<sset, sso, ptr, heap>>
  /\ Called("setCharAt", s, s, <<i, c>>, TRUE)
  /\ UNCHANGED held

\* remove(index, count); remove(index) passes SIZE_MAX as count.
DoRemove(s, index, count) ==
  /\ Commit(s, RemoveBytes(Cur(s), index, count))
  /\ Called("remove", s, s, <<index, count>>, TRUE)
  /\ UNCHANGED held

\* replace(find, replace): returns false, s unchanged, if it must grow and
\* the allocation fails.
DoReplace(s, f, x) ==
  /\ \E q \in ReplaceBytes(Cur(s), f, x) :
       Commit(s, q) /\ Called("replace", s, s, <<f, x>>, q.ok)
  /\ UNCHANGED held

\* replace(char find, char replace): in place, always succeeds.
DoReplaceChar(s, f, c) ==
  /\ Commit(s, InPlace(Cur(s), replaceChar(Content(Cur(s)), f, c)))
  /\ Called("replaceChar", s, s, <<f, c>>, TRUE)
  /\ UNCHANGED held

\* trim(set): in place, never reallocates.
DoTrim(s, set) ==
  /\ Commit(s, InPlace(Cur(s), trim(Content(Cur(s)), set)))
  /\ Called("trim", s, s, set, TRUE)
  /\ UNCHANGED held

\* setBuffer(buffer): s takes ownership of the application's block b, whose
\* first Len(x) bytes hold x; a NUL is written at index Len(x) < size.
SetBuffer(s, b, x) ==
  LET r == Invalidate(Cur(s)) IN
  /\ b \in held
  /\ Len(x) < heap[b].size
  /\ Commit(s, [r EXCEPT !.ptr = [buffer |-> b, len |-> Len(x), capacity |-> heap[b].size - 1],
                          !.heap[b].data = x \o <<NUL>>])
  /\ held' = held \ {b}
  /\ Called("setBuffer", s, s, x, TRUE)

\* getBuffer(): the application takes the block and s is invalidated; an
\* SSO String's bytes are first copied into a new block.
GetBuffer(s) ==
  LET r == Cur(s) IN
  \/ /\ IsNull(r)
     /\ UNCHANGED <<sset, sso, ptr, heap, held>>
     /\ Called("getBuffer", s, s, NullPtr, NullPtr)
  \/ /\ ~r.sset /\ ~IsNull(r)
     /\ Commit(s, [r EXCEPT !.ptr = NullRec])
     /\ held' = held \cup {r.ptr.buffer}
     /\ Called("getBuffer", s, s, NullPtr, Content(r))
  \/ /\ r.sset
     /\ \/ \E nb \in FreeBlocks(heap) :
             /\ Commit(s, [Invalidate(r) EXCEPT
                            !.heap[nb] = [size |-> Length(r) + 1, data |-> r.sso]])
             /\ held' = held \cup {nb}
             /\ Called("getBuffer", s, s, NullPtr, Content(r))
        \/ /\ Commit(s, Invalidate(r))
           /\ UNCHANGED held
           /\ Called("getBuffer", s, s, NullPtr, NullPtr)

\* The application mallocs a block of n bytes, or frees one it owns.
AppMalloc(b, n) ==
  /\ heap[b].size = 0
  /\ heap' = [heap EXCEPT ![b] = [size |-> n, data |-> <<>>]]
  /\ held' = held \cup {b}
  /\ UNCHANGED <<sset, sso, ptr>>
  /\ Called("external", NullPtr, NullPtr, NullPtr, TRUE)

AppFree(b) ==
  /\ b \in held
  /\ heap' = [heap EXCEPT ![b] = FreeBlock]
  /\ held' = held \ {b}
  /\ UNCHANGED <<sset, sso, ptr>>
  /\ Called("external", NullPtr, NullPtr, NullPtr, TRUE)

-----------------------------------------------------------------------------

\* String(): every String starts null (ptr{nullptr, 0, 0}).
Init ==
  /\ sset = [s \in Strs |-> FALSE]
  /\ sso  = [s \in Strs |-> <<>>]
  /\ ptr  = [s \in Strs |-> NullRec]
  /\ heap = [b \in Bufs |-> FreeBlock]
  /\ held = {}
  /\ op   = [name |-> "init", s |-> NullPtr, t |-> NullPtr, arg |-> NullPtr, ret |-> TRUE]

Next ==
  \/ \E s \in Strs, n \in 0 .. MaxAlloc + 1 : DoReserve(s, n) \/ SetLength(s, n)
  \/ \E s \in Strs, x \in Inputs \cup {NullPtr} : AssignCStr(s, x)
  \/ \E s \in Strs, x \in Inputs \cup {NullPtr} : ConcatCStr(s, x)
  \/ \E s, t \in Strs : AssignString(s, t) \/ MoveAssign(s, t) \/ ConcatString(s, t)
  \/ \E s \in Strs : Destroy(s) \/ GetBuffer(s)
  \/ \E s \in Strs, i \in 0 .. MaxAlloc, c \in Chars : SetCharAt(s, i, c)
  \/ \E s \in Strs, i \in 0 .. MaxAlloc, n \in {1, SIZE_MAX} : DoRemove(s, i, n)
  \/ \E s \in Strs, f, x \in Inputs : DoReplace(s, f, x)
  \/ \E s \in Strs, f, c \in Chars : DoReplaceChar(s, f, c)
  \/ \E s \in Strs, set \in SUBSET Chars : DoTrim(s, set)
  \/ \E s \in Strs, b \in Bufs, x \in Inputs : SetBuffer(s, b, x)
  \/ \E b \in Bufs, n \in 1 .. MaxAlloc + 1 : AppMalloc(b, n)
  \/ \E b \in Bufs : AppFree(b)

Spec == Init /\ [][Next]_vars

-----------------------------------------------------------------------------
(* Properties.                                                             *)

TypeOK ==
  /\ sset \in [Strs -> BOOLEAN]
  /\ sso  \in [Strs -> BoundedSeq(Byte, SSO_CAPACITY + 1)]
  /\ ptr  \in [Strs -> [buffer : Bufs \cup {NullPtr}, len : 0 .. MaxAlloc,
                         capacity : 0 .. MaxAlloc]]
  /\ heap \in [Bufs -> [size : 0 .. MaxAlloc + 1, data : BoundedSeq(Byte, MaxAlloc + 1)]]
  /\ held \subseteq Bufs

\* The Strings whose heap descriptor points at block b.
Owners(b) == {s \in Strs : ~sset[s] /\ ptr[s].buffer = b}

(* Every heap block in use has exactly one owner, a String in heap mode or *)
(* the application, and no String points at a free block: moves,          *)
(* copies, realloc, getBuffer and setBuffer neither share a block between  *)
(* two owners (a later write through one would change the other) nor lose *)
(* one (a leak).                                                           *)
OwnershipExclusive ==
  \A b \in Bufs :
    Cardinality(Owners(b)) + (IF b \in held THEN 1 ELSE 0)
      = (IF heap[b].size > 0 THEN 1 ELSE 0)

(* The representation invariants after every call (spec I1-I4): a valid  *)
(* String holds its terminator at index length() and length() <=         *)
(* capacity(); a heap block leaves room for capacity + 1 bytes; a null   *)
(* String is exactly ptr{nullptr, 0, 0}.                                 *)
StorageWellFormed ==
  \A s \in Strs :
    LET r == Cur(s) IN
    /\ IsNull(r) => ptr[s] = NullRec
    /\ ~IsNull(r) =>
         /\ Length(r) <= Capacity(r)
         /\ Len(CBuffer(r)) = Length(r) + 1
         /\ CBuffer(r)[Length(r) + 1] = NUL
         /\ ~r.sset => ptr[s].capacity + 1 <= heap[ptr[s].buffer].size

=============================================================================
