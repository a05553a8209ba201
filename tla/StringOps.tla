----------------------------- MODULE StringOps -----------------------------
(***************************************************************************)
(* The content transformations of the String mutation engine, on the byte  *)
(* sequence a String holds: replace(char, char), replace(find, replace)    *)
(* and trim(set) (WString.h lines 708-763).  Their bodies are in           *)
(* WString.cpp, so they are written as spec.md section 4.4 describes the   *)
(* scans: replace searches left to right and resumes right after each      *)
(* occurrence it replaced, so inserted text is never rescanned; trim drops *)
(* the leading and then the trailing bytes that are in the set.            *)
(***************************************************************************)
EXTENDS Integers, Sequences

\* The first occurrence of f in v at or after offset i, or -1 (memmem).
FindFrom(v, f, i) ==
  LET hits == {j \in i .. Len(v) - Len(f) : SubSeq(v, j + 1, j + Len(f)) = f}
  IN  IF hits = {} THEN -1 ELSE CHOOSE j \in hits : \A k \in hits : j <= k

\* The scan of replace(): copy up to the next occurrence, write the
\* replacement, resume after the occurrence.
RECURSIVE replaceFrom(_, _, _, _)
replaceFrom(v, f, r, i) ==
  LET j == FindFrom(v, f, i) IN
  IF j < 0 THEN SubSeq(v, i + 1, Len(v))
  ELSE SubSeq(v, i + 1, j) \o r \o replaceFrom(v, f, r, j + Len(f))

\* replace(find, replace) on the content; an empty find changes nothing.
replace(v, f, r) == IF Len(f) = 0 THEN v ELSE replaceFrom(v, f, r, 0)

\* replace(char find, char replace): in place, byte by byte.
replaceChar(v, f, c) == [i \in DOMAIN v |-> IF v[i] = f THEN c ELSE v[i]]

RECURSIVE TrimStart(_, _), TrimEnd(_, _)
TrimStart(v, set) == IF v # <<>> /\ Head(v) \in set THEN TrimStart(Tail(v), set) ELSE v
TrimEnd(v, set) ==
  IF v # <<>> /\ v[Len(v)] \in set THEN TrimEnd(SubSeq(v, 1, Len(v) - 1), set) ELSE v

\* trim(set): strip the leading, then the trailing bytes found in set.
trim(v, set) == TrimEnd(TrimStart(v, set), set)
=============================================================================
