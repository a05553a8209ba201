---------------------------- MODULE MC_StringPad ----------------------------
(* Widths around the int16_t limits of the uint16_t argument.             *)
EXTENDS StringPad

MC_Lengths == {0, 3}
MC_Widths  == {0, 2, 5, 32767, 32768, 32769, 40000, 65535}
=============================================================================
