------------------------------- MODULE MCQueue -------------------------------
(* Instances of MpscDoubleBufferQueue for TLC. *)
EXTENDS MpscDoubleBufferQueue

CONSTANTS p1, p2
=============================================================================
