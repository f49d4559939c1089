------------------------------ MODULE MCXFifo -------------------------------
(* XFifo on a small ring: every fill level at every position of the indices,*)
(* with values that tell neighbouring bytes apart.                          *)
EXTENDS XFifo
=============================================================================
