---------------------------- MODULE MCInterBoard ----------------------------
(* InterBoard with FIFOs of two bytes, so that both overflow.               *)
EXTENDS InterBoard
=============================================================================
