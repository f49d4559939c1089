----------------------------- MODULE MCPcmFifo ------------------------------
(* PcmFifo on a ring of three bytes, with frames of one, two and four bytes   *)
(* and a count that wraps just above the ring.                               *)
EXTENDS PcmFifo
=============================================================================
