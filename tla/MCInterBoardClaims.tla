------------------------- MODULE MCInterBoardClaims -------------------------
(* InterBoardClaims on FIFOs that hold the whole boot response.             *)
EXTENDS InterBoardClaims
=============================================================================
