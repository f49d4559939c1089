-------------------------- MODULE InterBoardClaims --------------------------
(***************************************************************************)
(* What the comments of agfa9000.c say of the emulated SCC2691, stated so  *)
(* that TLC can compare it with what the code does.                        *)
(***************************************************************************)
EXTENDS InterBoard

\* agfa9000.c:1021-1024: a receive sets the port to input, toggles the ORB
\* bits and reads ORA-nh "to get the byte from IO board".  So the bytes a main
\* firmware has received are the first bytes the IO board sent, none missing.
ReceiveGetsEachByte == \A i \in DOMAIN seen : seen[i] = i
=============================================================================
