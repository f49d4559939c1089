------------------------------- MODULE MCScc -------------------------------
(* Constants for Scc: on A the guest receives, transmits and sets the master *)
(* enable, on B it programs the baud rate generator.                       *)
EXTENDS Scc

\* WR0 of A: the pointers to WR1, WR8 and WR9 and the commands 5 and 7; of B:
\* the pointers to WR12, WR14 and WR15 and the commands 2 and 7.
MCControls ==
  [c \in Channels |-> [r \in Register |->
     CASE r = 0 /\ c = "A" -> {1, 8, 9, 40, 56}
       [] r = 0 /\ c = "B" -> {12, 14, 15, 16, 56}
       [] r = 1            -> {0, 18}
       [] r = 9            -> {0, 8}
       [] r = 12           -> {1}
       [] r \in {14, 15}   -> {0, 3}
       [] OTHER            -> {0}]]

MCChars == [c \in Channels |-> IF c = "A" THEN {1} ELSE {}]
=============================================================================
