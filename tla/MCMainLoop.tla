----------------------------- MODULE MCMainLoop -----------------------------
(* MainLoop with FIFOs of two characters.  The guest enables receivers and, *)
(* on A, interrupts, sets the master enable and resets the highest IUS.     *)
EXTENDS MainLoop

MCControls ==
  [c \in Channels |-> [r \in 0 .. 15 |->
     CASE r = 0 /\ c = "A" -> {1, 3, 9, 56}
       [] r = 0 /\ c = "B" -> {3}
       [] r = 1            -> {0, 16}
       [] r = 3            -> {0, 1}
       [] r = 9            -> {0, 8}
       [] OTHER            -> {0}]]

MCPrograms ==
  {{"script", "typed", "rx"}, {"script", "key", "rx"}, {"typed", "key", "rx"}, {"low", "via1"},
   {"via1", "key", "ints"}, {"low", "calibrate"}}
MCMaxKeys == [p \in MCPrograms |-> IF "ints" \in p THEN 2 ELSE 3]
=============================================================================
