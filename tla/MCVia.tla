------------------------------- MODULE MCVia --------------------------------
(* Via with counters of nine values: a slice of five ticks crosses zero  *)
(* up to five times.  Timer 1 alone, timer 2 with a line, and both lines.     *)
EXTENDS Via

MCPrograms == {{"T1"}, {"T2", "CA1"}, {"CA1", "CB1"}}
=============================================================================
