---------------------------- MODULE MCVeraPorts -----------------------------
(* VeraPorts with eight bytes of video memory in two groups of four, nibbles *)
(* of one bit, and addresses that run past the end once before they wrap.    *)
EXTENDS VeraPorts

MCNoise == {[c \in Memory |-> c % 4]}
MCMasks == {{}, {<<0, "hi">>, <<1, "lo">>, <<2, "hi">>, <<2, "lo">>}}
Guest(uses, steps, setup, data) ==
  [uses |-> uses, steps |-> steps, setup |-> setup, data |-> data]
MCPrograms ==
  {Guest({"screen", "reset", "down"}, {1}, 4, 2),
   Guest({"line"}, {1}, 5, 3),
   Guest({"polygon", "fourbit"}, {0}, 4, 3),
   Guest({"affine"}, {1}, 4, 3),
   Guest({"fourbit", "trans"}, {0, 1}, 3, 3),
   Guest({"cwrite", "trans"}, {4}, 4, 2),
   Guest({"cycling", "fill"}, {1}, 3, 3),
   Guest({"hop"}, {4}, 4, 3)}
=============================================================================
