------------------------------ MODULE MCBoards ------------------------------
(* Boards with every block a few bytes long, and a run each for the main     *)
(* board's RAM and latch, its EEPROM, the MK4501 (with its mirror) and the   *)
(* registers MRA, CRA, MRB and CRB of the DUART.                             *)
EXTENDS Boards

MCRom == [a \in Cells(RomTop) |-> a + 10]
MCPrograms ==
  {[main |-> (RamBase .. RamTop - 1) \cup {LatchBase + 1}, io |-> {}],
   [main |-> EeBase .. LatchBase - 1, io |-> {IoRam + 3}],
   [main |-> {}, io |-> {IoFifo, IoFifo + 1, IoDuart - 2, IoSpan + IoFifo}],
   [main |-> {}, io |-> {IoDuart, IoDuart + 1, IoDuart + 5, IoDuart + 17, IoDuart + 21}]}
=============================================================================
