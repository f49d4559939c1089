------------------------------- MODULE MCScsi -------------------------------
(* Constants for model checking Scsi: a disk at ID 0, nothing at ID 1,     *)
(* and a host free to use every register at any time.                      *)
EXTENDS ScsiRefinement

MCBlocks == [id \in Present |-> 1]
MCMedium == [id \in Present |-> [p \in 0 .. 1 |-> 3 + p]]

Block(op, lba, len) ==
  [op |-> op, lba6 |-> lba, lba10 |-> 0, len |-> len, count10 |-> 0]
Block10(op, lba, count) ==
  [op |-> op, lba6 |-> 0, lba10 |-> lba, len |-> 0, count10 |-> count]

\* A read inside the disk, one past its end and one of nothing, a write, and
\* a command the target does not know.
MCCdbs == {Block(READ_6, 0, 1), Block(READ_6, 1, 1), Block10(READ_10, 0, 0),
           Block(WRITE_6, 0, 1), Block(5, 0, 0)}

\* ID masks 1 (the disk) and 2 (nobody), used as data bytes too.
MCHostBytes == {1, 2}
MCIcr == {{}, {"SEL"}, {"ACK"}, {"SEL", "ACK"}, {"RST"}}
MCMode == {{}, {"ARBITRATE", "DMA"}}
MCTcr == {0}
=============================================================================
