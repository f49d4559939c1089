----------------------------- MODULE MCScsiHost -----------------------------
(* Constants for ScsiHost: a disk at ID 0, a read-only one at ID 1, nothing *)
(* at ID 2, and jobs of every kind by PIO and by pseudo-DMA.               *)
EXTENDS ScsiHost

MCBlocks == [id \in Present |-> 2 - id]
MCMedium == [id \in Present |-> [p \in 0 .. 2 * (2 - id) - 1 |-> 10 * id + p]]

Block(op, lba, len) ==
  [op |-> op, lba6 |-> lba, lba10 |-> 0, len |-> len, count10 |-> 0]

\* Reads of one block, of two, of none and across the end, a write inside the
\* disk and one across its end, and each command without blocks.
MCCdbs == {Block(READ_6, 0, 1), Block(READ_6, 0, 2), Block(READ_6, 1, 2),
           Block(WRITE_6, 0, 1), Block(WRITE_6, 1, 2),
           [Block(READ_10, 0, 0) EXCEPT !.lba10 = 1, !.count10 = 1],
           [Block(READ_10, 0, 0) EXCEPT !.lba10 = 1],
           Block(INQUIRY, 0, 2), Block(MODE_SENSE, 0, 4),
           Block(REQUEST_SENSE, 0, 4), Block(READ_CAPACITY, 0, 8),
           Block(TEST_UNIT_READY, 0, 0), Block(MODE_SELECT, 0, 0),
           Block(6, 0, 0)}

MCJobs ==
  [id : {0}, cdb : MCCdbs, dma : BOOLEAN]
    \cup [id : {1, 2}, cdb : {Block(READ_6, 0, 1), Block(WRITE_6, 0, 1)},
          dma : BOOLEAN]
=============================================================================
