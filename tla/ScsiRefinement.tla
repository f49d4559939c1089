--------------------------- MODULE ScsiRefinement ---------------------------
(***************************************************************************)
(* The controller and its targets (Scsi) implement the target a host       *)
(* relies on (BlockTarget), under any use of the registers, the latch and  *)
(* the DMA port.                                                           *)
(***************************************************************************)
EXTENDS Scsi

\* The transfer in progress as the host may rely on it: a write with the
\* bytes taken so far, a read that reports GOOD with the bytes to come, or
\* some other report.
Transfer ==
  CASE phase = "DATA_OUT" ->
         [kind |-> "write", dev |-> selected_id, at |-> WriteAddress(cmd),
          need |-> data_len, got |-> SubSeq(data_buf, 1, data_pos)]
    [] phase = "DATA_IN" /\ Reads(cmd) /\ status_byte = Good ->
         [kind |-> "read", rest |-> SubSeq(data_buf, data_pos + 1, data_len)]
    [] phase = "DATA_IN" /\ ~(Reads(cmd) /\ status_byte = Good) ->
         [kind |-> "report", left |-> data_len - data_pos]
    [] OTHER -> [kind |-> "idle"]

\* Every address and length a command block can name.
TransferAddresses ==
  {ReadLba(c) * BlockSize : c \in CDBs} \cup {WriteAddress(c) : c \in CDBs}
TransferLengths ==
  {ReadCount(c) * BlockSize : c \in CDBs} \cup {c.len : c \in CDBs} \cup 0 .. 36

Target == INSTANCE BlockTarget WITH
  Devices   <- Present,
  Addresses <- TransferAddresses,
  Lengths   <- TransferLengths,
  Bytes     <- HostBytes \cup {0},
  disk      <- medium,
  xfer      <- Transfer

\* Whatever the host does between two bytes (reset the bus, arbitrate in the
\* middle of a transfer, select again through the latch, mix PIO and DMA), a
\* disk changes only with the last byte of a write, which stores every byte
\* taken before it, and a read that reports GOOD hands out the bytes of the
\* disk, none skipped and none twice.  (That the last byte stored is the one
\* sent is part of WriteStores, where the host's bytes are known.)
ImplementsTarget == Target!Spec
=============================================================================
