-------------------------------- MODULE Scsi --------------------------------
(***************************************************************************)
(* The NCR 5380 of the emulator and the SCSI targets behind it             *)
(* (src/src/scsi.c), with the bus control latch of the main board          *)
(* (src/src/agfa9000.c) through which the original firmware selects.       *)
(*                                                                         *)
(* One action per register write, pseudo-DMA access or latch write, and    *)
(* one for the only register read that changes state (reg 5, BSR).  The    *)
(* values the other reads return are operators (CSBS, CurrentData,         *)
(* DmaReadValue).                                                          *)
(*                                                                         *)
(* What is abstracted:                                                     *)
(*  - a command block is a record, chosen when its first byte arrives; the *)
(*    bytes after it are only counted, since nothing looks at them before  *)
(*    the last one is in;                                                  *)
(*  - data_buf holds the bytes of the current transfer, from index 1;      *)
(*  - a disk image is a function from byte positions, its domain the       *)
(*    positions the file has;                                              *)
(*  - the ICR and MODE registers are the sets of their asserted bits.      *)
(***************************************************************************)
EXTENDS Integers, Sequences

CONSTANTS
  IDs,           \* SCSI IDs of the bus, 0 .. 7 in the code
  Present,       \* the IDs with an image attached
  ReadOnly,      \* the IDs whose image could only be opened "rb"
  Blocks,        \* Blocks[id]: capacity of the image, in blocks
  BlockSize,     \* bytes per block
  InitialMedium, \* InitialMedium[id]: the bytes of the image at the start
  LbaModulus,    \* 2^32 in the code: LBA arithmetic is on uint32_t
  CDBs,          \* the command blocks the host sends
  HostBytes,     \* the bytes the host puts on the data bus
  IcrWrites,     \* the values the host writes to the ICR
  ModeWrites,    \* the values the host writes to the MODE register
  TcrWrites      \* the values the host writes to the TCR

None == -1

\* Opcodes execute_command knows.
TEST_UNIT_READY == 0
REQUEST_SENSE   == 3
READ_6          == 8
WRITE_6         == 10
INQUIRY         == 18
MODE_SELECT     == 21
MODE_SENSE      == 26
START_STOP      == 27
READ_CAPACITY   == 37
READ_10         == 40

Byte == 0 .. 255

\* op is byte 0 of the block, len byte 4; the other fields are the numbers
\* the code composes: lba6 from bytes 1-3, lba10 from bytes 2-5, count10
\* from bytes 7-8.
MaxLba6    == 2097151
MaxCount10 == 65535

CDB == [op : Byte, lba6 : 0 .. MaxLba6, lba10 : 0 .. LbaModulus - 1,
        len : Byte, count10 : 0 .. MaxCount10]

IcrBit  == {"DATA_BUS", "ATN", "SEL", "BSY", "ACK", "AIP", "RST"}
ModeBit == {"ARBITRATE", "DMA"}

Phase == {"FREE", "ARBITRATION", "COMMAND", "DATA_IN", "DATA_OUT",
          "STATUS", "MSG_IN"}
Good  == 0
Check == 2

ASSUME IdAssumption ==
  /\ IDs \subseteq 0 .. 7
  /\ ReadOnly \subseteq Present
  /\ Present \subseteq IDs

\* ncr5380_attach_image: the capacity is the size of the file divided by the
\* size of a block, rounded down.
ASSUME MediumAssumption ==
  /\ BlockSize \in Nat \ {0}
  /\ Blocks \in [Present -> Nat]
  /\ \A id \in Present :
       /\ DOMAIN InitialMedium[id] \subseteq Nat
       /\ 0 .. Blocks[id] * BlockSize - 1 \subseteq DOMAIN InitialMedium[id]
       /\ \A p \in DOMAIN InitialMedium[id] : InitialMedium[id][p] \in Byte

ASSUME InputAssumption ==
  /\ LbaModulus \in Nat \ {0}
  /\ CDBs \subseteq CDB
  /\ HostBytes \subseteq Byte
  /\ IcrWrites \subseteq SUBSET IcrBit
  /\ ModeWrites \subseteq SUBSET ModeBit
  /\ TcrWrites \subseteq Nat

VARIABLES
  phase, selected_id,           \* bus phase and selected target
  cmd, cmd_pos,                 \* command block, bytes of it received
  data_buf, data_len, data_pos, \* the data transfer
  status_byte,
  sense_key,                    \* per target
  medium,                       \* per target: the image
  icr, mode, tcr, output_data,  \* registers of the 5380
  dma_active,
  latch_sel                     \* bit 5 of bus_ctl_latch (SEL, active low)

busVars    == <<phase, selected_id>>
cmdVars    == <<cmd, cmd_pos>>
dataVars   == <<data_buf, data_len, data_pos, status_byte>>
targetVars == <<sense_key, medium>>
regVars    == <<icr, mode, tcr, output_data, dma_active, latch_sel>>
vars == <<busVars, cmdVars, dataVars, targetVars, regVars>>

NoCommand == [op |-> TEST_UNIT_READY, lba6 |-> 0, lba10 |-> 0, len |-> 0,
              count10 |-> 0]

\* ncr5380_init, then ncr5380_attach_image for every image on the command
\* line.
Init ==
  /\ phase = "FREE"
  /\ selected_id = None
  /\ cmd = NoCommand
  /\ cmd_pos = 0
  /\ data_buf = <<>>
  /\ data_len = 0
  /\ data_pos = 0
  /\ status_byte = Good
  /\ sense_key = [id \in Present |-> 0]
  /\ medium = [id \in Present |-> InitialMedium[id]]
  /\ icr = {}
  /\ mode = {}
  /\ tcr = 0
  /\ output_data = 0
  /\ dma_active = FALSE
  /\ latch_sel = TRUE

-----------------------------------------------------------------------------
(* Command execution.                                                      *)

\* cmd_length: the group of an opcode (its top three bits) gives the length.
CmdLength(op) ==
  CASE op \div 32 \in {1, 2} -> 10
    [] op \div 32 = 5        -> 12
    [] OTHER                 -> 6

Least(a, b) == IF a <= b THEN a ELSE b
OrElse(n, default) == IF n = 0 THEN default ELSE n

Reads(c) == c.op \in {READ_6, READ_10}

\* Transfer address and block count of a READ or WRITE.
ReadLba(c)   == IF c.op = READ_10 THEN c.lba10 ELSE c.lba6
ReadCount(c) == IF c.op = READ_10 THEN c.count10 ELSE OrElse(c.len, 256)

\* Mutant of InRange: the last block compared instead of the one after it.
InRangeOfLast(c) == (ReadLba(c) + ReadCount(c) - 1) % LbaModulus <= Blocks[selected_id]

\* The code's test lba + count <= blocks, with its 32-bit addition.
InRange(c) == (ReadLba(c) + ReadCount(c)) % LbaModulus <= Blocks[selected_id]

\* The bytes fread leaves in the buffer: those of the file, and, past its
\* end, whatever the buffer held.
FromMedium(id, at, n, stale) ==
  [i \in 1 .. n |-> IF at + i - 1 \in DOMAIN medium[id]
                    THEN medium[id][at + i - 1] ELSE stale]

Repeat(n, b) == [i \in 1 .. n |-> b]

\* The INQUIRY data: the type and version, "QUANTUM ", "P40S", "1.0 ".
InquiryHeader == <<0, 0, 1, 1, 31, 0, 0, 0>>
Vendor        == <<81, 85, 65, 78, 84, 85, 77, 32>>
Product       == <<80, 52, 48, 83>> \o Repeat(12, 32)
Revision      == <<49, 46, 48, 32>>
InquiryData   == (InquiryHeader \o Vendor) \o (Product \o Revision)

BigEndian32(n) ==
  <<(n \div 16777216) % 256, (n \div 65536) % 256, (n \div 256) % 256, n % 256>>

Reply(c, key) ==
  CASE c.op = REQUEST_SENSE ->
         [i \in 1 .. Least(OrElse(c.len, 4), 18) |->
            CASE i = 1 -> 112 [] i = 3 -> key [] i = 8 -> 10 [] OTHER -> 0]
    [] c.op = READ_CAPACITY ->
         BigEndian32(Blocks[selected_id] - 1) \o BigEndian32(BlockSize)
    [] c.op = INQUIRY    -> SubSeq(InquiryData, 1, Least(OrElse(c.len, 36), 36))
    [] c.op = MODE_SENSE ->
         LET n == OrElse(c.len, 4) IN <<n - 1>> \o Repeat(n - 1, 0)

StartDataIn(bytes, status) ==
  /\ phase' = "DATA_IN"
  /\ data_buf' = bytes
  /\ data_len' = Len(bytes)
  /\ data_pos' = 0
  /\ status_byte' = status

\* The buffer is not cleared; its old bytes cannot be told from zeros, as
\* each of them is overwritten before the transfer can complete.
StartDataOut(n) ==
  /\ phase' = "DATA_OUT"
  /\ data_buf' = Repeat(n, 0)
  /\ data_len' = n
  /\ data_pos' = 0
  /\ status_byte' = Good

FinishWithStatus(status) ==
  /\ phase' = "STATUS"
  /\ status_byte' = status

SetSense(key) == sense_key' = [sense_key EXCEPT ![selected_id] = key]

\* execute_command, once the last byte of command block c is in.  Every
\* command clears the sense of its target before anything else, REQUEST
\* SENSE included.
ExecuteRead(c) ==
  /\ Reads(c)
  /\ LET bytes == ReadCount(c) * BlockSize IN
     \/ /\ InRange(c)
        /\ \E stale \in HostBytes :
             StartDataIn(FromMedium(selected_id, ReadLba(c) * BlockSize, bytes,
                                    stale), Good)
        /\ SetSense(0)
     \/ /\ ~InRange(c)
        /\ StartDataIn(Repeat(bytes, 0), Check)
        /\ SetSense(5)

ExecuteReply(c) ==
  /\ c.op \in {REQUEST_SENSE, INQUIRY, MODE_SENSE, READ_CAPACITY}
  /\ SetSense(0)
  /\ StartDataIn(Reply(c, sense_key'[selected_id]), Good)

ExecuteWrite(c) ==
  /\ \/ /\ c.op = WRITE_6
        /\ StartDataOut(OrElse(c.len, 256) * BlockSize)
     \/ /\ c.op = MODE_SELECT
        /\ c.len > 0
        /\ StartDataOut(c.len)
  /\ SetSense(0)

ExecuteNoData(c) ==
  \/ /\ c.op \in {TEST_UNIT_READY, START_STOP}
     /\ FinishWithStatus(Good)
     /\ SetSense(0)
     /\ data_len' = 0
     /\ UNCHANGED <<data_buf, data_pos>>
  \/ /\ c.op = MODE_SELECT
     /\ c.len = 0
     /\ FinishWithStatus(Good)
     /\ SetSense(0)
     /\ UNCHANGED <<data_buf, data_pos, data_len>>

Known == {TEST_UNIT_READY, REQUEST_SENSE, READ_6, WRITE_6, INQUIRY,
          MODE_SELECT, MODE_SENSE, START_STOP, READ_CAPACITY, READ_10}

\* Mutant of ExecuteUnknown: no sense key.
ExecuteUnknownSilently(c) ==
  /\ c.op \notin Known
  /\ FinishWithStatus(Check)
  /\ SetSense(0)
  /\ data_len' = 0
  /\ UNCHANGED <<data_buf, data_pos>>

ExecuteUnknown(c) ==
  /\ c.op \notin Known
  /\ FinishWithStatus(Check)
  /\ SetSense(5)
  /\ data_len' = 0
  /\ UNCHANGED <<data_buf, data_pos>>

ExecuteNoTarget ==
  /\ selected_id \notin Present
  /\ FinishWithStatus(Check)
  /\ UNCHANGED <<data_buf, data_pos, data_len, sense_key>>

Execute(c) ==
  /\ \/ ExecuteNoTarget
     \/ /\ selected_id \in Present
        /\ \/ ExecuteRead(c)
           \/ ExecuteReply(c)
           \/ ExecuteWrite(c)
           \/ ExecuteNoData(c)
           \/ ExecuteUnknown(c)
  /\ UNCHANGED <<selected_id, medium>>

-----------------------------------------------------------------------------
(* The two byte paths into the target, shared by PIO (ACK in the ICR) and  *)
(* the pseudo-DMA port.                                                    *)

\* The next byte of a command block arrives: the first one decides which
\* block it is, the last one executes it.
AcceptCommandByte(c) ==
  /\ cmd_pos < 16
  /\ IF cmd_pos = 0 THEN cmd' = c ELSE c = cmd /\ UNCHANGED cmd
  /\ cmd_pos' = cmd_pos + 1
  /\ IF cmd_pos + 1 >= CmdLength(c.op)
     THEN Execute(c)
     ELSE UNCHANGED <<busVars, dataVars, targetVars>>

\* Where a completed DATA_OUT goes: every opcode but WRITE(6) is taken to
\* carry a 32-bit LBA.
WriteAddress(c) == (IF c.op = WRITE_6 THEN c.lba6 ELSE c.lba10) * BlockSize

\* fwrite of the whole transfer at the LBA of the command.
WriteImage(bytes) ==
  IF selected_id \notin Present \ ReadOnly
  THEN UNCHANGED medium
  ELSE LET at  == WriteAddress(cmd)
           old == medium[selected_id]
       IN  medium' = [medium EXCEPT ![selected_id] =
             [p \in DOMAIN old \cup at .. at + Len(bytes) - 1 |->
                IF p \in at .. at + Len(bytes) - 1
                THEN bytes[p - at + 1] ELSE old[p]]]

\* Mutant of AcceptDataByte: the image is written before the last byte is in
\* the buffer.
AcceptDataByteEarly(b) ==
  /\ data_pos < data_len
  /\ data_buf' = [data_buf EXCEPT ![data_pos + 1] = b]
  /\ data_pos' = data_pos + 1
  /\ IF data_pos + 1 >= data_len
     THEN /\ WriteImage(data_buf)
          /\ phase' = "STATUS"
     ELSE UNCHANGED <<phase, medium>>
  /\ UNCHANGED <<selected_id, cmdVars, data_len, status_byte, sense_key>>

\* Mutant of AcceptDataByte: the image is written with each byte.
AcceptDataByteThrough(b) ==
  /\ data_pos < data_len
  /\ data_buf' = [data_buf EXCEPT ![data_pos + 1] = b]
  /\ data_pos' = data_pos + 1
  /\ WriteImage(SubSeq(data_buf', 1, data_pos'))
  /\ phase' = IF data_pos + 1 >= data_len THEN "STATUS" ELSE phase
  /\ UNCHANGED <<selected_id, cmdVars, data_len, status_byte, sense_key>>

AcceptDataByte(b) ==
  /\ data_pos < data_len
  /\ data_buf' = [data_buf EXCEPT ![data_pos + 1] = b]
  /\ data_pos' = data_pos + 1
  /\ IF data_pos + 1 >= data_len
     THEN /\ WriteImage(data_buf')
          /\ phase' = "STATUS"
     ELSE UNCHANGED <<phase, medium>>
  /\ UNCHANGED <<selected_id, cmdVars, data_len, status_byte, sense_key>>

\* Mutant of ReleaseDataByte: the phase ends one byte late.
ReleaseDataByteLate ==
  /\ phase = "DATA_IN"
  /\ data_pos' = IF data_pos < data_len THEN data_pos + 1 ELSE data_pos
  /\ phase' = IF data_pos >= data_len THEN "STATUS" ELSE phase
  /\ UNCHANGED <<selected_id, cmdVars, data_buf, data_len, status_byte,
                 targetVars>>

\* The target's side of an acknowledged DATA_IN, STATUS or MESSAGE IN byte.
ReleaseDataByte ==
  /\ phase = "DATA_IN"
  /\ data_pos' = IF data_pos < data_len THEN data_pos + 1 ELSE data_pos
  /\ phase' = IF data_pos' >= data_len THEN "STATUS" ELSE phase
  /\ UNCHANGED <<selected_id, cmdVars, data_buf, data_len, status_byte,
                 targetVars>>

ReleaseStatus ==
  /\ phase = "STATUS"
  /\ phase' = "MSG_IN"
  /\ UNCHANGED <<selected_id, cmdVars, dataVars, targetVars>>

\* Mutant of ReleaseMessage: the target stays selected.
ReleaseMessageOnly ==
  /\ phase = "MSG_IN"
  /\ phase' = "FREE"
  /\ UNCHANGED <<selected_id, cmdVars, dataVars, targetVars>>

ReleaseMessage ==
  /\ phase = "MSG_IN"
  /\ phase' = "FREE"
  /\ selected_id' = None
  /\ UNCHANGED <<cmdVars, dataVars, targetVars>>

-----------------------------------------------------------------------------
(* Selection.                                                              *)

\* The IDs whose bit is set in a byte on the data bus.
IdMask(b) == {id \in IDs : (b \div 2^id) % 2 = 1}

Responding == IdMask(output_data) \cap Present
Lowest(S) == CHOOSE id \in S : \A other \in S : id <= other

\* Mutant of SelectTarget: an ID without a device is selected too.
SelectTargetOnBus ==
  /\ IdMask(output_data) # {}
  /\ selected_id' = Lowest(IdMask(output_data))
  /\ phase' = "COMMAND"

SelectTarget ==
  /\ Responding # {}
  /\ selected_id' = Lowest(Responding)
  /\ phase' = "COMMAND"

\* With SEL asserted and BSY dropped the target whose ID is on the bus
\* answers, if the bus is free or arbitrated for.
Selects(val) == /\ "SEL" \in val
                /\ "BSY" \notin val
                /\ phase \in {"FREE", "ARBITRATION"}

-----------------------------------------------------------------------------
(* Register writes.                                                        *)

WriteData(val) ==
  /\ output_data' = val
  /\ UNCHANGED <<busVars, cmdVars, dataVars, targetVars, icr, mode, tcr,
                 dma_active, latch_sel>>

\* Mutant of WriteIcrReset: DMA stays active.
WriteIcrResetKeepsDma(val) ==
  /\ "RST" \in val
  /\ phase' = "FREE"
  /\ selected_id' = None
  /\ cmd_pos' = 0
  /\ data_len' = 0
  /\ data_pos' = 0
  /\ status_byte' = Good
  /\ icr' = {}
  /\ mode' = {}
  /\ tcr' = 0
  /\ output_data' = 0
  /\ UNCHANGED <<cmd, data_buf, targetVars, dma_active, latch_sel>>

\* ncr5380_reset: the bus, the transfer and the registers, not the targets.
WriteIcrReset(val) ==
  /\ "RST" \in val
  /\ phase' = "FREE"
  /\ selected_id' = None
  /\ cmd_pos' = 0
  /\ data_len' = 0
  /\ data_pos' = 0
  /\ status_byte' = Good
  /\ icr' = {}
  /\ mode' = {}
  /\ tcr' = 0
  /\ output_data' = 0
  /\ dma_active' = FALSE
  /\ UNCHANGED <<cmd, data_buf, targetVars, latch_sel>>

\* A write that selects; with ACK in the same value the target also takes
\* the first command byte.
WriteIcrSelect(val) ==
  /\ "RST" \notin val
  /\ Selects(val)
  /\ icr' = val
  /\ \/ /\ SelectTarget
        /\ IF "ACK" \in val
           THEN /\ cmd_pos' = 1
                /\ cmd' \in CDBs
           ELSE /\ cmd_pos' = 0
                /\ UNCHANGED cmd
     \/ /\ Responding = {}
        /\ phase' = IF selected_id = None THEN "FREE" ELSE phase
        /\ UNCHANGED <<selected_id, cmdVars>>
  /\ UNCHANGED <<dataVars, targetVars, mode, tcr, output_data, dma_active,
                 latch_sel>>

\* A write with ACK moves the transfer on by one byte, each time it is made.
WriteIcrAck(val) ==
  /\ "RST" \notin val
  /\ "ACK" \in val
  /\ ~Selects(val)
  /\ icr' = val
  /\ \/ /\ phase = "COMMAND"
        /\ \E c \in CDBs : AcceptCommandByte(c)
     \/ /\ phase = "DATA_OUT"
        /\ AcceptDataByte(output_data)
     \/ ReleaseDataByte
     \/ ReleaseStatus
     \/ ReleaseMessage
     \/ /\ phase \in {"FREE", "ARBITRATION"}
        /\ UNCHANGED <<busVars, cmdVars, dataVars, targetVars>>
  /\ UNCHANGED <<mode, tcr, output_data, dma_active, latch_sel>>

WriteIcrOther(val) ==
  /\ val \cap {"RST", "ACK"} = {}
  /\ ~Selects(val)
  /\ icr' = val
  /\ UNCHANGED <<busVars, cmdVars, dataVars, targetVars, mode, tcr,
                 output_data, dma_active, latch_sel>>

WriteICR(val) ==
  \/ WriteIcrReset(val)
  \/ WriteIcrSelect(val)
  \/ WriteIcrAck(val)
  \/ WriteIcrOther(val)

\* Arbitration is won at once, whatever the bus was doing; the target
\* selected before stays selected.
WriteMode(val) ==
  /\ mode' = val
  /\ IF "ARBITRATE" \in val
     THEN /\ phase' = "ARBITRATION"
          /\ icr' = icr \cup {"AIP"}
     ELSE UNCHANGED <<phase, icr>>
  /\ dma_active' = ("DMA" \in val)
  /\ UNCHANGED <<selected_id, cmdVars, dataVars, targetVars, tcr, output_data,
                 latch_sel>>

WriteTCR(val) ==
  /\ tcr' = val % 8
  /\ UNCHANGED <<busVars, cmdVars, dataVars, targetVars, icr, mode,
                 output_data, dma_active, latch_sel>>

\* Registers 5, 6 and 7: start DMA send, target receive, initiator receive.
StartDma ==
  /\ "DMA" \in mode
  /\ dma_active' = TRUE
  /\ UNCHANGED <<busVars, cmdVars, dataVars, targetVars, icr, mode, tcr,
                 output_data, latch_sel>>

\* Main board latch at 0x06000000: SEL going low selects, in any phase.
WriteLatch(sel) ==
  /\ latch_sel' = sel
  /\ \/ /\ latch_sel /\ ~sel
        /\ SelectTarget
        /\ cmd_pos' = 0
     \/ /\ ~(latch_sel /\ ~sel) \/ Responding = {}
        /\ UNCHANGED <<busVars, cmd_pos>>
  /\ UNCHANGED <<cmd, dataVars, targetVars, icr, mode, tcr, output_data,
                 dma_active>>

-----------------------------------------------------------------------------
(* Register reads.                                                         *)

PhaseBits ==
  CASE phase = "DATA_IN" -> 1
    [] phase = "COMMAND" -> 2
    [] phase = "STATUS"  -> 3
    [] phase = "MSG_IN"  -> 7
    [] OTHER             -> 0

\* Reg 4, Current SCSI Bus Status: BSY, REQ and the phase lines.
BusBusy == phase # "FREE" /\ selected_id # None

\* Mutant of RequestAsserted: REQ does not fall when ACK rises.
RequestHeld ==
  \/ phase \in {"COMMAND", "STATUS", "MSG_IN"}
  \/ phase \in {"DATA_IN", "DATA_OUT"} /\ data_pos < data_len

RequestAsserted ==
  /\ "ACK" \notin icr
  /\ \/ phase \in {"COMMAND", "STATUS", "MSG_IN"}
     \/ phase \in {"DATA_IN", "DATA_OUT"} /\ data_pos < data_len

CSBS == [bsy |-> BusBusy, req |-> RequestAsserted, phase |-> PhaseBits]

\* Reg 1: the bits above ACK are masked out.
ReadICR == icr \ {"AIP", "RST"}

\* Reg 0.
CurrentData ==
  CASE phase = "DATA_IN" /\ data_pos < data_len -> data_buf[data_pos + 1]
    [] phase = "STATUS"                         -> status_byte
    [] phase = "MSG_IN"                         -> 0
    [] OTHER                                    -> output_data

\* Reg 5, Bus and Status: reading it while DMA is active and the phase does
\* not match the TCR reports the end of DMA, once.
PhaseMatch == tcr = PhaseBits

BSR == [phase_match |-> PhaseMatch,
        irq         |-> FALSE,
        dma_req     |-> dma_active,
        end_dma     |-> dma_active /\ (~PhaseMatch \/ data_pos >= data_len)]

ReadBSR ==
  /\ dma_active' = (dma_active /\ PhaseMatch)
  /\ UNCHANGED <<busVars, cmdVars, dataVars, targetVars, icr, mode, tcr,
                 output_data, latch_sel>>

-----------------------------------------------------------------------------
(* The pseudo-DMA port.                                                    *)

DmaReadValue ==
  CASE phase = "DATA_IN" /\ data_pos < data_len -> data_buf[data_pos + 1]
    [] phase = "STATUS"                         -> status_byte
    [] phase = "MSG_IN"                         -> 0
    [] OTHER                                    -> 255

DmaRead ==
  /\ \/ data_pos < data_len /\ ReleaseDataByte
     \/ ReleaseStatus
     \/ ReleaseMessage
     \/ /\ \/ phase \in {"FREE", "ARBITRATION", "COMMAND", "DATA_OUT"}
           \/ phase = "DATA_IN" /\ data_pos >= data_len
        /\ UNCHANGED <<busVars, cmdVars, dataVars, targetVars>>
  /\ UNCHANGED regVars

DmaWrite(b) ==
  /\ \/ /\ phase = "COMMAND"
        /\ \E c \in CDBs : AcceptCommandByte(c)
     \/ /\ phase = "DATA_OUT"
        /\ AcceptDataByte(b)
     \/ /\ phase \notin {"COMMAND", "DATA_OUT"}
        /\ UNCHANGED <<busVars, cmdVars, dataVars, targetVars>>
  /\ UNCHANGED regVars

-----------------------------------------------------------------------------
Next ==
  \/ \E b \in HostBytes : WriteData(b) \/ DmaWrite(b)
  \/ \E val \in IcrWrites : WriteICR(val)
  \/ \E val \in ModeWrites : WriteMode(val)
  \/ \E val \in TcrWrites : WriteTCR(val)
  \/ StartDma
  \/ \E sel \in BOOLEAN : WriteLatch(sel)
  \/ ReadBSR
  \/ DmaRead

Spec == Init /\ [][Next]_vars

-----------------------------------------------------------------------------
(* Properties.                                                             *)

InData == {"DATA_IN", "DATA_OUT"}
InTransfer == {"COMMAND", "DATA_IN", "DATA_OUT", "STATUS", "MSG_IN"}

\* Every variable holds a value of its C type's use: phases the switch
\* statements know, positions that index their buffers.
TypeOK ==
  /\ phase \in Phase
  /\ selected_id \in Present \cup {None}
  /\ cmd \in CDBs \cup {NoCommand}
  /\ cmd_pos \in 0 .. 12
  /\ data_buf \in Seq(Byte)
  /\ data_len \in Nat
  /\ data_pos \in Nat
  /\ status_byte \in {Good, Check}
  /\ sense_key \in [Present -> {0, 5}]
  /\ DOMAIN medium = Present
  /\ \A id \in Present : \A p \in DOMAIN medium[id] : medium[id][p] \in Byte
  /\ icr \in SUBSET IcrBit
  /\ mode \in SUBSET ModeBit
  /\ tcr \in 0 .. 7
  /\ output_data \in Byte
  /\ dma_active \in BOOLEAN
  /\ latch_sel \in BOOLEAN

\* Whatever order the host uses the registers, the latch and the DMA port
\* in, a target is selected in every information transfer phase and none on
\* a free bus: execute_command never runs without a target.
BusOwnership ==
  /\ phase \in InTransfer => selected_id \in Present
  /\ phase = "FREE" => selected_id = None

\* No transfer phase is left overrun: a command phase still waits for a
\* byte of its block, and a data phase for a byte of its transfer (a read
\* of no blocks is the one data phase with nothing to transfer).
TransferBounds ==
  /\ phase = "COMMAND" => cmd_pos = 0 \/ cmd_pos < CmdLength(cmd.op)
  /\ phase = "DATA_OUT" => data_pos < data_len
  /\ phase = "DATA_IN" => data_pos < data_len \/ data_len = 0
  /\ phase \in InData => Len(data_buf) = data_len

\* A target that reports CHECK CONDITION has the reason ready: its sense key
\* is set until its next command, whichever registers are used meanwhile.
CheckHasSense ==
  phase \in {"STATUS", "MSG_IN"} /\ status_byte = Check
    => sense_key[selected_id] # 0
=============================================================================
