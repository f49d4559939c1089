----------------------------- MODULE ScsiProofs -----------------------------
(***************************************************************************)
(* Proofs about Scsi, for every set of targets, disks, command blocks and  *)
(* host inputs: types, ownership of the bus, the bounds of transfers, and  *)
(* the implementation of BlockTarget (ScsiRefinement); and about ScsiHost, *)
(* for every set of jobs: what a host's commands deliver and leave behind. *)
(* Both rest on the same invariant of the controller; the host's adds what *)
(* its program knows of the bus at each of its steps.                      *)
(***************************************************************************)
EXTENDS ScsiHost, ScsiRefinement, SequenceTheorems, TLAPS

-----------------------------------------------------------------------------
(* Lemmas about the operators of Scsi.                                     *)

\* A non-empty set of SCSI IDs has a lowest member.
LEMMA LowestIsMember ==
  ASSUME NEW S \in SUBSET (0 .. 7), S # {}
  PROVE  Lowest(S) \in S
<1>1. \A k \in 0 .. 7 : k \in S /\ (\A j \in 0 .. 7 : j < k => j \notin S)
                          => \A other \in S : k <= other
  OBVIOUS
<1>2. \E k \in 0 .. 7 : k \in S
  OBVIOUS
<1>3. \E k \in 0 .. 7 : k \in S /\ (\A j \in 0 .. 7 : j < k => j \notin S)
  <2>1. \A k \in 0 .. 7 : k \in {0, 1, 2, 3, 4, 5, 6, 7}
    OBVIOUS
  <2>2. QED BY <1>2, <2>1
<1>4. \E id \in S : \A other \in S : id <= other
  BY <1>1, <1>3
<1>5. QED BY <1>4 DEF Lowest

\* The target that answers a selection is one with an image.
LEMMA SelectedIsPresent ==
  ASSUME Responding # {}
  PROVE  Lowest(Responding) \in Present
<1>1. Responding \in SUBSET (0 .. 7) /\ Responding \subseteq Present
  BY IdAssumption DEF Responding, IdMask
<1>2. QED BY <1>1, LowestIsMember

\* Transfers of at least one block of at least one byte are not empty.
LEMMA ProductPositive ==
  ASSUME NEW a \in Nat \ {0}, NEW b \in Nat \ {0}
  PROVE  a * b \in Nat \ {0}
OBVIOUS

LEMMA ProductNatural ==
  ASSUME NEW a \in Nat, NEW b \in Nat
  PROVE  a * b \in Nat
OBVIOUS

LEMMA RepeatType ==
  ASSUME NEW n \in Nat, NEW b \in Byte
  PROVE  Repeat(n, b) \in Seq(Byte) /\ Len(Repeat(n, b)) = n
BY DEF Repeat

\* What a command reads of an image is a sequence of bytes, as long as asked.
LEMMA FromMediumType ==
  ASSUME NEW id \in Present, NEW at, NEW n \in Nat, NEW stale \in Byte,
         \A p \in DOMAIN medium[id] : medium[id][p] \in Byte
  PROVE  LET bytes == FromMedium(id, at, n, stale)
         IN  bytes \in Seq(Byte) /\ Len(bytes) = n
BY DEF FromMedium

\* Two sequences of bytes put together.
LEMMA ConcatBytes ==
  ASSUME NEW s \in Seq(Byte), NEW t \in Seq(Byte)
  PROVE  s \o t \in Seq(Byte) /\ Len(s \o t) = Len(s) + Len(t)
BY ConcatProperties

LEMMA InquiryDataType == InquiryData \in Seq(Byte) /\ Len(InquiryData) = 36
<1>1. InquiryHeader \in Seq(Byte) /\ Len(InquiryHeader) = 8
  BY DEF InquiryHeader, Byte
<1>2. Vendor \in Seq(Byte) /\ Len(Vendor) = 8
  BY DEF Vendor, Byte
<1>3. Revision \in Seq(Byte) /\ Len(Revision) = 4
  BY DEF Revision, Byte
<1>4. Product \in Seq(Byte) /\ Len(Product) = 16
  <2>1. <<80, 52, 48, 83>> \in Seq(Byte) /\ Len(<<80, 52, 48, 83>>) = 4
    BY DEF Byte
  <2>2. 12 \in Nat /\ 32 \in Byte
    BY DEF Byte
  <2>3. Repeat(12, 32) \in Seq(Byte) /\ Len(Repeat(12, 32)) = 12
    BY <2>2, RepeatType, Zenon
  <2>4. Product \in Seq(Byte) /\ Len(Product) = 4 + 12
    <3> DEFINE name == <<80, 52, 48, 83>>
    <3>1. Product = name \o Repeat(12, 32)
      BY DEF Product
    <3>2. name \in Seq(Byte) /\ Len(name) = 4
      BY <2>1
    <3> HIDE DEF name
    <3>3. QED BY <2>3, <3>1, <3>2, ConcatBytes, Zenon
  <2>5. QED BY <2>4
<1>5. InquiryHeader \o Vendor \in Seq(Byte) /\ Len(InquiryHeader \o Vendor) = 8 + 8
  BY <1>1, <1>2, ConcatBytes, Zenon
<1>6. Product \o Revision \in Seq(Byte) /\ Len(Product \o Revision) = 16 + 4
  BY <1>3, <1>4, ConcatBytes, Zenon
<1>7. InquiryData \in Seq(Byte) /\ Len(InquiryData) = (8 + 8) + (16 + 4)
  BY <1>5, <1>6, ConcatBytes, Zenon DEF InquiryData
<1>8. QED BY <1>7

LEMMA BigEndian32Type ==
  ASSUME NEW n \in Int
  PROVE  BigEndian32(n) \in Seq(Byte) /\ Len(BigEndian32(n)) = 4
BY SMT DEF BigEndian32, Byte

LEMMA CdbLen == \A c \in CDB : c.len \in 0 .. 255
BY InputAssumption, SMT DEF CDB, Byte

\* Every reply is a non-empty sequence of bytes, no longer than asked for or
\* than the longest there is.
LEMMA ReplyType ==
  ASSUME NEW c \in CDB, NEW key \in {0, 5}, selected_id \in Present,
         c.op \in {REQUEST_SENSE, INQUIRY, MODE_SENSE, READ_CAPACITY}
  PROVE  /\ Reply(c, key) \in Seq(Byte)
         /\ Len(Reply(c, key)) > 0
         /\ Len(Reply(c, key)) \in (0 .. 36) \cup {c.len}
         /\ c.len <= LongestReply(c.op) => c.len <= Len(Reply(c, key))
<1>0. c.len \in 0 .. 255
  BY CdbLen
<1>9. /\ REQUEST_SENSE # INQUIRY /\ REQUEST_SENSE # MODE_SENSE
      /\ REQUEST_SENSE # READ_CAPACITY /\ INQUIRY # MODE_SENSE
      /\ INQUIRY # READ_CAPACITY /\ MODE_SENSE # READ_CAPACITY
  BY DEF REQUEST_SENSE, READ_CAPACITY, INQUIRY, MODE_SENSE
<1>1. CASE c.op = REQUEST_SENSE
  <2> DEFINE n    == Least(OrElse(c.len, 4), 18)
             b(i) == CASE i = 1 -> 112 [] i = 3 -> key [] i = 8 -> 10
                       [] OTHER -> 0
  <2>1. n \in 1 .. 18
    BY <1>0 DEF Least, OrElse
  <2>2. \A i \in 1 .. n : b(i) \in Byte
    BY SMT DEF Byte
  <2>3. Reply(c, key) = [i \in 1 .. n |-> b(i)]
    BY <1>1, <1>9, Zenon DEF Reply
  <2>4. c.len <= 18 => c.len <= n
    BY <1>0 DEF Least, OrElse
  <2>5. LongestReply(c.op) = 18
    BY <1>1, <1>9, Zenon DEF LongestReply
  <2> HIDE DEF n, b
  <2>6. QED BY <2>1, <2>2, <2>3, <2>4, <2>5
<1>2. CASE c.op = READ_CAPACITY
  <2> DEFINE s == BigEndian32(Blocks[selected_id] - 1)
             t == BigEndian32(BlockSize)
  <2>1. s \in Seq(Byte) /\ Len(s) = 4 /\ t \in Seq(Byte) /\ Len(t) = 4
    BY MediumAssumption, BigEndian32Type
  <2>2. Reply(c, key) = s \o t
    BY <1>2, <1>9, Zenon DEF Reply
  <2> HIDE DEF s, t
  <2>3. Reply(c, key) \in Seq(Byte) /\ Len(Reply(c, key)) = 4 + 4
    BY <2>1, <2>2, ConcatBytes, Zenon
  <2>4. LongestReply(c.op) = 8
    BY <1>2, <1>9, Zenon DEF LongestReply
  <2>5. QED BY <2>3, <2>4
<1>3. CASE c.op = INQUIRY
  <2> DEFINE n == Least(OrElse(c.len, 36), 36)
  <2>1. n \in 1 .. 36
    BY <1>0 DEF Least, OrElse
  <2>2. Reply(c, key) = SubSeq(InquiryData, 1, n)
    BY <1>3, <1>9, Zenon DEF Reply
  <2>3. c.len <= 36 => c.len <= n
    BY <1>0 DEF Least, OrElse
  <2>4. LongestReply(c.op) = 36
    BY <1>3, <1>9, Zenon DEF LongestReply
  <2> HIDE DEF n
  <2>5. \A i \in 1 .. n : InquiryData[i] \in Byte
    <3> SUFFICES ASSUME NEW i \in 1 .. n
                 PROVE  InquiryData[i] \in Byte
      OBVIOUS
    <3>1. i \in 1 .. Len(InquiryData)
      BY <2>1, InquiryDataType
    <3>2. QED BY <3>1, InquiryDataType, ElementOfSeq
  <2>6. SubSeq(InquiryData, 1, n) \in Seq(Byte)
          /\ Len(SubSeq(InquiryData, 1, n)) = n
    BY <2>1, <2>5, SMT
  <2>7. QED BY <2>1, <2>2, <2>6, <2>3, <2>4
<1>4. CASE c.op = MODE_SENSE
  <2> DEFINE n == OrElse(c.len, 4)
  <2>1. n \in 1 .. 255
    BY <1>0 DEF OrElse
  <2>2. n - 1 \in Nat /\ n - 1 \in Byte /\ 0 \in Byte
    BY <2>1 DEF Byte
  <2>3. Reply(c, key) = <<n - 1>> \o Repeat(n - 1, 0)
    BY <1>4, <1>9, Zenon DEF Reply
  <2> HIDE DEF n
  <2>4. <<n - 1>> \in Seq(Byte) /\ Len(<<n - 1>>) = 1
    BY <2>2
  <2>5. Repeat(n - 1, 0) \in Seq(Byte) /\ Len(Repeat(n - 1, 0)) = n - 1
    BY <2>2, RepeatType
  <2>6. Reply(c, key) \in Seq(Byte) /\ Len(Reply(c, key)) = 1 + (n - 1)
    BY <2>3, <2>4, <2>5, ConcatBytes
  <2>7. n \in {4, c.len} /\ c.len <= n
    BY <1>0 DEF n, OrElse
  <2>8. QED BY <2>1, <2>6, <2>7
<1>5. QED BY <1>1, <1>2, <1>3, <1>4

-----------------------------------------------------------------------------
(* The inductive invariant.                                                *)

\* The registers hold values of their types.
RegInv ==
  /\ icr \in SUBSET IcrBit
  /\ mode \in SUBSET ModeBit
  /\ tcr \in 0 .. 7
  /\ output_data \in Byte
  /\ dma_active \in BOOLEAN
  /\ latch_sel \in BOOLEAN

\* The transfer and the targets do.
CoreType ==
  /\ phase \in Phase
  /\ selected_id \in Present \cup {None}
  /\ cmd \in CDBs \cup {NoCommand}
  /\ cmd_pos \in 0 .. 12
  /\ data_buf \in Seq(Byte)
  /\ data_len \in Nat
  /\ data_pos \in Nat
  /\ status_byte \in {Good, Check}
  /\ sense_key \in [Present -> {0, 5}]
  /\ DOMAIN medium = Present
  /\ \A id \in Present : \A p \in DOMAIN medium[id] : medium[id][p] \in Byte

\* A CHECK status carries its sense key from the command that failed, through
\* the data it still transfers; a write never starts with one.
SenseInv ==
  /\ phase \in {"DATA_IN", "STATUS", "MSG_IN"} /\ status_byte = Check
       => sense_key[selected_id] # 0
  /\ phase = "DATA_OUT" => status_byte = Good

CoreInv == CoreType /\ BusOwnership /\ TransferBounds /\ SenseInv
Inv == CoreInv /\ RegInv

coreVars == <<busVars, cmdVars, dataVars, targetVars>>

LEMMA CoreUnchanged ==
  ASSUME CoreInv, UNCHANGED coreVars
  PROVE  CoreInv'
BY DEF CoreInv, CoreType, BusOwnership, TransferBounds, SenseInv, coreVars,
       busVars, cmdVars, dataVars, targetVars, CmdLength

LEMMA CdbFields ==
  ASSUME NEW c \in CDB
  PROVE  /\ c.len \in 0 .. 255
         /\ ReadLba(c) \in Nat
         /\ ReadCount(c) \in Nat
         /\ WriteAddress(c) \in Nat
         /\ OrElse(c.len, 256) \in Nat \ {0}
<1>1. c.len \in 0 .. 255
  BY CdbLen
<1>2. c.lba6 \in Nat /\ c.lba10 \in Nat /\ c.count10 \in Nat
  <2>1. /\ c.lba6 \in 0 .. MaxLba6
        /\ c.lba10 \in 0 .. LbaModulus - 1
        /\ c.count10 \in 0 .. MaxCount10
    BY Zenon DEF CDB
  <2>2. QED BY <2>1, SMT
<1>3. ReadLba(c) \in Nat /\ ReadCount(c) \in Nat /\ OrElse(c.len, 256) \in Nat \ {0}
  BY <1>1, <1>2, SMT DEF ReadLba, ReadCount, OrElse
<1>4. WriteAddress(c) \in Nat
  <2>1. BlockSize \in Nat
    BY MediumAssumption
  <2>2. c.lba6 * BlockSize \in Nat /\ c.lba10 * BlockSize \in Nat
    BY <1>2, <2>1, ProductNatural, Zenon
  <2>3. QED BY <2>2 DEF WriteAddress
<1>5. QED BY <1>1, <1>3, <1>4

LEMMA CommandIsCdb == CDBs \cup {NoCommand} \subseteq CDB
<1>1. 0 \in 0 .. LbaModulus - 1 /\ 0 \in 0 .. MaxLba6 /\ 0 \in 0 .. MaxCount10
        /\ 0 \in Byte
  <2>1. MaxLba6 \in Nat /\ MaxCount10 \in Nat
    BY SMT DEF MaxLba6, MaxCount10
  <2>2. QED BY <2>1, InputAssumption, SMT DEF Byte
<1>2. NoCommand \in CDB
  BY <1>1, Zenon DEF NoCommand, CDB, TEST_UNIT_READY
<1>3. QED BY <1>2, InputAssumption

-----------------------------------------------------------------------------
(* The steps of a transfer.                                                *)

\* What the execution of a command leaves, whichever command it is.
Executed ==
  /\ phase' \in {"DATA_IN", "DATA_OUT", "STATUS"}
  /\ data_buf' \in Seq(Byte)
  /\ data_len' \in Nat
  /\ data_pos' \in Nat
  /\ status_byte' \in {Good, Check}
  /\ sense_key' \in [Present -> {0, 5}]
  /\ phase' = "DATA_OUT" => data_pos' < data_len' /\ status_byte' = Good
  /\ phase' = "DATA_IN" => data_pos' < data_len' \/ data_len' = 0
  /\ phase' \in InData => Len(data_buf') = data_len'
  /\ phase' # "DATA_OUT" /\ status_byte' = Check => sense_key'[selected_id] # 0

LEMMA StartDataInExecuted ==
  ASSUME NEW bytes \in Seq(Byte), NEW status \in {Good, Check},
         NEW key \in {0, 5}, sense_key \in [Present -> {0, 5}],
         selected_id \in Present,
         StartDataIn(bytes, status), SetSense(key), status = Check => key = 5
  PROVE  Executed
<1>1. Len(bytes) \in Nat
  OBVIOUS
<1>2. sense_key' \in [Present -> {0, 5}] /\ sense_key'[selected_id] = key
  BY DEF SetSense
<1>3. QED BY <1>1, <1>2 DEF Executed, StartDataIn, InData

LEMMA StartDataOutExecuted ==
  ASSUME NEW n \in Nat \ {0}, sense_key \in [Present -> {0, 5}],
         selected_id \in Present, StartDataOut(n), SetSense(0)
  PROVE  Executed
<1>1. Repeat(n, 0) \in Seq(Byte) /\ Len(Repeat(n, 0)) = n
  <2>1. 0 \in Byte
    BY DEF Byte
  <2>2. QED BY <2>1, RepeatType
<1>2. sense_key' \in [Present -> {0, 5}]
  BY DEF SetSense
<1>3. QED BY <1>1, <1>2 DEF Executed, StartDataOut, InData

LEMMA FinishExecuted ==
  ASSUME CoreType, NEW status \in {Good, Check}, NEW key \in {0, 5},
         selected_id \in Present, FinishWithStatus(status), SetSense(key),
         status = Check => key = 5,
         data_len' \in {0, data_len}, UNCHANGED <<data_buf, data_pos>>
  PROVE  Executed
<1>1. sense_key' \in [Present -> {0, 5}] /\ sense_key'[selected_id] = key
  BY DEF SetSense, CoreType
<1>2. QED BY <1>1 DEF Executed, FinishWithStatus, InData, CoreType

LEMMA ExecuteLeavesExecuted ==
  ASSUME CoreInv, phase = "COMMAND", NEW c \in CDBs, Execute(c)
  PROVE  Executed
<1>1. selected_id \in Present
  BY DEF CoreInv, BusOwnership, InTransfer
<1>2. c \in CDB
  BY InputAssumption
<1>3. BlockSize \in Nat \ {0} /\ sense_key \in [Present -> {0, 5}] /\ CoreType
  BY MediumAssumption DEF CoreInv, CoreType
<1>4. Good \in {Good, Check} /\ Check \in {Good, Check} /\ Good # Check
        /\ 0 \in {0, 5} /\ 5 \in {0, 5} /\ 0 \in Byte
  BY DEF Good, Check, Byte
<1>5. CASE ExecuteRead(c)
  <2> DEFINE n == ReadCount(c) * BlockSize
  <2>1. n \in Nat
    BY <1>2, <1>3, CdbFields, ProductNatural, Zenon
  <2> HIDE DEF n
  <2>2. ASSUME NEW stale \in HostBytes,
               StartDataIn(FromMedium(selected_id, ReadLba(c) * BlockSize, n,
                                      stale), Good),
               SetSense(0)
        PROVE  Executed
    <3>1. FromMedium(selected_id, ReadLba(c) * BlockSize, n, stale) \in Seq(Byte)
      BY <1>1, <1>3, <2>1, FromMediumType, InputAssumption DEF CoreType
    <3>2. QED BY <1>1, <1>3, <1>4, <2>2, <3>1, StartDataInExecuted
  <2>3. ASSUME StartDataIn(Repeat(n, 0), Check), SetSense(5)
        PROVE  Executed
    <3>1. Repeat(n, 0) \in Seq(Byte)
      BY <1>4, <2>1, RepeatType
    <3>2. QED BY <1>1, <1>3, <1>4, <2>3, <3>1, StartDataInExecuted
  <2>4. QED BY <1>5, <2>2, <2>3 DEF ExecuteRead, n
<1>6. CASE ExecuteReply(c)
  <2>1. sense_key'[selected_id] = 0
    BY <1>1, <1>3, <1>6 DEF ExecuteReply, SetSense
  <2>2. Reply(c, sense_key'[selected_id]) \in Seq(Byte)
    BY <1>1, <1>2, <1>4, <1>6, <2>1, ReplyType DEF ExecuteReply
  <2>3. QED BY <1>1, <1>3, <1>4, <1>6, <2>2, StartDataInExecuted
            DEF ExecuteReply
<1>7. CASE ExecuteWrite(c)
  <2>1. OrElse(c.len, 256) * BlockSize \in Nat \ {0}
    BY <1>2, <1>3, CdbFields, ProductPositive, Zenon
  <2>2. c.len > 0 => c.len \in Nat \ {0}
    BY <1>2, CdbFields
  <2>3. QED BY <1>1, <1>3, <1>7, <2>1, <2>2, StartDataOutExecuted
            DEF ExecuteWrite
<1>8. CASE ExecuteNoData(c)
  BY <1>1, <1>3, <1>4, <1>8, FinishExecuted DEF ExecuteNoData
<1>9. CASE ExecuteUnknown(c)
  BY <1>1, <1>3, <1>4, <1>9, FinishExecuted DEF ExecuteUnknown
<1>10. QED
  BY <1>1, <1>5, <1>6, <1>7, <1>8, <1>9 DEF Execute, ExecuteNoTarget

LEMMA AcceptCommandPreserves ==
  ASSUME CoreInv, phase = "COMMAND", NEW c \in CDBs, AcceptCommandByte(c)
  PROVE  CoreInv'
<1>1. cmd' = c /\ cmd_pos' = cmd_pos + 1
  BY DEF AcceptCommandByte
<1>2. cmd_pos = 0 \/ cmd_pos < CmdLength(c.op)
  BY DEF AcceptCommandByte, CoreInv, TransferBounds
<1>3. CmdLength(c.op) \in {6, 10, 12}
  BY DEF CmdLength
<1>4. cmd_pos \in 0 .. 12 /\ cmd_pos' \in 0 .. 12
  BY <1>1, <1>2, <1>3 DEF CoreInv, CoreType
<1>5. CASE cmd_pos + 1 >= CmdLength(c.op)
  <2>1. Execute(c)
    BY <1>5 DEF AcceptCommandByte
  <2>2. Executed
    BY <2>1, ExecuteLeavesExecuted
  <2>3. UNCHANGED <<selected_id, medium>> /\ selected_id \in Present
    BY <2>1 DEF Execute, CoreInv, BusOwnership, InTransfer
  <2>4. CoreType'
    BY <1>1, <1>4, <2>2, <2>3 DEF CoreInv, CoreType, Executed, Phase
  <2>5. BusOwnership'
    BY <2>2, <2>3 DEF BusOwnership, Executed
  <2>6. TransferBounds'
    BY <2>2 DEF TransferBounds, Executed
  <2>7. SenseInv'
    BY <2>2, <2>3 DEF SenseInv, Executed
  <2>8. QED BY <2>4, <2>5, <2>6, <2>7 DEF CoreInv
<1>6. CASE cmd_pos + 1 < CmdLength(c.op)
  <2>1. UNCHANGED <<busVars, dataVars, targetVars>>
    BY <1>3, <1>4, <1>6 DEF AcceptCommandByte
  <2>2. QED
    BY <1>1, <1>4, <1>6, <2>1
    DEF CoreInv, CoreType, BusOwnership, TransferBounds, SenseInv, busVars,
        dataVars, targetVars, InData
<1>7. QED BY <1>3, <1>4, <1>5, <1>6

\* A completed write leaves bytes on the disk.
LEMMA WriteImageType ==
  ASSUME CoreType, selected_id \in Present, NEW bytes \in Seq(Byte),
         WriteImage(bytes)
  PROVE  /\ DOMAIN medium' = Present
         /\ \A id \in Present : \A p \in DOMAIN medium'[id] :
              medium'[id][p] \in Byte
<1>1. CASE selected_id \notin Present \ ReadOnly
  BY <1>1 DEF WriteImage, CoreType
<1>2. CASE selected_id \in Present \ ReadOnly
  <2> DEFINE at  == WriteAddress(cmd)
             new == at .. at + Len(bytes) - 1
             old == medium[selected_id]
             img == [p \in DOMAIN old \cup new |->
                       IF p \in new THEN bytes[p - at + 1] ELSE old[p]]
  <2>1. medium' = [medium EXCEPT ![selected_id] = img]
    BY <1>2 DEF WriteImage
  <2>2. at \in Nat
    BY CommandIsCdb, CdbFields DEF CoreType
  <2>3. \A p \in new : bytes[p - at + 1] \in Byte
    <3> SUFFICES ASSUME NEW p \in new
                 PROVE  bytes[p - at + 1] \in Byte
      OBVIOUS
    <3> HIDE DEF at
    <3>1. p - at + 1 \in 1 .. Len(bytes)
      BY <2>2
    <3>2. QED BY <3>1, ElementOfSeq
  <2>4. \A p \in DOMAIN old : old[p] \in Byte
    BY DEF CoreType
  <2>5. DOMAIN img = DOMAIN old \cup new /\ \A p \in DOMAIN img : img[p] \in Byte
    <3> HIDE DEF at, new, old
    <3>1. QED BY <2>3, <2>4
  <2> HIDE DEF img
  <2>6. QED BY <2>1, <2>5 DEF CoreType
<1>3. QED BY <1>1, <1>2

LEMMA AcceptDataPreserves ==
  ASSUME CoreInv, phase = "DATA_OUT", NEW b \in Byte, AcceptDataByte(b)
  PROVE  CoreInv'
<1>1. /\ data_pos \in Nat /\ data_len \in Nat /\ data_pos < data_len
      /\ data_buf \in Seq(Byte) /\ Len(data_buf) = data_len
      /\ selected_id \in Present /\ status_byte = Good
  BY DEF CoreInv, CoreType, TransferBounds, BusOwnership, SenseInv, InData,
         InTransfer
<1>2. data_buf' \in Seq(Byte) /\ Len(data_buf') = data_len
  BY <1>1 DEF AcceptDataByte
<1>3. /\ DOMAIN medium' = Present
      /\ \A id \in Present : \A p \in DOMAIN medium'[id] : medium'[id][p] \in Byte
  <2>1. CASE WriteImage(data_buf')
    BY <1>1, <1>2, <2>1, WriteImageType DEF CoreInv
  <2>2. CASE UNCHANGED medium
    BY <2>2 DEF CoreInv, CoreType
  <2>3. QED BY <2>1, <2>2 DEF AcceptDataByte
<1>4. /\ data_pos' = data_pos + 1
      /\ UNCHANGED <<selected_id, cmdVars, data_len, status_byte, sense_key>>
      /\ \/ phase' = "STATUS"
         \/ phase' = phase /\ data_pos + 1 < data_len
  BY <1>1 DEF AcceptDataByte
<1>5. CoreType'
  BY <1>1, <1>2, <1>3, <1>4 DEF CoreInv, CoreType, Phase, cmdVars
<1>6. BusOwnership' /\ TransferBounds' /\ SenseInv'
  BY <1>1, <1>2, <1>4 DEF BusOwnership, TransferBounds, SenseInv, InData, Good,
     Check
<1>7. QED BY <1>5, <1>6 DEF CoreInv

LEMMA ReleasePreserves ==
  ASSUME CoreInv, ReleaseDataByte \/ ReleaseStatus \/ ReleaseMessage
  PROVE  CoreInv'
<1>1. CASE ReleaseDataByte
  BY <1>1 DEF ReleaseDataByte, CoreInv, CoreType, BusOwnership, TransferBounds,
     SenseInv, InData, InTransfer, Phase, cmdVars, targetVars
<1>2. CASE ReleaseStatus
  BY <1>2 DEF ReleaseStatus, CoreInv, CoreType, BusOwnership, TransferBounds,
     SenseInv, InData, InTransfer, Phase, cmdVars, dataVars, targetVars
<1>3. CASE ReleaseMessage
  BY <1>3 DEF ReleaseMessage, CoreInv, CoreType, BusOwnership, TransferBounds,
     SenseInv, InData, InTransfer, Phase, cmdVars, dataVars, targetVars
<1>4. QED BY <1>1, <1>2, <1>3

LEMMA SelectPreserves ==
  ASSUME CoreInv, SelectTarget, UNCHANGED <<dataVars, targetVars>>,
         \/ cmd_pos' = 0 /\ UNCHANGED cmd
         \/ cmd_pos' = 1 /\ cmd' \in CDBs
  PROVE  CoreInv'
<1>1. phase' = "COMMAND" /\ selected_id' \in Present
  BY SelectedIsPresent DEF SelectTarget
<1>2. CmdLength(cmd'.op) \in {6, 10, 12}
  BY DEF CmdLength
<1>3. QED
  BY <1>1, <1>2 DEF CoreInv, CoreType, BusOwnership, TransferBounds, SenseInv,
     InData, Phase, dataVars, targetVars

-----------------------------------------------------------------------------
(* Every action preserves the invariant.                                   *)

LEMMA InitInv == Init => Inv
<1> SUFFICES ASSUME Init
             PROVE  Inv
  OBVIOUS
<1>1. CoreType
  BY MediumAssumption DEF Init, CoreType, Phase, Good, Check
<1>2. BusOwnership /\ TransferBounds /\ SenseInv
  BY DEF Init, BusOwnership, TransferBounds, SenseInv, InTransfer, InData
<1>3. RegInv
  <2>1. 0 \in 0 .. 7 /\ 0 \in Byte
    BY DEF Byte
  <2>2. QED BY <2>1, Zenon DEF Init, RegInv
<1>4. QED BY <1>1, <1>2, <1>3 DEF Inv, CoreInv

LEMMA WriteIcrPreserves ==
  ASSUME Inv, NEW val \in SUBSET IcrBit, WriteICR(val)
  PROVE  Inv'
<1>0. CoreInv /\ RegInv
  BY DEF Inv
<1>1. CASE WriteIcrReset(val)
  <2>1. CoreInv'
    BY <1>0, <1>1 DEF WriteIcrReset, CoreInv, CoreType, BusOwnership,
       TransferBounds, SenseInv, InTransfer, InData, Phase, targetVars
  <2>2. RegInv'
    <3>1. 0 \in 0 .. 7 /\ 0 \in Byte
      BY DEF Byte
    <3>2. QED BY <1>0, <1>1, <3>1, Zenon DEF WriteIcrReset, RegInv
  <2>3. QED BY <2>1, <2>2 DEF Inv
<1>2. CASE WriteIcrSelect(val)
  <2>1. CoreInv'
    <3>1. CASE SelectTarget
      BY <1>0, <1>2, <3>1, SelectPreserves
      DEF WriteIcrSelect, SelectTarget, cmdVars
    <3>2. CASE UNCHANGED <<selected_id, cmdVars, dataVars, targetVars>>
                 /\ phase' = IF selected_id = None THEN "FREE" ELSE phase
      BY <1>0, <1>2, <3>2
      DEF WriteIcrSelect, Selects, CoreInv, CoreType, BusOwnership,
          TransferBounds, SenseInv, InTransfer, InData, Phase, cmdVars,
          dataVars, targetVars
    <3>3. QED BY <1>2, <3>1, <3>2 DEF WriteIcrSelect
  <2>2. RegInv'
    BY <1>0, <1>2 DEF WriteIcrSelect, RegInv
  <2>3. QED BY <2>1, <2>2 DEF Inv
<1>3. CASE WriteIcrAck(val)
  <2>1. CoreInv'
    <3>1. CASE phase = "COMMAND" /\ \E c \in CDBs : AcceptCommandByte(c)
      BY <1>0, <3>1, AcceptCommandPreserves
    <3>2. CASE phase = "DATA_OUT" /\ AcceptDataByte(output_data)
      BY <1>0, <3>2, AcceptDataPreserves DEF RegInv
    <3>3. CASE ReleaseDataByte \/ ReleaseStatus \/ ReleaseMessage
      BY <1>0, <3>3, ReleasePreserves
    <3>4. CASE UNCHANGED coreVars
      BY <1>0, <3>4, CoreUnchanged
    <3>5. QED
      BY <1>3, <3>1, <3>2, <3>3, <3>4 DEF WriteIcrAck, coreVars
  <2>2. RegInv'
    BY <1>0, <1>3 DEF WriteIcrAck, RegInv
  <2>3. QED BY <2>1, <2>2 DEF Inv
<1>4. CASE WriteIcrOther(val)
  <2>1. CoreInv'
    BY <1>0, <1>4, CoreUnchanged DEF WriteIcrOther, coreVars
  <2>2. RegInv'
    BY <1>0, <1>4 DEF WriteIcrOther, RegInv
  <2>3. QED BY <2>1, <2>2 DEF Inv
<1>5. QED BY <1>1, <1>2, <1>3, <1>4 DEF WriteICR

LEMMA WriteDataPreserves ==
  ASSUME Inv, NEW b \in Byte, WriteData(b)
  PROVE  Inv'
<1>1. CoreInv'
  BY CoreUnchanged DEF Inv, WriteData, coreVars
<1>2. RegInv'
  BY DEF Inv, WriteData, RegInv
<1>3. QED BY <1>1, <1>2 DEF Inv

LEMMA DmaWritePreserves ==
  ASSUME Inv, NEW b \in Byte, DmaWrite(b)
  PROVE  Inv'
<1>0. CoreInv /\ RegInv
  BY DEF Inv
<1>1. CASE phase = "COMMAND" /\ \E c \in CDBs : AcceptCommandByte(c)
  BY <1>0, <1>1, AcceptCommandPreserves DEF DmaWrite, regVars, RegInv, Inv
<1>2. CASE phase = "DATA_OUT" /\ AcceptDataByte(b)
  <2>1. CoreInv'
    BY <1>0, <1>2, AcceptDataPreserves
  <2>2. QED BY <1>0, <2>1 DEF DmaWrite, regVars, RegInv, Inv
<1>3. CASE UNCHANGED coreVars
  BY <1>0, <1>3, CoreUnchanged DEF DmaWrite, regVars, RegInv, Inv
<1>4. QED BY <1>1, <1>2, <1>3 DEF DmaWrite, coreVars

LEMMA WriteModePreserves ==
  ASSUME Inv, NEW val \in SUBSET ModeBit, WriteMode(val)
  PROVE  Inv'
<1>1. CoreInv'
  BY DEF Inv, WriteMode, CoreInv, CoreType, BusOwnership, TransferBounds,
     SenseInv, InTransfer, InData, Phase, cmdVars, dataVars, targetVars
<1>2. RegInv
  BY DEF Inv
<1>3. RegInv'
  <2>1. icr \cup {"AIP"} \in SUBSET IcrBit
    BY <1>2 DEF RegInv, IcrBit
  <2>2. icr' \in SUBSET IcrBit
    BY <1>2, <2>1 DEF WriteMode, RegInv
  <2>3. dma_active' \in BOOLEAN
    BY DEF WriteMode
  <2>4. /\ mode' \in SUBSET ModeBit
        /\ UNCHANGED <<tcr, output_data, latch_sel>>
    BY DEF WriteMode
  <2>5. QED BY <1>2, <2>2, <2>3, <2>4 DEF RegInv
<1>4. QED BY <1>1, <1>3 DEF Inv

LEMMA WriteTcrPreserves ==
  ASSUME Inv, NEW val \in Nat, WriteTCR(val)
  PROVE  Inv'
<1>1. CoreInv'
  BY CoreUnchanged DEF Inv, WriteTCR, coreVars
<1>2. RegInv'
  BY DEF Inv, WriteTCR, RegInv
<1>3. QED BY <1>1, <1>2 DEF Inv

LEMMA StartDmaPreserves ==
  ASSUME Inv, StartDma
  PROVE  Inv'
<1>1. CoreInv'
  BY CoreUnchanged DEF Inv, StartDma, coreVars
<1>2. RegInv'
  BY DEF Inv, StartDma, RegInv
<1>3. QED BY <1>1, <1>2 DEF Inv

LEMMA WriteLatchPreserves ==
  ASSUME Inv, NEW sel \in BOOLEAN, WriteLatch(sel)
  PROVE  Inv'
<1>1. CoreInv'
  BY SelectPreserves, CoreUnchanged DEF Inv, WriteLatch, coreVars, cmdVars
<1>2. RegInv'
  BY DEF Inv, WriteLatch, RegInv
<1>3. QED BY <1>1, <1>2 DEF Inv

LEMMA ReadBsrPreserves ==
  ASSUME Inv, ReadBSR
  PROVE  Inv'
<1>1. CoreInv'
  BY CoreUnchanged DEF Inv, ReadBSR, coreVars
<1>2. RegInv'
  BY DEF Inv, ReadBSR, RegInv, PhaseMatch
<1>3. QED BY <1>1, <1>2 DEF Inv

LEMMA DmaReadPreserves ==
  ASSUME Inv, DmaRead
  PROVE  Inv'
<1>1. CoreInv'
  BY ReleasePreserves, CoreUnchanged DEF Inv, DmaRead, coreVars
<1>2. RegInv'
  BY DEF Inv, DmaRead, regVars, RegInv
<1>3. QED BY <1>1, <1>2 DEF Inv

LEMMA InvUnchanged ==
  ASSUME Inv, UNCHANGED vars
  PROVE  Inv'
<1>1. CoreInv'
  BY CoreUnchanged DEF Inv, vars, coreVars
<1>2. RegInv'
  BY DEF Inv, vars, regVars, RegInv
<1>3. QED BY <1>1, <1>2 DEF Inv

LEMMA NextInv == Inv /\ [Next]_vars => Inv'
<1> SUFFICES ASSUME Inv, [Next]_vars
             PROVE  Inv'
  OBVIOUS
<1>1. CASE \E b \in HostBytes : WriteData(b) \/ DmaWrite(b)
  BY <1>1, InputAssumption, WriteDataPreserves, DmaWritePreserves
<1>2. CASE \E val \in IcrWrites : WriteICR(val)
  BY <1>2, InputAssumption, WriteIcrPreserves
<1>3. CASE \E val \in ModeWrites : WriteMode(val)
  BY <1>3, InputAssumption, WriteModePreserves
<1>4. CASE \E val \in TcrWrites : WriteTCR(val)
  BY <1>4, InputAssumption, WriteTcrPreserves
<1>5. CASE \E sel \in BOOLEAN : WriteLatch(sel)
  BY <1>5, WriteLatchPreserves
<1>6. CASE StartDma \/ ReadBSR \/ DmaRead
  BY <1>6, StartDmaPreserves, ReadBsrPreserves, DmaReadPreserves
<1>7. CASE UNCHANGED vars
  BY <1>7, InvUnchanged
<1>8. QED
  BY <1>1, <1>2, <1>3, <1>4, <1>5, <1>6, <1>7 DEF Next

-----------------------------------------------------------------------------
(* Theorems.                                                               *)

LEMMA InvAlways == Spec => []Inv
BY InitInv, NextInv, PTL DEF Spec

\* Registers, positions and buffers stay within their types, for every
\* number of targets, disk and command.
THEOREM TypeCorrect == Spec => []TypeOK
<1>1. Inv => TypeOK
  BY DEF Inv, CoreInv, CoreType, RegInv, TypeOK
<1>2. QED BY <1>1, InvAlways, PTL

\* A present target is selected in every information transfer phase, and none
\* on a free bus: the latch, arbitration and bus reset cannot separate the two
\* variables.
THEOREM BusOwned == Spec => []BusOwnership
<1>1. Inv => BusOwnership
  BY DEF Inv, CoreInv
<1>2. QED BY <1>1, InvAlways, PTL

\* Command and data positions never overrun the block or the transfer of
\* their phase, by PIO, pseudo-DMA or any mix of the two.
THEOREM TransfersBounded == Spec => []TransferBounds
<1>1. Inv => TransferBounds
  BY DEF Inv, CoreInv
<1>2. QED BY <1>1, InvAlways, PTL

\* Every CHECK CONDITION a host can read has a sense key behind it.
THEOREM CheckReportsSense == Spec => []CheckHasSense
<1>1. Inv => CheckHasSense
  BY DEF Inv, CoreInv, SenseInv, CheckHasSense
<1>2. QED BY <1>1, InvAlways, PTL
-----------------------------------------------------------------------------
(* The refinement of BlockTarget.                                          *)

\* No command block names blocks whose end the 32-bit sum of execute_command
\* wraps around: READ(6) and WRITE(6) cannot, a READ(10) near block 2^32 can.
NoWrap == \A c \in CDBs : Reads(c) => ReadLba(c) + ReadCount(c) < LbaModulus

\* An image never gets shorter than its capacity.
MediumFull ==
  \A id \in Present : 0 .. Blocks[id] * BlockSize - 1 \subseteq DOMAIN medium[id]

\* The data bus holds a byte of the host, or what a reset left.
OutputFromHost == output_data \in HostBytes \cup {0}

MapInv == Inv /\ MediumFull /\ OutputFromHost

WriteNow  == Target!Write(selected_id, WriteAddress(cmd), data_len,
                          SubSeq(data_buf, 1, data_pos))
ReadNow   == Target!Read(SubSeq(data_buf, data_pos + 1, data_len))
ReportNow == Target!Report(data_len - data_pos)

\* What the abstract transfer is in each phase.
LEMMA TransferByPhase ==
  /\ phase \notin InData => Transfer = Target!Idle
  /\ phase = "DATA_OUT" => Transfer = WriteNow
  /\ phase = "DATA_IN" /\ Reads(cmd) /\ status_byte = Good => Transfer = ReadNow
  /\ phase = "DATA_IN" /\ ~(Reads(cmd) /\ status_byte = Good)
       => Transfer = ReportNow
<1>1. ASSUME phase \notin InData PROVE Transfer = Target!Idle
  BY <1>1 DEF Transfer, InData, Target!Idle
<1>2. ASSUME phase = "DATA_OUT" PROVE Transfer = WriteNow
  BY <1>2 DEF Transfer, WriteNow, Target!Write
<1>3. ASSUME phase = "DATA_IN", Reads(cmd), status_byte = Good
      PROVE  Transfer = ReadNow
  BY <1>3 DEF Transfer, ReadNow, Target!Read
<1>4. ASSUME phase = "DATA_IN", ~(Reads(cmd) /\ status_byte = Good)
      PROVE  Transfer = ReportNow
  BY <1>4 DEF Transfer, ReportNow, Target!Report
<1>5. QED BY <1>1, <1>2, <1>3, <1>4

LEMMA TransferByPhaseNext ==
  /\ phase' \notin InData => Transfer' = Target!Idle
  /\ phase' = "DATA_OUT" => Transfer' = WriteNow'
  /\ phase' = "DATA_IN" /\ Reads(cmd') /\ status_byte' = Good
       => Transfer' = ReadNow'
  /\ phase' = "DATA_IN" /\ ~(Reads(cmd') /\ status_byte' = Good)
       => Transfer' = ReportNow'
<1>1. ASSUME phase' \notin InData PROVE Transfer' = Target!Idle
  BY <1>1 DEF Transfer, InData, Target!Idle
<1>2. ASSUME phase' = "DATA_OUT" PROVE Transfer' = WriteNow'
  BY <1>2 DEF Transfer, WriteNow, Target!Write
<1>3. ASSUME phase' = "DATA_IN", Reads(cmd'), status_byte' = Good
      PROVE  Transfer' = ReadNow'
  BY <1>3 DEF Transfer, ReadNow, Target!Read, Reads
<1>4. ASSUME phase' = "DATA_IN", ~(Reads(cmd') /\ status_byte' = Good)
      PROVE  Transfer' = ReportNow'
  BY <1>4 DEF Transfer, ReportNow, Target!Report, Reads
<1>5. QED BY <1>1, <1>2, <1>3, <1>4

\* A step that leaves the target's state alone is invisible.
LEMMA SameTransfer ==
  ASSUME UNCHANGED coreVars
  PROVE  UNCHANGED Target!vars
BY DEF coreVars, busVars, cmdVars, dataVars, targetVars, Transfer, Target!vars,
       Reads, WriteAddress

\* One that ends outside the data phases is at most an abandoned transfer.
LEMMA OutsideData ==
  ASSUME phase' \notin InData, UNCHANGED medium
  PROVE  Target!Abandon
BY TransferByPhaseNext DEF Target!Abandon

\* Of the blocks that are on the disk, every byte is.
LEMMA WindowOnDisk ==
  ASSUME NEW lba \in Nat, NEW count \in Nat, NEW blocks \in Nat,
         NEW size \in Nat, lba + count <= blocks
  PROVE  Target!Window(lba * size, count * size) \subseteq 0 .. blocks * size - 1
<1>1. (lba + count) * size = lba * size + count * size
  OBVIOUS
<1>2. \A k \in Nat : k * size \in Nat
  OBVIOUS
<1>3. blocks - (lba + count) \in Nat
  OBVIOUS
<1>4. blocks * size = (lba + count) * size + (blocks - (lba + count)) * size
  OBVIOUS
<1>5. (lba + count) * size <= blocks * size
  BY <1>2, <1>3, <1>4
<1> DEFINE l == lba * size
           m == count * size
           n == blocks * size
<1>6. l \in Nat /\ m \in Nat /\ n \in Nat /\ l + m <= n
  BY <1>1, <1>2, <1>5
<1> HIDE DEF l, m, n
<1>7. Target!Window(l, m) \subseteq 0 .. n - 1
  BY <1>6 DEF Target!Window
<1>8. QED BY <1>7 DEF l, m, n

\* The execution of a command begins a transfer, or none.
LEMMA ExecuteBegins ==
  ASSUME MapInv, NoWrap, phase = "COMMAND", NEW c \in CDBs, cmd' = c, Execute(c)
  PROVE  Target!Next
<1>1. /\ selected_id \in Present /\ selected_id' = selected_id
      /\ medium' = medium
      /\ c \in CDB /\ CoreType /\ CoreInv
  BY InputAssumption DEF MapInv, Inv, CoreInv, BusOwnership, InTransfer, Execute
<1>2. Transfer = Target!Idle
  BY TransferByPhase DEF InData
<1>3. /\ BlockSize \in Nat \ {0} /\ Blocks[selected_id] \in Nat
      /\ LbaModulus \in Nat \ {0}
  BY <1>1, MediumAssumption, InputAssumption
<1>4. /\ ReadCount(c) * BlockSize \in Nat /\ ReadLba(c) \in Nat
      /\ ReadCount(c) \in Nat
  BY <1>1, <1>3, CdbFields, ProductNatural, Zenon
<1>5. /\ ReadCount(c) * BlockSize \in TransferLengths
      /\ c.len \in TransferLengths /\ 0 .. 36 \subseteq TransferLengths
      /\ ReadLba(c) * BlockSize \in TransferAddresses
      /\ WriteAddress(c) \in TransferAddresses
  BY Zenon DEF TransferLengths, TransferAddresses
<1>6. ASSUME phase' = "DATA_OUT", data_pos' = 0, data_len' \in TransferLengths,
             data_buf' \in Seq(Byte)
      PROVE  Target!Next
  <2>1. WriteNow' = Target!Write(selected_id, WriteAddress(c), data_len',
                                 SubSeq(data_buf', 1, 0))
    BY <1>1, <1>6 DEF WriteNow, Target!Write, WriteAddress
  <2>2. SubSeq(data_buf', 1, 0) = <<>>
    BY <1>6
  <2>3. Target!BeginWrite(selected_id, WriteAddress(c), data_len')
    BY <1>1, <1>6, <2>1, <2>2, TransferByPhaseNext DEF Target!BeginWrite
  <2>4. QED BY <1>1, <1>2, <1>5, <1>6, <2>3 DEF Target!Begin, Target!Next
<1>7. ASSUME phase' = "DATA_IN", ~(Reads(c) /\ status_byte' = Good),
             data_pos' = 0, data_len' \in TransferLengths, data_len' \in Nat
      PROVE  Target!Next
  <2>1. ReportNow' = Target!Report(data_len')
    BY <1>7 DEF ReportNow, Target!Report
  <2>2. Target!BeginReport(data_len')
    BY <1>1, <1>7, <2>1, TransferByPhaseNext DEF Target!BeginReport
  <2>3. QED BY <1>2, <1>7, <2>2 DEF Target!Begin, Target!Next
<1>8. ASSUME phase' = "STATUS"
      PROVE  Target!Next
  BY <1>1, <1>8, OutsideData DEF InData, Target!Next
<1>9. ASSUME NEW stale \in HostBytes, Reads(c), InRange(c),
             StartDataIn(FromMedium(selected_id, ReadLba(c) * BlockSize,
                                    ReadCount(c) * BlockSize, stale), Good)
      PROVE  Target!Next
  <2> DEFINE at == ReadLba(c) * BlockSize
             n  == ReadCount(c) * BlockSize
  <2>1. ReadLba(c) + ReadCount(c) <= Blocks[selected_id]
    <3>1. ReadLba(c) + ReadCount(c) < LbaModulus
      BY <1>9 DEF NoWrap
    <3>2. (ReadLba(c) + ReadCount(c)) % LbaModulus = ReadLba(c) + ReadCount(c)
      BY <1>3, <1>4, <3>1
    <3>3. QED BY <1>9, <3>2 DEF InRange
  <2>2. Target!Window(at, n) \subseteq DOMAIN medium[selected_id]
    <3>1. Target!Window(at, n) \subseteq 0 .. Blocks[selected_id] * BlockSize - 1
      BY <1>3, <1>4, <2>1, WindowOnDisk
    <3>2. QED BY <1>1, <3>1 DEF MapInv, MediumFull
  <2>3. n \in Nat /\ at \in Nat
    BY <1>1, <1>3, <1>4, CdbFields, ProductNatural, Zenon
  <2> HIDE DEF at, n
  <2>4. FromMedium(selected_id, at, n, stale) = Target!Content(selected_id, at, n)
    <3>1. \A i \in 1 .. n : at + i - 1 \in DOMAIN medium[selected_id]
      BY <2>2, <2>3 DEF Target!Window
    <3>2. QED BY <3>1 DEF FromMedium, Target!Content
  <2>5. /\ data_buf' = Target!Content(selected_id, at, n) /\ data_pos' = 0
        /\ data_len' = Len(data_buf')
        /\ phase' = "DATA_IN" /\ status_byte' = Good
    BY <1>9, <2>4 DEF StartDataIn, at, n
  <2>6. SubSeq(data_buf', data_pos' + 1, data_len') = data_buf'
    <3>1. data_buf' \in Seq(Byte)
      BY <1>1, <2>3, <2>4, <2>5, InputAssumption, FromMediumType DEF CoreType
    <3>2. QED BY <2>5, <3>1
  <2>7. Transfer' = Target!Read(Target!Content(selected_id, at, n))
    <3>1. Transfer' = ReadNow'
      BY <1>9, <2>5, TransferByPhaseNext
    <3>2. QED BY <2>5, <2>6, <3>1 DEF ReadNow
  <2>8. Target!BeginRead(selected_id, at, n)
    BY <1>1, <2>2, <2>7 DEF Target!BeginRead
  <2>9. QED BY <1>1, <1>2, <1>5, <2>8 DEF Target!Begin, Target!Next, at, n
<1>10. CASE ExecuteRead(c)
  <2>1. Reads(c)
    BY <1>10 DEF ExecuteRead, Reads
  <2>2. ASSUME StartDataIn(Repeat(ReadCount(c) * BlockSize, 0), Check)
        PROVE  Target!Next
    <3>1. 0 \in Byte
      BY DEF Byte
    <3>2. Len(Repeat(ReadCount(c) * BlockSize, 0)) = ReadCount(c) * BlockSize
      BY <1>4, <3>1, RepeatType, Zenon
    <3>3. /\ phase' = "DATA_IN" /\ data_pos' = 0 /\ status_byte' = Check
          /\ data_len' = ReadCount(c) * BlockSize
      BY <2>2, <3>2, Zenon DEF StartDataIn
    <3>4. Good # Check
      BY DEF Good, Check
    <3>5. QED BY <1>4, <1>5, <1>7, <3>3, <3>4, Zenon
  <2>3. QED BY <1>9, <1>10, <2>1, <2>2 DEF ExecuteRead
<1>11. CASE ExecuteReply(c)
  <2>1. sense_key'[selected_id] = 0
    BY <1>1, <1>11 DEF ExecuteReply, SetSense, CoreType
  <2>2. /\ Len(Reply(c, 0)) \in TransferLengths /\ Len(Reply(c, 0)) \in Nat
        /\ ~Reads(c)
    <3>1. /\ Reply(c, 0) \in Seq(Byte)
          /\ Len(Reply(c, 0)) \in (0 .. 36) \cup {c.len}
      BY <1>1, <1>11, ReplyType DEF ExecuteReply
    <3>2. ~Reads(c)
      BY <1>11 DEF ExecuteReply, Reads, REQUEST_SENSE, INQUIRY, MODE_SENSE,
         READ_CAPACITY, READ_6, READ_10
    <3>3. Len(Reply(c, 0)) \in Nat
      BY <3>1
    <3>4. QED BY <1>5, <3>1, <3>2, <3>3, Zenon
  <2>3. QED BY <1>7, <1>11, <2>1, <2>2 DEF ExecuteReply, StartDataIn
<1>12. CASE ExecuteWrite(c)
  <2>1. ASSUME NEW n \in TransferLengths, n \in Nat, StartDataOut(n)
        PROVE  Target!Next
    <3>1. Repeat(n, 0) \in Seq(Byte)
      BY <2>1, RepeatType DEF Byte
    <3>2. QED BY <1>6, <2>1, <3>1 DEF StartDataOut
  <2>2. c.op = WRITE_6 => OrElse(c.len, 256) * BlockSize = ReadCount(c) * BlockSize
    BY DEF ReadCount, WRITE_6, READ_10
  <2>3. c.len \in Nat
    BY <1>1, CdbFields
  <2>4. QED BY <1>4, <1>5, <1>12, <2>1, <2>2, <2>3 DEF ExecuteWrite
<1>13. CASE ExecuteNoData(c) \/ ExecuteUnknown(c)
  BY <1>8, <1>13 DEF ExecuteNoData, ExecuteUnknown, FinishWithStatus
<1>14. QED
  BY <1>1, <1>10, <1>11, <1>12, <1>13 DEF Execute, ExecuteNoTarget

\* A byte of a write is taken into the buffer, the last one to the disk.
LEMMA DataByteReceived ==
  ASSUME MapInv, phase = "DATA_OUT", NEW b \in HostBytes \cup {0},
         AcceptDataByte(b)
  PROVE  Target!Next
<1>1. /\ data_pos \in Nat /\ data_len \in Nat /\ data_pos < data_len
      /\ data_buf \in Seq(Byte) /\ Len(data_buf) = data_len
      /\ selected_id \in Present
  BY DEF MapInv, Inv, CoreInv, CoreType, TransferBounds, BusOwnership, InData,
         InTransfer
<1>2. b \in Byte
  <2>1. 0 \in Byte
    BY DEF Byte
  <2>2. QED BY <2>1, InputAssumption
<1>3. /\ data_buf' = [data_buf EXCEPT ![data_pos + 1] = b]
      /\ data_pos' = data_pos + 1
      /\ UNCHANGED <<selected_id, cmd, data_len>>
  BY DEF AcceptDataByte, cmdVars
<1> DEFINE taken == SubSeq(data_buf, 1, data_pos)
<1>4. Transfer = Target!Write(selected_id, WriteAddress(cmd), data_len, taken)
  BY TransferByPhase DEF WriteNow
<1>5. taken \in Seq(Byte) /\ Len(taken) = data_pos
  BY <1>1
<1>6. Append(taken, b) = SubSeq(data_buf', 1, data_pos + 1)
  BY <1>1, <1>2, <1>3
<1>7. /\ Transfer.kind = "write" /\ Transfer.got = taken
      /\ Transfer.need = data_len /\ Transfer.dev = selected_id
      /\ Transfer.at = WriteAddress(cmd)
  <2> HIDE DEF taken
  <2>1. QED BY <1>4 DEF Target!Write
<1>8. CASE data_pos + 1 < data_len
  <2>1. phase' = "DATA_OUT" /\ medium' = medium
    BY <1>1, <1>8 DEF AcceptDataByte
  <2>2. Transfer' = Target!Write(selected_id, WriteAddress(cmd), data_len,
                                 Append(taken, b))
    BY <1>3, <1>6, <2>1, TransferByPhaseNext DEF WriteNow, WriteAddress
  <2> HIDE DEF taken
  <2>3. [Transfer EXCEPT !.got = Append(Transfer.got, b)]
           = Target!Write(selected_id, WriteAddress(cmd), data_len, Append(taken, b))
    BY <1>4 DEF Target!Write
  <2>4. Target!Accept(b)
    BY <1>5, <1>7, <1>8, <2>1, <2>2, <2>3 DEF Target!Accept
  <2>5. QED BY <1>7, <2>4 DEF Target!Receive, Target!Next
<1>9. CASE data_pos + 1 = data_len
  <2>1. WriteImage(data_buf') /\ phase' = "STATUS"
    BY <1>1, <1>9 DEF AcceptDataByte
  <2>2. Transfer' = Target!Idle
    BY <2>1, TransferByPhaseNext DEF InData
  <2>3. data_buf' = Append(taken, b)
    <3>1. data_buf' \in Seq(Byte) /\ Len(data_buf') = data_pos + 1
      BY <1>1, <1>2, <1>3, <1>9
    <3>2. SubSeq(data_buf', 1, data_pos + 1) = data_buf'
      BY <3>1
    <3>3. QED BY <1>6, <3>2
  <2> HIDE DEF taken
  <2>4. \/ medium' = [medium EXCEPT ![selected_id] =
                        Target!Stored(medium[selected_id], WriteAddress(cmd),
                                      Append(taken, b))]
        \/ medium' = medium
    BY <2>1, <2>3, Zenon DEF WriteImage, Target!Stored, Target!Window
  <2>5. Target!Commit(b)
    BY <1>5, <1>7, <1>9, <2>2, <2>4 DEF Target!Commit
  <2>6. QED BY <1>7, <2>5 DEF Target!Receive, Target!Next
<1>10. QED BY <1>1, <1>8, <1>9

\* A byte of a read or a report is handed out, unless there is none.
LEMMA DataByteDelivered ==
  ASSUME MapInv, ReleaseDataByte
  PROVE  Target!Next
<1>1. /\ phase = "DATA_IN" /\ data_pos \in Nat /\ data_len \in Nat
      /\ data_pos < data_len \/ data_len = 0
      /\ data_buf \in Seq(Byte) /\ Len(data_buf) = data_len
  BY DEF MapInv, Inv, CoreInv, CoreType, TransferBounds, InData, ReleaseDataByte
<1>2. UNCHANGED <<selected_id, cmd, data_buf, data_len, status_byte, medium>>
  BY DEF ReleaseDataByte, cmdVars, targetVars
<1>3. CASE data_len = 0
  <2>1. phase' = "STATUS"
    BY <1>1, <1>3 DEF ReleaseDataByte
  <2>2. QED BY <1>2, <2>1, OutsideData DEF InData, Target!Next
<1>4. CASE data_pos < data_len
  <2>1. /\ data_pos' = data_pos + 1
        /\ data_pos + 1 = data_len => phase' = "STATUS"
        /\ data_pos + 1 < data_len => phase' = "DATA_IN"
    BY <1>1, <1>4 DEF ReleaseDataByte
  <2>2. data_pos + 1 = data_len => Transfer' = Target!Idle
    BY <2>1, TransferByPhaseNext DEF InData
  <2>3. CASE Reads(cmd) /\ status_byte = Good
    <3> DEFINE rest == SubSeq(data_buf, data_pos + 1, data_len)
    <3>1. Transfer = Target!Read(rest)
      BY <1>1, <2>3, TransferByPhase DEF ReadNow
    <3>2. /\ Len(rest) = data_len - data_pos
          /\ Tail(rest) = SubSeq(data_buf, data_pos + 2, data_len)
      BY <1>1, <1>4
    <3>3. data_pos + 1 < data_len => Transfer' = Target!Read(Tail(rest))
      <4>1. (data_pos + 1) + 1 = data_pos + 2
        BY <1>1
      <4>2. ReadNow' = Target!Read(SubSeq(data_buf, data_pos + 2, data_len))
        BY <1>2, <2>1, <4>1 DEF ReadNow, Target!Read
      <4>3. QED BY <1>2, <2>1, <2>3, <3>2, <4>2, TransferByPhaseNext
    <3> HIDE DEF rest
    <3>4. Transfer.kind = "read" /\ Transfer.rest = rest
      BY <3>1 DEF Target!Read
    <3>5. Len(rest) = 1 <=> data_pos + 1 = data_len
      BY <1>1, <3>2
    <3>6. Len(rest) > 0 /\ (Len(rest) # 1 => data_pos + 1 < data_len)
      BY <1>1, <1>4, <3>2
    <3>7. Transfer' = IF Len(rest) = 1 THEN Target!Idle
                      ELSE Target!Read(Tail(rest))
      BY <2>2, <3>3, <3>5, <3>6, Zenon
    <3>8. Target!Deliver
      BY <1>2, <3>4, <3>6, <3>7, Zenon DEF Target!Deliver
    <3>9. QED BY <3>8 DEF Target!Next
  <2>4. CASE ~(Reads(cmd) /\ status_byte = Good)
    <3>1. Transfer = Target!Report(data_len - data_pos)
      BY <1>1, <2>4, TransferByPhase DEF ReportNow
    <3>2. Transfer.kind = "report" /\ Transfer.left = data_len - data_pos
      BY <3>1 DEF Target!Report
    <3>3. data_pos + 1 < data_len
            => Transfer' = Target!Report(data_len - data_pos - 1)
      <4>1. ReportNow' = Target!Report(data_len - data_pos - 1)
        BY <1>1, <1>2, <2>1 DEF ReportNow, Target!Report
      <4>2. QED BY <1>2, <2>1, <2>4, <4>1, TransferByPhaseNext
    <3>4. QED BY <1>1, <1>2, <1>4, <2>2, <3>2, <3>3
              DEF Target!Deliver, Target!Next
  <2>5. QED BY <2>3, <2>4
<1>5. QED BY <1>1, <1>3, <1>4

\* A command byte: one more of the block, or the last one.
LEMMA CommandByteTaken ==
  ASSUME MapInv, NoWrap, phase = "COMMAND", NEW c \in CDBs, AcceptCommandByte(c)
  PROVE  Target!Next
<1>1. cmd' = c /\ cmd_pos \in 0 .. 12 /\ CmdLength(c.op) \in {6, 10, 12}
  BY DEF AcceptCommandByte, CmdLength, MapInv, Inv, CoreInv, CoreType
<1>2. CASE cmd_pos + 1 >= CmdLength(c.op)
  <2>1. Execute(c)
    BY <1>2 DEF AcceptCommandByte
  <2>2. QED BY <1>1, <2>1, ExecuteBegins
<1>3. CASE cmd_pos + 1 < CmdLength(c.op)
  <2>1. phase' = "COMMAND" /\ UNCHANGED medium
    BY <1>1, <1>3 DEF AcceptCommandByte, busVars, targetVars
  <2>2. QED BY <2>1, OutsideData DEF InData, Target!Next
<1>4. QED BY <1>1, <1>2, <1>3

LEMMA ReleaseMaps ==
  ASSUME MapInv, ReleaseDataByte \/ ReleaseStatus \/ ReleaseMessage
  PROVE  Target!Next
<1>1. CASE ReleaseDataByte
  BY <1>1, DataByteDelivered
<1>2. CASE ReleaseStatus \/ ReleaseMessage
  <2>1. phase' \notin InData /\ UNCHANGED medium
    BY <1>2 DEF ReleaseStatus, ReleaseMessage, InData, targetVars
  <2>2. QED BY <2>1, OutsideData DEF Target!Next
<1>3. QED BY <1>1, <1>2

\* Every step of the controller is one of the target, or none.
LEMMA StepMaps ==
  ASSUME MapInv, NoWrap, [Next]_vars
  PROVE  [Target!Next]_(Target!vars)
<1>1. ASSUME UNCHANGED coreVars
      PROVE  [Target!Next]_(Target!vars)
  BY <1>1, SameTransfer
<1>2. ASSUME phase' \notin InData, UNCHANGED medium
      PROVE  Target!Next
  BY <1>2, OutsideData DEF Target!Next
<1>3. output_data \in HostBytes \cup {0}
  BY DEF MapInv, OutputFromHost
<1>4. CASE \E b \in HostBytes : WriteData(b)
  BY <1>1, <1>4 DEF WriteData, coreVars
<1>5. ASSUME NEW b \in HostBytes, DmaWrite(b)
      PROVE  [Target!Next]_(Target!vars)
  <2>1. CASE phase = "COMMAND" /\ \E c \in CDBs : AcceptCommandByte(c)
    BY <2>1, CommandByteTaken
  <2>2. CASE phase = "DATA_OUT" /\ AcceptDataByte(b)
    BY <2>2, DataByteReceived
  <2>3. CASE UNCHANGED coreVars
    BY <1>1, <2>3
  <2>4. QED BY <1>5, <2>1, <2>2, <2>3 DEF DmaWrite, coreVars
<1>6. ASSUME NEW val \in IcrWrites, WriteICR(val)
      PROVE  [Target!Next]_(Target!vars)
  <2>1. CASE WriteIcrReset(val)
    BY <1>2, <2>1 DEF WriteIcrReset, InData, targetVars
  <2>2. CASE WriteIcrSelect(val)
    <3>1. phase' \notin InData /\ UNCHANGED medium
      BY <2>2 DEF WriteIcrSelect, SelectTarget, Selects, InData, targetVars
    <3>2. QED BY <1>2, <3>1
  <2>3. CASE WriteIcrAck(val)
    <3>1. CASE phase = "COMMAND" /\ \E c \in CDBs : AcceptCommandByte(c)
      BY <3>1, CommandByteTaken
    <3>2. CASE phase = "DATA_OUT" /\ AcceptDataByte(output_data)
      BY <1>3, <3>2, DataByteReceived
    <3>3. CASE ReleaseDataByte \/ ReleaseStatus \/ ReleaseMessage
      BY <3>3, ReleaseMaps
    <3>4. CASE UNCHANGED coreVars
      BY <1>1, <3>4
    <3>5. QED
      BY <2>3, <3>1, <3>2, <3>3, <3>4 DEF WriteIcrAck, coreVars
  <2>4. CASE WriteIcrOther(val)
    BY <1>1, <2>4 DEF WriteIcrOther, coreVars
  <2>5. QED BY <1>6, <2>1, <2>2, <2>3, <2>4 DEF WriteICR
<1>7. ASSUME NEW val \in ModeWrites, WriteMode(val)
      PROVE  [Target!Next]_(Target!vars)
  <2>1. CASE "ARBITRATE" \in val
    BY <1>2, <1>7, <2>1 DEF WriteMode, InData, targetVars
  <2>2. CASE "ARBITRATE" \notin val
    BY <1>1, <1>7, <2>2 DEF WriteMode, coreVars, busVars
  <2>3. QED BY <2>1, <2>2
<1>8. CASE \/ \E val \in TcrWrites : WriteTCR(val)
           \/ StartDma
           \/ ReadBSR
  BY <1>1, <1>8 DEF WriteTCR, StartDma, ReadBSR, coreVars
<1>9. ASSUME NEW sel \in BOOLEAN, WriteLatch(sel)
      PROVE  [Target!Next]_(Target!vars)
  <2>1. CASE SelectTarget
    BY <1>2, <1>9, <2>1 DEF WriteLatch, SelectTarget, InData, targetVars
  <2>2. CASE UNCHANGED <<busVars, cmd_pos>>
    BY <1>1, <1>9, <2>2 DEF WriteLatch, coreVars, cmdVars
  <2>3. QED BY <1>9, <2>1, <2>2 DEF WriteLatch
<1>10. CASE DmaRead
  <2>1. CASE ReleaseDataByte \/ ReleaseStatus \/ ReleaseMessage
    BY <2>1, ReleaseMaps
  <2>2. CASE UNCHANGED coreVars
    BY <1>1, <2>2
  <2>3. QED BY <1>10, <2>1, <2>2 DEF DmaRead, coreVars
<1>11. CASE UNCHANGED vars
  BY <1>1, <1>11 DEF vars, coreVars
<1>12. QED
  BY <1>4, <1>5, <1>6, <1>7, <1>8, <1>9, <1>10, <1>11 DEF Next

LEMMA InitMaps ==
  ASSUME Init
  PROVE  MapInv /\ Target!Init
<1>1. Inv
  BY InitInv
<1>2. MediumFull
  BY MediumAssumption DEF Init, MediumFull
<1>3. OutputFromHost
  BY DEF Init, OutputFromHost
<1>4. Target!Init
  <2>1. Transfer = Target!Idle
    BY TransferByPhase DEF Init, InData
  <2>2. QED BY <2>1, MediumAssumption DEF Init, Target!Init
<1>5. QED BY <1>1, <1>2, <1>3, <1>4 DEF MapInv

\* Writes make an image longer, never shorter.
LEMMA MediumGrows ==
  ASSUME Inv, [Next]_vars
  PROVE  \A id \in Present : DOMAIN medium[id] \subseteq DOMAIN medium'[id]
<1>1. ASSUME NEW b, AcceptDataByte(b)
      PROVE  \A id \in Present : DOMAIN medium[id] \subseteq DOMAIN medium'[id]
  <2>1. DOMAIN medium = Present
    BY DEF Inv, CoreInv, CoreType
  <2>2. QED BY <1>1, <2>1 DEF AcceptDataByte, WriteImage
<1>2. ASSUME ~ \E b \in HostBytes \cup {output_data} : AcceptDataByte(b)
      PROVE  medium' = medium
  <2>1. ASSUME NEW c \in CDBs, AcceptCommandByte(c)
        PROVE  medium' = medium
    BY <2>1 DEF AcceptCommandByte, Execute, targetVars
  <2>2. ASSUME ReleaseDataByte \/ ReleaseStatus \/ ReleaseMessage
        PROVE  medium' = medium
    BY <2>2 DEF ReleaseDataByte, ReleaseStatus, ReleaseMessage, targetVars
  <2>3. CASE \E val \in IcrWrites : WriteICR(val)
    BY <1>2, <2>1, <2>2, <2>3 DEF WriteICR, WriteIcrReset, WriteIcrSelect,
       WriteIcrAck, WriteIcrOther, targetVars
  <2>4. CASE DmaRead \/ \E b \in HostBytes : DmaWrite(b)
    BY <1>2, <2>1, <2>2, <2>4 DEF DmaRead, DmaWrite, targetVars
  <2>5. CASE \/ \E b \in HostBytes : WriteData(b)
             \/ \E val \in ModeWrites : WriteMode(val)
             \/ \E val \in TcrWrites : WriteTCR(val)
             \/ StartDma
             \/ \E sel \in BOOLEAN : WriteLatch(sel)
             \/ ReadBSR
             \/ UNCHANGED vars
    BY <2>5 DEF WriteData, WriteMode, WriteTCR, StartDma, WriteLatch, ReadBSR,
       vars, targetVars
  <2>6. QED BY <2>3, <2>4, <2>5 DEF Next
<1>3. QED BY <1>1, <1>2

\* Only WriteData and a reset change what is on the data bus.
LEMMA OutputFromHostNext ==
  ASSUME OutputFromHost, [Next]_vars
  PROVE  OutputFromHost'
<1>1. CASE \E b \in HostBytes : WriteData(b) \/ DmaWrite(b)
  BY <1>1 DEF WriteData, DmaWrite, regVars, OutputFromHost
<1>2. CASE \E val \in IcrWrites : WriteICR(val)
  BY <1>2 DEF WriteICR, WriteIcrReset, WriteIcrSelect, WriteIcrAck,
     WriteIcrOther, OutputFromHost
<1>3. CASE \/ \E val \in ModeWrites : WriteMode(val)
           \/ \E val \in TcrWrites : WriteTCR(val)
           \/ StartDma
           \/ \E sel \in BOOLEAN : WriteLatch(sel)
           \/ ReadBSR
           \/ DmaRead
           \/ UNCHANGED vars
  BY <1>3 DEF WriteMode, WriteTCR, StartDma, WriteLatch, ReadBSR, DmaRead, vars,
     regVars, OutputFromHost
<1>4. QED BY <1>1, <1>2, <1>3 DEF Next

LEMMA MapInvNext ==
  ASSUME MapInv, [Next]_vars
  PROVE  MapInv'
<1>1. Inv'
  BY NextInv DEF MapInv
<1>2. MediumFull'
  BY MediumGrows DEF MapInv, MediumFull
<1>3. OutputFromHost'
  BY OutputFromHostNext DEF MapInv
<1>4. QED BY <1>1, <1>2, <1>3 DEF MapInv

\* Under any use of the registers, the latch and the DMA port the controller
\* and its targets implement the abstract target: a disk changes only with the
\* last byte of a write and then as a whole, and a read that reports GOOD hands
\* out the bytes of the disk in order.  NoWrap is needed: past the wrap of the
\* 32-bit sum execute_command reads outside the image and reports GOOD.
THEOREM TargetImplemented == NoWrap => (Spec => ImplementsTarget)
<1>1. Init => MapInv /\ Target!Init
  BY InitMaps
<1>2. MapInv /\ [Next]_vars => MapInv'
  BY MapInvNext
<1>3. MapInv /\ NoWrap /\ [Next]_vars => [Target!Next]_(Target!vars)
  BY StepMaps
<1>4. NoWrap => NoWrap'
  BY DEF NoWrap, Reads, ReadLba, ReadCount
<1>5. QED BY <1>1, <1>2, <1>3, <1>4, PTL DEF Spec, ImplementsTarget, Target!Spec
-----------------------------------------------------------------------------
(* The host's commands (ScsiHost): the inductive invariant.                *)

Selecting == {"put_id", "drive_bus", "assert_sel"}
InDma     == {"dma_mode", "dma_start", "dma_move"}
Serving   == {"transfer", "acknowledge", "release", "dma_leave"} \cup InDma
Labels    == {"idle", "check_free", "answer"} \cup Selecting \cup Serving

HostType ==
  /\ pc \in Labels
  /\ job \in Jobs \cup {NoJob}
  /\ pc # "idle" => job \in Jobs
  /\ left \in Nat
  /\ got \in Seq(Byte)
  /\ sent \in Seq(Byte)

\* Where the bus, the registers and the DMA logic stand at each step of the
\* host.  A restart leaves them where they are: a host that then looks for a
\* free bus finds one only if nothing of the interrupted command is left.
BusInv ==
  /\ phase # "ARBITRATION"
  /\ dma_active => phase \in {"DATA_IN", "DATA_OUT", "STATUS"}
  /\ pc \in Selecting \cup {"answer", "transfer", "acknowledge", "release", "dma_mode"}
       => ~dma_active
  /\ pc \in Selecting => phase = "FREE"
  /\ pc \in {"drive_bus", "assert_sel"} => output_data = 2^job.id
  /\ pc = "answer" =>
       IF job.id \in Present THEN phase = "COMMAND" /\ selected_id = job.id
                             ELSE phase = "FREE"
  /\ pc \in Serving =>
       /\ job.id \in Present
       /\ phase # "FREE" => selected_id = job.id
       /\ pc # "release" => icr = {}

\* The pseudo-DMA loop is in the phase it was started for, or has moved its
\* last byte.
DmaInv ==
  /\ pc \in InDma =>
       \/ /\ data_len > 0
          /\ left <= data_len - data_pos
          /\ \/ phase = "DATA_IN" /\ tcr = 1
             \/ phase = "DATA_OUT" /\ tcr = 0
       \/ pc = "dma_move" /\ left = 0 /\ phase = "STATUS" /\ tcr \in {0, 1}
  /\ pc = "dma_leave" => phase = "STATUS"
  /\ pc \in Serving /\ job.dma /\ phase \in InData =>
       /\ pc # "acknowledge"
       /\ pc # "dma_move" => data_pos = 0

\* The bytes s are those of the blocks that command c names.
AreBlocks(s, c) ==
  /\ Len(s) = Expected(c)
  /\ \A i \in 1 .. Expected(c) :
       s[i] = medium[job.id][ReadLba(c) * BlockSize + i - 1]

OnTheDisk(c) == ReadLba(c) + ReadCount(c) <= Blocks[job.id]

\* What is known of a command once all its data has been moved.
Answered(c) ==
  /\ Reads(c) /\ NoWrap =>
       /\ status_byte = Good <=> OnTheDisk(c)
       /\ status_byte = Good => AreBlocks(got, c)
  /\ c.op = WRITE_6 /\ job.id \notin ReadOnly => AreBlocks(sent, c)

\* Data on its way to the host: it has what the target has handed out, and the
\* byte it has yet to acknowledge.
Incoming(c) ==
  /\ c.op # WRITE_6
  /\ got = SubSeq(data_buf, 1, IF pc = "acknowledge" THEN data_pos + 1 ELSE data_pos)
  /\ pc = "acknowledge" => data_pos < data_len
  /\ Reads(c) => data_len = Expected(c)
  /\ Reads(c) /\ NoWrap =>
       /\ status_byte = Good <=> OnTheDisk(c)
       /\ status_byte = Good => AreBlocks(data_buf, c)
  /\ job.dma => Expected(c) <= data_len

\* Data on its way to the target: the buffer holds what the host has sent, but
\* the byte on the bus.
Outgoing(c) ==
  /\ ~Reads(c)
  /\ data_len = Expected(c)
  /\ sent = IF pc = "acknowledge"
            THEN Append(SubSeq(data_buf, 1, data_pos), output_data)
            ELSE SubSeq(data_buf, 1, data_pos)

ServiceInv ==
  /\ pc \notin Serving \cup {"idle"} =>
       result = Pending /\ got = <<>> /\ sent = <<>>
  /\ pc \in Serving =>
       /\ result \in {Pending, status_byte}
       /\ phase \in InData \cup {"COMMAND"} => result = Pending
       /\ phase = "COMMAND" => got = <<>> /\ sent = <<>>
       /\ phase # "COMMAND" => cmd = job.cdb
       /\ phase = "DATA_IN" => Incoming(job.cdb)
       /\ phase = "DATA_OUT" => Outgoing(job.cdb)
       /\ phase \in {"STATUS", "MSG_IN", "FREE"} => Answered(job.cdb)

HostInv == /\ HostType /\ BusInv /\ DmaInv /\ ServiceInv
           /\ NoWrap => ReadDelivers
           /\ WriteStores /\ CleanHandover /\ AnswersIfPresent

HostIInv == Inv /\ MediumFull /\ HostInv

-----------------------------------------------------------------------------
(* Lemmas about what a command does to the transfer it begins.             *)

\* The bit of an ID is set in the byte that has only that bit.
LEMMA OneBit ==
  ASSUME NEW i \in 0 .. 7
  PROVE  2^i \in Byte /\ (\A j \in 0 .. 7 : (2^i \div 2^j) % 2 = 1 <=> j = i)
<1> DEFINE bit == <<1, 2, 4, 8, 16, 32, 64, 128>>
<1>1. /\ 2^0 = 1 /\ 2^1 = 2 /\ 2^2 = 4 /\ 2^3 = 8
      /\ 2^4 = 16 /\ 2^5 = 32 /\ 2^6 = 64 /\ 2^7 = 128
  OBVIOUS
<1>2. \A j \in 0 .. 7 : 2^j = bit[j + 1]
  <2> SUFFICES ASSUME NEW j \in 0 .. 7
               PROVE  2^j = bit[j + 1]
    OBVIOUS
  <2>1. j \in {0, 1, 2, 3, 4, 5, 6, 7}
    OBVIOUS
  <2>2. CASE j = 0 BY <1>1, <2>2
  <2>3. CASE j = 1 BY <1>1, <2>3
  <2>4. CASE j = 2 BY <1>1, <2>4
  <2>5. CASE j = 3 BY <1>1, <2>5
  <2>6. CASE j = 4 BY <1>1, <2>6
  <2>7. CASE j = 5 BY <1>1, <2>7
  <2>8. CASE j = 6 BY <1>1, <2>8
  <2>9. CASE j = 7 BY <1>1, <2>9
  <2>10. QED BY <2>1, <2>2, <2>3, <2>4, <2>5, <2>6, <2>7, <2>8, <2>9
<1>3. \A j \in 0 .. 7 : (bit[i + 1] \div bit[j + 1]) % 2 = 1 <=> j = i
  OBVIOUS
<1>4. bit[i + 1] \in Byte
  BY DEF Byte
<1> HIDE DEF bit
<1>5. QED BY <1>2, <1>3, <1>4

LEMMA OnlyItsTarget ==
  ASSUME NEW id \in IDs, output_data = 2^id
  PROVE  Responding = {id} \cap Present
<1>1. id \in 0 .. 7 /\ \A j \in IDs : j \in 0 .. 7
  BY IdAssumption
<1>2. \A j \in IDs : (output_data \div 2^j) % 2 = 1 <=> j = id
  BY <1>1, OneBit
<1>3. IdMask(output_data) = {id}
  BY <1>2 DEF IdMask
<1>4. QED BY <1>3 DEF Responding

\* One more byte in the buffer.
LEMMA BufferTakes ==
  ASSUME NEW s \in Seq(Byte), NEW n \in Nat, n < Len(s), NEW b \in Byte,
         NEW t, t = [s EXCEPT ![n + 1] = b]
  PROVE  /\ t \in Seq(Byte) /\ Len(t) = Len(s)
         /\ SubSeq(t, 1, n + 1) = Append(SubSeq(s, 1, n), b)
OBVIOUS

\* One more byte out of it.
LEMMA BufferGives ==
  ASSUME NEW s \in Seq(Byte), NEW n \in Nat, n < Len(s)
  PROVE  /\ s[n + 1] \in Byte
         /\ Append(SubSeq(s, 1, n), s[n + 1]) = SubSeq(s, 1, n + 1)
OBVIOUS

LEMMA WholeBuffer ==
  ASSUME NEW s \in Seq(Byte)
  PROVE  SubSeq(s, 1, Len(s)) = s /\ SubSeq(s, 1, 0) = <<>>
OBVIOUS

\* execute_command's test is the one meant, if the sum does not wrap.
LEMMA InRangeIsMeant ==
  ASSUME NoWrap, NEW c \in CDBs, Reads(c), selected_id \in Present
  PROVE  InRange(c) <=> ReadLba(c) + ReadCount(c) <= Blocks[selected_id]
<1>1. c \in CDB /\ LbaModulus \in Nat \ {0}
  BY InputAssumption
<1>2. ReadLba(c) \in Nat /\ ReadCount(c) \in Nat
  BY <1>1, CdbFields
<1>3. ReadLba(c) + ReadCount(c) < LbaModulus
  BY DEF NoWrap
<1>4. (ReadLba(c) + ReadCount(c)) % LbaModulus = ReadLba(c) + ReadCount(c)
  BY <1>1, <1>2, <1>3
<1>5. QED BY <1>4 DEF InRange

\* A read inside the capacity finds all its bytes in the image.
LEMMA ReadFromDisk ==
  ASSUME MediumFull, selected_id \in Present, NEW c \in CDB, NEW stale,
         ReadLba(c) + ReadCount(c) <= Blocks[selected_id]
  PROVE  FromMedium(selected_id, ReadLba(c) * BlockSize, ReadCount(c) * BlockSize,
                    stale)
           = [i \in 1 .. ReadCount(c) * BlockSize |->
                medium[selected_id][ReadLba(c) * BlockSize + i - 1]]
<1> DEFINE at == ReadLba(c) * BlockSize
           n  == ReadCount(c) * BlockSize
<1>1. /\ BlockSize \in Nat \ {0} /\ Blocks[selected_id] \in Nat
      /\ ReadLba(c) \in Nat /\ ReadCount(c) \in Nat
  BY MediumAssumption, CdbFields
<1>2. n \in Nat /\ at \in Nat
  BY <1>1, ProductNatural, Zenon
<1>3. Target!Window(at, n) \subseteq DOMAIN medium[selected_id]
  <2>1. Target!Window(at, n) \subseteq 0 .. Blocks[selected_id] * BlockSize - 1
    BY <1>1, WindowOnDisk
  <2>2. QED BY <2>1 DEF MediumFull
<1> HIDE DEF at, n
<1>4. \A i \in 1 .. n : at + i - 1 \in DOMAIN medium[selected_id]
  BY <1>2, <1>3 DEF Target!Window
<1>5. FromMedium(selected_id, at, n, stale)
        = [i \in 1 .. n |-> medium[selected_id][at + i - 1]]
  BY <1>4 DEF FromMedium
<1>6. QED BY <1>5 DEF at, n

\* The transfer that the execution of a command begins.
LEMMA ExecutedData ==
  ASSUME Inv, MediumFull, phase = "COMMAND", NEW c \in CDBs, Execute(c)
  PROVE  /\ phase' \in InData => data_pos' = 0
         /\ phase' = "DATA_IN" =>
              /\ c.op # WRITE_6
              /\ c.len <= LongestReply(c.op) => Expected(c) <= data_len'
              /\ Reads(c) => data_len' = Expected(c)
              /\ Reads(c) /\ NoWrap =>
                   /\ status_byte' = Good
                        <=> ReadLba(c) + ReadCount(c) <= Blocks[selected_id]
                   /\ status_byte' = Good => data_buf' =
                        [i \in 1 .. Expected(c) |->
                           medium[selected_id][ReadLba(c) * BlockSize + i - 1]]
         /\ phase' = "DATA_OUT" => ~Reads(c) /\ data_len' = Expected(c)
         /\ phase' = "STATUS" => ~Reads(c) /\ c.op # WRITE_6
<1>1. /\ selected_id \in Present /\ c \in CDB
      /\ sense_key \in [Present -> {0, 5}] /\ BlockSize \in Nat \ {0}
  BY InputAssumption, MediumAssumption DEF Inv, CoreInv, CoreType, BusOwnership,
     InTransfer
<1>2. /\ ReadCount(c) * BlockSize \in Nat /\ c.len \in Nat
  <2>1. ReadCount(c) \in Nat /\ c.len \in Nat /\ BlockSize \in Nat
    BY <1>1, CdbFields
  <2>2. QED BY <2>1, ProductNatural, Zenon
<1>3. /\ READ_6 # WRITE_6 /\ READ_10 # WRITE_6 /\ Good # Check /\ 0 \in Byte
      /\ MODE_SELECT # WRITE_6
      /\ MODE_SELECT \notin {READ_6, READ_10} /\ WRITE_6 \notin {READ_6, READ_10}
  BY DEF READ_6, READ_10, WRITE_6, MODE_SELECT, Good, Check, Byte
<1>4. CASE ExecuteRead(c)
  <2>1. Reads(c) /\ c.op # WRITE_6 /\ Expected(c) = ReadCount(c) * BlockSize
    BY <1>3, <1>4 DEF ExecuteRead, Reads, Expected
  <2>2. phase' = "DATA_IN" /\ data_pos' = 0
    BY <1>4, Zenon DEF ExecuteRead, StartDataIn
  <2>3. data_len' = Expected(c)
    <3>1. ASSUME NEW stale \in HostBytes
          PROVE  Len(FromMedium(selected_id, ReadLba(c) * BlockSize,
                                ReadCount(c) * BlockSize, stale)) = Expected(c)
      BY <1>1, <1>2, <2>1, FromMediumType, InputAssumption
      DEF Inv, CoreInv, CoreType
    <3>2. Len(Repeat(ReadCount(c) * BlockSize, 0)) = Expected(c)
      BY <1>2, <1>3, <2>1, RepeatType
    <3>3. QED BY <1>4, <3>1, <3>2, Zenon DEF ExecuteRead, StartDataIn
  <2>4. ASSUME NoWrap
        PROVE  /\ status_byte' = Good
                    <=> ReadLba(c) + ReadCount(c) <= Blocks[selected_id]
               /\ status_byte' = Good => data_buf' =
                    [i \in 1 .. Expected(c) |->
                       medium[selected_id][ReadLba(c) * BlockSize + i - 1]]
    <3>1. InRange(c) <=> ReadLba(c) + ReadCount(c) <= Blocks[selected_id]
      BY <1>1, <2>1, <2>4, InRangeIsMeant
    <3>2. CASE InRange(c)
      <4>1. PICK stale \in HostBytes :
              StartDataIn(FromMedium(selected_id, ReadLba(c) * BlockSize,
                                     ReadCount(c) * BlockSize, stale), Good)
        BY <1>4, <3>2, Zenon DEF ExecuteRead
      <4>2. status_byte' = Good
        BY <4>1 DEF StartDataIn
      <4>3. data_buf' = [i \in 1 .. Expected(c) |->
                           medium[selected_id][ReadLba(c) * BlockSize + i - 1]]
        BY <1>1, <2>1, <3>1, <3>2, <4>1, ReadFromDisk, Zenon DEF StartDataIn
      <4>4. QED BY <3>1, <3>2, <4>2, <4>3
    <3>3. CASE ~InRange(c)
      <4>1. status_byte' = Check
        BY <1>4, <3>3, Zenon DEF ExecuteRead, StartDataIn
      <4>2. QED BY <1>3, <3>1, <3>3, <4>1
    <3>4. QED BY <3>2, <3>3
  <2>5. Expected(c) <= data_len'
    BY <1>2, <2>1, <2>3
  <2>6. QED BY <2>1, <2>2, <2>3, <2>4, <2>5, Zenon DEF InData
<1>5. CASE ExecuteReply(c)
  <2>1. sense_key'[selected_id] = 0
    BY <1>1, <1>5 DEF ExecuteReply, SetSense
  <2>2. /\ c.op # WRITE_6 /\ ~Reads(c) /\ Expected(c) = c.len
    BY <1>5 DEF ExecuteReply, Reads, Expected, REQUEST_SENSE, INQUIRY, MODE_SENSE,
       READ_CAPACITY, READ_6, READ_10, WRITE_6
  <2>3. /\ phase' = "DATA_IN" /\ data_pos' = 0
        /\ data_len' = Len(Reply(c, 0))
    BY <1>5, <2>1 DEF ExecuteReply, StartDataIn
  <2>4. c.len <= LongestReply(c.op) => c.len <= Len(Reply(c, 0))
    BY <1>1, <1>5, ReplyType DEF ExecuteReply
  <2>5. QED BY <2>2, <2>3, <2>4, Zenon DEF InData
<1>6. CASE ExecuteWrite(c)
  <2>1. ~Reads(c)
    BY <1>3, <1>6 DEF ExecuteWrite, Reads
  <2>2. c.op = WRITE_6 => Expected(c) = OrElse(c.len, 256) * BlockSize
    BY DEF Expected, ReadCount, WRITE_6, READ_10
  <2>3. c.op # WRITE_6 => Expected(c) = c.len
    BY <2>1 DEF Expected
  <2>4. phase' = "DATA_OUT" /\ data_pos' = 0 /\ data_len' = Expected(c)
    BY <1>3, <1>6, <2>2, <2>3 DEF ExecuteWrite, StartDataOut
  <2>5. QED BY <2>1, <2>4, Zenon DEF InData
<1>7. CASE ExecuteNoData(c) \/ ExecuteUnknown(c)
  <2>1. phase' = "STATUS"
    BY <1>7 DEF ExecuteNoData, ExecuteUnknown, FinishWithStatus
  <2>2. ~Reads(c) /\ c.op # WRITE_6
    BY <1>7 DEF ExecuteNoData, ExecuteUnknown, Known, Reads, TEST_UNIT_READY,
       START_STOP, MODE_SELECT, READ_6, READ_10, WRITE_6
  <2>3. QED BY <2>1, <2>2 DEF InData
<1>8. QED BY <1>1, <1>4, <1>5, <1>6, <1>7 DEF Execute, ExecuteNoTarget

\* After the last byte of a write the disk holds what the buffer held.
LEMMA WrittenIsOnDisk ==
  ASSUME Inv, selected_id \in Present \ ReadOnly, cmd.op = WRITE_6,
         NEW bytes \in Seq(Byte), WriteImage(bytes)
  PROVE  bytes = [i \in 1 .. Len(bytes) |->
                    medium'[selected_id][ReadLba(cmd) * BlockSize + i - 1]]
<1> DEFINE at  == WriteAddress(cmd)
           new == at .. at + Len(bytes) - 1
           old == medium[selected_id]
           img == [p \in DOMAIN old \cup new |->
                     IF p \in new THEN bytes[p - at + 1] ELSE old[p]]
<1>1. medium' = [medium EXCEPT ![selected_id] = img]
  BY Zenon DEF WriteImage
<1>2. at \in Nat
  BY CommandIsCdb, CdbFields DEF Inv, CoreInv, CoreType
<1>3. at = ReadLba(cmd) * BlockSize
  BY DEF WriteAddress, ReadLba, WRITE_6, READ_10
<1>4. medium'[selected_id] = img
  BY <1>1 DEF Inv, CoreInv, CoreType
<1> HIDE DEF at, old
<1>5. ASSUME NEW i \in 1 .. Len(bytes)
      PROVE  img[at + i - 1] = bytes[i]
  <2>1. at + i - 1 \in new
    BY <1>2
  <2>2. (at + i - 1) - at + 1 = i
    BY <1>2
  <2>3. QED BY <2>1, <2>2
<1> HIDE DEF img
<1>6. bytes = [i \in 1 .. Len(bytes) |-> img[at + i - 1]]
  BY <1>5
<1>7. QED BY <1>3, <1>4, <1>6
-----------------------------------------------------------------------------
(* What the host sees of the controller.                                   *)

LEMMA JobFields ==
  ASSUME job \in Jobs
  PROVE  job.id \in IDs /\ job.id \in 0 .. 7 /\ job.cdb \in CDBs
BY JobAssumption, IdAssumption

LEMMA NoneAbsent == None \notin Present /\ None \notin IDs
BY IdAssumption DEF None

LEMMA BusySeen == CSBS.bsy <=> BusBusy
BY Zenon DEF CSBS

\* Outside arbitration a bus without BSY is free.
LEMMA NotBusyIsFree ==
  ASSUME Inv, BusInv, ~CSBS.bsy
  PROVE  phase = "FREE" /\ selected_id = None
<1>1. phase = "FREE" \/ selected_id = None
  BY BusySeen, Zenon DEF BusBusy
<1>2. phase \in Phase /\ phase # "ARBITRATION"
  BY DEF Inv, CoreInv, CoreType, BusInv
<1>3. BusOwnership
  BY DEF Inv, CoreInv
<1>4. QED BY <1>1, <1>2, <1>3, NoneAbsent DEF BusOwnership, InTransfer, Phase

LEMMA BusyIsServed ==
  ASSUME CSBS.bsy
  PROVE  phase # "FREE" /\ selected_id # None
BY BusySeen, Zenon DEF BusBusy

\* What REQ and the phase lines say.
LEMMA Requested ==
  ASSUME CSBS.req
  PROVE  /\ phase \in {"COMMAND", "DATA_IN", "DATA_OUT", "STATUS", "MSG_IN"}
         /\ phase \in InData => data_pos < data_len
         /\ CSBS.phase = 0 <=> phase = "DATA_OUT"
         /\ CSBS.phase = 1 <=> phase = "DATA_IN"
         /\ CSBS.phase = 2 <=> phase = "COMMAND"
         /\ CSBS.phase = 3 <=> phase = "STATUS"
         /\ CSBS.phase = 7 <=> phase = "MSG_IN"
<1>1. RequestAsserted
  BY Zenon DEF CSBS
<1>2. CSBS.phase = PhaseBits
  BY Zenon DEF CSBS
<1>3. QED BY <1>1, <1>2 DEF RequestAsserted, PhaseBits, InData

\* The values the host writes but for RST, SEL and ACK do nothing but stand
\* in the register.
LEMMA PlainIcr ==
  ASSUME NEW val \in {{}, {"DATA_BUS"}}, WriteICR(val)
  PROVE  /\ icr' = val
         /\ UNCHANGED <<busVars, cmdVars, dataVars, targetVars, mode, tcr,
                        output_data, dma_active, latch_sel>>
<1>1. val \cap {"RST", "ACK"} = {} /\ "SEL" \notin val
  OBVIOUS
<1>2. WriteIcrOther(val)
  BY <1>1 DEF WriteICR, WriteIcrReset, WriteIcrSelect, WriteIcrAck, Selects
<1>3. QED BY <1>2 DEF WriteIcrOther

\* The promises to the host speak of commands that have ended.
LEMMA NotAtRest ==
  ASSUME pc' # "idle"
  PROVE  (NoWrap => ReadDelivers') /\ WriteStores' /\ CleanHandover' /\ AnswersIfPresent'
BY DEF ReadDelivers, WriteStores, CleanHandover, AnswersIfPresent, Done, Ended

-----------------------------------------------------------------------------
(* Selection preserves the invariant.                                      *)

LEMMA HostInitInv == HostInit => HostIInv
<1> SUFFICES ASSUME HostInit
             PROVE  HostIInv
  OBVIOUS
<1>1. Inv /\ MediumFull
  BY InitMaps DEF HostInit, MapInv
<1>2. HostType
  BY DEF HostInit, HostType, Labels
<1>3. BusInv /\ DmaInv
  BY DEF HostInit, Init, BusInv, DmaInv, Selecting, InDma, Serving
<1>4. ServiceInv
  BY DEF HostInit, ServiceInv, Selecting, InDma, Serving
<1>5. ReadDelivers /\ WriteStores
  BY DEF HostInit, ReadDelivers, WriteStores, Done, Pending, Good, Check
<1>6. CleanHandover /\ AnswersIfPresent
  BY DEF HostInit, CleanHandover, AnswersIfPresent, Ended
<1>7. QED BY <1>1, <1>2, <1>3, <1>4, <1>5, <1>6 DEF HostIInv, HostInv

LEMMA BeginPreserves ==
  ASSUME HostIInv, NEW j \in Jobs, Begin(j)
  PROVE  HostIInv'
<1>1. Inv' /\ medium' = medium
  BY InvUnchanged DEF HostIInv, Begin, vars, targetVars
<1>2. MediumFull'
  BY <1>1 DEF HostIInv, MediumFull
<1>3. HostType'
  BY DEF HostIInv, HostInv, HostType, Begin, Labels
<1>4. BusInv' /\ DmaInv'
  BY DEF HostIInv, HostInv, BusInv, DmaInv, Begin, Selecting, InDma, Serving,
     vars, busVars, regVars
<1>5. ServiceInv'
  BY DEF Begin, ServiceInv, Selecting, InDma, Serving
<1>6. pc' # "idle"
  BY DEF Begin
<1>7. QED BY <1>1, <1>2, <1>3, <1>4, <1>5, <1>6, NotAtRest DEF HostIInv, HostInv

LEMMA CheckFreePreserves ==
  ASSUME HostIInv, CheckFree
  PROVE  HostIInv'
<1>1. /\ pc = "check_free" /\ pc' \in {"check_free", "put_id"}
      /\ UNCHANGED <<job, left, got, sent, result>>
  BY DEF CheckFree, Goto
<1>2. ASSUME UNCHANGED vars, ~CSBS.bsy
      PROVE  Inv' /\ medium' = medium /\ BusInv'
  <2>1. Inv' /\ medium' = medium
    BY <1>2, InvUnchanged DEF HostIInv, vars, targetVars
  <2>2. phase = "FREE"
    BY <1>2, NotBusyIsFree DEF HostIInv, HostInv
  <2>3. BusInv'
    BY <1>1, <1>2, <2>2
    DEF HostIInv, HostInv, BusInv, Selecting, InDma, Serving, vars, busVars, regVars
  <2>4. QED BY <2>1, <2>3
<1>3. ASSUME WriteICR({"RST"}), pc' = "check_free"
      PROVE  Inv' /\ medium' = medium /\ BusInv'
  <2>1. {"RST"} \in SUBSET IcrBit
    BY DEF IcrBit
  <2>2. WriteIcrReset({"RST"})
    BY <1>3 DEF WriteICR, WriteIcrSelect, WriteIcrAck, WriteIcrOther
  <2>3. Inv'
    BY <1>3, <2>1, WriteIcrPreserves DEF HostIInv
  <2>4. phase' = "FREE" /\ dma_active' = FALSE /\ medium' = medium
    BY <2>2 DEF WriteIcrReset, targetVars
  <2>5. BusInv'
    BY <1>3, <2>4 DEF BusInv, Selecting, InDma, Serving
  <2>6. QED BY <2>3, <2>4, <2>5
<1>4. Inv' /\ medium' = medium /\ BusInv'
  BY <1>2, <1>3 DEF CheckFree, Goto
<1>5. MediumFull'
  BY <1>4 DEF HostIInv, MediumFull
<1>6. HostType' /\ DmaInv' /\ ServiceInv'
  BY <1>1 DEF HostIInv, HostInv, HostType, DmaInv, ServiceInv, Labels, Selecting,
     InDma, Serving
<1>7. QED BY <1>1, <1>4, <1>5, <1>6, NotAtRest DEF HostIInv, HostInv

LEMMA PutIdPreserves ==
  ASSUME HostIInv, PutId
  PROVE  HostIInv'
<1>1. /\ pc = "put_id" /\ pc' = "drive_bus"
      /\ UNCHANGED <<job, left, got, sent, result>>
      /\ WriteData(2^job.id)
  BY DEF PutId, Goto
<1>2. job.id \in 0 .. 7
  BY <1>1, JobFields DEF HostIInv, HostInv, HostType
<1>3. 2^job.id \in Byte
  BY <1>2, OneBit
<1>4. Inv'
  BY <1>1, <1>3, WriteDataPreserves DEF HostIInv
<1>5. MediumFull'
  BY <1>1 DEF HostIInv, MediumFull, WriteData, targetVars
<1>6. BusInv'
  BY <1>1 DEF HostIInv, HostInv, BusInv, Selecting, InDma, Serving, WriteData,
     busVars
<1>7. HostType' /\ DmaInv' /\ ServiceInv'
  BY <1>1 DEF HostIInv, HostInv, HostType, DmaInv, ServiceInv, Labels, Selecting,
     InDma, Serving
<1>8. QED BY <1>1, <1>4, <1>5, <1>6, <1>7, NotAtRest DEF HostIInv, HostInv

LEMMA DriveBusPreserves ==
  ASSUME HostIInv, DriveBus
  PROVE  HostIInv'
<1>1. /\ pc = "drive_bus" /\ pc' = "assert_sel"
      /\ UNCHANGED <<job, left, got, sent, result>>
      /\ WriteICR({"DATA_BUS"})
  BY DEF DriveBus, Goto
<1>2. UNCHANGED <<busVars, targetVars, output_data, dma_active>>
  BY <1>1, PlainIcr
<1>3. {"DATA_BUS"} \in SUBSET IcrBit
  BY DEF IcrBit
<1>4. Inv'
  BY <1>1, <1>3, WriteIcrPreserves DEF HostIInv
<1>5. MediumFull'
  BY <1>2 DEF HostIInv, MediumFull, targetVars
<1>6. BusInv'
  BY <1>1, <1>2 DEF HostIInv, HostInv, BusInv, Selecting, InDma, Serving, busVars
<1>7. HostType' /\ DmaInv' /\ ServiceInv'
  BY <1>1 DEF HostIInv, HostInv, HostType, DmaInv, ServiceInv, Labels, Selecting,
     InDma, Serving
<1>8. QED BY <1>1, <1>4, <1>5, <1>6, <1>7, NotAtRest DEF HostIInv, HostInv

\* SEL with the bit of one ID on the bus: its target answers, or nobody.
LEMMA AssertSelPreserves ==
  ASSUME HostIInv, AssertSel
  PROVE  HostIInv'
<1> DEFINE val == {"DATA_BUS", "SEL"}
<1>1. /\ pc = "assert_sel" /\ pc' = "answer"
      /\ UNCHANGED <<job, left, got, sent, result>>
      /\ WriteICR(val)
  BY DEF AssertSel, Goto
<1>2. /\ phase = "FREE" /\ output_data = 2^job.id /\ ~dma_active
      /\ job.id \in IDs
  BY <1>1, JobFields DEF HostIInv, HostInv, HostType, BusInv, Selecting
<1>3. selected_id = None
  BY <1>2 DEF HostIInv, Inv, CoreInv, BusOwnership
<1>4. WriteIcrSelect(val)
  BY <1>1, <1>2 DEF WriteICR, WriteIcrReset, WriteIcrAck, WriteIcrOther, Selects
<1>5. val \in SUBSET IcrBit
  BY DEF IcrBit
<1>6. Inv'
  BY <1>1, <1>5, WriteIcrPreserves DEF HostIInv
<1>7. MediumFull'
  BY <1>4 DEF HostIInv, MediumFull, WriteIcrSelect, targetVars
<1>8. Responding = {job.id} \cap Present
  BY <1>2, OnlyItsTarget
<1>9. ASSUME job.id \in Present
      PROVE  phase' = "COMMAND" /\ selected_id' = job.id
  <2>1. Responding = {job.id} /\ Lowest({job.id}) = job.id
    <3>1. job.id \in 0 .. 7
      BY <1>2, IdAssumption
    <3>2. Lowest({job.id}) \in {job.id}
      BY <3>1, LowestIsMember
    <3>3. QED BY <1>8, <1>9, <3>2
  <2>2. phase' = "COMMAND" /\ selected_id' = job.id
    BY <1>4, <2>1 DEF WriteIcrSelect, SelectTarget
  <2>3. QED BY <2>2
<1>10. ASSUME job.id \notin Present
       PROVE  phase' = "FREE"
  <2>1. Responding = {}
    BY <1>8, <1>10
  <2>2. phase' = "FREE"
    BY <1>3, <1>4, <2>1 DEF WriteIcrSelect, SelectTarget
  <2>3. QED BY <2>2
<1>11. dma_active' = FALSE
  <2>1. dma_active \in BOOLEAN
    BY DEF HostIInv, Inv, RegInv
  <2>2. QED BY <1>2, <1>4, <2>1 DEF WriteIcrSelect
<1>12. BusInv'
  BY <1>1, <1>9, <1>10, <1>11 DEF BusInv, Selecting, InDma, Serving
<1>13. HostType' /\ DmaInv' /\ ServiceInv'
  BY <1>1 DEF HostIInv, HostInv, HostType, DmaInv, ServiceInv, Labels, Selecting,
     InDma, Serving
<1>14. QED BY <1>1, <1>6, <1>7, <1>12, <1>13, NotAtRest DEF HostIInv, HostInv
LEMMA AnswerPreserves ==
  ASSUME HostIInv, Answer
  PROVE  HostIInv'
<1>1. /\ pc = "answer" /\ WriteICR({})
      /\ UNCHANGED <<job, left, got, sent, jobs>>
      /\ \/ CSBS.bsy /\ pc' = "transfer" /\ result' = result
         \/ ~CSBS.bsy /\ pc' = "idle" /\ result' = Absent
  BY DEF Answer, Goto
<1>2. /\ icr' = {}
      /\ UNCHANGED <<busVars, cmdVars, dataVars, targetVars, dma_active>>
  BY <1>1, PlainIcr
<1>3. Inv'
  BY <1>1, WriteIcrPreserves DEF HostIInv
<1>4. MediumFull'
  BY <1>2 DEF HostIInv, MediumFull, targetVars
<1>5. /\ result = Pending /\ got = <<>> /\ sent = <<>> /\ ~dma_active
      /\ phase # "ARBITRATION"
      /\ IF job.id \in Present THEN phase = "COMMAND" /\ selected_id = job.id
                               ELSE phase = "FREE"
  BY <1>1 DEF HostIInv, HostInv, ServiceInv, BusInv, Selecting, InDma, Serving
<1>6. HostType'
  BY <1>1 DEF HostIInv, HostInv, HostType, Labels, Serving
<1>7. dma_active' = FALSE
  <2>1. dma_active \in BOOLEAN
    BY DEF HostIInv, Inv, RegInv
  <2>2. QED BY <1>2, <1>5, <2>1
<1>8. CASE CSBS.bsy /\ pc' = "transfer" /\ result' = result
  <2>1. phase = "COMMAND" /\ selected_id = job.id /\ job.id \in Present
    BY <1>5, <1>8, BusyIsServed
  <2>2. BusInv'
    BY <1>1, <1>2, <1>7, <1>8, <2>1 DEF BusInv, Selecting, busVars
  <2>3. DmaInv' /\ ServiceInv'
    BY <1>1, <1>2, <1>5, <1>8, <2>1
    DEF DmaInv, ServiceInv, InDma, Serving, InData, busVars
  <2>4. pc' # "idle"
    BY <1>8
  <2>5. QED
    BY <1>3, <1>4, <1>6, <2>2, <2>3, <2>4, NotAtRest DEF HostIInv, HostInv
<1>9. CASE ~CSBS.bsy /\ pc' = "idle" /\ result' = Absent
  <2>1. phase = "FREE" /\ selected_id = None
    BY <1>9, NotBusyIsFree DEF HostIInv, HostInv
  <2>2. job.id \notin Present
    BY <1>5, <2>1
  <2>3. BusInv' /\ DmaInv' /\ ServiceInv'
    BY <1>2, <1>7, <1>9, <2>1
    DEF BusInv, DmaInv, ServiceInv, Selecting, InDma, Serving, busVars
  <2>4. ReadDelivers' /\ WriteStores'
    BY <1>9 DEF ReadDelivers, WriteStores, Done, Absent, Good, Check
  <2>5. CleanHandover' /\ AnswersIfPresent'
    BY <1>1, <1>2, <1>7, <1>9, <2>1, <2>2 DEF CleanHandover, AnswersIfPresent, busVars
  <2>6. QED
    BY <1>3, <1>4, <1>6, <2>3, <2>4, <2>5 DEF HostIInv, HostInv
<1>10. QED BY <1>1, <1>8, <1>9

-----------------------------------------------------------------------------
(* The programmed transfer preserves it.                                   *)

LEMMA PioLoadPreserves ==
  ASSUME HostIInv, PioLoad
  PROVE  HostIInv'
<1>1. PICK b \in DataBytes :
        /\ WriteData(b)
        /\ sent' = IF CSBS.phase = 0 THEN Append(sent, b) ELSE sent
  BY DEF PioLoad
<1>2. /\ pc = "transfer" /\ pc' = "acknowledge" /\ CSBS.req
      /\ CSBS.phase \in {0, 2} /\ ~ByDma
      /\ UNCHANGED <<job, left, got, result, jobs>>
  BY DEF PioLoad
<1>3. b \in Byte
  BY JobAssumption
<1>4. /\ output_data' = b
      /\ UNCHANGED <<busVars, cmdVars, dataVars, targetVars, icr, tcr, dma_active>>
  BY <1>1 DEF WriteData
<1>5. Inv' /\ MediumFull'
  <2>1. Inv'
    BY <1>1, <1>3, WriteDataPreserves DEF HostIInv
  <2>2. QED BY <1>4, <2>1 DEF HostIInv, MediumFull, targetVars
<1>6. /\ \/ phase = "DATA_OUT" /\ CSBS.phase = 0
         \/ phase = "COMMAND" /\ CSBS.phase = 2
      /\ phase = "DATA_OUT" => ~job.dma
  <2>1. \/ phase = "DATA_OUT" /\ CSBS.phase = 0
        \/ phase = "COMMAND" /\ CSBS.phase = 2
    BY <1>2, Requested
  <2>2. QED BY <1>2, <2>1 DEF ByDma
<1>7. HostType'
  <2>1. sent \in Seq(Byte)
    BY DEF HostIInv, HostInv, HostType
  <2>2. sent' \in Seq(Byte)
    BY <1>1, <1>3, <2>1
  <2>3. QED BY <1>2, <2>2 DEF HostIInv, HostInv, HostType, Labels, Serving
<1>8. BusInv'
  BY <1>2, <1>4 DEF HostIInv, HostInv, BusInv, Selecting, InDma, Serving, busVars
<1>9. DmaInv'
  BY <1>2, <1>4, <1>6 DEF HostIInv, HostInv, DmaInv, InDma, Serving, InData, busVars
<1>10. ServiceInv'
  <2>1. /\ result' \in {Pending, status_byte'} /\ result' = Pending
        /\ phase = "COMMAND" => got = <<>> /\ sent = <<>>
        /\ phase = "DATA_OUT" => Outgoing(job.cdb) /\ cmd = job.cdb
    BY <1>2, <1>4, <1>6 DEF HostIInv, HostInv, ServiceInv, Serving, InData
  <2>2. CASE phase = "COMMAND"
    BY <1>1, <1>2, <1>4, <1>6, <2>1, <2>2 DEF ServiceInv, Serving, busVars
  <2>3. CASE phase = "DATA_OUT"
    <3>1. Outgoing(job.cdb)'
      BY <1>1, <1>2, <1>4, <1>6, <2>1, <2>3
      DEF Outgoing, dataVars, Reads, Expected, ReadCount
    <3>2. QED BY <1>2, <1>4, <2>1, <2>3, <3>1 DEF ServiceInv, Serving, busVars, cmdVars
  <2>4. QED BY <1>6, <2>2, <2>3
<1>11. QED
  BY <1>2, <1>5, <1>7, <1>8, <1>9, <1>10, NotAtRest DEF HostIInv, HostInv

LEMMA PioFetchPreserves ==
  ASSUME HostIInv, PioFetch
  PROVE  HostIInv'
<1>1. /\ pc = "transfer" /\ pc' = "acknowledge" /\ CSBS.req
      /\ CSBS.phase \in {1, 3, 7} /\ ~ByDma
      /\ got' = IF CSBS.phase = 1 THEN Append(got, CurrentData) ELSE got
      /\ result' = IF CSBS.phase = 3 THEN CurrentData ELSE result
      /\ UNCHANGED <<vars, job, left, sent>>
  BY DEF PioFetch
<1>2. UNCHANGED <<busVars, cmdVars, dataVars, targetVars, icr, tcr, dma_active, output_data>>
  BY <1>1 DEF vars, regVars
<1>3. Inv' /\ MediumFull'
  <2>1. Inv'
    BY <1>1, InvUnchanged DEF HostIInv
  <2>2. QED BY <1>2, <2>1 DEF HostIInv, MediumFull, targetVars
<1>4. /\ \/ phase = "DATA_IN" /\ CSBS.phase = 1
         \/ phase = "STATUS" /\ CSBS.phase = 3
         \/ phase = "MSG_IN" /\ CSBS.phase = 7
      /\ phase = "DATA_IN" => ~job.dma /\ data_pos < data_len
  <2>1. /\ \/ phase = "DATA_IN" /\ CSBS.phase = 1
           \/ phase = "STATUS" /\ CSBS.phase = 3
           \/ phase = "MSG_IN" /\ CSBS.phase = 7
        /\ phase = "DATA_IN" => data_pos < data_len
    BY <1>1, Requested DEF InData
  <2>2. QED BY <1>1, <2>1 DEF ByDma
<1>5. ServiceInv /\ HostType /\ Inv
  BY DEF HostIInv, HostInv
<1>6. BusInv'
  BY <1>1, <1>2 DEF HostIInv, HostInv, BusInv, Selecting, InDma, Serving, busVars
<1>7. DmaInv'
  BY <1>1, <1>2, <1>4 DEF HostIInv, HostInv, DmaInv, InDma, Serving, InData, busVars
<1>8. ASSUME phase = "DATA_IN"
      PROVE  /\ got' \in Seq(Byte) /\ result' = Pending
             /\ Incoming(job.cdb)'
             /\ cmd' = job.cdb'
  <2>1. /\ Incoming(job.cdb) /\ result = Pending /\ cmd = job.cdb
    BY <1>1, <1>5, <1>8 DEF ServiceInv, Serving, InData
  <2>2. /\ data_buf \in Seq(Byte) /\ Len(data_buf) = data_len /\ data_pos \in Nat
    BY <1>5, <1>8 DEF Inv, CoreInv, CoreType, TransferBounds, InData
  <2>3. got = SubSeq(data_buf, 1, data_pos) /\ CurrentData = data_buf[data_pos + 1]
    BY <1>1, <1>4, <1>8, <2>1 DEF Incoming, CurrentData
  <2>4. got' = SubSeq(data_buf, 1, data_pos + 1)
    BY <1>1, <1>4, <1>8, <2>2, <2>3, BufferGives
  <2>5. got' \in Seq(Byte)
    BY <1>4, <1>8, <2>2, <2>4
  <2>6. Incoming(job.cdb)'
    BY <1>1, <1>2, <1>4, <1>8, <2>1, <2>4
    DEF Incoming, dataVars, targetVars, Reads, Expected, ReadCount, ReadLba, OnTheDisk,
        AreBlocks
  <2>7. QED BY <1>1, <1>2, <1>4, <1>8, <2>1, <2>5, <2>6 DEF cmdVars
<1>9. ASSUME phase \in {"STATUS", "MSG_IN"}
      PROVE  /\ got' = got /\ result' \in {Pending, status_byte'}
             /\ Answered(job.cdb)'
             /\ cmd' = job.cdb'
  <2>1. Answered(job.cdb) /\ result \in {Pending, status_byte} /\ cmd = job.cdb
    BY <1>1, <1>5, <1>9 DEF ServiceInv, Serving
  <2>2. got' = got /\ result' \in {Pending, status_byte}
    BY <1>1, <1>4, <1>9, <2>1 DEF CurrentData
  <2>3. Answered(job.cdb)'
    BY <1>1, <1>2, <2>1, <2>2
    DEF Answered, dataVars, targetVars, Reads, Expected, ReadCount, ReadLba, OnTheDisk,
        AreBlocks
  <2>4. QED BY <1>1, <1>2, <2>1, <2>2, <2>3 DEF cmdVars, dataVars
<1>10. HostType'
  <2>1. got' \in Seq(Byte)
    BY <1>4, <1>5, <1>8, <1>9 DEF HostType
  <2>2. QED BY <1>1, <1>5, <2>1 DEF HostType, Labels, Serving
<1>11. ServiceInv'
  BY <1>1, <1>2, <1>4, <1>8, <1>9 DEF ServiceInv, Serving, InData, busVars
<1>12. QED
  BY <1>1, <1>3, <1>6, <1>7, <1>10, <1>11, NotAtRest DEF HostIInv, HostInv
\* A command's last byte: the transfer that it begins is the one the host
\* expects, and nothing of it has been moved.
LEMMA ExecuteServes ==
  ASSUME HostIInv, pc \in Serving, phase = "COMMAND", NEW c \in CDBs, c = job.cdb,
         Execute(c), cmd' = c, pc' = "release", UNCHANGED <<job, got, sent, result>>
  PROVE  ServiceInv' /\ phase' \in {"DATA_IN", "DATA_OUT", "STATUS"}
           /\ (phase' \in InData => data_pos' = 0) /\ medium' = medium
<1>1. /\ Inv /\ MediumFull /\ ServiceInv /\ selected_id = job.id /\ job \in Jobs
      /\ result = Pending /\ got = <<>> /\ sent = <<>>
  BY DEF HostIInv, HostInv, HostType, ServiceInv, BusInv, Serving, InDma, InData
<1>2. /\ phase' \in InData => data_pos' = 0
      /\ phase' = "DATA_IN" =>
           /\ c.op # WRITE_6
           /\ c.len <= LongestReply(c.op) => Expected(c) <= data_len'
           /\ Reads(c) => data_len' = Expected(c)
           /\ Reads(c) /\ NoWrap =>
                /\ status_byte' = Good <=> OnTheDisk(c)
                /\ status_byte' = Good => data_buf' =
                     [i \in 1 .. Expected(c) |->
                        medium[job.id][ReadLba(c) * BlockSize + i - 1]]
      /\ phase' = "DATA_OUT" => ~Reads(c) /\ data_len' = Expected(c)
      /\ phase' = "STATUS" => ~Reads(c) /\ c.op # WRITE_6
  BY <1>1, ExecutedData, Zenon DEF OnTheDisk
<1>3. /\ phase' \in {"DATA_IN", "DATA_OUT", "STATUS"} /\ data_buf' \in Seq(Byte)
      /\ medium' = medium /\ data_len' \in Nat
      /\ phase' \in InData => Len(data_buf') = data_len'
  <2>1. Executed
    BY <1>1, ExecuteLeavesExecuted DEF Inv
  <2>2. QED BY <2>1 DEF Executed, Execute
<1>4. job.dma => c.len <= LongestReply(c.op)
  BY <1>1, LengthAssumption
<1>5. SubSeq(data_buf', 1, 0) = <<>>
  BY <1>3, WholeBuffer
<1>6. ASSUME phase' = "DATA_IN"
      PROVE  Incoming(job.cdb)'
  <2>1. ASSUME Reads(c), NoWrap
        PROVE  /\ status_byte' = Good <=> OnTheDisk(c)
               /\ status_byte' = Good =>
                    /\ Len(data_buf') = Expected(c)
                    /\ \A i \in 1 .. Expected(c) :
                         data_buf'[i] = medium'[job.id][ReadLba(c) * BlockSize + i - 1]
    BY <1>2, <1>3, <1>6, <2>1 DEF InData
  <2>2. /\ c.op # WRITE_6 /\ got' = SubSeq(data_buf', 1, data_pos')
        /\ Reads(c) => data_len' = Expected(c)
        /\ job.dma => Expected(c) <= data_len'
    BY <1>1, <1>2, <1>4, <1>5, <1>6 DEF InData
  <2>3. QED
    BY <1>3, <2>1, <2>2
    DEF Incoming, Reads, Expected, ReadCount, ReadLba, OnTheDisk, AreBlocks
<1>7. ASSUME phase' = "DATA_OUT"
      PROVE  Outgoing(job.cdb)'
  <2>1. /\ ~Reads(c) /\ data_len' = Expected(c)
        /\ sent' = SubSeq(data_buf', 1, data_pos')
    BY <1>1, <1>2, <1>5, <1>7 DEF InData
  <2>2. QED BY <2>1 DEF Outgoing, Reads, Expected, ReadCount
<1>8. ASSUME phase' = "STATUS"
      PROVE  Answered(job.cdb)'
  BY <1>2, <1>8 DEF Answered, Reads
<1>9. ServiceInv'
  BY <1>1, <1>3, <1>6, <1>7, <1>8 DEF ServiceInv, Serving, InData
<1>10. QED BY <1>2, <1>3, <1>9

\* A byte that reaches the target is one of those the host has sent.
LEMMA ByteSent ==
  ASSUME Inv, pc \in Serving, phase = "DATA_OUT", NEW b \in Byte, AcceptDataByte(b),
         Outgoing(job.cdb), selected_id = job.id, cmd = job.cdb, result = Pending,
         sent' = Append(SubSeq(data_buf, 1, data_pos), b),
         pc' \in {"release", "dma_move"}, UNCHANGED <<job, result>>
  PROVE  ServiceInv' /\ sent' \in Seq(Byte)
<1>1. /\ data_pos \in Nat /\ data_len \in Nat /\ data_pos < data_len
      /\ data_buf \in Seq(Byte) /\ Len(data_buf) = data_len
      /\ selected_id \in Present /\ job.id \in Present
  BY DEF Inv, CoreInv, CoreType, TransferBounds, BusOwnership, InData, InTransfer
<1>2. /\ data_buf' = [data_buf EXCEPT ![data_pos + 1] = b]
      /\ data_pos' = data_pos + 1
      /\ UNCHANGED <<selected_id, cmd, data_len, status_byte>>
  BY DEF AcceptDataByte, cmdVars
<1>3. /\ data_buf' \in Seq(Byte) /\ Len(data_buf') = data_len
      /\ sent' = SubSeq(data_buf', 1, data_pos + 1)
  BY <1>1, <1>2, BufferTakes
<1>4. sent' \in Seq(Byte)
  BY <1>1, <1>3
<1>5. ~Reads(job.cdb) /\ data_len = Expected(job.cdb)
  BY DEF Outgoing
<1>6. CASE data_pos + 1 < data_len
  <2>1. phase' = "DATA_OUT"
    BY <1>1, <1>6 DEF AcceptDataByte
  <2>2. Outgoing(job.cdb)'
    BY <1>2, <1>3, <1>5 DEF Outgoing, Reads, Expected, ReadCount
  <2>3. QED BY <1>2, <1>4, <2>1, <2>2 DEF ServiceInv, Serving, InDma
<1>7. CASE data_pos + 1 = data_len
  <2>1. WriteImage(data_buf') /\ phase' = "STATUS"
    BY <1>1, <1>7 DEF AcceptDataByte
  <2>2. sent' = data_buf'
    BY <1>3, <1>7, WholeBuffer
  <2>3. ASSUME job.cdb.op = WRITE_6, job.id \notin ReadOnly
        PROVE  AreBlocks(sent, job.cdb)'
    <3>1. data_buf' = [i \in 1 .. Len(data_buf') |->
             medium'[selected_id][ReadLba(cmd) * BlockSize + i - 1]]
      BY <1>1, <1>3, <2>1, <2>3, WrittenIsOnDisk
    <3>2. \A i \in 1 .. data_len :
            data_buf'[i] = medium'[job.id][ReadLba(job.cdb) * BlockSize + i - 1]
      BY <1>3, <3>1
    <3>3. QED
      BY <1>3, <1>5, <2>2, <3>2 DEF AreBlocks, Reads, Expected, ReadCount, ReadLba
  <2>4. Answered(job.cdb)'
    BY <1>5, <2>3 DEF Answered, Reads
  <2>5. QED BY <1>2, <1>4, <2>1, <2>4 DEF ServiceInv, Serving, InDma, InData
<1>8. QED BY <1>1, <1>6, <1>7

\* A byte that leaves the target is one the host has got.
LEMMA ByteGot ==
  ASSUME Inv, pc \in Serving, ReleaseDataByte, Incoming(job.cdb), data_pos < data_len,
         cmd = job.cdb, result = Pending,
         got' = SubSeq(data_buf, 1, data_pos + 1),
         pc' \in {"release", "dma_move"}, UNCHANGED <<job, sent, result>>
  PROVE  ServiceInv' /\ got' \in Seq(Byte)
<1>1. /\ phase = "DATA_IN" /\ data_pos \in Nat /\ data_len \in Nat
      /\ data_buf \in Seq(Byte) /\ Len(data_buf) = data_len
  BY DEF Inv, CoreInv, CoreType, TransferBounds, InData, ReleaseDataByte
<1>2. /\ data_pos' = data_pos + 1
      /\ UNCHANGED <<cmd, data_buf, data_len, status_byte, medium>>
      /\ phase' = IF data_pos + 1 >= data_len THEN "STATUS" ELSE "DATA_IN"
  BY <1>1 DEF ReleaseDataByte, cmdVars, targetVars
<1>3. got' \in Seq(Byte)
  BY <1>1
<1>4. CASE data_pos + 1 < data_len
  <2>1. Incoming(job.cdb)'
    BY <1>2, <1>4
    DEF Incoming, Reads, Expected, ReadCount, ReadLba, OnTheDisk, AreBlocks
  <2>2. QED BY <1>1, <1>2, <1>3, <1>4, <2>1 DEF ServiceInv, Serving, InDma
<1>5. CASE data_pos + 1 = data_len
  <2>1. got' = data_buf
    BY <1>1, <1>5, WholeBuffer
  <2>2. Answered(job.cdb)'
    BY <1>2, <2>1
    DEF Incoming, Answered, Reads, Expected, ReadCount, ReadLba, OnTheDisk, AreBlocks
  <2>3. QED BY <1>1, <1>2, <1>3, <1>5, <2>2 DEF ServiceInv, Serving, InDma, InData
<1>6. QED BY <1>1, <1>4, <1>5

\* An image never gets shorter.
LEMMA AcceptKeepsFull ==
  ASSUME Inv, MediumFull, NEW b, AcceptDataByte(b)
  PROVE  MediumFull'
<1>1. DOMAIN medium = Present
  BY DEF Inv, CoreInv, CoreType
<1>2. \A id \in Present : DOMAIN medium[id] \subseteq DOMAIN medium'[id]
  BY <1>1 DEF AcceptDataByte, WriteImage
<1>3. QED BY <1>2 DEF MediumFull

\* What each phase makes of the host's acknowledgement.
LEMMA AcknowledgePhases ==
  ASSUME HostIInv, Acknowledge
  PROVE  /\ \/ phase = "COMMAND" /\ AcceptCommandByte(job.cdb)
            \/ phase = "DATA_OUT" /\ AcceptDataByte(output_data)
            \/ ReleaseDataByte
            \/ ReleaseStatus
            \/ ReleaseMessage
            \/ phase = "FREE" /\ UNCHANGED <<busVars, cmdVars, dataVars, targetVars>>
         /\ UNCHANGED <<mode, tcr, output_data, dma_active, latch_sel>>
         /\ Inv'
<1> DEFINE val == {"DATA_BUS", "ACK"}
<1>1. WriteICR(val) /\ (phase = "COMMAND" => cmd' = job.cdb)
  BY DEF Acknowledge
<1>2. WriteIcrAck(val)
  BY <1>1 DEF WriteICR, WriteIcrReset, WriteIcrSelect, WriteIcrOther, Selects
<1>3. val \in SUBSET IcrBit
  BY DEF IcrBit
<1>4. Inv'
  BY <1>1, <1>3, WriteIcrPreserves DEF HostIInv
<1>5. phase # "ARBITRATION"
  BY DEF HostIInv, HostInv, BusInv
<1>6. ASSUME phase = "COMMAND", NEW c \in CDBs, AcceptCommandByte(c)
      PROVE  AcceptCommandByte(job.cdb)
  <2>1. cmd' = c
    BY <1>6 DEF AcceptCommandByte
  <2>2. QED BY <1>1, <1>6, <2>1
<1>7. QED BY <1>2, <1>4, <1>5, <1>6 DEF WriteIcrAck

LEMMA AcknowledgePreserves ==
  ASSUME HostIInv, Acknowledge
  PROVE  HostIInv'
<1>1. /\ pc = "acknowledge" /\ pc' = "release"
      /\ UNCHANGED <<job, left, got, sent, result, jobs>>
  BY DEF Acknowledge, Goto
<1>2. /\ Inv /\ MediumFull /\ HostType /\ ServiceInv /\ job \in Jobs /\ job.cdb \in CDBs
      /\ job.id \in Present /\ (phase # "FREE" => selected_id = job.id)
      /\ ~dma_active /\ dma_active \in BOOLEAN /\ phase # "ARBITRATION"
      /\ job.dma => phase \notin InData
  BY <1>1, JobFields
  DEF HostIInv, HostInv, HostType, BusInv, DmaInv, Serving, Inv, RegInv
<1>3. UNCHANGED <<mode, tcr, output_data, dma_active, latch_sel>> /\ Inv'
  BY AcknowledgePhases
<1>4. HostType'
  BY <1>1, <1>2 DEF HostType, Labels, Serving
<1>5. dma_active' = FALSE
  BY <1>2, <1>3
<1>6. ASSUME MediumFull', ServiceInv', phase' # "ARBITRATION",
             phase' # "FREE" => selected_id' = job.id,
             job.dma /\ phase' \in InData => data_pos' = 0
      PROVE  HostIInv'
  <2>1. BusInv'
    BY <1>1, <1>2, <1>5, <1>6 DEF BusInv, Selecting, InDma, Serving
  <2>2. DmaInv'
    BY <1>1, <1>6 DEF DmaInv, InDma, Serving, InData
  <2>3. pc' # "idle"
    BY <1>1
  <2>4. QED BY <1>3, <1>4, <1>6, <2>1, <2>2, <2>3, NotAtRest DEF HostIInv, HostInv
<1>7. CASE phase = "COMMAND" /\ AcceptCommandByte(job.cdb)
  <2>1. cmd' = job.cdb /\ cmd_pos \in 0 .. 12 /\ CmdLength(job.cdb.op) \in {6, 10, 12}
    BY <1>2, <1>7 DEF AcceptCommandByte, CmdLength, Inv, CoreInv, CoreType
  <2>2. CASE cmd_pos + 1 >= CmdLength(job.cdb.op)
    <3>1. Execute(job.cdb)
      BY <1>7, <2>2 DEF AcceptCommandByte
    <3>2. PICK c \in CDBs : c = job.cdb
      BY <1>2
    <3>3. pc \in Serving
      BY <1>1 DEF Serving
    <3>4. /\ ServiceInv' /\ phase' \in {"DATA_IN", "DATA_OUT", "STATUS"}
          /\ phase' \in InData => data_pos' = 0
          /\ medium' = medium
      BY <1>1, <1>7, <2>1, <3>1, <3>2, <3>3, ExecuteServes
    <3>5. selected_id' = selected_id
      BY <3>1 DEF Execute
    <3>6. MediumFull'
      BY <1>2, <3>4 DEF MediumFull
    <3>7. QED BY <1>2, <1>6, <1>7, <3>4, <3>5, <3>6
  <2>3. CASE cmd_pos + 1 < CmdLength(job.cdb.op)
    <3>1. UNCHANGED <<busVars, dataVars, targetVars>>
      BY <2>1, <2>3, <1>7 DEF AcceptCommandByte
    <3>2. MediumFull'
      BY <1>2, <3>1 DEF MediumFull, targetVars
    <3>3. ServiceInv'
      BY <1>1, <1>2, <1>7, <3>1 DEF ServiceInv, Serving, InData, busVars, dataVars
    <3>4. QED BY <1>2, <1>6, <1>7, <3>1, <3>2, <3>3 DEF InData, busVars
  <2>4. QED BY <2>1, <2>2, <2>3
<1>8. CASE phase = "DATA_OUT" /\ AcceptDataByte(output_data)
  <2>1. /\ Outgoing(job.cdb) /\ cmd = job.cdb /\ result = Pending /\ pc \in Serving
        /\ sent = Append(SubSeq(data_buf, 1, data_pos), output_data)
        /\ output_data \in Byte
    BY <1>1, <1>2, <1>8 DEF ServiceInv, Serving, InData, Outgoing, Inv, RegInv
  <2>2. ServiceInv'
    BY <1>1, <1>2, <1>8, <2>1, ByteSent
  <2>3. MediumFull'
    BY <1>2, <1>8, AcceptKeepsFull
  <2>4. phase' \in {"DATA_OUT", "STATUS"} /\ selected_id' = selected_id
    BY <1>8 DEF AcceptDataByte
  <2>5. ~job.dma
    BY <1>2, <1>8 DEF InData
  <2>6. QED BY <1>2, <1>6, <1>8, <2>2, <2>3, <2>4, <2>5
<1>9. CASE ReleaseDataByte
  <2>1. phase = "DATA_IN"
    BY <1>9 DEF ReleaseDataByte
  <2>2. /\ Incoming(job.cdb) /\ cmd = job.cdb /\ result = Pending /\ pc \in Serving
        /\ got = SubSeq(data_buf, 1, data_pos + 1) /\ data_pos < data_len
    BY <1>1, <1>2, <2>1 DEF ServiceInv, Serving, InData, Incoming
  <2>3. ServiceInv'
    BY <1>1, <1>2, <1>9, <2>2, ByteGot
  <2>4. /\ phase' \in {"DATA_IN", "STATUS"} /\ selected_id' = selected_id
        /\ medium' = medium
    BY <1>9, <2>1 DEF ReleaseDataByte, targetVars
  <2>5. ~job.dma
    BY <1>2, <2>1 DEF InData
  <2>6. MediumFull'
    BY <1>2, <2>4 DEF MediumFull
  <2>7. QED BY <1>2, <1>6, <2>1, <2>3, <2>4, <2>5, <2>6
<1>10. ASSUME UNCHANGED <<cmdVars, dataVars, targetVars>>,
              phase \in {"STATUS", "MSG_IN", "FREE"}, phase' \in {"MSG_IN", "FREE"},
              phase' # "FREE" => selected_id' = job.id
       PROVE  HostIInv'
  <2>1. Answered(job.cdb) /\ cmd = job.cdb /\ result \in {Pending, status_byte}
    BY <1>1, <1>2, <1>10 DEF ServiceInv, Serving
  <2>2. Answered(job.cdb)'
    BY <1>1, <1>10, <2>1
    DEF Answered, Reads, Expected, ReadCount, ReadLba, OnTheDisk, AreBlocks, dataVars,
        targetVars
  <2>3. ServiceInv'
    BY <1>1, <1>10, <2>1, <2>2 DEF ServiceInv, Serving, InData, cmdVars, dataVars
  <2>4. MediumFull'
    BY <1>2, <1>10 DEF MediumFull, targetVars
  <2>5. QED BY <1>6, <1>10, <2>3, <2>4 DEF InData
<1>11. CASE ReleaseStatus
  BY <1>2, <1>10, <1>11 DEF ReleaseStatus
<1>12. CASE ReleaseMessage
  BY <1>2, <1>10, <1>12 DEF ReleaseMessage
<1>13. CASE phase = "FREE" /\ UNCHANGED <<busVars, cmdVars, dataVars, targetVars>>
  BY <1>2, <1>10, <1>13 DEF busVars
<1>14. QED BY <1>7, <1>8, <1>9, <1>11, <1>12, <1>13, AcknowledgePhases

\* A step that moves no byte leaves what is known of the data.
LEMMA DataStands ==
  ASSUME ServiceInv,
         \/ pc \in Serving \ {"acknowledge"} /\ pc' \in Serving \ {"acknowledge"}
         \/ UNCHANGED <<pc, output_data>>,
         UNCHANGED <<phase, cmdVars, dataVars, medium, job, got, sent, result>>
  PROVE  ServiceInv'
<1>1. Incoming(job.cdb) => Incoming(job.cdb)'
  BY DEF Incoming, Reads, Expected, ReadCount, ReadLba, OnTheDisk, AreBlocks, dataVars
<1>2. Outgoing(job.cdb) => Outgoing(job.cdb)'
  BY DEF Outgoing, Reads, Expected, ReadCount, dataVars
<1>3. Answered(job.cdb) => Answered(job.cdb)'
  BY DEF Answered, Reads, Expected, ReadCount, ReadLba, OnTheDisk, AreBlocks, dataVars
<1>4. QED BY <1>1, <1>2, <1>3 DEF ServiceInv, cmdVars, dataVars

LEMMA ReleasePreservesHost ==
  ASSUME HostIInv, Release
  PROVE  HostIInv'
<1>1. /\ pc = "release" /\ pc' = "transfer" /\ WriteICR({})
      /\ UNCHANGED <<job, left, got, sent, result>>
  BY DEF Release, Goto
<1>2. /\ icr' = {}
      /\ UNCHANGED <<busVars, cmdVars, dataVars, targetVars, mode, tcr, dma_active>>
  BY <1>1, PlainIcr
<1>3. Inv'
  BY <1>1, WriteIcrPreserves DEF HostIInv
<1>4. MediumFull'
  BY <1>2 DEF HostIInv, MediumFull, targetVars
<1>5. HostType' /\ BusInv' /\ DmaInv'
  BY <1>1, <1>2 DEF HostIInv, HostInv, HostType, BusInv, DmaInv, Labels, Selecting,
     InDma, Serving, InData, busVars, dataVars
<1>6. ServiceInv'
  BY <1>1, <1>2, DataStands DEF HostIInv, HostInv, Serving, busVars, targetVars
<1>7. pc' # "idle"
  BY <1>1
<1>8. QED BY <1>3, <1>4, <1>5, <1>6, <1>7, NotAtRest DEF HostIInv, HostInv

\* The end of a command: all the promises to the host are due.
LEMMA BusFreePreserves ==
  ASSUME HostIInv, BusFree
  PROVE  HostIInv'
<1>1. /\ pc = "transfer" /\ pc' = "idle" /\ ~CSBS.bsy
      /\ UNCHANGED <<job, left, got, sent, result>>
      /\ UNCHANGED vars
  BY DEF BusFree, Goto
<1>2. /\ UNCHANGED <<busVars, cmdVars, dataVars, targetVars, icr, tcr, dma_active>>
  BY <1>1 DEF vars, regVars
<1>3. Inv'
  BY <1>1, InvUnchanged DEF HostIInv
<1>4. MediumFull'
  BY <1>2 DEF HostIInv, MediumFull, targetVars
<1>5. /\ phase = "FREE" /\ selected_id = None
  BY <1>1, NotBusyIsFree DEF HostIInv, HostInv
<1>6. HostType' /\ BusInv' /\ DmaInv' /\ ServiceInv'
  BY <1>1, <1>2, <1>5
  DEF HostIInv, HostInv, HostType, BusInv, DmaInv, ServiceInv, Labels, Selecting,
      InDma, Serving, busVars
<1>7. /\ Answered(job.cdb) /\ result \in {Pending, status_byte}
      /\ status_byte \in {Good, Check} /\ job.id \in Present /\ icr = {} /\ ~dma_active
      /\ job \in Jobs /\ got \in Seq(Byte) /\ sent \in Seq(Byte)
  BY <1>1, <1>5
  DEF HostIInv, HostInv, HostType, BusInv, ServiceInv, Serving, Inv, CoreInv, CoreType
<1>8. job.cdb \in CDB /\ job.cdb \in CDBs
  BY <1>7, JobFields, InputAssumption
<1>9. Expected(job.cdb) \in Nat
  <2>1. BlockSize \in Nat /\ ReadCount(job.cdb) \in Nat /\ job.cdb.len \in Nat
    BY <1>8, CdbFields, MediumAssumption
  <2>2. ReadCount(job.cdb) * BlockSize \in Nat
    BY <2>1, ProductNatural, Zenon
  <2>3. QED BY <2>1, <2>2 DEF Expected
<1>10. \A s \in Seq(Byte) : AreBlocks(s, job.cdb) => s = OnDisk(job.cdb, Expected(job.cdb))
  BY <1>9 DEF AreBlocks, OnDisk
<1>11. result \in {Good, Check} => result = status_byte
  BY <1>7 DEF Pending, Good, Check
<1>12. ASSUME NoWrap
       PROVE  ReadDelivers'
  <2>1. ASSUME NEW c \in CDBs, job.cdb = c, result \in {Good, Check}, Reads(c)
        PROVE  /\ result = Good <=> ReadLba(c) + ReadCount(c) <= Blocks[job.id]
               /\ result = Good => got = OnDisk(c, Expected(c))
    BY <1>7, <1>10, <1>11, <1>12, <2>1 DEF Answered, OnTheDisk
  <2>2. QED
    BY <1>1, <1>2, <2>1 DEF ReadDelivers, Done, OnDisk, targetVars
<1>13. WriteStores'
  <2>1. ASSUME NEW c \in CDBs, job.cdb = c, c.op = WRITE_6, job.id \notin ReadOnly
        PROVE  Len(sent) = Expected(c) /\ sent = OnDisk(c, Expected(c))
    BY <1>7, <1>10, <2>1 DEF Answered, AreBlocks
  <2>2. QED
    BY <1>1, <1>2, <2>1 DEF WriteStores, Done, OnDisk, targetVars
<1>14. CleanHandover' /\ AnswersIfPresent'
  <2>1. dma_active' = FALSE
    BY <1>2, <1>7 DEF HostIInv, Inv, RegInv
  <2>2. result # Absent
    BY <1>7 DEF Pending, Absent, Good, Check
  <2>3. QED
    BY <1>1, <1>2, <1>5, <1>7, <2>1, <2>2 DEF CleanHandover, AnswersIfPresent, busVars
<1>15. QED
  BY <1>3, <1>4, <1>6, <1>12, <1>13, <1>14 DEF HostIInv, HostInv

-----------------------------------------------------------------------------
(* The pseudo-DMA sequence preserves it.                                   *)

LEMMA DmaPhasePreserves ==
  ASSUME HostIInv, DmaPhase
  PROVE  HostIInv'
<1>1. /\ pc = "transfer" /\ pc' = "dma_mode" /\ CSBS.req /\ ByDma
      /\ WriteTCR(CSBS.phase) /\ left' = Expected(job.cdb)
      /\ UNCHANGED <<job, got, sent, result>>
  BY DEF DmaPhase
<1>2. /\ \/ phase = "DATA_IN" /\ CSBS.phase = 1
         \/ phase = "DATA_OUT" /\ CSBS.phase = 0
      /\ data_pos < data_len /\ job.dma
  BY <1>1, Requested DEF ByDma, InData
<1>3. /\ tcr' = CSBS.phase % 8
      /\ UNCHANGED <<busVars, cmdVars, dataVars, targetVars, icr, mode, dma_active>>
  BY <1>1 DEF WriteTCR
<1>4. tcr' = CSBS.phase
  BY <1>2, <1>3
<1>5. Inv'
  BY <1>1, <1>2, WriteTcrPreserves DEF HostIInv
<1>6. MediumFull'
  BY <1>3 DEF HostIInv, MediumFull, targetVars
<1>7. /\ data_pos = 0 /\ data_len > 0 /\ Expected(job.cdb) <= data_len
      /\ Expected(job.cdb) \in Nat /\ data_len \in Nat
  <2>1. data_pos = 0
    BY <1>1, <1>2 DEF HostIInv, HostInv, DmaInv, Serving, InData
  <2>2. data_len \in Nat
    BY DEF HostIInv, Inv, CoreInv, CoreType
  <2>3. job.cdb \in CDB
    BY <1>1, JobFields, InputAssumption DEF HostIInv, HostInv, HostType
  <2>4. Expected(job.cdb) \in Nat
    <3>1. BlockSize \in Nat /\ ReadCount(job.cdb) \in Nat /\ job.cdb.len \in Nat
      BY <2>3, CdbFields, MediumAssumption
    <3>2. ReadCount(job.cdb) * BlockSize \in Nat
      BY <3>1, ProductNatural, Zenon
    <3>3. QED BY <3>1, <3>2 DEF Expected
  <2>5. phase = "DATA_IN" => Expected(job.cdb) <= data_len
    BY <1>1, <1>2 DEF HostIInv, HostInv, ServiceInv, Serving, Incoming
  <2>6. phase = "DATA_OUT" => Expected(job.cdb) = data_len
    BY <1>1, <1>2 DEF HostIInv, HostInv, ServiceInv, Serving, Outgoing
  <2>7. QED BY <1>2, <2>1, <2>2, <2>4, <2>5, <2>6
<1>8. HostType'
  BY <1>1, <1>7 DEF HostIInv, HostInv, HostType, Labels, Serving, InDma
<1>9. BusInv'
  BY <1>1, <1>3 DEF HostIInv, HostInv, BusInv, Selecting, Serving, InDma, busVars
<1>10. DmaInv'
  BY <1>1, <1>2, <1>3, <1>4, <1>7 DEF DmaInv, Serving, InDma, InData, busVars, dataVars
<1>11. ServiceInv'
  BY <1>1, <1>3, DataStands DEF HostIInv, HostInv, Serving, InDma, busVars, targetVars
<1>12. pc' # "idle"
  BY <1>1
<1>13. QED
  BY <1>5, <1>6, <1>8, <1>9, <1>10, <1>11, <1>12, NotAtRest DEF HostIInv, HostInv

\* Entering DMA mode, starting, looking at the BSR and leaving DMA mode only
\* change registers.
LEMMA DmaRegistersPreserve ==
  ASSUME HostIInv, DmaMode \/ DmaStart \/ DmaCheck \/ DmaLeave
  PROVE  HostIInv'
<1>1. {"DMA"} \in SUBSET ModeBit /\ {} \in SUBSET ModeBit
  BY DEF ModeBit
<1>2. /\ UNCHANGED <<busVars, cmdVars, dataVars, targetVars, icr, tcr>>
      /\ UNCHANGED <<job, left, got, sent, result>>
      /\ Inv'
      /\ \/ pc = "dma_mode" /\ pc' = "dma_start"
         \/ pc = "dma_start" /\ pc' = "dma_move"
         \/ pc = "dma_move" /\ pc' = "dma_leave"
         \/ pc = "dma_leave" /\ pc' = "transfer"
  <2>1. CASE DmaMode
    BY <1>1, <2>1, WriteModePreserves DEF DmaMode, WriteMode, Goto, HostIInv, busVars
  <2>2. CASE DmaStart
    BY <2>2, StartDmaPreserves DEF DmaStart, StartDma, Goto, HostIInv
  <2>3. CASE DmaCheck
    BY <2>3, ReadBsrPreserves DEF DmaCheck, ReadBSR, Goto, HostIInv
  <2>4. CASE DmaLeave
    BY <1>1, <2>4, WriteModePreserves DEF DmaLeave, WriteMode, Goto, HostIInv, busVars
  <2>5. QED BY <2>1, <2>2, <2>3, <2>4
<1>3. MediumFull'
  BY <1>2 DEF HostIInv, MediumFull, targetVars
<1>4. HostType'
  BY <1>2 DEF HostIInv, HostInv, HostType, Labels, Serving, InDma
<1>5. ServiceInv'
  BY <1>2, DataStands DEF HostIInv, HostInv, Serving, InDma, busVars, targetVars
<1>6. CASE DmaMode \/ DmaStart
  <2>1. pc \in {"dma_mode", "dma_start"} /\ pc' \in {"dma_start", "dma_move"}
    BY <1>6 DEF DmaMode, DmaStart, Goto
  <2>2. phase \in InData
    BY <2>1 DEF HostIInv, HostInv, DmaInv, InDma, InData
  <2>3. BusInv'
    BY <1>2, <2>1, <2>2
    DEF HostIInv, HostInv, BusInv, Selecting, Serving, InDma, InData, busVars
  <2>4. DmaInv'
    BY <1>2, <2>1, <2>2
    DEF HostIInv, HostInv, DmaInv, Serving, InDma, InData, busVars, dataVars
  <2>5. pc' # "idle"
    BY <2>1
  <2>6. QED
    BY <1>2, <1>3, <1>4, <1>5, <2>3, <2>4, <2>5, NotAtRest DEF HostIInv, HostInv
<1>7. CASE DmaCheck
  <2>1. /\ pc = "dma_move" /\ pc' = "dma_leave" /\ BSR.end_dma /\ ReadBSR
    BY <1>7 DEF DmaCheck, Goto
  <2>2. ~PhaseMatch \/ data_pos >= data_len
    BY <2>1, Zenon DEF BSR
  <2>3. phase = "STATUS"
    <3>1. /\ \/ phase = "DATA_IN" /\ tcr = 1 /\ data_len > 0
             \/ phase = "DATA_OUT" /\ tcr = 0 /\ data_len > 0
             \/ phase = "STATUS"
      BY <2>1 DEF HostIInv, HostInv, DmaInv, InDma
    <3>2. phase \in InData /\ data_len > 0 => data_pos < data_len
      BY DEF HostIInv, Inv, CoreInv, CoreType, TransferBounds, InData
    <3>3. data_pos \in Nat /\ data_len \in Nat
      BY DEF HostIInv, Inv, CoreInv, CoreType
    <3>4. QED BY <2>2, <3>1, <3>2, <3>3 DEF PhaseMatch, PhaseBits, InData
  <2>4. BusInv' /\ DmaInv'
    BY <1>2, <2>1, <2>3
    DEF HostIInv, HostInv, BusInv, DmaInv, Selecting, Serving, InDma, InData, busVars
  <2>5. pc' # "idle"
    BY <2>1
  <2>6. QED
    BY <1>2, <1>3, <1>4, <1>5, <2>4, <2>5, NotAtRest DEF HostIInv, HostInv
<1>8. CASE DmaLeave
  <2>1. pc = "dma_leave" /\ pc' = "transfer" /\ ~dma_active'
    BY <1>8 DEF DmaLeave, WriteMode, Goto
  <2>2. phase = "STATUS"
    BY <2>1 DEF HostIInv, HostInv, DmaInv
  <2>3. BusInv' /\ DmaInv'
    BY <1>2, <2>1, <2>2
    DEF HostIInv, HostInv, BusInv, DmaInv, Selecting, Serving, InDma, InData, busVars
  <2>4. pc' # "idle"
    BY <2>1
  <2>5. QED
    BY <1>2, <1>3, <1>4, <1>5, <2>3, <2>4, NotAtRest DEF HostIInv, HostInv
<1>9. QED BY <1>6, <1>7, <1>8

LEMMA DmaMovePreserves ==
  ASSUME HostIInv, DmaMove
  PROVE  HostIInv'
<1>1. /\ pc = "dma_move" /\ pc' = pc /\ left > 0 /\ left' = left - 1
      /\ UNCHANGED <<job, result>>
      /\ \/ tcr = 1 /\ DmaRead /\ got' = Append(got, DmaReadValue) /\ sent' = sent
         \/ /\ tcr = 0 /\ got' = got
            /\ \E b \in DataBytes : DmaWrite(b) /\ sent' = Append(sent, b)
  BY DEF DmaMove
<1>2. /\ Inv /\ MediumFull /\ HostType /\ ServiceInv /\ left \in Nat
      /\ phase \notin {"ARBITRATION", "FREE"} => selected_id = job.id
      /\ \/ phase = "DATA_IN" /\ tcr = 1
         \/ phase = "DATA_OUT" /\ tcr = 0
      /\ left <= data_len - data_pos /\ data_len > 0
      /\ data_pos \in Nat /\ data_len \in Nat
      /\ job.id \in Present /\ icr = {}
  <2>1. left \in Nat /\ data_pos \in Nat /\ data_len \in Nat
    BY DEF HostIInv, HostInv, HostType, Inv, CoreInv, CoreType
  <2>2. /\ \/ phase = "DATA_IN" /\ tcr = 1
           \/ phase = "DATA_OUT" /\ tcr = 0
        /\ left <= data_len - data_pos /\ data_len > 0
    BY <1>1, <2>1 DEF HostIInv, HostInv, DmaInv, InDma
  <2>3. QED
    BY <1>1, <2>1, <2>2 DEF HostIInv, HostInv, BusInv, Serving, InDma
<1>3. /\ data_pos < data_len /\ result = Pending /\ cmd = job.cdb /\ pc \in Serving
      /\ selected_id = job.id
  BY <1>1, <1>2 DEF ServiceInv, Serving, InDma, InData
<1>4. ASSUME Inv', MediumFull', ServiceInv', got' \in Seq(Byte), sent' \in Seq(Byte),
             UNCHANGED <<regVars, selected_id, data_len>>, data_pos' = data_pos + 1,
             phase' = IF data_pos + 1 >= data_len THEN "STATUS" ELSE phase
      PROVE  HostIInv'
  <2>1. HostType'
    BY <1>1, <1>2, <1>4 DEF HostType
  <2>2. BusInv'
    BY <1>1, <1>2, <1>3, <1>4
    DEF HostIInv, HostInv, BusInv, Selecting, Serving, InDma, regVars
  <2>3. DmaInv'
    BY <1>1, <1>2, <1>3, <1>4 DEF DmaInv, InDma, Serving, InData, regVars
  <2>4. pc' # "idle"
    BY <1>1
  <2>5. QED BY <1>4, <2>1, <2>2, <2>3, <2>4, NotAtRest DEF HostIInv, HostInv
<1>5. CASE tcr = 1
  <2>1. /\ phase = "DATA_IN" /\ DmaRead /\ got' = Append(got, DmaReadValue)
        /\ sent' = sent
    BY <1>1, <1>2, <1>5
  <2>2. ReleaseDataByte /\ UNCHANGED regVars
    BY <1>2, <1>3, <2>1 DEF DmaRead, ReleaseStatus, ReleaseMessage
  <2>3. /\ phase' = IF data_pos + 1 >= data_len THEN "STATUS" ELSE phase
        /\ data_pos' = data_pos + 1
        /\ UNCHANGED <<selected_id, data_len, medium>>
    BY <1>3, <2>1, <2>2 DEF ReleaseDataByte, targetVars
  <2>4. Incoming(job.cdb)
    BY <1>2, <1>3, <2>1 DEF ServiceInv
  <2>5. got' = SubSeq(data_buf, 1, data_pos + 1)
    <3>1. data_buf \in Seq(Byte) /\ Len(data_buf) = data_len
      BY <1>2, <2>1 DEF Inv, CoreInv, CoreType, TransferBounds, InData
    <3>2. DmaReadValue = data_buf[data_pos + 1]
      BY <1>3, <2>1 DEF DmaReadValue
    <3>3. got = SubSeq(data_buf, 1, data_pos)
      BY <1>1, <2>4 DEF Incoming
    <3>4. QED BY <1>2, <1>3, <2>1, <3>1, <3>2, <3>3, BufferGives
  <2>6. ServiceInv' /\ got' \in Seq(Byte)
    BY <1>1, <1>2, <1>3, <2>1, <2>2, <2>4, <2>5, ByteGot
  <2>7. Inv'
    BY <1>2, <2>1, DmaReadPreserves
  <2>8. MediumFull'
    BY <1>2, <2>3 DEF MediumFull
  <2>9. sent' \in Seq(Byte)
    BY <1>2, <2>1 DEF HostType
  <2>10. QED BY <1>4, <2>2, <2>3, <2>6, <2>7, <2>8, <2>9
<1>6. CASE tcr = 0
  <2>1. PICK b \in DataBytes : DmaWrite(b) /\ sent' = Append(sent, b)
    BY <1>1, <1>6
  <2>2. b \in Byte /\ phase = "DATA_OUT" /\ got' = got
    BY <1>1, <1>2, <1>6, JobAssumption
  <2>3. AcceptDataByte(b) /\ UNCHANGED regVars
    BY <2>1, <2>2 DEF DmaWrite
  <2>4. /\ phase' = IF data_pos + 1 >= data_len THEN "STATUS" ELSE phase
        /\ data_pos' = data_pos + 1
        /\ UNCHANGED <<selected_id, data_len>>
    BY <2>3 DEF AcceptDataByte
  <2>5. Outgoing(job.cdb)
    BY <1>2, <1>3, <2>2 DEF ServiceInv
  <2>6. sent' = Append(SubSeq(data_buf, 1, data_pos), b)
    BY <1>1, <2>1, <2>5 DEF Outgoing
  <2>7. ServiceInv' /\ sent' \in Seq(Byte)
    BY <1>1, <1>2, <1>3, <2>2, <2>3, <2>5, <2>6, ByteSent
  <2>8. Inv'
    BY <1>2, <2>1, <2>2, DmaWritePreserves
  <2>9. MediumFull'
    BY <1>2, <2>3, AcceptKeepsFull
  <2>10. got' \in Seq(Byte)
    BY <1>2, <2>2 DEF HostType
  <2>11. QED BY <1>4, <2>3, <2>4, <2>7, <2>8, <2>9, <2>10
<1>7. QED BY <1>1, <1>5, <1>6

-----------------------------------------------------------------------------
(* Theorems about the host's commands.                                     *)

LEMMA RestartPreserves ==
  ASSUME HostIInv, Restart
  PROVE  HostIInv'
<1>1. /\ pc' = "idle" /\ job' = NoJob /\ result' = Pending
      /\ UNCHANGED <<vars, left, got, sent>>
  BY DEF Restart
<1>2. Inv' /\ UNCHANGED <<phase, dma_active, medium>>
  BY <1>1, InvUnchanged DEF HostIInv, vars, busVars, regVars, targetVars
<1>3. MediumFull'
  BY <1>2 DEF HostIInv, MediumFull
<1>4. HostType' /\ BusInv' /\ DmaInv' /\ ServiceInv'
  BY <1>1, <1>2 DEF HostIInv, HostInv, HostType, BusInv, DmaInv, ServiceInv, Labels,
     Selecting, InDma, Serving
<1>5. ReadDelivers' /\ WriteStores'
  BY <1>1 DEF ReadDelivers, WriteStores, Done, Pending, Good, Check
<1>6. CleanHandover' /\ AnswersIfPresent'
  BY <1>1 DEF CleanHandover, AnswersIfPresent, Ended
<1>7. QED BY <1>2, <1>3, <1>4, <1>5, <1>6 DEF HostIInv, HostInv

LEMMA HostStutters ==
  ASSUME HostIInv, UNCHANGED allVars
  PROVE  HostIInv'
<1>1. Inv' /\ UNCHANGED <<vars, hostVars>>
  BY InvUnchanged DEF HostIInv, allVars
<1>2. /\ UNCHANGED <<busVars, cmdVars, dataVars, targetVars, icr, tcr, output_data, dma_active>>
      /\ UNCHANGED <<pc, job, left, got, sent, result>>
  BY <1>1 DEF vars, regVars, hostVars
<1>3. MediumFull' /\ HostType' /\ BusInv' /\ DmaInv'
  BY <1>2 DEF HostIInv, MediumFull, HostInv, HostType, BusInv, DmaInv, busVars,
     cmdVars, dataVars, targetVars
<1>4. ServiceInv'
  BY <1>2, DataStands DEF HostIInv, HostInv, busVars, targetVars
<1>5. ReadDelivers => ReadDelivers'
  BY <1>2 DEF ReadDelivers, Done, OnDisk, targetVars
<1>6. WriteStores => WriteStores'
  BY <1>2 DEF WriteStores, Done, OnDisk, targetVars
<1>7. CleanHandover' /\ AnswersIfPresent'
  BY <1>2 DEF HostIInv, HostInv, CleanHandover, AnswersIfPresent, Ended, busVars
<1>8. QED BY <1>1, <1>3, <1>4, <1>5, <1>6, <1>7 DEF HostIInv, HostInv

LEMMA HostNextInv ==
  ASSUME HostIInv, [HostNext]_allVars
  PROVE  HostIInv'
<1>1. CASE \E j \in Jobs : Begin(j)
  BY <1>1, BeginPreserves
<1>2. CASE CheckFree \/ PutId \/ DriveBus \/ AssertSel \/ Answer
  BY <1>2, CheckFreePreserves, PutIdPreserves, DriveBusPreserves, AssertSelPreserves,
     AnswerPreserves
<1>3. CASE PioLoad \/ PioFetch \/ Acknowledge \/ Release \/ BusFree
  BY <1>3, PioLoadPreserves, PioFetchPreserves, AcknowledgePreserves,
     ReleasePreservesHost, BusFreePreserves
<1>4. CASE DmaPhase \/ DmaMode \/ DmaStart \/ DmaMove \/ DmaCheck \/ DmaLeave
  BY <1>4, DmaPhasePreserves, DmaRegistersPreserve, DmaMovePreserves
<1>5. CASE Restart
  BY <1>5, RestartPreserves
<1>6. CASE UNCHANGED allVars
  BY <1>6, HostStutters
<1>7. QED BY <1>1, <1>2, <1>3, <1>4, <1>5, <1>6 DEF HostNext, Step

LEMMA HostInvAlways == HostSpec => []HostIInv
BY HostInitInv, HostNextInv, PTL DEF HostSpec

\* A READ that ends GOOD has given the host the bytes of its blocks, by either
\* way of moving them, and it ends GOOD exactly when they are on the disk,
\* whatever earlier commands and restarts have left behind.
THEOREM ReadsDeliver == NoWrap => (HostSpec => []ReadDelivers)
<1>1. HostIInv /\ NoWrap => ReadDelivers
  BY DEF HostIInv, HostInv
<1>2. NoWrap => NoWrap'
  BY DEF NoWrap, Reads, ReadLba, ReadCount
<1>3. QED BY <1>1, <1>2, HostInvAlways, PTL

\* After a WRITE has ended the disk holds what the host sent, where it said.
THEOREM WritesStore == HostSpec => []WriteStores
<1>1. HostIInv => WriteStores
  BY DEF HostIInv, HostInv
<1>2. QED BY <1>1, HostInvAlways, PTL

\* Each command hands over a free bus, no target selected, no line asserted
\* and no DMA running.
THEOREM HandoverClean == HostSpec => []CleanHandover
<1>1. HostIInv => CleanHandover
  BY DEF HostIInv, HostInv
<1>2. QED BY <1>1, HostInvAlways, PTL

\* Exactly the targets with an image answer a selection.
THEOREM AnsweredIfPresent == HostSpec => []AnswersIfPresent
<1>1. HostIInv => AnswersIfPresent
  BY DEF HostIInv, HostInv
<1>2. QED BY <1>1, HostInvAlways, PTL
=============================================================================
