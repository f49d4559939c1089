------------------------------ MODULE ScsiHost ------------------------------
(***************************************************************************)
(* The controller (Scsi) driven by one host program at a time: selection   *)
(* as the original firmware does it (disassembly/bank4_filesystem_scsi.asm,*)
(* 0x85384-0x8552C), data by the polled or by the pseudo-DMA sequence of   *)
(* docs/SCSI_PSEUDO_DMA.md.  The host is not part of the emulator: it is   *)
(* the environment in which its promises are judged end to end.            *)
(*                                                                         *)
(* Every action is one access to the controller; pc names the next one.    *)
(* A poll that does not see what it waits for is a step that changes       *)
(* nothing and is left out.                                                *)
(***************************************************************************)
EXTENDS Scsi

CONSTANTS
  Jobs,      \* what the host asks for: target, command block, PIO or DMA
  DataBytes, \* the bytes the host writes to disks
  MaxJobs,   \* bound: jobs per behaviour
  MaxRestarts \* bound: restarts per behaviour

\* What the host has instead of a status byte: nothing yet, or nobody answered.
Pending == -1
Absent  == -2

NoJob == [id |-> None, cdb |-> NoCommand, dma |-> FALSE]

ASSUME JobAssumption ==
  /\ Jobs \subseteq [id : IDs, cdb : CDBs, dma : BOOLEAN]
  /\ DataBytes \subseteq Byte
  /\ MaxJobs \in Nat
  /\ MaxRestarts \in Nat

\* The host knows how long the reply to its command can be: by pseudo-DMA,
\* which does not look at the phase between two bytes, it never asks for more.
LongestReply(op) ==
  CASE op = REQUEST_SENSE -> 18
    [] op = READ_CAPACITY -> 8
    [] op = INQUIRY       -> 36
    [] OTHER              -> 255

ASSUME LengthAssumption ==
  \A j \in Jobs : j.dma => j.cdb.len <= LongestReply(j.cdb.op)

VARIABLES
  pc,
  job,       \* the command in progress, or the last one
  left,      \* bytes the pseudo-DMA loop still has to move
  got, sent, \* data bytes received and sent for the job
  result,    \* status byte received, Pending or Absent
  jobs,      \* jobs begun
  restarts

hostVars == <<pc, job, left, got, sent, result, jobs, restarts>>
allVars == <<vars, hostVars>>

HostInit ==
  /\ Init
  /\ pc = "idle"
  /\ job = NoJob
  /\ left = 0
  /\ got = <<>>
  /\ sent = <<>>
  /\ result = Pending
  /\ jobs = 0
  /\ restarts = 0

\* The bytes the host knows its command transfers.
Expected(c) == IF Reads(c) \/ c.op = WRITE_6
               THEN ReadCount(c) * BlockSize ELSE c.len

Goto(label) ==
  /\ pc' = label
  /\ UNCHANGED <<job, left, got, sent, result, jobs>>

-----------------------------------------------------------------------------
(* Selection.                                                              *)

Begin(j) ==
  /\ pc = "idle"
  /\ jobs < MaxJobs
  /\ job' = j
  /\ got' = <<>>
  /\ sent' = <<>>
  /\ result' = Pending
  /\ jobs' = jobs + 1
  /\ pc' = "check_free"
  /\ UNCHANGED <<vars, left>>

\* A bus that stays busy is reset, after a timeout.
CheckFree ==
  /\ pc = "check_free"
  /\ \/ /\ ~CSBS.bsy
        /\ Goto("put_id")
        /\ UNCHANGED vars
     \/ /\ CSBS.bsy
        /\ WriteICR({"RST"})
        /\ Goto("check_free")

PutId ==
  /\ pc = "put_id"
  /\ WriteData(2^job.id)
  /\ Goto("drive_bus")

DriveBus ==
  /\ pc = "drive_bus"
  /\ WriteICR({"DATA_BUS"})
  /\ Goto("assert_sel")

AssertSel ==
  /\ pc = "assert_sel"
  /\ WriteICR({"DATA_BUS", "SEL"})
  /\ Goto("answer")

\* BSY answers; without it the host gives up after its timeout.
Answer ==
  /\ pc = "answer"
  /\ WriteICR({})
  /\ IF CSBS.bsy
     THEN Goto("transfer")
     ELSE /\ pc' = "idle"
          /\ result' = Absent
          /\ UNCHANGED <<job, left, got, sent, jobs>>

-----------------------------------------------------------------------------
(* Programmed transfer: REQ, data, ACK, REQ gone, ACK released.            *)

ByDma == job.dma /\ CSBS.phase \in {0, 1}

PioLoad ==
  /\ pc = "transfer"
  /\ CSBS.req
  /\ CSBS.phase \in {0, 2}
  /\ ~ByDma
  /\ \E b \in DataBytes :
       /\ WriteData(b)
       /\ sent' = IF CSBS.phase = 0 THEN Append(sent, b) ELSE sent
  /\ pc' = "acknowledge"
  /\ UNCHANGED <<job, left, got, result, jobs>>

PioFetch ==
  /\ pc = "transfer"
  /\ CSBS.req
  /\ CSBS.phase \in {1, 3, 7}
  /\ ~ByDma
  /\ got' = IF CSBS.phase = 1 THEN Append(got, CurrentData) ELSE got
  /\ result' = IF CSBS.phase = 3 THEN CurrentData ELSE result
  /\ pc' = "acknowledge"
  /\ UNCHANGED <<vars, job, left, sent, jobs>>

Acknowledge ==
  /\ pc = "acknowledge"
  /\ WriteICR({"DATA_BUS", "ACK"})
  /\ phase = "COMMAND" => cmd' = job.cdb
  /\ Goto("release")

Release ==
  /\ pc = "release"
  /\ ~CSBS.req
  /\ WriteICR({})
  /\ Goto("transfer")

BusFree ==
  /\ pc = "transfer"
  /\ ~CSBS.bsy
  /\ UNCHANGED vars
  /\ Goto("idle")

-----------------------------------------------------------------------------
(* Pseudo-DMA: program the phase, enter DMA mode, start, move the bytes,   *)
(* look at the BSR, leave DMA mode.                                        *)

DmaPhase ==
  /\ pc = "transfer"
  /\ CSBS.req
  /\ ByDma
  /\ WriteTCR(CSBS.phase)
  /\ left' = Expected(job.cdb)
  /\ pc' = "dma_mode"
  /\ UNCHANGED <<job, got, sent, result, jobs>>

DmaMode ==
  /\ pc = "dma_mode"
  /\ WriteMode({"DMA"})
  /\ Goto("dma_start")

DmaStart ==
  /\ pc = "dma_start"
  /\ StartDma
  /\ Goto("dma_move")

DmaMove ==
  /\ pc = "dma_move"
  /\ left > 0
  /\ \/ /\ tcr = 1
        /\ DmaRead
        /\ got' = Append(got, DmaReadValue)
        /\ UNCHANGED sent
     \/ /\ tcr = 0
        /\ \E b \in DataBytes : DmaWrite(b) /\ sent' = Append(sent, b)
        /\ UNCHANGED got
  /\ left' = left - 1
  /\ UNCHANGED <<pc, job, result, jobs>>

DmaCheck ==
  /\ pc = "dma_move"
  /\ left = 0
  /\ BSR.end_dma
  /\ ReadBSR
  /\ Goto("dma_leave")

DmaLeave ==
  /\ pc = "dma_leave"
  /\ WriteMode({})
  /\ Goto("transfer")

-----------------------------------------------------------------------------
Step ==
  \/ CheckFree \/ PutId \/ DriveBus \/ AssertSel \/ Answer
  \/ PioLoad \/ PioFetch \/ Acknowledge \/ Release \/ BusFree
  \/ DmaPhase \/ DmaMode \/ DmaStart \/ DmaMove \/ DmaCheck \/ DmaLeave

\* The emulated CPU enters the boot ROM again (0x856 or 0x860, which the
\* instruction hook of the emulator reports): the program starts over and
\* knows nothing of its job, while the controller keeps its state.
Restart ==
  /\ pc # "idle"
  /\ restarts < MaxRestarts
  /\ restarts' = restarts + 1
  /\ pc' = "idle"
  /\ job' = NoJob
  /\ result' = Pending
  /\ UNCHANGED <<vars, left, got, sent, jobs>>

HostNext ==
  \/ /\ (\E j \in Jobs : Begin(j)) \/ Step
     /\ UNCHANGED restarts
  \/ Restart

\* The host program keeps running: the emulator's main loop executes it for
\* ever.  It need not begin another job.
HostSpec == HostInit /\ [][HostNext]_allVars /\ WF_allVars(Step /\ UNCHANGED restarts)

-----------------------------------------------------------------------------
(* Properties.                                                             *)

\* A job of command c has got its status.
Done(c) == pc = "idle" /\ job.cdb = c /\ result \in {Good, Check}

OnDisk(c, n) == [i \in 1 .. n |-> medium[job.id][ReadLba(c) * BlockSize + i - 1]]

\* A READ ends GOOD exactly when all its blocks are on the disk, and the host
\* then holds the bytes of those blocks, whichever way it moved them and
\* whatever was left in the buffer by the commands before.
ReadDelivers ==
  \A c \in CDBs : Done(c) /\ Reads(c) =>
    /\ result = Good <=> ReadLba(c) + ReadCount(c) <= Blocks[job.id]
    /\ result = Good => got = OnDisk(c, Expected(c))

\* After a WRITE to a disk that can be written has ended GOOD, the disk holds
\* the bytes the host sent, where the command said.
WriteStores ==
  \A c \in CDBs : Done(c) /\ c.op = WRITE_6 /\ job.id \notin ReadOnly =>
    /\ Len(sent) = Expected(c)
    /\ sent = OnDisk(c, Expected(c))

Ended == pc = "idle" /\ job # NoJob

\* When a command has ended, even one begun on a bus that a restart had left
\* in the middle of another, nothing is left on the bus or in the DMA logic:
\* the next command of any target starts from a free bus.
CleanHandover ==
  Ended => /\ phase = "FREE"
           /\ selected_id = None
           /\ icr = {}
           /\ ~dma_active

\* A selection is answered exactly by the targets that are present.
AnswersIfPresent ==
  Ended => (result = Absent <=> job.id \notin Present)

\* A READ(10) of no blocks: the target enters DATA IN with nothing to
\* transfer, asserts no REQ and never leaves the phase.
EmptyRead == job.id \in Present /\ job.cdb.op = READ_10 /\ job.cdb.count10 = 0

\* Every command but an empty READ(10) ends: the handshakes and the DMA polls
\* never wait for a REQ, a BSY or an end of DMA that does not come, also after
\* a restart has abandoned an empty READ(10).
CommandsComplete == (pc # "idle" /\ ~EmptyRead) ~> (pc = "idle")
=============================================================================
