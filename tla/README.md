# A TLA+ model of the Agfa 9000PS emulator

The repository emulates the Agfa/Compugraphic 9000PS RIP: a 68020 main board with
its serial, disk and timer chips, a 68000 IO board that talks to it over an
SCC2691 look-alike, and a VERA video and audio card. The specifications here
describe the emulated devices as the C code in `src/src/` implements them, with
every oddity the code has. The guest's firmware, where its accesses matter, is the
environment of a device and is written down from the disassembly and the docs.
Paths below are relative to the repository; `scsi.c` and the like are in `src/src/`.

## 1. Inventory

### Parts, state, operations

| Part | Source | State | Operations that change it | Model |
|---|---|---|---|---|
| NCR 5380 and SCSI targets | `scsi.c`, `scsi.h` | bus phase, selected target, command block, data transfer, status, sense per target, images, registers, DMA flag | register writes, reads of BSR, pseudo-DMA read and write | `Scsi`, `ScsiHost` |
| Bus control latch | `agfa9000.c` 1068-1091 | bit 5 of the latch | write at 0x06000000 | `Scsi` (`WriteLatch`) |
| Inter-board FIFOs | `ioboard.c` 22-60 | a ring of 512 bytes each way | init, put, get | `XFifo` |
| Inter-board path | `agfa9000.c` 940-1065, 2160-2240, `ioboard.c` DUART channel A, `via.c` port A and CA1 | ORB, DDRA, ORA, pins, CA1, both FIFOs | VIA accesses of the main firmware, DUART accesses of the IO firmware, wiring after each slice | `InterBoard` |
| IO board DUART, MK4501, RAM | `ioboard.c` | mode pointers, FIFO at 0x20000, RAM | register and memory accesses, reset | `Boards`, channel A's data in `InterBoard` |
| R6522 VIAs | `via.c` | two timers, IFR/IER, control lines, ports | register accesses, tick, edges of control lines | `Via`, port A's data in `InterBoard` |
| Z8530 SCC | `scc.c` | per channel: pointer, FIFO of 16, transmitter, generator, three pending flags; MIE, output | control and data accesses, received character, tick | `Scc` |
| Main loop | `agfa9000.c` 1940-2260 and the input functions | interrupt level, input sources, Sys/Start line | one pass: level, terminal, slice, script, ticks, keys | `MainLoop`; both boards' slices in `InterBoard` |
| Memory map, EEPROM | `agfa9000.c`, `ioboard.c` | RAM, EEPROM and its file, latch registers | accesses of three widths on two boards, start, the stages of creating and saving the file | `Boards` |
| VERA data ports, FX, copies | `vera.c` | video memory, two ports, FX unit, cache, palette, sprite and layer copies | register accesses, data accesses, reset, pokes | `VeraPorts` |
| VERA beam, interrupts, collisions | `vera.c` | two beams, ISR, IEN, collision accumulator, row accumulator of `render_line` | register accesses, tick | `VeraScan` |
| VERA layers, sprites, composition | `vera.c` | line buffers | rendering of a line | `SpriteLine`, `Picture` |
| VERA PCM FIFO | `vera.c` | ring, indices, count, control | CPU writes and resets, the audio thread's reads | `PcmFifo` |
| VERA SPI and SD card, PSG | `vera.c` | - | - | not modelled |
| Debug, memory, profiler sockets; profiler, traces | `agfa9000.c` | none the emulated machine depends on | socket commands, on other threads | not modelled |
| File system tool, demo programs, CPU core | `src/tools/`, `src/demo/`, `stubs.c` | - | - | not modelled |
| Disassembled firmware | `src/disassembly/` | - | - | the accesses of `ScsiHost` and `InterBoard` |

### How the parts interact

Everything but the sockets and the audio callback runs on one thread. A pass of
the main loop samples the interrupt level, looks at the terminal, executes a slice
of the main CPU (memory callbacks call straight into the devices), a slice of the IO
CPU, ticks the devices, refreshes the VIA pins that carry the inter-board signals and
polls the window's keys. So a device access is atomic, but a guest's *sequence* of
accesses can be cut anywhere by the rest of a pass, a device sees time only in whole
slices, and its state can be left anywhere by a guest that restarts. The audio
callback shares the PCM ring with the main thread and takes no lock.

### What is hard, and what correct means

* **SCSI.** The byte-at-a-time protocol is driven through four independent
  doors (ICR handshake, pseudo-DMA, MODE arbitration, the board latch) which share
  one phase and one set of counters. Correct: phases and selection agree; no
  transfer runs past its end; the disk changes only by complete writes, with the
  bytes sent; reads return the disk; errors can be explained; every command of a
  host that follows the protocol ends, but for a READ(10) of no blocks (section 6); a
  restart of the host leaves nothing that hurts the next command.
* **Inter-board path.** A send or a receive is several port accesses, pins change
  between them, and a byte's existence depends on edges of ORB. Correct: bytes arrive
  once, in order, lost only at a full FIFO; what is queued is eventually read; the
  receiver gets each byte (it does not: see section 6).
* **SCC.** Three pending flags per channel, set and cleared from both sides of the
  chip, behind one output that some accesses refresh and others do not. Correct: the
  output is the flags under the master enable, but between a write to WR9 and the next
  tick; a receive flag has a character, and a waiting character keeps its flag.
* **VIA.** Counters that a slice carries through zero several times. Correct: no tick
  is lost by the splitting into slices, one-shots fire once, flags have causes, and
  the composite bit follows.
* **Main loop.** A level sampled once a pass; three sources of input that each test for
  room in their own way. Correct: no interrupt for what was served before the slice,
  none that stays without being presented; no script byte pushed out, no typed
  character lost or sent to the wrong channel.
* **Memory map.** Fast paths that stop at the ends of blocks; an EEPROM file
  created at the start and written byte by byte, each time in several calls of which any may
  fail. Correct: width does not matter; the EEPROM survives restarts, as long as the file could
  be read or created at the last start and nothing failed or was removed since.
* **VERA.** Prefetched bytes, copies of video memory kept in three places, an FX unit
  that bends addresses, beams that jump over lines, registers latched by a line, a row carried from
  line to line, a count that two threads change. Correct: nothing stale is returned or shown; no
  interrupt or collision is skipped; the ring stays a FIFO except after known collisions.

`PROJECT.json` lists each hazard at its line with the properties that watch it.

## 2. The modules

An arrow from A to B: A EXTENDS or instantiates B. MC modules, one for each run, extend
the module they are named after and define its larger constants.

```
ScsiHost ----------> Scsi <---- ScsiRefinement ==refines==> BlockTarget
                                ScsiProofs ---> ScsiHost, ScsiRefinement
XFifo ==refines==> BoundedQueue
Boards ------------> XFifo      Boards <------- BoardsProofs
InterBoard                      InterBoard <--- InterBoardClaims
                                InterBoard <--- InterBoardProofs
                                (its two queues are those of BoundedQueue)
MainLoop --instance--> Scc      Scc <---------- SccProofs
                                MainLoop <----- MainLoopProofs
Via <------ ViaProofs
VeraPorts <-- VeraPortsProofs
VeraScan ----> Picture ----> SpriteLine
PcmFifo                         VeraProofs ---> VeraScan, PcmFifo
```

**Scsi.** `phase`, `selected_id`, `cmd`, `cmd_pos`, `data_buf`, `data_len`, `data_pos`,
`status_byte` are the fields of `ncr5380_t`; `sense_key` and `medium` belong to the
devices; `icr`, `mode`, `tcr`, `output_data` are registers 1-3 and 0, `dma_active` the
flag of that name, `latch_sel` bit 5 of `bus_ctl_latch`. One action per entry point:
`WriteData`, `WriteICR` (split by what it does into reset, selection, acknowledge,
other), `WriteMode`, `WriteTCR`, `StartDma` (registers 5-7), `WriteLatch`, `ReadBSR`,
`DmaRead`, `DmaWrite`. Acknowledge and the DMA port share `AcceptCommandByte` (which
runs `Execute` with the last byte of a block), `AcceptDataByte` (which writes the image
with the last byte), `ReleaseDataByte`, `ReleaseStatus` and `ReleaseMessage`. A command
block is one record chosen when its first byte arrives. A write past the end of an
image extends it, as `fwrite` does; a read past the end of the file leaves old bytes in
the buffer, any of the host's. The buffer is as long as the transfer.

**BlockTarget, ScsiRefinement.** `BlockTarget` is the promise: one transfer at a time, a
write that reaches the disk all at once with its last byte or not at all, a read that
hands out the disk's bytes in order, and any transfer abandoned without a trace.
`ScsiRefinement` maps the controller's phase, counters and buffer to that transfer.

**ScsiHost.** The controller with one host program at a time, an access per action:
the selection of the original firmware (`disassembly/bank4_filesystem_scsi.asm`,
0x85384-0x8552C) and the polled and pseudo-DMA sequences of
`docs/SCSI_PSEUDO_DMA.md`. The host is external code: what the controller promises
(commands end, data arrives, the bus is handed over free) can only be said of a host
that follows the protocol. `Restart` is the boot ROM entered again in the middle of
a job, the controller keeping its state. `LengthAssumption` is the firmware's part of the
bargain: it asks the pseudo-DMA port for no more than the command replies with.

**XFifo, BoundedQueue.** `xfifo_t` with its two indices and its count, and the bounded
queue it implements by reading the ring from `rd`.

**InterBoard.** Starts where the boot monitor has set up the ports (DDRA output, ORB
0x22, CA1 on the rising edge, interrupts disabled) and the IO board's boot response is
queued. `Access` is one VIA access of the main firmware; `Begin`, `Configure`,
`EndPoll` and `EndCycle` choose its next cycle (`disassembly/bank1_fonts_scc.asm`).
The listing of the firmware's write routine is not in the repository; its cycle is
composed from the initialisation's write cycle (2716-2729) and the routine's description
(2848-2856). `PollDuart`, `ReadDuart` and `WriteDuart` are the IO board;
`EndMainSlice`, `EndIoSlice` and `Wire` are the main loop. The cut between two slices
may fall between any two accesses. Bytes are numbered in sending order; `sent`,
`dropped`, `received`, `replied`, `seen` are history. An emulator started without an IO
board ROM is left out.

**Scc.** `scc_t` with its two channels as records. What the code does to a channel is a
function from channels to channels (`UpdateRr0`, `Transmit`, `TakeChar`, ...); the actions
are the control and data port accesses, `RxChar` and `Tick`, each with the
recomputation of the output where the code has one. Of the write registers the bits the
code looks at are kept. `update_rr0` is a step with an effect, because it completes a
transmission it finds pending. The receive ring is a sequence.

**Via.** Counters and latches of two timers, `ifr`, `ier`, the composite bit `any`, the
levels of CA1 and CB1 with the edge detectors' memory `prev`. An action per register
access, `Tick` (a whole slice), `SetLine`. What a firmware does is chosen at the start
(`Programs`), so that its features are combined two at a time. `since` records, from a
start of timer 1, the ticks that passed and the times it fired.

**PcmFifo.** Loads and stores of the shared count, and the audio thread's loads and
stores of the index, are steps of their own: the C code has neither lock nor atomics,
so either thread may be stopped between a load and its store. A test of the count (full? empty?)
is one step with the store that follows it. `TickConsume` is playback without
sound, by `vera_tick` on the main thread. `waiting` is the ideal FIFO; `raced`
says that the threads have collided in the count, or that a reset or a restart came while the
audio thread was reading.

**VeraPorts.** A port is a record: address, prefetched byte, step, direction, nibble. `ReadData`
and `WriteData` are the data accesses with everything the FX unit makes of them (four-bit mode,
hop, cache reads, writes and fills, transparency, line, polygon and affine addressing;
`Nibbled`, `Stepped`, `Accessed`, `WriteByte`, `WriteGroup`, and `PokeField`, the two-bit poke);
register writes and `Reset` complete the interface. `mirror`, `derived`, `layer_props` and
`colours` are what the renderer uses in place of video memory and registers; `stale`, `torn` and
`orphans` name the entries that the code is known to leave behind, and each enters only by the
access that tears it. `course` remembers where a line began.

**SpriteLine, Picture, VeraScan.** The operator `SpriteLine` draws a line's sprites in the order
of their numbers (`LookUp`, then `Pixel` by `Pixel`), under the budget of clocks, and collects
collisions. A pixel costs a clock and a fetch one more; a sprite's `fetch` says how many pixels
a fetch brings, eight of four bits or four of eight. `Picture` renders text, tile and bitmap
layers a byte at a time (`TiledLine`, a run of `Moved` and `Fetched`; `BitmapLine`) with the
properties the code latches from one line to the next, and composes them with the sprites;
`LayerPixel`, `OnTop` and `LineRight` say, pixel by pixel and independently, what should be
there. A layer's row is `& layerh_max` in the code, and `And` in the model: a mask, which is a
remainder only for the power of two that a tile map's height is, and not for a bitmap's 480. Two
kinds of pixels are excepted from `LineRight`: `Misplaced`, the first of a tile layer that is
scrolled by part of a byte, and `MaskedOut`, rows that lose bits to the mask while a layer that
has just become a bitmap is still drawn as tiles. `VeraScan` moves the beams: a tick begins,
advances VGA's and NTSC's line by line (`VgaLine`, `NtscLine`), and ends by computing the
output. `RenderLine` carries the row of the scene from each rendered line to the next, as
`eff_y_fp` does: only a top line sets it (`Top`, `Accumulated`). `skewed` says that no top line
has set the row since the power came on, a reset or a change of mode; the first frame after
power-on is among these lines, because the scale in force is a line late and 0 at first. What
should meet on a skewed line is what is on the row the code has then, and on any other what is
on the line itself.

**MainLoop.** `phase` walks through a pass. The SCC is the instance `S` of `Scc`; of the
VIAs and VERA the interrupt lines are kept. `CheckHostInput`, `Inject` and `Key` are the
three sources; `Feed` is `scc_rx_char` for one or both channels. `arrived` is what each
channel accepted, `dropped` the lines that fell during this slice.

**Boards.** `Read8`, `Read16`, `Read32` and the writes are the callbacks; `emu_current_cpu` says
whose slice it is. `EepromLoad` is the start and `file` the EEPROM's file. `saving` walks
through the calls of the code that write it: `Create` and `Fill` when the start finds none, and
`OpenFile` and `CloseFile` after the guest's write of a byte, which `Write8` only puts into the
array. Each of them may fail, as `fopen` may; a close writes what was buffered. `RemoveFile` and
`Restart` may come between any two of them. The IO board is RAM mirrored in its block, the
MK4501 (the ring of `XFifo`, inherited), the DUART's mode registers behind their pointers.

## 3. What the runs check

| Run | Question | Properties | Instance |
|---|---|---|---|
| `scsi_bus` | Does the controller keep its promises whatever the host writes, in whatever order? | `TypeOK`, `BusOwnership`, `TransferBounds`, `CheckHasSense`, `ImplementsTarget` | one disk of one 2-byte block, an absent ID; five command blocks: a read in range, one out of range, one of zero blocks, a write, an unknown opcode; every ICR value with a branch of its own |
| `scsi_host` | Does a host that follows the protocol get its data, and always come to an end, across restarts? | `ReadDelivers`, `WriteStores`, `CleanHandover`, `AnswersIfPresent`, `CommandsComplete` | two disks (one read-only) and an absent target, sequences of two jobs out of every command by PIO and DMA, a READ(10) of no blocks among them, one restart anywhere |
| `xfifo` | Is the ring a FIFO? | `RingInv`, `ImplementsQueue` | three slots, three values |
| `inter_board` | Do bytes cross the boards once and in order while slices are cut anywhere? | `SentOnce`, `SeenInOrder`, `QueuedArrives` | FIFOs of two, three sends, three replies, so both FIFOs fill and overflow |
| `claim_receive` | Does the firmware receive each byte? | `ReceiveGetsEachByte` (violated) | FIFOs of eight, the boot response of five bytes |
| `scc` | Do pending flags and output stay true to what happened? | `TypeOK`, `RxInterruptHasCause`, `NoForgottenChar`, `OutputFollows`, `ZeroCountsRecur` | A receives, transmits and holds the master enable, B runs the generator; FIFO of two; ticks of one and three PCLK cycles against reloads of two and three |
| `via` | Do timers counted by slices keep time, and flags have causes? | `IrqFollows`, `T1KeepsTime`, `FlagsHaveCause`, `T1Expires` | counters of nine values, slices of up to five ticks, histories of three slices |
| `pcm_fifo` | What does a count without a lock still promise? | `HoldsTheWaiting`, `FullDrains` | a ring of three, frames of one, two and four bytes, a count modulo five |
| `vera_ports` | Is anything stale returned or kept? Is a line straight? | `PrefetchCurrent`, `CopiesFollow`, `LineOnCourse` | eight cells in two groups, addresses modulo 16, eight guests, each with a few features and a budget of register writes and data accesses since a reset |
| `vera_scan` | Do beams, interrupts and collisions survive slices of several lines, and what does a line show? | `CollisionsReported`, `ForemostShown`, `OutputAtTick`, `InterruptsRecur` | frames of eight lines, six of them visible and four pixels wide, slices of one or two lines; two scenes of overlapping, flipped and cut sprites, with fetches of one and two pixels; pairs of text, tile and bitmap layers, scrolled and changed between lines; seven guests |
| `main_loop` | Who is late, who is pushed out, who gets what is typed? | `StaleOnlyWithinSlice`, `ScriptIntact`, `TypedRouted`, `HighestPresented`, `InputArrives` | FIFOs of two, a script of three bytes, two typed characters, bursts of one and three keys, two or three keys in a run (`MaxKeys`); six guests (`Programs`) with two or three features each |
| `boards` | Does width matter? Does the EEPROM survive? | `WideIsBytes`, `EepromSurvives` | ROM of six bytes, RAM of five, EEPROM of three, a FIFO of two; every access width at every address; a start without a file, calls that fail, removals and restarts between any two stages of a saving |

Each property is stated and commented where it is defined, and each is broken by
at least one plausible bug, listed under `mutants`.

**Why the bounds are enough.** The controller compares positions with lengths and tests
membership; two bytes distinguish the first from the last byte of a transfer, and one block the
last valid address from the first invalid one. Two jobs are the least that let one leave
something behind for the next, and one restart the least that breaks a job in two. The ring's
code depends on its size only through modulo and equality, and its general case is proved. Three
sends against a capacity of two are the least that overflow. A generator meets ticks shorter and
longer than its count. A slice of five ticks crosses zero up to five times in a counter of at
most nine, and three slices let one end just on its count and the next continue. PCM frames of
one, two and four bytes fit, fill and exceed the ring. In `vera_ports` an address has a low, a
middle and a high part and runs past the end of memory once before it wraps; the mirrored cells
are in the second group, so that cache writes and byte writes tear them; the general case of all
three properties is proved. In `vera_scan` six visible lines are not a power of two, so that a
mask of a bitmap's height differs from a remainder, as in the code's 480 lines; a change of mode
can come at any line of either field; one of the guests has beams that drift apart; the budget
of clocks does not run out (`LinesInBudget`, which TLC evaluates: no statement says what a line
should show then). Where guests are split into `Programs`, features whose state the code keeps
apart are not combined.

**Fairness.** `scsi_host`: weak fairness of the host's steps - the main loop executes
the CPU for ever - but not of beginning a job or restarting. `inter_board`: weak
fairness of the ends of both slices and of the wiring, which the emulator bounds
by cycles, and strong fairness of the IO board's poll and read, since its polling
loop fits many times in a slice of 5000 cycles and slices come round for ever.
`scc`, `via`, `vera_scan`: weak fairness of the tick, which every pass makes. `main_loop`: weak
fairness of the pass, none of the guest. `pcm_fifo`: weak fairness of each thread's
steps, since the operating system schedules both, and strong fairness of `TickConsume`,
which comes round in every pass but is disabled while the guest is inside a register
access. No liveness property assumes that a guest does anything; those that need a guest to *stop*
doing something say so in their hypothesis (`<>[]`).

**Deadlock** is checked but in two runs: in `scsi_host` a host may stop after its
last job, and in `vera_ports` a guest's budget of accesses may be used up.

## 4. What is proved

Every safety and action property that a run checks is also a theorem. Each holds for
every value of the constants that the named assumptions of its module allow; two conditions
are written into statements, because the code needs them: `NoWrap`, that
`lba + count` of no READ wraps (scsi.c:216), and `LinesInBudget`, that the sprites of no line run
out of clocks (vera.c:1168-1205), after which the code leaves pixels and their collisions out.

* **`ScsiProofs`, the controller**: `TypeCorrect`, `BusOwned`, `TransfersBounded`,
  `CheckReportsSense` (`TypeOK`, `BusOwnership`, `TransferBounds`, `CheckHasSense`). They
  come from one invariant, `Inv == CoreInv /\ RegInv`. `CoreInv` joins the types of the bus, command,
  data and target state with the three safety properties and `SenseInv`, because none
  is inductive alone: a command executes safely only if a target is selected, a byte
  keeps a phase in bounds only if the buffer is as long as the transfer, and a status of
  CHECK survives to the status phase only if the key was set when the data phase began.
  A lemma per operation of the byte paths and a step per action.
* **`ScsiProofs`, the refinement**: `TargetImplemented` (`NoWrap => (Spec => ImplementsTarget)`).
  Each access maps to a step of `BlockTarget` or to a stutter. The map adds to `Inv` that an
  image never gets shorter than its capacity (`MediumFull`, from `MediumAssumption`: the images
  are whole when the emulator starts), without which a read in range could reach behind the file's end.
* **`ScsiProofs`, the host**: `ReadsDeliver` (under `NoWrap`), `WritesStore`, `HandoverClean`,
  `AnsweredIfPresent`, from `HostIInv == Inv /\ MediumFull /\ HostInv`. `HostInv` ties the host's
  program counter to the controller's phase: which bus a selection may find after a
  restart (`BusInv`), how many bytes the pseudo-DMA loop and the controller still
  expect of each other (`DmaInv`), and what has been handed over so far (`ServiceInv`).
* **`BoardsProofs`**: `RingConsistent` (`RingInv`) and `RingIsQueue` (the refinement
  `ImplementsQueue`), of the ring that `Boards` inherits from `XFifo`: appending at `wr` is
  appending to the sequence read from `rd` modulo `Size`; advancing `rd` is taking its tail.
  `SurvivesRestarts` and `WideReads` (`EepromSurvives`, `WideIsBytes`): the invariant says that
  an undisturbed file, padded with zeros as loading pads it, *is* the EEPROM, but for the byte
  that is being saved, whose old value `saving` holds; and that `intact` never holds while a
  file is still to be created, which is what a failing creation comes down to. Wide reads are
  arithmetic on the map's order, by cases on the block each byte falls into.
* **`InterBoardProofs`**: `BytesForwardedOnce` and `BytesReceivedInOrder` (`SentOnce`,
  `SeenInOrder`), from `FirmwareInv /\ ToIoInv /\ ToMainInv`. `FirmwareInv` says what DDRA, ORA
  and ORB hold at each access of a cycle, so that ORB's edge forwards exactly the byte the cycle
  stored; `ToIoInv` says that what was received, queued and dropped is what was sent, and
  `ToMainInv` that the replies seen come before those queued, both in order. The main loop may
  run between any two accesses, which is why the ports' values, and not only the program
  counter, have to be in the invariant.
* **`SccProofs`**: `TypeCorrect`, `CauseKept`, `NothingForgotten`, `OutputIsCurrent`
  (`TypeOK`, `RxInterruptHasCause`, `NoForgottenChar`, `OutputFollows`). A channel is
  `Good` if it has its type, its bounds and the cause of its interrupt; every function
  maps good channels to good ones, and an action applies one to a channel. Every
  function but a write to WR1 is `Still`: it takes no flag from waiting characters.
* **`ViaProofs`**: `BitFollows` and `FlagsCaused` (`IrqFollows`, `FlagsHaveCause`), from
  `IrqFollows /\ prev = level`: an edge is counted once only because the detectors have always
  seen the lines' levels. `TimeKept` (`T1KeepsTime`), from `TimeInv`: how often a slice of any
  length carries the counter through zero is defined by recursion on the ticks left, and agrees
  with the quotient by the period.
* **`VeraPortsProofs`**: `PortsAreCurrent`, `CopiesAreCurrent`, `LinesOnCourse`
  (`PrefetchCurrent`, `CopiesFollow`, `LineOnCourse`). The heart is that an access moves no
  port but its own, whatever the FX unit does (`Moves`), so that the other port's byte
  can go stale only by the cell it holds being written, which is what `stale` records.
  Copies: each step either refreshes the cell it changes or tears it. A line: the carry
  of the fixed-point position is a difference of two quotients, so the sum of carries is
  the quotient of the sum, modulo the span of addresses.
* **`VeraProofs`, the picture**: `GroupsReported` and `PixelsForemost` (`CollisionsReported`,
  `ForemostShown`, under `LinesInBudget`). The state's part is an invariant: the scene is one of
  `Scenes` (`ScenesKnown`), accumulator and history are moved together, and the row that is
  carried from line to line is the line's own unless the picture is skewed (`RowsKnown`, of
  `RasterInv`). The weight is in the lemmas on the loops that draw a line, by induction over
  their rounds:
  + `SpritesRight`: after sprite *n* each pixel shows the foremost of the first *n*
    (`Fronted`), its mask holds their groups (`Masked`), and the groups met are theirs
    (`Gathered`), because the clocks spent so far are what `Spent` counts, for
    sprites of either depth;
  + `TiledRight`: in column *x* the entry and the byte are those of the pixel, and the place in
    the byte too, from the first byte's beginning on (`DotRight`); then a byte's address
    plus a place in it is the pixel's place in the tile (`BytePlaces`), as the bytes of a row are
    whole; a row is masked bit by bit (`AndIs`), and for a power of two that is the remainder
    (`MaskIsRemainder`), which is where the exception `MaskedOut` comes from;
  + `PictureRight`: which of sprite, layer 1 and layer 0 is opaque first is which is
    nearest (`ComposedRight`).
* **`VeraProofs`, the output**: `OutputFollows` (`OutputAtTick`), from `TickInv`: a tick
  under way always has an NTSC half line to go, and the last one computes the output.
* **`VeraProofs`, sound**: `IndicesStay`: `TypeOK` of `PcmFifo` is inductive. The count may be
  wrong after a collision, but no index leaves the ring. No run lists `TypeOK`: the proof covers it.
  `RingIsFifo` (`HoldsTheWaiting`), from `TypeOK /\ RingInv`: `RingInv` says what the ring
  holds at every load and store inside the calls of both threads.
* **`MainLoopProofs`**: `Fresh` (`StaleOnlyWithinSlice`). The sampled level is a line that is
  up. Between sample and slice a typed character may compute the SCC's output again, which could
  drop a line whose cause had gone before; but the tick at the end of a pass left the output
  exactly at its flags, a key adds only flags, and so does a typed character. No types are
  needed, only that a channel has its fields. `ScriptDelivered` and `TypedDelivered`
  (`ScriptIntact`, `TypedRouted`), from `RouteInv`: numbers are given in order, none has arrived
  before its time, and the script and the terminal each test the room of the very channels they
  feed. The assumptions ask for no more than positive sizes and naturals: scripts, lines, bursts
  and numbers of keys, slices and the sets of things a guest does are any.

Recursive definitions are functions, and what they compute is proved by induction through the least
counterexample: the library's induction theorems take an operator as a parameter, which the
provers cannot instantiate, but that a non-empty set of naturals has a least member is a
plain fact (`LeastMember` in `VeraProofs`).

Only model-checked is liveness (`CommandsComplete`, `QueuedArrives`, `ZeroCountsRecur`,
`T1Expires`, `FullDrains`, `InterruptsRecur`, `HighestPresented`, `InputArrives`), which is
beyond the prover, and what `NoWrap` and `LinesInBudget` leave out: nothing is claimed there.

## 5. What is not modelled, and why

* **SPI and SD card.** A transfer sets `spi_busy` and a step clears it that nothing
  calls (vera.c:445): there is no behaviour to explore beyond that sentence.
* **PSG, and `vera_video.c`, `vera_pcm.c`, `vera_psg.c`, `vera_spi.c`.** Sample
  arithmetic without protocol, and earlier versions of `vera.c` that the Makefile does
  not compile.
* **VERA's multiplier, the second dimension of the FX helpers, scaling, borders, colour conversion.**
  Arithmetic on values that no other state depends on.
* **Sockets, profiler, traces, division log.** Diagnostics for people. Their effect on the
  machine is that of a memory access at any moment: in `VeraPorts` it is one more register
  access, and in `Boards` an access with either CPU current. One side effect is in `MainLoop`:
  the trace of the second timer calibration reads VIA #2's counter and so lowers its interrupt.
* **File system tool, boot loader, RAM test, demo game.** A read-only extractor and
  programs that run on the emulated machine.
* **CPU core.** Musashi, a submodule that is not in the repository.
* **Allocation of SCSI's data buffer, LBA arithmetic near 2^32, lost results of
  `fwrite`.** Listed as hazards; the model gives the buffer the transfer's length and
  keeps addresses small.

## 6. Where code and comments disagree

One disagreement is a run that TLC ends with a counterexample. `claim_receive`: the emulated
receive register takes a byte off the FIFO at every ORB write that selects it
(agfa9000.c:999) and at every pass of the main loop meanwhile, so a firmware that reads
once per cycle gets every third byte at best.

Others were met while reading and are part of the models, without a run:

* MODE SELECT parameters are written to the disk at the LBA in bytes 2-5 of the command
  (scsi.c:461), where the code says "accept and ignore" (scsi.c:154).
* REQUEST SENSE clears the sense before it reports it (scsi.c:75); scsi.h:83 calls it
  the sense of the last command.
* AIP is set and then masked out of every read (scsi.c:292, scsi.h:44).
* After arbitration in the middle of a command, a selection that finds nobody leaves
  BSY asserted by the old target (scsi.c:431-432).
* The write that sets `tx_pending` clears it again in `update_rr0` (scc.c:226-228), so no
  tick ever finishes a transmission and the transmit interrupt is never raised.
* A pass of the main loop replaces status 0x05 by 0x01 (agfa9000.c:2207), without the bit
  that the comment at line 990 says firmware checks.
* Timer ticks are cycles divided by 10 where the comment says 16 (agfa9000.c:2093).
* vera.c:2101 calls 0x20 the enable of layer 0; it enables layer 1.
* A READ(10) with a count of 0 enters DATA IN with no data (scsi.c:213-229), never asserts REQ
  (scsi.c:326) and leaves the phase only by a reset or another selection; `CommandsComplete`
  excepts it by name (`EmptyRead`), and has the command after the restart end all the same.
* A creation of the EEPROM's file that fails at the start (agfa9000.c:154) goes unnoticed: the first
  write makes a short file, and the next start takes the rest of it for zeros.
* A layer that has just become a bitmap is drawn as tiles for a line or two and masked by 479
  (vera.c:653, 703), which loses a bit of some rows.
* A tile layer that is scrolled by part of a byte begins with the wrong pixels
  (vera.c:1362); `ForemostShown` excepts them.
* A Sys/Start script read by the guest on channel B makes B the console, and with it
  the channel that typed characters go to.

## 7. What is left

A sprite line whose clocks run out, scaling and the second dimension of the FX helpers would
extend `SpriteLine`, `Picture` and `VeraPorts`. A run of `Scsi` with a modulus of a few blocks
would reach the wrap of `lba + count`; the theorems say where it matters, in `TargetImplemented`
and `ReadsDeliver`. Of a line whose clocks run out it could still be proved that it reports no
collision that did not happen.
