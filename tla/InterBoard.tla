----------------------------- MODULE InterBoard -----------------------------
(***************************************************************************)
(* The path between the two boards: the main firmware drives an SCC2691    *)
(* through the port pins of VIA #1, agfa9000.c plays the SCC2691, and the  *)
(* IO board sees it as channel A of its DUART.  Each pass of the main loop *)
(* runs a slice of the main CPU, a slice of the IO CPU, and then refreshes *)
(* the VIA pins (turn).  The two FIFOs are the bounded queues of           *)
(* BoundedQueue, which XFifo implements.                                   *)
(***************************************************************************)
EXTENDS Integers, Sequences

CONSTANTS
  Capacity,  \* XFIFO_SIZE
  Preload,   \* bytes of the boot response queued before either board runs
  MaxSends,  \* bound: bytes the main firmware sends
  MaxReplies \* bound: bytes the IO firmware sends, the boot response included

ASSUME BoundsAssumption ==
  /\ Capacity \in Nat \ {0}
  /\ MaxSends \in Nat
  /\ MaxReplies \in Nat
  /\ Preload \in 0 .. MaxReplies
  /\ Preload <= Capacity

VARIABLES
  cleared,   \* the bits of ORB, among 2..7, that are 0
  ddra,      \* direction of port A
  ora,       \* output latch of port A
  pa,        \* what drives the pins of port A when it is an input (pa_in)
  ca1,       \* level of CA1
  ca1_flag,  \* the CA1 bit of IFR
  to_io,     \* fifo_main_to_io
  to_main,   \* fifo_io_to_main
  turn,      \* who runs: the slice of a board, or the wiring after it
  goal,      \* what the main firmware is doing
  todo,      \* its VIA accesses left in the current cycle
  polled,    \* it has seen the status bit it waits for
  got,       \* the last value it read from port A
  io_pc,     \* the IO firmware: polling, or about to read a byte
  sent,      \* history: bytes the main firmware has sent
  dropped,   \* history: the sent bytes that met a full FIFO
  received,  \* history: bytes the IO firmware has read
  replied,   \* history: bytes the IO board has sent
  seen       \* history: bytes the main firmware has received

via == <<cleared, ddra, ora, pa, ca1, ca1_flag>>
mainFirmware == <<goal, todo, polled, got>>
history == <<sent, dropped, received, replied, seen>>
vars == <<via, to_io, to_main, turn, mainFirmware, io_pc, history>>

\* Bytes are numbered in the order they are sent, so that two are never
\* confused; 0 is the zero the code supplies for an empty FIFO, and Config a
\* byte written to another register of the SCC2691.
Zero   == 0
Config == MaxSends + 1
Byte(b)    == [is |-> "byte", byte |-> b]
Status(bs) == [is |-> "status", bits |-> bs]
Floating   == Byte(-1)

-----------------------------------------------------------------------------
(* The SCC2691 as agfa9000.c plays it.                                     *)

\* The register the ORB bits 7-5 select.
Register(bits) == 7 - (IF 7 \in bits THEN 4 ELSE 0)
                    - (IF 6 \in bits THEN 2 ELSE 0)
                    - (IF 5 \in bits THEN 1 ELSE 0)

RxReady(bit) == IF to_main # <<>> THEN {bit} ELSE {}

\* xfifo_put drops the byte when the FIFO is full, and nobody looks at its
\* result.
Offer(queue, b) == IF Len(queue) < Capacity THEN Append(queue, b) ELSE queue

\* Mutant of FetchToPins: the byte stays in the FIFO.
PeekToPins ==
  /\ pa' = IF to_main # <<>> THEN Byte(Head(to_main)) ELSE Byte(Zero)
  /\ UNCHANGED to_main

\* The receive register: each refresh of the pins takes a byte of the FIFO.
FetchToPins ==
  \/ /\ to_main # <<>>
     /\ pa' = Byte(Head(to_main))
     /\ to_main' = Tail(to_main)
  \/ /\ to_main = <<>>
     /\ pa' = Byte(Zero)
     /\ UNCHANGED to_main

\* The pins after a write to ORB, with port A an input.
PinsAfterWrite(reg) ==
  \/ /\ reg = 1
     /\ pa' = Status({2, 3} \cup RxReady(0))
     /\ UNCHANGED to_main
  \/ /\ reg = 5
     /\ pa' = Status({0, 2} \cup RxReady(1))
     /\ UNCHANGED to_main
  \/ /\ reg = 3
     /\ FetchToPins
  \/ /\ reg \notin {1, 3, 5}
     /\ pa' = Byte(Zero)
     /\ UNCHANGED to_main

\* The pins after a pass of the main loop, with port A an input.
PinsAfterSlice(reg) ==
  \/ /\ reg = 1
     /\ pa' = Status({2} \cup RxReady(0))
     /\ UNCHANGED to_main
  \/ /\ reg = 5
     /\ pa' = Status({0} \cup RxReady(1))
     /\ UNCHANGED to_main
  \/ /\ reg = 3
     /\ FetchToPins
  \/ /\ reg \notin {1, 3, 5}
     /\ UNCHANGED <<pa, to_main>>

\* Mutant of CycleSends: each access of the cycle forwards, not its end.
CycleSendsEach(bits) ==
  /\ cleared # {}
  /\ ddra = "out"
  /\ Register(cleared) = 3

\* A byte goes to the IO board when the bits return to idle after a cycle
\* that addressed the transmit register with port A an output.
CycleSends(bits) ==
  /\ cleared # {}
  /\ bits = {}
  /\ ddra = "out"
  /\ Register(cleared) = 3

WriteOrb(bits) ==
  /\ cleared' = bits
  /\ IF ddra = "in" THEN PinsAfterWrite(Register(bits))
                    ELSE UNCHANGED <<pa, to_main>>
  /\ to_io' = IF CycleSends(bits) THEN Offer(to_io, ora) ELSE to_io
  /\ dropped' = IF CycleSends(bits) /\ Len(to_io) >= Capacity
                  THEN dropped \cup {ora} ELSE dropped
  /\ UNCHANGED <<ddra, ora, ca1, ca1_flag, got>>

WriteDdra(dir) ==
  /\ ddra' = dir
  /\ UNCHANGED <<cleared, ora, pa, ca1, ca1_flag, to_io, to_main, dropped, got>>

WriteOraNoHandshake(b) ==
  /\ ora' = b
  /\ UNCHANGED <<cleared, ddra, pa, ca1, ca1_flag, to_io, to_main, dropped, got>>

ReadOraNoHandshake ==
  /\ got' = IF ddra = "in" THEN pa ELSE Byte(ora)
  /\ UNCHANGED <<cleared, ddra, ora, pa, ca1, ca1_flag, to_io, to_main, dropped>>

-----------------------------------------------------------------------------
(* The main firmware (disassembly/bank1_fonts_scc.asm): each access to the *)
(* SCC2691 is a cycle of VIA accesses, and the main loop may refresh the   *)
(* pins between any two of them.                                           *)

Input    == [op |-> "ddra", dir |-> "in"]
Output   == [op |-> "ddra", dir |-> "out"]
Clear(i) == [op |-> "clear", bit |-> i]
Idle     == [op |-> "idle"]
Fetch    == [op |-> "fetch"]
Store(b) == [op |-> "store", byte |-> b]

\* The cycle that reads the register selected by clearing one address bit.
ReadCycle(address) == <<Input, Clear(address), Clear(2), Clear(3), Fetch, Idle>>

\* The cycle that writes it.
WriteCycle(address, b) ==
  <<Output, Store(b), Clear(address), Clear(2), Clear(4), Idle>>

\* One VIA access of the cycle.
Access ==
  /\ turn = "main"
  /\ todo # <<>>
  /\ LET a == Head(todo) IN
       \/ a.op = "ddra"  /\ WriteDdra(a.dir)
       \/ a.op = "clear" /\ WriteOrb(cleared \cup {a.bit})
       \/ a.op = "idle"  /\ WriteOrb({})
       \/ a.op = "fetch" /\ ReadOraNoHandshake
       \/ a.op = "store" /\ WriteOraNoHandshake(a.byte)
  /\ todo' = Tail(todo)
  /\ UNCHANGED <<turn, goal, polled, io_pc, sent, received, replied, seen>>

\* The firmware begins to send a byte or to wait for one: it reads the
\* interrupt status until the bit it needs is set.
Begin ==
  /\ turn = "main"
  /\ todo = <<>>
  /\ goal = "none"
  /\ \/ sent < MaxSends /\ goal' = "send"
     \/ goal' = "receive"
  /\ polled' = FALSE
  /\ todo' = ReadCycle(6)
  /\ UNCHANGED <<via, to_io, to_main, turn, got, io_pc, history>>

\* Initialisation writes a register that is not the transmit register.
Configure ==
  /\ turn = "main"
  /\ todo = <<>>
  /\ goal = "none"
  /\ goal' = "configure"
  /\ polled' = TRUE
  /\ todo' = WriteCycle(6, Config)
  /\ UNCHANGED <<via, to_io, to_main, turn, got, io_pc, history>>

WantedBit == IF goal = "send" THEN 0 ELSE 2

\* A status read is over: go on to the data cycle, or poll again.
EndPoll ==
  /\ turn = "main"
  /\ todo = <<>>
  /\ goal \in {"send", "receive"}
  /\ ~polled
  /\ \/ /\ WantedBit \notin got.bits
        /\ todo' = ReadCycle(6)
        /\ UNCHANGED <<polled, sent>>
     \/ /\ WantedBit \in got.bits
        /\ polled' = TRUE
        /\ IF goal = "send"
             THEN todo' = WriteCycle(7, sent + 1) /\ sent' = sent + 1
             ELSE todo' = ReadCycle(7) /\ UNCHANGED sent
  /\ UNCHANGED <<via, to_io, to_main, turn, goal, got, io_pc,
                 dropped, received, replied, seen>>

\* The data cycle is over; a received zero is how an empty FIFO looks.
EndCycle ==
  /\ turn = "main"
  /\ todo = <<>>
  /\ goal # "none"
  /\ polled
  /\ seen' = IF goal = "receive" /\ got.byte # Zero
               THEN Append(seen, got.byte) ELSE seen
  /\ goal' = "none"
  /\ UNCHANGED <<via, to_io, to_main, turn, todo, polled, got, io_pc,
                 sent, dropped, received, replied>>

\* m68k_execute returns after its cycles, wherever the firmware is.
EndMainSlice ==
  /\ turn = "main"
  /\ turn' = "io"
  /\ UNCHANGED <<via, to_io, to_main, mainFirmware, io_pc, history>>

-----------------------------------------------------------------------------
(* The IO board's slice: its firmware reads the status register until a    *)
(* byte is ready, and reads the byte; it may send one at any time.         *)

\* Mutant of PollDuart: a status bit that means FIFO full, not byte ready.
PollDuartFull ==
  /\ turn = "io"
  /\ io_pc = "poll"
  /\ Len(to_io) >= Capacity
  /\ io_pc' = "read"
  /\ UNCHANGED <<via, to_io, to_main, turn, mainFirmware, history>>

PollDuart ==
  /\ turn = "io"
  /\ io_pc = "poll"
  /\ to_io # <<>>
  /\ io_pc' = "read"
  /\ UNCHANGED <<via, to_io, to_main, turn, mainFirmware, history>>

ReadDuart ==
  /\ turn = "io"
  /\ io_pc = "read"
  /\ to_io # <<>>
  /\ received' = Append(received, Head(to_io))
  /\ to_io' = Tail(to_io)
  /\ io_pc' = "poll"
  /\ UNCHANGED <<via, to_main, turn, mainFirmware, sent, dropped, replied, seen>>

WriteDuart ==
  /\ turn = "io"
  /\ replied < MaxReplies
  /\ to_main' = Offer(to_main, replied + 1)
  /\ replied' = replied + 1
  /\ UNCHANGED <<via, to_io, turn, mainFirmware, io_pc, sent, dropped, received, seen>>

EndIoSlice ==
  /\ turn = "io"
  /\ turn' = "wiring"
  /\ UNCHANGED <<via, to_io, to_main, mainFirmware, io_pc, history>>

\* The main loop refreshes the pins of VIA #1 and drives CA1: low while a
\* byte waits.  The monitor has chosen the rising edge (PCR bit 0 is 1), so the
\* flag is set when the FIFO has emptied.
Wire ==
  /\ turn = "wiring"
  /\ IF ddra = "in" THEN PinsAfterSlice(Register(cleared))
                    ELSE UNCHANGED <<pa, to_main>>
  /\ ca1' = IF to_main' = <<>> THEN 1 ELSE 0
  /\ ca1_flag' = (ca1_flag \/ (ca1 = 0 /\ ca1' = 1))
  /\ turn' = "main"
  /\ UNCHANGED <<cleared, ddra, ora, to_io, mainFirmware, io_pc, history>>

-----------------------------------------------------------------------------
\* The boot monitor has set port A to output and ORB to 0x22, and the IO
\* board's boot response is queued.
Init ==
  /\ cleared = {2, 3, 4, 6, 7}
  /\ ddra = "out"
  /\ ora = Zero
  /\ pa = Floating
  /\ ca1 = 1
  /\ ca1_flag = FALSE
  /\ to_io = <<>>
  /\ to_main = [i \in 1 .. Preload |-> i]
  /\ turn = "main"
  /\ goal = "none"
  /\ todo = <<>>
  /\ polled = FALSE
  /\ got = Floating
  /\ io_pc = "poll"
  /\ sent = 0
  /\ dropped = {}
  /\ received = <<>>
  /\ replied = Preload
  /\ seen = <<>>

Next ==
  \/ Access
  \/ Begin
  \/ Configure
  \/ EndPoll
  \/ EndCycle
  \/ EndMainSlice
  \/ PollDuart
  \/ ReadDuart
  \/ WriteDuart
  \/ EndIoSlice
  \/ Wire

\* Both slices end and the wiring follows, because the emulator bounds every
\* m68k_execute; the IO firmware polls its DUART in each of its slices, and
\* each slice leaves it time to get around its polling loop.
Fairness ==
  /\ WF_vars(EndMainSlice)
  /\ WF_vars(EndIoSlice)
  /\ WF_vars(Wire)
  /\ SF_vars(PollDuart)
  /\ SF_vars(ReadDuart)

Spec == Init /\ [][Next]_vars
FairSpec == Spec /\ Fairness

-----------------------------------------------------------------------------
(* Properties.                                                             *)

Sent    == 1 .. MaxSends
Replies == 1 .. MaxReplies
Rising(s) == \A i, j \in DOMAIN s : i < j => s[i] < s[j]
Elements(s) == {s[i] : i \in DOMAIN s}

\* The bytes the IO board has read and those still queued for it are the bytes
\* sent, each once, in the order they were sent, and nothing else: no cycle
\* forwards a byte twice, loses it with room in the FIFO, or forwards what was
\* written to another register.  The last byte may still be on its way.
SentOnce ==
  LET forwarded == received \o to_io
      sending   == goal = "send" /\ polled /\ todo # <<>>
  IN  /\ Rising(forwarded)
      /\ Elements(forwarded) \cup dropped = 1 .. (IF sending THEN sent - 1 ELSE sent)
      /\ Elements(forwarded) \cap dropped = {}

\* The main firmware receives bytes in the order the IO board sent them, none
\* twice, and none that is still queued for it.
SeenInOrder ==
  /\ Rising(seen \o to_main)
  /\ Elements(seen) \subseteq 1 .. replied

\* A byte queued for the IO board is eventually read by its firmware, whatever
\* the main firmware is doing on VIA #1.
QueuedArrives ==
  \A b \in Sent : b \in Elements(to_io) ~> b \in Elements(received)
=============================================================================
