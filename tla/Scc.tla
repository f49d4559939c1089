-------------------------------- MODULE Scc --------------------------------
(***************************************************************************)
(* The Z8530 serial controller (src/src/scc.c): two channels behind a      *)
(* control and a data port each, with one interrupt output.                *)
(*                                                                         *)
(* One action per port access, received character and tick.  A channel is  *)
(* a record, as scc_channel_t is a structure, and what the code does to a  *)
(* channel is a function from records to records.                          *)
(*                                                                         *)
(* What is abstracted: of the write registers, the bits the code looks at; *)
(* RR0, which is computed when it is read; the receive ring, a sequence    *)
(* (XFifo shows the same ring to be a queue); the modem pins, set once     *)
(* before the machine runs.  scc_reset and the register-per-address port   *)
(* have no caller.                                                         *)
(***************************************************************************)
EXTENDS Integers, Sequences

CONSTANTS
  Channels,  \* A and B
  FifoSize,  \* 16
  Chars,     \* Chars[c]: characters received on c
  Controls,  \* Controls[c][r]: bytes the guest writes to register r of c
  Ticks      \* cycles of a pass of the main loop

Register == 0 .. 15
Byte == 0 .. 255
NoConsole == "none" \* console_channel is -1

ASSUME SccAssumption ==
  /\ FifoSize \in Nat \ {0}
  /\ NoConsole \notin Channels
  /\ Controls \in [Channels -> [Register -> SUBSET Byte]]
  /\ Ticks \subseteq Nat

VARIABLES
  ch,        \* the channels
  mie,       \* master interrupt enable, WR9 bit 3
  irq_state, \* the interrupt output, which the main loop samples
  console    \* the channel the guest was first seen to read input from

vars == <<ch, mie, irq_state, console>>

Bit(v, n) == (v \div 2^n) % 2 = 1

\* A channel after channel_reset, in a cleared structure.
ResetChannel ==
  [reg_ptr |-> 0, rx |-> <<>>,
   rx_int |-> FALSE, tx_int |-> FALSE,             \* WR1 bits 3-4, bit 1
   tx_pending |-> FALSE, tx_delay |-> 0,
   tc_low |-> 0, tc_high |-> 0,                    \* WR12, WR13
   brg_enabled |-> FALSE, brg_zero_count_ie |-> FALSE,
   brg_reload |-> 0, brg_counter |-> 0, brg_zero_fired |-> FALSE,
   ext_status_pending |-> FALSE, rx_int_pending |-> FALSE,
   tx_int_pending |-> FALSE]

Init ==
  /\ ch = [c \in Channels |-> ResetChannel]
  /\ mie = FALSE
  /\ irq_state = FALSE
  /\ console = NoConsole

-----------------------------------------------------------------------------
(* What the code does to a channel.                                        *)

\* update_rr0 completes a transmission it finds pending.
UpdateRr0(k) == [k EXCEPT !.tx_pending = @ /\ k.tx_delay <= 0]

Transmit(k) == UpdateRr0([k EXCEPT !.tx_pending = TRUE, !.tx_delay = 1])

\* Reading the data register of a channel that holds a character.
TakeChar(k) ==
  UpdateRr0([k EXCEPT !.rx = Tail(@),
                      !.rx_int_pending = @ /\ Len(k.rx) > 1])

ResetExtStatus(k) ==
  UpdateRr0([k EXCEPT !.brg_zero_fired = FALSE,
                      !.ext_status_pending = FALSE,
                      !.brg_counter = IF k.brg_enabled THEN k.brg_reload ELSE @])

ResetTxInt(k) == [k EXCEPT !.tx_int_pending = FALSE]

\* Mutant of ResetHighestIus: the characters still in the FIFO are forgotten.
ResetEveryIus(k) ==
  [k EXCEPT !.ext_status_pending = FALSE,
            !.tx_int_pending = FALSE,
            !.rx_int_pending = FALSE]

\* All three flags are cleared, and the receive one raised again if the FIFO
\* still holds characters.
ResetHighestIus(k) ==
  [k EXCEPT !.ext_status_pending = FALSE,
            !.tx_int_pending = FALSE,
            !.rx_int_pending = k.rx # <<>> /\ k.rx_int]

\* A write to WR14; enabling the baud rate generator restarts it.
ControlBrg(k, v) ==
  LET reload == k.tc_low + 256 * k.tc_high + 2 IN
  IF Bit(v, 0)
  THEN [k EXCEPT !.brg_enabled = TRUE, !.brg_reload = reload,
                 !.brg_counter = reload, !.brg_zero_fired = FALSE]
  ELSE [k EXCEPT !.brg_enabled = FALSE]

Receive(k, x) ==
  UpdateRr0([k EXCEPT !.rx = Append(@, x), !.rx_int_pending = @ \/ k.rx_int])

\* A tick of p PCLK cycles: the transmitter, then RR0, then the generator.
FinishTx(k, p) ==
  IF ~(k.tx_pending /\ k.tx_delay > 0) THEN k
  ELSE IF k.tx_delay > p THEN [k EXCEPT !.tx_delay = @ - p]
  ELSE [k EXCEPT !.tx_pending = FALSE, !.tx_delay = 0,
                 !.tx_int_pending = @ \/ k.tx_int]

\* Mutant of CountDown: only the first zero count raises the interrupt flag.
CountDownOnce(k, p) ==
  IF ~k.brg_enabled THEN k
  ELSE IF k.brg_counter > p THEN [k EXCEPT !.brg_counter = @ - p]
  ELSE [k EXCEPT !.brg_counter = k.brg_reload, !.brg_zero_fired = TRUE,
                 !.ext_status_pending =
                   @ \/ (k.brg_zero_count_ie /\ ~k.brg_zero_fired)]

\* Mutant of CountDown: a counter may stop at zero.
CountDownToZero(k, p) ==
  IF ~k.brg_enabled THEN k
  ELSE IF k.brg_counter >= p THEN [k EXCEPT !.brg_counter = @ - p]
  ELSE [k EXCEPT !.brg_counter = k.brg_reload, !.brg_zero_fired = TRUE,
                 !.ext_status_pending = @ \/ k.brg_zero_count_ie]

CountDown(k, p) ==
  IF ~k.brg_enabled THEN k
  ELSE IF k.brg_counter > p THEN [k EXCEPT !.brg_counter = @ - p]
  ELSE [k EXCEPT !.brg_counter = k.brg_reload, !.brg_zero_fired = TRUE,
                 !.ext_status_pending = @ \/ k.brg_zero_count_ie]

\* PCLK is a quarter of the CPU clock; a pass counts for one cycle at least.
Pclk(cycles) == IF cycles \div 4 < 1 THEN 1 ELSE cycles \div 4

TickChannel(k, p) == CountDown(UpdateRr0(FinishTx(k, p)), p)

-----------------------------------------------------------------------------
(* The interrupt output.                                                   *)

Pending(k) == k.ext_status_pending \/ k.rx_int_pending \/ k.tx_int_pending

\* scc_update_irq; no action that calls it changes MIE.
UpdateIrq == irq_state' = (mie /\ \E c \in Channels : Pending(ch'[c]))

-----------------------------------------------------------------------------
(* Port accesses and events.                                               *)

\* WR0: the pointer for the next access and a command; a value of 8-15
\* ("point high") reaches the upper registers.
WriteWr0(c, v) ==
  LET command == (v \div 8) % 8
      k == [ch[c] EXCEPT !.reg_ptr = (v % 8) + (IF command = 1 THEN 8 ELSE 0)]
  IN  /\ ch[c].reg_ptr = 0
      /\ ch' = [ch EXCEPT ![c] = CASE command = 2 -> ResetExtStatus(k)
                                   [] command = 5 -> ResetTxInt(k)
                                   [] command = 7 -> ResetHighestIus(k)
                                   [] OTHER       -> k]
      /\ IF command \in {2, 5, 7} THEN UpdateIrq ELSE UNCHANGED irq_state
      /\ UNCHANGED <<mie, console>>

\* The registers a write only stores, or stores for nobody, need no case.
Written(k, reg, v) ==
  CASE reg = 1  -> [k EXCEPT !.rx_int = Bit(v, 3) \/ Bit(v, 4), !.tx_int = Bit(v, 1)]
    [] reg = 8  -> Transmit(k)
    [] reg = 12 -> [k EXCEPT !.tc_low = v]
    [] reg = 13 -> [k EXCEPT !.tc_high = v]
    [] reg = 14 -> ControlBrg(k, v)
    [] reg = 15 -> [k EXCEPT !.brg_zero_count_ie = Bit(v, 1)]
    [] OTHER    -> k

\* WR9 belongs to both channels; the output is not computed again.
WriteRegister(c, v) ==
  LET reg == ch[c].reg_ptr IN
  /\ reg # 0
  /\ ch' = [ch EXCEPT ![c] = [Written(@, reg, v) EXCEPT !.reg_ptr = 0]]
  /\ mie' = IF reg = 9 THEN Bit(v, 3) ELSE mie
  /\ UNCHANGED <<irq_state, console>>

WriteControl(c) ==
  \E v \in Controls[c][ch[c].reg_ptr] : WriteWr0(c, v) \/ WriteRegister(c, v)

WriteData(c) ==
  /\ ch' = [ch EXCEPT ![c] = Transmit(@)]
  /\ UNCHANGED <<mie, irq_state, console>>

\* Mutant of ReadFifo: the interrupt flag outlives the last character.
ReadFifoKeepsFlag(c, k) ==
  IF k.rx = <<>>
  THEN /\ ch' = [ch EXCEPT ![c] = k]
       /\ UNCHANGED irq_state
  ELSE /\ ch' = [ch EXCEPT ![c] = [TakeChar(k) EXCEPT !.rx_int_pending = k.rx_int_pending]]
       /\ IF Len(k.rx) = 1 THEN UpdateIrq ELSE UNCHANGED irq_state

\* RR8 of channel c, which is otherwise k; the output is computed again when
\* the FIFO becomes empty.
ReadFifo(c, k) ==
  IF k.rx = <<>>
  THEN /\ ch' = [ch EXCEPT ![c] = k]
       /\ UNCHANGED irq_state
  ELSE /\ ch' = [ch EXCEPT ![c] = TakeChar(k)]
       /\ IF Len(k.rx) = 1 THEN UpdateIrq ELSE UNCHANGED irq_state

\* The control port reads the register pointed to, and points at RR0 again.
\* Reading RR0 and RR8 has effects, the other registers have none.
ReadControl(c) ==
  LET reg == ch[c].reg_ptr
      k == [ch[c] EXCEPT !.reg_ptr = 0]
  IN  /\ IF reg = 8 THEN ReadFifo(c, k)
         ELSE /\ ch' = [ch EXCEPT ![c] = IF reg = 0 THEN UpdateRr0(k) ELSE k]
              /\ UNCHANGED irq_state
      /\ UNCHANGED <<mie, console>>

\* The data port; the first channel to be read with a character in it becomes
\* the console.
ReadData(c) ==
  /\ ReadFifo(c, ch[c])
  /\ console' = IF console = NoConsole /\ ch[c].rx # <<>> THEN c ELSE console
  /\ UNCHANGED mie

\* scc_rx_char; a character that finds the FIFO full is dropped.
RxChar(c, x) ==
  /\ IF Len(ch[c].rx) < FifoSize
     THEN /\ ch' = [ch EXCEPT ![c] = Receive(@, x)]
          /\ IF ch[c].rx_int THEN UpdateIrq ELSE UNCHANGED irq_state
     ELSE UNCHANGED <<ch, irq_state>>
  /\ UNCHANGED <<mie, console>>

\* Mutant of Tick: the output is left to the accesses that change a flag.
TickNoUpdate(cycles) ==
  /\ ch' = [c \in Channels |-> TickChannel(ch[c], Pclk(cycles))]
  /\ UNCHANGED <<irq_state, mie, console>>

\* scc_tick_n, once in each pass of the main loop.
Tick(cycles) ==
  /\ ch' = [c \in Channels |-> TickChannel(ch[c], Pclk(cycles))]
  /\ UpdateIrq
  /\ UNCHANGED <<mie, console>>

Next ==
  \/ \E c \in Channels : \/ WriteControl(c)
                         \/ WriteData(c)
                         \/ ReadControl(c)
                         \/ ReadData(c)
                         \/ \E x \in Chars[c] : RxChar(c, x)
  \/ \E cycles \in Ticks : Tick(cycles)

Spec == Init /\ [][Next]_vars

\* The main loop makes its passes for ever, and each of them ticks.
FairSpec == Spec /\ WF_vars(\E cycles \in Ticks : Tick(cycles))

-----------------------------------------------------------------------------
(* Properties.                                                             *)

ChannelType(c) ==
  [reg_ptr : Register, rx : Seq(Chars[c]), rx_int : BOOLEAN, tx_int : BOOLEAN,
   tx_pending : BOOLEAN, tx_delay : {0, 1}, tc_low : Byte, tc_high : Byte,
   brg_enabled : BOOLEAN, brg_zero_count_ie : BOOLEAN,
   brg_reload : Nat, brg_counter : Nat, brg_zero_fired : BOOLEAN,
   ext_status_pending : BOOLEAN, rx_int_pending : BOOLEAN,
   tx_int_pending : BOOLEAN]

\* The FIFO holds at most FifoSize characters, and an enabled generator counts
\* between its reload value and 1.
InBounds(k) ==
  /\ Len(k.rx) <= FifoSize
  /\ k.brg_enabled => k.brg_counter \in 1 .. k.brg_reload

\* Every variable has its type, and every channel keeps its bounds.
TypeOK ==
  /\ DOMAIN ch = Channels
  /\ \A c \in Channels : ch[c] \in ChannelType(c) /\ InBounds(ch[c])
  /\ mie \in BOOLEAN
  /\ irq_state \in BOOLEAN
  /\ console \in Channels \cup {NoConsole}

\* A pending receive interrupt has its reason: whatever the guest resets,
\* disables or reads, a handler that finds the flag finds a character.
RxInterruptHasCause ==
  \A c \in Channels : ch[c].rx_int_pending => ch[c].rx # <<>>

\* A character that waits while receive interrupts are on has its interrupt
\* pending, and no reset of flags, read or tick takes it away: only turning
\* the interrupts on late can leave waiting characters without one.
Covered(k) == k.rx # <<>> /\ k.rx_int => k.rx_int_pending
NoForgottenChar ==
  [][\A c \in Channels : Covered(ch[c]) /\ ~Covered(ch'[c]) => ~ch[c].rx_int]_vars

\* The output is the OR of the pending flags under MIE.  A write to WR9 may
\* leave it behind, and nothing else does; a tick always brings it up to date,
\* so that the main loop, which samples it once a pass, never misses it.
Asserted == mie /\ \E c \in Channels : Pending(ch[c])
OutputFollows ==
  [][\/ irq_state' = Asserted'
     \/ mie' # mie
     \/ irq_state # Asserted /\ ~\E cycles \in Ticks : Tick(cycles)]_vars

\* A baud rate generator that stays enabled, with its interrupt, and that the
\* guest has stopped restarting raises its flag again and again, however the
\* guest resets the flags.
OnlyTicksReload(c) ==
  ch'[c].brg_counter > ch[c].brg_counter => \E cycles \in Ticks : Tick(cycles)
ZeroCountsRecur ==
  \A c \in Channels :
    (/\ <>[](ch[c].brg_enabled /\ ch[c].brg_zero_count_ie)
     /\ <>[][OnlyTicksReload(c)]_vars)
    => []<>(ch[c].ext_status_pending)
=============================================================================
