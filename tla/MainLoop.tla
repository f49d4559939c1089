------------------------------ MODULE MainLoop ------------------------------
(***************************************************************************)
(* The emulator's main loop (src/src/agfa9000.c): what one pass does        *)
(* around a slice of the CPU, and so what is late.  The interrupt level is *)
(* sampled from the devices once, before the slice; the terminal, the      *)
(* Sys/Start script and the window's keys all feed the SCC, each with its  *)
(* own idea of whether there is room.                                      *)
(*                                                                         *)
(* The SCC is the one of Scc.  Of the VIAs and VERA only the interrupt     *)
(* lines are kept (Via and VeraScan have the rest), and of a character     *)
(* only where it comes from and its place there.                           *)
(***************************************************************************)
EXTENDS Integers, Sequences, FiniteSets

CONSTANTS
  FifoSize,  \* 16
  Controls,  \* what the guest writes to the SCC's registers, as in Scc
  InputSkip, \* calls of check_host_input for one look at the terminal: 64
  Early,     \* slices before the first look: a million cycles
  Scripts,   \* lengths of the Sys/Start script
  Lines,     \* how much is typed at the terminal
  Presses,   \* bursts of characters from a key: 1, and 3 for an arrow
  Ticks,     \* cycles that a slice can take
  Programs,  \* sets of things that happen
  MaxKeys    \* bound: the keys of a run, for each of these

Channels == {"A", "B"}
NoConsole == "none"
Chars == {"script", "typed", "key"} \X Nat

ASSUME LoopAssumption ==
  /\ {FifoSize, InputSkip} \subseteq Nat \ {0}
  /\ Early \in Nat
  /\ Scripts \cup Lines \cup Presses \cup Ticks \subseteq Nat
  /\ MaxKeys \in [Programs -> Nat]

VARIABLES
  phase,     \* where in a pass the loop is
  level,     \* the level given to the CPU by m68k_set_irq
  low, via1, \* via_irq_active of VIA #1; of VIA #2, or vera_irq_active
  ch, mie, irq_state, console, \* the SCC
  rx_en,     \* WR3 bit 0 of each channel
  skip, age, \* input_skip, and total_cycles in slices up to Early
  script, typed, keys, \* characters taken from each source so far
  sysstart, lines,     \* how many the script and the terminal have
  calls,     \* cal_count, of which only the second counts: 3 is more
  uses,      \* what happens in this run
  dropped,   \* history: the lines that fell during this slice
  arrived,   \* history: what each channel accepted
  split      \* history: how much had been typed when the console was found

sccVars == <<ch, mie, irq_state, console>>
devices == <<low, via1>>
feeds == <<script, typed, keys, skip, age>>
history == <<dropped, arrived, split>>
fixed == <<sysstart, lines, uses>>
vars == <<phase, level, devices, sccVars, rx_en, feeds, calls, history, fixed>>

S == INSTANCE Scc WITH Chars <- [c \in Channels |-> Chars]

Levels == {1, 4, 6}
Line(l) == CASE l = 6 -> irq_state [] l = 4 -> via1 [] l = 1 -> low

Become(p, q) == phase = p /\ phase' = q /\ UNCHANGED fixed

-----------------------------------------------------------------------------
(* The SCC's inputs.                                                       *)

Room(c) == Len(ch[c].rx) < FifoSize

\* scc_rx_char for each channel of cs: a full FIFO drops the character.
Feed(cs, x) ==
  LET takers == {c \in cs : Room(c)}
  IN  /\ ch' = [c \in Channels |-> IF c \in takers THEN S!Receive(ch[c], x) ELSE ch[c]]
      /\ IF \E c \in takers : ch[c].rx_int THEN S!UpdateIrq ELSE UNCHANGED irq_state
      /\ arrived' = [c \in Channels |-> IF c \in takers THEN Append(arrived[c], x) ELSE arrived[c]]
      /\ UNCHANGED <<mie, console, dropped, split>>

Quiet == UNCHANGED <<sccVars, history>>

-----------------------------------------------------------------------------
(* A pass.                                                                 *)

Highest(pending) == IF pending = {} THEN 0 ELSE CHOOSE l \in pending : \A m \in pending : m <= l

\* Mutants of SetIrq: the level is given only when something is pending; VIA #1
\* overrides the SCC.
SetIrqIfAny ==
  /\ Become("irq", "input")
  /\ level' = IF \E l \in Levels : Line(l) THEN Highest({l \in Levels : Line(l)}) ELSE level
  /\ dropped' = {}
  /\ UNCHANGED <<devices, sccVars, rx_en, feeds, calls, arrived, split>>
SetIrqVia ==
  /\ Become("irq", "input")
  /\ level' = IF via1 THEN 4 ELSE Highest({l \in Levels : Line(l)})
  /\ dropped' = {}
  /\ UNCHANGED <<devices, sccVars, rx_en, feeds, calls, arrived, split>>

SetIrq ==
  /\ Become("irq", "input")
  /\ level' = Highest({l \in Levels : Line(l)})
  /\ dropped' = {}
  /\ UNCHANGED <<devices, sccVars, rx_en, feeds, calls, arrived, split>>

\* Mutants of Listening: the console's room is not looked at; its receiver has
\* to be enabled.
ListeningAlways == IF console # NoConsole THEN {console} ELSE {c \in Channels : rx_en[c] /\ Room(c)}
ListeningGated == {c \in Channels : rx_en[c] /\ Room(c) /\ console \in {c, NoConsole}}

\* The channels a typed character goes to now.
Listening ==
  IF console # NoConsole THEN {c \in {console} : Room(c)}
  ELSE {c \in Channels : rx_en[c] /\ Room(c)}

\* check_host_input looks at the terminal in every InputSkip-th call.
CheckHostInput ==
  /\ Become("input", "cpu")
  /\ skip' = (skip + 1) % InputSkip
  /\ IF skip' = 0 /\ age = Early /\ Listening # {} /\ typed < lines
       THEN typed' = typed + 1 /\ Feed(Listening, <<"typed", typed'>>)
       ELSE UNCHANGED typed /\ Quiet
  /\ UNCHANGED <<level, devices, rx_en, script, keys, age, calls>>

EndSlice ==
  /\ Become("cpu", "inject")
  /\ age' = IF age < Early THEN age + 1 ELSE age
  /\ Quiet
  /\ UNCHANGED <<level, devices, rx_en, script, typed, keys, skip, calls>>

\* Mutant of Due: the script waits for room, not for an empty FIFO.
DueAlways == script < sysstart

Due == script < sysstart /\ ch["B"].rx = <<>>

\* A byte of the Sys/Start script, when channel B is empty; A gets it too.
Inject ==
  /\ Become("inject", "ticks")
  /\ IF Due
       THEN script' = script + 1 /\ Feed(Channels, <<"script", script'>>)
       ELSE UNCHANGED script /\ Quiet
  /\ UNCHANGED <<level, devices, rx_en, typed, keys, skip, age, calls>>

\* The devices' ticks, and the wiring of the SCC2691 to VIA #1, can raise the
\* lines.  The trace of the second timer calibration reads VIA #2's counter,
\* and so lowers its line.
TickDevices(cycles, raised, calibrating) ==
  /\ Become("ticks", "keys")
  /\ S!Tick(cycles)
  /\ calls' = IF calibrating /\ calls < 3 THEN calls + 1 ELSE calls
  /\ low' = IF calibrating /\ calls = 1 THEN FALSE ELSE low \/ 1 \in raised
  /\ via1' = (via1 \/ 4 \in raised)
  /\ UNCHANGED <<level, rx_en, feeds, history>>

\* A key of the window is sent to the console, or to A, as far as there is room.
Key(n) ==
  LET c    == IF console # NoConsole THEN console ELSE "A"
      fits == [i \in 1 .. (IF n < FifoSize - Len(ch[c].rx) THEN n ELSE FifoSize - Len(ch[c].rx))
                 |-> <<"key", keys + i>>]
  IN  /\ Become("keys", "irq")
      /\ keys' = keys + n
      /\ ch' = [ch EXCEPT ![c].rx = @ \o fits,
                          ![c].rx_int_pending = @ \/ (ch[c].rx_int /\ fits # <<>>)]
      /\ IF ch[c].rx_int /\ fits # <<>> THEN S!UpdateIrq ELSE UNCHANGED irq_state
      /\ arrived' = [arrived EXCEPT ![c] = @ \o fits]
      /\ UNCHANGED <<level, devices, mie, console, rx_en, script, typed, skip, age, calls,
                     dropped, split>>

NoKey ==
  /\ Become("keys", "irq")
  /\ Quiet /\ UNCHANGED <<level, devices, rx_en, feeds, calls>>

-----------------------------------------------------------------------------
(* The guest, within the slice.                                            *)

\* Every access: the lines that fall are remembered, the level stays.
Access ==
  /\ phase = "cpu"
  /\ dropped' = dropped \cup {l \in Levels : Line(l) /\ ~Line(l)'}
  /\ UNCHANGED <<phase, level, feeds, calls, arrived, fixed>>

\* The guest reads a character.
ReadData(c) ==
  /\ S!ReadData(c)
  /\ split' = IF console' # console THEN typed ELSE split
  /\ UNCHANGED <<devices, rx_en>>
  /\ Access

\* It writes a control register, selected by the write before; WR3 enables the
\* receiver.  A run says whether it sets up the receivers and the interrupts.
Selects(v) == IF v = 3 THEN "rx" \in uses ELSE "ints" \in uses
WriteControl(c) ==
  /\ \E v \in Controls[c][ch[c].reg_ptr] :
       /\ ch[c].reg_ptr = 0 => Selects(v)
       /\ S!WriteWr0(c, v) \/ S!WriteRegister(c, v)
       /\ rx_en' = IF ch[c].reg_ptr = 3 THEN [rx_en EXCEPT ![c] = v % 2 = 1] ELSE rx_en
  /\ UNCHANGED <<devices, split>>
  /\ Access

\* It serves, masks or unmasks VIA #1, VIA #2 or VERA.
SetVia(v) == via1' = v /\ UNCHANGED <<low, sccVars, rx_en, split>> /\ Access
SetLow(v) == low' = v /\ UNCHANGED <<via1, sccVars, rx_en, split>> /\ Access

Init ==
  /\ phase = "irq" /\ level = 0
  /\ low = FALSE /\ via1 = FALSE
  /\ S!Init
  /\ rx_en = [c \in Channels |-> FALSE]
  /\ skip = 0 /\ age = 0
  /\ script = 0 /\ typed = 0 /\ keys = 0
  /\ uses \in Programs
  /\ sysstart \in IF "script" \in uses THEN Scripts ELSE {0}
  /\ lines \in IF "typed" \in uses THEN Lines ELSE {0}
  /\ calls = 0
  /\ dropped = {} /\ split = 0
  /\ arrived = [c \in Channels |-> <<>>]

Raisable == (IF "low" \in uses THEN {1} ELSE {}) \cup (IF "via1" \in uses THEN {4} ELSE {})

Pass ==
  \/ SetIrq
  \/ CheckHostInput
  \/ EndSlice
  \/ Inject
  \/ \E cycles \in Ticks, raised \in SUBSET Raisable :
       \/ TickDevices(cycles, raised, FALSE)
       \/ "calibrate" \in uses /\ TickDevices(cycles, raised, TRUE)
  \/ "key" \in uses /\ \E n \in Presses : keys + n <= MaxKeys[uses] /\ Key(n)
  \/ NoKey

Guest ==
  \/ \E c \in Channels : ReadData(c) \/ WriteControl(c)
  \/ "via1" \in uses /\ \E v \in BOOLEAN : SetVia(v)
  \/ "low" \in uses /\ \E v \in BOOLEAN : SetLow(v)

Next == Pass \/ Guest

\* A slice ends after so many cycles whatever the guest does, and the loop goes
\* on for ever.
Spec == Init /\ [][Next]_vars
FairSpec == Spec /\ WF_vars(Pass)

-----------------------------------------------------------------------------
(* Properties.                                                             *)

\* Inside a slice the level can be out of date, but only for lines that fell
\* in this very slice: no interrupt is taken for what was served before it.
StaleOnlyWithinSlice == phase = "cpu" /\ level # 0 => Line(level) \/ level \in dropped

\* The places of what came from src among what arrived at channel c, and the
\* channels a character arrived at.
Places(src, c) == {k \in DOMAIN arrived[c] : arrived[c][k][1] = src}
Reached(x) == {c \in Channels : \E k \in DOMAIN arrived[c] : arrived[c][k] = x}

\* Whatever is typed and pressed meanwhile, the interpreter, which reads
\* channel B, gets every byte of the script it has been sent, once and in order.
ScriptIntact ==
  /\ {arrived["B"][k][2] : k \in Places("script", "B")} = 1 .. script
  /\ \A j, k \in Places("script", "B") : j < k => arrived["B"][j][2] < arrived["B"][k][2]

\* No typed character is taken from the terminal and lost.  It can reach both
\* channels as long as no console is known, and then exactly the console does.
TypedRouted ==
  \A i \in 1 .. typed :
    IF console = NoConsole \/ i <= split
    THEN Reached(<<"typed", i>>) # {}
    ELSE Reached(<<"typed", i>>) = {console}

\* The interrupts that should be presented; for the SCC, by its flags.
Cause(l) == IF l = 6 THEN S!Asserted ELSE Line(l)

\* What stays the highest cause of an interrupt is presented to the CPU, and
\* stays so, although the level is sampled once in a pass, before the terminal
\* is looked at, and SCC's output is computed again only by some accesses.
HighestPresented ==
  \A l \in Levels :
    <>[](l = Highest({m \in Levels : Cause(m)})) => <>[](level = l)

\* All that is typed is taken in, if in the end there always is room and, as
\* long as no console is known, an enabled receiver.
InputArrives ==
  <>[](\E c \in Channels : Room(c) /\ (c = console \/ (console = NoConsole /\ rx_en[c])))
    => <>(typed = lines)
=============================================================================
