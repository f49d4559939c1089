--------------------------- MODULE MainLoopProofs ---------------------------
(***************************************************************************)
(* Proofs about MainLoop, for any FIFO size, script, input and guest.  The *)
(* level sampled before a slice is out of date inside it only for lines    *)
(* that fell there.  The SCC's output is the delicate one: between the     *)
(* sample and the slice a typed character may make the loop compute it     *)
(* again, so it must not have been high without a cause when it was        *)
(* sampled.  That it is not follows from the tick at the end of a pass.    *)
(*                                                                         *)
(* And no character is lost that the loop takes from the script or from    *)
(* the terminal: what arrives at a channel comes behind what had arrived,  *)
(* so each source's numbers stay in order, and each of the two sources     *)
(* looks at the room of the very channels it then feeds.                   *)
(***************************************************************************)
EXTENDS MainLoop, SequenceTheorems, TLAPS

\* A channel has the flags of the three interrupts, whatever else it has.
Flags == {"ext_status_pending", "rx_int_pending", "tx_int_pending"}
IsChannel(k) == Flags \subseteq DOMAIN k
AreChannels(chs) == DOMAIN chs = Channels /\ \A c \in Channels : IsChannel(chs[c])

\* Between the tick of one pass and the slice of the next.
Sampled == phase \in {"keys", "irq", "input"}

IInv ==
  /\ AreChannels(ch)
  /\ level \in Levels \cup {0}
  /\ Sampled => (irq_state => S!Asserted)
  /\ phase = "input" /\ level # 0 => Line(level)
  /\ StaleOnlyWithinSlice

-----------------------------------------------------------------------------
(* The functions of Scc keep the fields of a channel.                      *)

LEMMA UpdateRr0Is == ASSUME NEW k PROVE DOMAIN S!UpdateRr0(k) = DOMAIN k
BY DEF S!UpdateRr0

LEMMA TransmitIs == ASSUME NEW k PROVE DOMAIN S!Transmit(k) = DOMAIN k
BY UpdateRr0Is DEF S!Transmit

LEMMA TakeCharIs == ASSUME NEW k PROVE DOMAIN S!TakeChar(k) = DOMAIN k
BY UpdateRr0Is DEF S!TakeChar

LEMMA ReceiveIs == ASSUME NEW k, NEW x PROVE DOMAIN S!Receive(k, x) = DOMAIN k
BY UpdateRr0Is DEF S!Receive

LEMMA ResetsAre ==
  ASSUME NEW k
  PROVE  /\ DOMAIN S!ResetExtStatus(k) = DOMAIN k
         /\ DOMAIN S!ResetTxInt(k) = DOMAIN k
         /\ DOMAIN S!ResetHighestIus(k) = DOMAIN k
<1>1. DOMAIN S!ResetExtStatus(k) = DOMAIN k
  BY UpdateRr0Is DEF S!ResetExtStatus
<1>2. DOMAIN S!ResetTxInt(k) = DOMAIN k
  BY DEF S!ResetTxInt
<1>3. DOMAIN S!ResetHighestIus(k) = DOMAIN k
  BY DEF S!ResetHighestIus
<1> QED BY <1>1, <1>2, <1>3

LEMMA TickChannelIs == ASSUME NEW k, NEW p PROVE DOMAIN S!TickChannel(k, p) = DOMAIN k
<1>1. DOMAIN S!FinishTx(k, p) = DOMAIN k
  BY DEF S!FinishTx
<1>2. ASSUME NEW j PROVE DOMAIN S!CountDown(j, p) = DOMAIN j
  BY DEF S!CountDown
<1> QED BY <1>1, <1>2, UpdateRr0Is DEF S!TickChannel

LEMMA WrittenIs == ASSUME NEW k, NEW r, NEW v PROVE DOMAIN S!Written(k, r, v) = DOMAIN k
<1>1. DOMAIN S!ControlBrg(k, v) = DOMAIN k
  BY DEF S!ControlBrg
<1> QED BY <1>1, TransmitIs DEF S!Written

\* A received character takes no flag away.
LEMMA ReceivePends ==
  ASSUME NEW k, NEW x, IsChannel(k), S!Pending(k)
  PROVE  S!Pending(S!Receive(k, x))
BY DEF IsChannel, Flags, S!Pending, S!Receive, S!UpdateRr0

-----------------------------------------------------------------------------
(* What the steps share.                                                   *)

\* The lines by name, and the line of the level given.
LEMMA LinesAre ==
  /\ Line(6) = irq_state /\ Line(4) = via1 /\ Line(1) = low
  /\ Line(6)' = irq_state' /\ Line(4)' = via1' /\ Line(1)' = low'
BY DEF Line

LEMMA LineOfLevel ==
  ASSUME NEW l \in Levels, level' = l PROVE Line(level)' = Line(l)'
BY DEF Line, Levels

\* A true output has its reason.
Reasoned == AreChannels(ch) /\ (irq_state => S!Asserted)

\* What the proof needs of a step outside the slice: the channels keep their
\* fields, no line falls, and a true output keeps its reason.
Raises ==
  /\ AreChannels(ch')
  /\ \A l \in Levels : Line(l) => Line(l)'
  /\ irq_state' => S!Asserted'

LEMMA FeedRaises ==
  ASSUME NEW cs, NEW x, Reasoned, Feed(cs, x), UNCHANGED devices
  PROVE  Raises
<1> DEFINE takers == {c \in cs : Room(c)}
<1>1. /\ ch' = [c \in Channels |-> IF c \in takers THEN S!Receive(ch[c], x) ELSE ch[c]]
      /\ S!UpdateIrq \/ UNCHANGED irq_state
      /\ mie' = mie
  BY DEF Feed
<1> HIDE DEF takers
<1>2. AreChannels(ch')
  BY <1>1, ReceiveIs DEF Reasoned, AreChannels, IsChannel
<1>3. ASSUME NEW c \in Channels, S!Pending(ch[c]) PROVE S!Pending(ch'[c])
  BY <1>1, <1>3, ReceivePends DEF Reasoned, AreChannels
<1>4. S!Asserted => S!Asserted'
  BY <1>1, <1>3 DEF S!Asserted
<1>5. irq_state => irq_state'
  BY <1>1, <1>4 DEF Reasoned, S!UpdateIrq, S!Asserted
<1>6. irq_state' => S!Asserted'
  BY <1>1, <1>4 DEF Reasoned, S!UpdateIrq, S!Asserted
<1>7. \A l \in Levels : Line(l) => Line(l)'
  BY <1>5, LinesAre DEF devices, Levels
<1> QED BY <1>2, <1>6, <1>7 DEF Raises

LEMMA QuietRaises ==
  ASSUME Reasoned, UNCHANGED sccVars, UNCHANGED devices PROVE Raises
<1>1. ch' = ch /\ mie' = mie /\ irq_state' = irq_state /\ via1' = via1 /\ low' = low
  BY DEF sccVars, devices
<1> QED BY <1>1 DEF Raises, Reasoned, S!Asserted, Line

\* A tick computes the output from the flags.
LEMMA TickFollows ==
  ASSUME AreChannels(ch), NEW cycles, S!Tick(cycles)
  PROVE  AreChannels(ch') /\ irq_state' = S!Asserted'
<1>1. ch' = [c \in Channels |-> S!TickChannel(ch[c], S!Pclk(cycles))] /\ S!UpdateIrq /\ mie' = mie
  BY DEF S!Tick
<1>2. AreChannels(ch')
  BY <1>1, TickChannelIs DEF AreChannels, IsChannel
<1> QED BY <1>1, <1>2 DEF S!UpdateIrq, S!Asserted

LEMMA KeyRaises ==
  ASSUME NEW n, Reasoned, Key(n) PROVE Raises
<1> DEFINE c    == IF console # NoConsole THEN console ELSE "A"
           fits == [i \in 1 .. (IF n < FifoSize - Len(ch[c].rx) THEN n ELSE FifoSize - Len(ch[c].rx))
                      |-> <<"key", keys + i>>]
           b    == ch[c].rx_int /\ fits # <<>>
<1>1. /\ ch' = [ch EXCEPT ![c] = [ch[c] EXCEPT !.rx = @ \o fits, !.rx_int_pending = @ \/ b]]
      /\ S!UpdateIrq \/ UNCHANGED irq_state
      /\ mie' = mie /\ UNCHANGED devices
  BY DEF Key, devices
<1> HIDE DEF c, fits, b
<1>2. AreChannels(ch')
  BY <1>1 DEF Reasoned, AreChannels, IsChannel
<1>3. ASSUME NEW d \in Channels, S!Pending(ch[d]) PROVE S!Pending(ch'[d])
  BY <1>1, <1>3 DEF Reasoned, AreChannels, IsChannel, Flags, S!Pending
<1>4. S!Asserted => S!Asserted'
  BY <1>1, <1>3 DEF S!Asserted
<1>5. irq_state => irq_state'
  BY <1>1, <1>4 DEF Reasoned, S!UpdateIrq, S!Asserted
<1>6. irq_state' => S!Asserted'
  BY <1>1, <1>4 DEF Reasoned, S!UpdateIrq, S!Asserted
<1>7. \A l \in Levels : Line(l) => Line(l)'
  BY <1>1, <1>5, LinesAre DEF devices, Levels
<1> QED BY <1>2, <1>6, <1>7 DEF Raises

\* The level given is that of a line that is up, or none.
LEMMA HighestIsUp ==
  ASSUME NEW P, P \subseteq Levels
  PROVE  Highest(P) \in P \cup {0} /\ (Highest(P) # 0 => Highest(P) \in P)
<1>1. CASE P = {}
  BY <1>1 DEF Highest
<1>2. CASE P # {}
  <2>1. \E l \in P : \A m \in P : m <= l
    <3>1. CASE 6 \in P
      BY <3>1 DEF Levels
    <3>2. CASE 6 \notin P /\ 4 \in P
      BY <3>2 DEF Levels
    <3>3. CASE 6 \notin P /\ 4 \notin P
      <4>1. P = {1}
        BY <1>2, <3>3 DEF Levels
      <4> QED BY <4>1
    <3> QED BY <3>1, <3>2, <3>3
  <2> QED BY <1>2, <2>1 DEF Highest
<1> QED BY <1>1, <1>2

\* The guest's accesses keep the fields of the channels.
LEMMA ReadDataIs ==
  ASSUME NEW c \in Channels, AreChannels(ch), S!ReadData(c) PROVE AreChannels(ch')
<1>1. \/ ch' = [ch EXCEPT ![c] = ch[c]]
      \/ ch' = [ch EXCEPT ![c] = S!TakeChar(ch[c])]
  BY DEF S!ReadData, S!ReadFifo
<1> QED BY <1>1, TakeCharIs DEF AreChannels, IsChannel

LEMMA WriteWr0Is ==
  ASSUME NEW c \in Channels, NEW v, AreChannels(ch), S!WriteWr0(c, v) PROVE AreChannels(ch')
<1> DEFINE command == (v \div 8) % 8
           p == (v % 8) + (IF command = 1 THEN 8 ELSE 0)
           k == [ch[c] EXCEPT !.reg_ptr = p]
<1>1. DOMAIN k = DOMAIN ch[c]
  OBVIOUS
<1>2. ch' = [ch EXCEPT ![c] = CASE command = 2 -> S!ResetExtStatus(k)
                                [] command = 5 -> S!ResetTxInt(k)
                                [] command = 7 -> S!ResetHighestIus(k)
                                [] OTHER       -> k]
  BY DEF S!WriteWr0
<1> HIDE DEF command, k
<1>3. \E j : DOMAIN j = DOMAIN ch[c] /\ ch' = [ch EXCEPT ![c] = j]
  BY <1>1, <1>2, ResetsAre
<1> QED BY <1>3 DEF AreChannels, IsChannel

LEMMA WriteRegisterIs ==
  ASSUME NEW c \in Channels, NEW v, AreChannels(ch), S!WriteRegister(c, v) PROVE AreChannels(ch')
<1> DEFINE k == S!Written(ch[c], ch[c].reg_ptr, v)
<1>1. DOMAIN k = DOMAIN ch[c]
  BY WrittenIs
<1>2. ch' = [ch EXCEPT ![c] = [k EXCEPT !.reg_ptr = 0]]
  BY DEF S!WriteRegister
<1> HIDE DEF k
<1> QED BY <1>1, <1>2 DEF AreChannels, IsChannel

-----------------------------------------------------------------------------
(* The invariant.                                                          *)

LEMMA InitHolds == ASSUME Init PROVE IInv
<1>1. AreChannels(ch) /\ irq_state = FALSE
  BY DEF Init, S!Init, S!ResetChannel, AreChannels, IsChannel, Flags
<1>2. phase = "irq" /\ level = 0
  BY DEF Init
<1> QED BY <1>1, <1>2 DEF IInv, Sampled, StaleOnlyWithinSlice

\* A step of the loop outside the slice, from a point where the output has its
\* reason or to one where it is not needed.
LEMMA RaisingStep ==
  ASSUME IInv, Raises, level' = level, phase' \notin {"input", "cpu"} \/ phase = "input"
  PROVE  /\ AreChannels(ch') /\ level' \in Levels \cup {0}
         /\ Sampled' => (irq_state' => S!Asserted')
         /\ phase = "input" => StaleOnlyWithinSlice'
<1>1. phase = "input" /\ level # 0 => Line(level)'
  BY DEF IInv, Raises
<1> QED BY <1>1 DEF IInv, Raises, StaleOnlyWithinSlice

LEMMA GuestStep ==
  ASSUME IInv, Access, AreChannels(ch') PROVE IInv'
<1>1. phase = "cpu" /\ phase' = "cpu" /\ level' = level
      /\ dropped' = dropped \cup {l \in Levels : Line(l) /\ ~Line(l)'}
  BY DEF Access
<1>2. level # 0 => Line(level) \/ level \in dropped
  BY <1>1 DEF IInv, StaleOnlyWithinSlice
<1>3. level # 0 => Line(level)' \/ level \in dropped'
  BY <1>1, <1>2 DEF IInv
<1>4. level' # 0 => Line(level)' \/ level' \in dropped'
  BY <1>1, <1>3
<1>5. StaleOnlyWithinSlice'
  BY <1>1, <1>4 DEF StaleOnlyWithinSlice
<1> QED BY <1>1, <1>5 DEF IInv, Sampled

LEMMA StepHolds == ASSUME IInv, [Next]_vars PROVE IInv'
<1> USE DEF Become
<1>0. AreChannels(ch) /\ level \in Levels \cup {0}
  BY DEF IInv
<1>1. CASE SetIrq
  <2> DEFINE up == {l \in Levels : Line(l)}
  <2>1. /\ phase' = "input" /\ level' = Highest(up) /\ phase = "irq"
        /\ UNCHANGED <<ch, mie, irq_state, via1, low>>
    BY <1>1 DEF SetIrq, sccVars, devices
  <2>2. level' \in Levels \cup {0} /\ (level' # 0 => level' \in up)
    BY <2>1, HighestIsUp
  <2>3. irq_state' => S!Asserted'
    BY <2>1 DEF IInv, Sampled, S!Asserted
  <2>4. \A l \in Levels : Line(l) => Line(l)'
    BY <2>1, LinesAre DEF Levels
  <2>5. level' # 0 => Line(level)'
    <3>1. level' # 0 => \E l \in Levels : level' = l /\ Line(l)
      BY <2>2
    <3> QED BY <2>4, <3>1, LineOfLevel
  <2> QED BY <1>0, <2>1, <2>2, <2>3, <2>5 DEF IInv, Sampled, StaleOnlyWithinSlice
<1>2. CASE CheckHostInput
  <2>1. phase = "input" /\ phase' = "cpu" /\ level' = level /\ UNCHANGED devices
    BY <1>2 DEF CheckHostInput, devices
  <2>2. Reasoned
    BY <2>1 DEF IInv, Sampled, Reasoned
  <2>3. (\E x : Feed(Listening, x)) \/ Quiet
    BY <1>2 DEF CheckHostInput
  <2>4. Raises
    BY <2>1, <2>2, <2>3, FeedRaises, QuietRaises DEF Quiet
  <2> QED BY <2>1, <2>4, RaisingStep DEF IInv, Sampled
<1>3. CASE EndSlice
  BY <1>0, <1>3 DEF EndSlice, Quiet, sccVars, IInv, Sampled, StaleOnlyWithinSlice
<1>4. CASE Inject
  <2>1. phase' = "ticks" /\ level' = level /\ UNCHANGED devices
    BY <1>4 DEF Inject, devices
  <2>2. (\E x : Feed(Channels, x)) \/ Quiet
    BY <1>4 DEF Inject
  <2>3. AreChannels(ch')
    BY <1>0, <2>2, ReceiveIs DEF Feed, Quiet, sccVars, AreChannels, IsChannel
  <2> QED BY <1>0, <2>1, <2>3 DEF IInv, Sampled, StaleOnlyWithinSlice
<1>5. ASSUME NEW cycles, NEW raised, NEW calibrating, TickDevices(cycles, raised, calibrating) PROVE IInv'
  <2>1. S!Tick(cycles) /\ phase' = "keys" /\ level' = level
    BY <1>5 DEF TickDevices
  <2> QED BY <1>0, <2>1, TickFollows DEF IInv, Sampled, StaleOnlyWithinSlice
<1>6. ASSUME NEW n, Key(n) PROVE IInv'
  <2>1. phase = "keys" /\ phase' = "irq" /\ level' = level
    BY <1>6 DEF Key
  <2>2. Reasoned
    BY <2>1 DEF IInv, Sampled, Reasoned
  <2> QED BY <1>0, <1>6, <2>1, <2>2, KeyRaises DEF Raises, IInv, Sampled, StaleOnlyWithinSlice
<1>7. CASE NoKey
  <2>1. phase = "keys" /\ phase' = "irq" /\ level' = level /\ UNCHANGED sccVars
    BY <1>7 DEF NoKey, Quiet
  <2>2. ch' = ch /\ (irq_state' => S!Asserted')
    BY <2>1 DEF sccVars, IInv, Sampled, S!Asserted
  <2> QED BY <1>0, <2>1, <2>2 DEF IInv, Sampled, StaleOnlyWithinSlice
<1>8. ASSUME NEW c \in Channels, ReadData(c) PROVE IInv'
  BY <1>0, <1>8, ReadDataIs, GuestStep DEF ReadData
<1>9. ASSUME NEW c \in Channels, WriteControl(c) PROVE IInv'
  <2>1. AreChannels(ch')
    BY <1>0, <1>9, WriteWr0Is, WriteRegisterIs DEF WriteControl
  <2> QED BY <1>9, <2>1, GuestStep DEF WriteControl
<1>10. ASSUME NEW v, SetVia(v) \/ SetLow(v) PROVE IInv'
  <2>1. ch' = ch /\ Access
    BY <1>10 DEF SetVia, SetLow, sccVars
  <2> QED BY <1>0, <2>1, GuestStep
<1>11. CASE UNCHANGED vars
  <2>1. UNCHANGED <<phase, level, ch, mie, irq_state, low, via1, dropped>>
    BY <1>11 DEF vars, devices, sccVars, history
  <2>2. Line(level)' = Line(level)
    BY <2>1 DEF Line
  <2>3. S!Asserted => S!Asserted'
    BY <2>1 DEF S!Asserted
  <2> QED BY <1>0, <2>1, <2>2, <2>3 DEF IInv, Sampled, StaleOnlyWithinSlice
<1> QED BY <1>1, <1>2, <1>3, <1>4, <1>5, <1>6, <1>7, <1>8, <1>9, <1>10, <1>11
        DEF Next, Pass, Guest

\* The level sampled before a slice (agfa9000.c, the m68k_set_irq of a pass) is
\* out of date within the slice only for lines that fell in that slice,
\* whatever is typed between the sample and the slice.
THEOREM Fresh == Spec => []StaleOnlyWithinSlice
<1>1. IInv => StaleOnlyWithinSlice
  BY DEF IInv
<1> QED BY <1>1, InitHolds, StepHolds, PTL DEF Spec
-----------------------------------------------------------------------------
(* Where the characters go.                                                *)

Letters == {"script", "typed", "key"} \X Nat

\* A channel has a queue of characters.
Queued(k) == "rx" \in DOMAIN k /\ k.rx \in Seq(Letters)

\* Numbers are given in order: none has arrived before its time.
NoneEarly ==
  \A c \in Channels : \A k \in DOMAIN arrived[c] :
    /\ arrived[c][k][1] = "script" => arrived[c][k][2] <= script
    /\ arrived[c][k][1] = "typed" => arrived[c][k][2] <= typed

RouteType ==
  /\ DOMAIN ch = Channels /\ \A c \in Channels : Queued(ch[c])
  /\ arrived \in [Channels -> Seq(Letters)]
  /\ {script, typed, keys, split} \subseteq Nat
  /\ split <= typed
  /\ console \in Channels \cup {NoConsole}

RouteInv == RouteType /\ NoneEarly /\ ScriptIntact /\ TypedRouted

-----------------------------------------------------------------------------
(* Only a character received or read moves the queue of a channel.         *)

SameQueue(k, j) == DOMAIN j = DOMAIN k /\ j.rx = k.rx

LEMMA UpdateRr0Queue == ASSUME NEW k, "rx" \in DOMAIN k PROVE SameQueue(k, S!UpdateRr0(k))
BY DEF S!UpdateRr0, SameQueue

LEMMA TransmitQueue == ASSUME NEW k, "rx" \in DOMAIN k PROVE SameQueue(k, S!Transmit(k))
<1> DEFINE j == [k EXCEPT !.tx_pending = TRUE, !.tx_delay = 1]
<1>1. SameQueue(k, j)
  BY DEF SameQueue
<1> HIDE DEF j
<1>2. SameQueue(j, S!UpdateRr0(j))
  BY <1>1, UpdateRr0Queue DEF SameQueue
<1> QED BY <1>1, <1>2 DEF SameQueue, S!Transmit, j

LEMMA ResetsQueue ==
  ASSUME NEW k, "rx" \in DOMAIN k
  PROVE  /\ SameQueue(k, S!ResetExtStatus(k))
         /\ SameQueue(k, S!ResetTxInt(k))
         /\ SameQueue(k, S!ResetHighestIus(k))
<1>1. SameQueue(k, S!ResetExtStatus(k))
  BY DEF S!ResetExtStatus, S!UpdateRr0, SameQueue
<1>2. SameQueue(k, S!ResetTxInt(k))
  BY DEF S!ResetTxInt, SameQueue
<1>3. SameQueue(k, S!ResetHighestIus(k))
  BY DEF S!ResetHighestIus, SameQueue
<1> QED BY <1>1, <1>2, <1>3

LEMMA TickChannelQueue ==
  ASSUME NEW k, NEW p, "rx" \in DOMAIN k PROVE SameQueue(k, S!TickChannel(k, p))
<1>1. SameQueue(k, S!FinishTx(k, p))
  BY DEF S!FinishTx, SameQueue
<1>2. ASSUME NEW j, "rx" \in DOMAIN j PROVE SameQueue(j, S!CountDown(j, p))
  BY <1>2 DEF S!CountDown, SameQueue
<1>3. PICK j : j = S!FinishTx(k, p)
  OBVIOUS
<1>4. PICK i : i = S!UpdateRr0(j)
  OBVIOUS
<1>5. SameQueue(k, j) /\ SameQueue(j, i) /\ SameQueue(i, S!CountDown(i, p))
  BY <1>1, <1>2, <1>3, <1>4, UpdateRr0Queue DEF SameQueue
<1> QED BY <1>3, <1>4, <1>5 DEF SameQueue, S!TickChannel

LEMMA WrittenQueue ==
  ASSUME NEW k, NEW r, NEW v, "rx" \in DOMAIN k PROVE SameQueue(k, S!Written(k, r, v))
<1>1. SameQueue(k, S!ControlBrg(k, v))
  BY DEF S!ControlBrg, SameQueue
<1>2. /\ SameQueue(k, [k EXCEPT !.rx_int = S!Bit(v, 3) \/ S!Bit(v, 4), !.tx_int = S!Bit(v, 1)])
      /\ SameQueue(k, [k EXCEPT !.tc_low = v]) /\ SameQueue(k, [k EXCEPT !.tc_high = v])
      /\ SameQueue(k, [k EXCEPT !.brg_zero_count_ie = S!Bit(v, 1)])
      /\ SameQueue(k, k)
  BY DEF SameQueue
<1> QED BY <1>1, <1>2, TransmitQueue DEF S!Written

LEMMA TailIn == ASSUME NEW T, NEW s \in Seq(T), s # <<>> PROVE Tail(s) \in Seq(T)
BY HeadTailProperties, Zenon

LEMMA AppendIn ==
  ASSUME NEW T, NEW s \in Seq(T), NEW x \in T
  PROVE  /\ Append(s, x) \in Seq(T)
         /\ DOMAIN Append(s, x) = 1 .. Len(s) + 1 /\ DOMAIN s = 1 .. Len(s) /\ Len(s) \in Nat
         /\ \A k \in 1 .. Len(s) : Append(s, x)[k] = s[k]
         /\ Append(s, x)[Len(s) + 1] = x
OBVIOUS

LEMMA ReceiveQueue ==
  ASSUME NEW k, NEW x \in Letters, Queued(k) PROVE Queued(S!Receive(k, x))
<1>1. "rx" \in DOMAIN S!Receive(k, x) /\ S!Receive(k, x).rx = Append(k.rx, x)
  BY DEF Queued, S!Receive, S!UpdateRr0
<1>2. Append(k.rx, x) \in Seq(Letters)
  BY AppendIn, Zenon DEF Queued
<1> QED BY <1>1, <1>2, Zenon DEF Queued

LEMMA TakeCharQueue ==
  ASSUME NEW k, Queued(k), k.rx # <<>> PROVE Queued(S!TakeChar(k))
<1>1. "rx" \in DOMAIN S!TakeChar(k) /\ S!TakeChar(k).rx = Tail(k.rx)
  BY DEF Queued, S!TakeChar, S!UpdateRr0
<1>2. Tail(k.rx) \in Seq(Letters)
  BY TailIn, Zenon DEF Queued
<1> QED BY <1>1, <1>2, Zenon DEF Queued
-----------------------------------------------------------------------------
(* What arrives comes after what had arrived.                              *)

Longer(s, t) ==
  \E m, n \in Nat : /\ DOMAIN s = 1 .. m /\ DOMAIN t = 1 .. n /\ m <= n
                    /\ \A k \in 1 .. m : t[k] = s[k]
New(c) == DOMAIN arrived'[c] \ DOMAIN arrived[c]

\* What every step that receives something does: it is put behind the rest.
Arrives ==
  /\ arrived' \in [Channels -> Seq(Letters)]
  /\ \A c \in Channels : Longer(arrived[c], arrived'[c])

LEMMA SameLonger == ASSUME NEW T, NEW s \in Seq(T) PROVE Longer(s, s)
<1>1. DOMAIN s = 1 .. Len(s) /\ Len(s) \in Nat
  OBVIOUS
<1>2. \A m \in Nat : m <= m
  OBVIOUS
<1> QED BY <1>1, <1>2, Zenon DEF Longer

LEMMA AppendLonger ==
  ASSUME NEW T, NEW s \in Seq(T), NEW x \in T
  PROVE  /\ Longer(s, Append(s, x))
         /\ \E p : DOMAIN Append(s, x) \ DOMAIN s = {p} /\ Append(s, x)[p] = x
<1> DEFINE t == Append(s, x)
           n == Len(s)
<1>1. DOMAIN t = 1 .. n + 1 /\ DOMAIN s = 1 .. n /\ n \in Nat /\ t[n + 1] = x
      /\ \A k \in 1 .. n : t[k] = s[k]
  BY AppendIn
<1> HIDE DEF t, n
<1>2. Longer(s, t)
  <2>1. n + 1 \in Nat /\ n <= n + 1
    BY <1>1
  <2> QED BY <1>1, <2>1, Zenon DEF Longer
<1>3. DOMAIN t \ DOMAIN s = {n + 1}
  BY <1>1
<1> QED BY <1>1, <1>2, <1>3 DEF t

LEMMA FeedArrives ==
  ASSUME RouteType, NEW cs, NEW x \in Letters, Feed(cs, x)
  PROVE  /\ Arrives
         /\ \A c \in Channels : c \in cs /\ Room(c) => \E p : New(c) = {p} /\ arrived'[c][p] = x
         /\ \A c \in Channels : ~(c \in cs /\ Room(c)) => New(c) = {}
         /\ DOMAIN ch' = Channels /\ \A c \in Channels : Queued(ch'[c])
         /\ UNCHANGED <<console, split>>
<1> DEFINE takers == {c \in cs : Room(c)}
<1>1. /\ ch' = [c \in Channels |-> IF c \in takers THEN S!Receive(ch[c], x) ELSE ch[c]]
      /\ arrived' = [c \in Channels |-> IF c \in takers THEN Append(arrived[c], x) ELSE arrived[c]]
      /\ UNCHANGED <<console, split>>
  BY DEF Feed
<1>2. \A c : c \in takers <=> c \in cs /\ Room(c)
  OBVIOUS
<1> HIDE DEF takers
<1>3. \A c \in Channels : Queued(ch'[c])
  <2> SUFFICES ASSUME NEW c \in Channels PROVE Queued(ch'[c])
    OBVIOUS
  <2>1. Queued(ch[c])
    BY DEF RouteType
  <2>2. Queued(S!Receive(ch[c], x))
    BY <2>1, ReceiveQueue, Zenon
  <2>3. ch'[c] = S!Receive(ch[c], x) \/ ch'[c] = ch[c]
    BY <1>1
  <2> QED BY <2>1, <2>2, <2>3, Zenon
<1>4. \A c \in Channels :
        /\ arrived'[c] \in Seq(Letters)
        /\ Longer(arrived[c], arrived'[c])
        /\ c \in takers => \E p : New(c) = {p} /\ arrived'[c][p] = x
        /\ c \notin takers => New(c) = {}
  <2> SUFFICES ASSUME NEW c \in Channels
               PROVE  /\ arrived'[c] \in Seq(Letters)
                      /\ Longer(arrived[c], arrived'[c])
                      /\ c \in takers => \E p : New(c) = {p} /\ arrived'[c][p] = x
                      /\ c \notin takers => New(c) = {}
    OBVIOUS
  <2>1. arrived[c] \in Seq(Letters)
    BY Zenon DEF RouteType
  <2>2. CASE c \in takers
    <3>1. arrived'[c] = Append(arrived[c], x)
      BY <1>1, <2>2, Zenon
    <3>2. Append(arrived[c], x) \in Seq(Letters)
      BY <2>1, AppendIn, Zenon
    <3>3. /\ Longer(arrived[c], Append(arrived[c], x))
          /\ \E p : /\ DOMAIN Append(arrived[c], x) \ DOMAIN arrived[c] = {p}
                   /\ Append(arrived[c], x)[p] = x
      BY <2>1, AppendLonger
    <3> QED BY <2>2, <3>1, <3>2, <3>3, Zenon DEF New
  <2>3. CASE c \notin takers
    <3>1. arrived'[c] = arrived[c]
      BY <1>1, <2>3, Zenon
    <3>2. Longer(arrived[c], arrived[c])
      BY <2>1, SameLonger, Zenon
    <3>3. New(c) = {}
      BY <3>1 DEF New
    <3> QED BY <2>1, <2>3, <3>1, <3>2, <3>3, Zenon
  <2> QED BY <2>2, <2>3, Zenon
<1>5. arrived' \in [Channels -> Seq(Letters)]
  <2>1. arrived' = [c \in Channels |-> arrived'[c]]
    BY <1>1, Zenon
  <2> QED BY <1>4, <2>1, Zenon
<1>6. DOMAIN ch' = Channels
  BY <1>1, Zenon
<1> QED BY <1>1, <1>2, <1>3, <1>4, <1>5, <1>6, Zenon DEF Arrives

\* The script, when something else arrives.
LEMMA ScriptStays ==
  ASSUME RouteInv, Arrives, script' = script,
         \A k \in New("B") : arrived'["B"][k][1] # "script"
  PROVE  ScriptIntact'
<1> DEFINE a == arrived["B"]
<1>1. PICK b : b = arrived'["B"]
  OBVIOUS
<1>2. Longer(a, b) /\ \A k \in DOMAIN b \ DOMAIN a : b[k][1] # "script"
  BY <1>1 DEF Arrives, Channels, New
<1>3. \A k : k \in DOMAIN b /\ b[k][1] = "script" <=> k \in DOMAIN a /\ a[k][1] = "script"
  BY <1>2 DEF Longer
<1>4. \A k \in DOMAIN a : b[k] = a[k]
  BY <1>2 DEF Longer
<1>5. Places("script", "B")' = Places("script", "B")
  BY <1>1, <1>3 DEF Places
<1>6. \A k \in Places("script", "B") : arrived'["B"][k] = arrived["B"][k]
  BY <1>1, <1>4 DEF Places
<1> QED BY <1>5, <1>6 DEF ScriptIntact, RouteInv

\* The script, when its next byte arrives.
LEMMA ScriptGoesOn ==
  ASSUME RouteInv, Arrives, script' = script + 1, NEW p, New("B") = {p},
         arrived'["B"][p] = <<"script", script + 1>>
  PROVE  ScriptIntact'
<1> DEFINE a == arrived["B"]
           P == Places("script", "B")
<1>1. PICK b : b = arrived'["B"]
  OBVIOUS
<1>2. Longer(a, b) /\ DOMAIN b \ DOMAIN a = {p} /\ b[p] = <<"script", script + 1>>
  BY <1>1 DEF Arrives, Channels, New
<1>3. p \in Int /\ \A k \in DOMAIN a : k \in Int /\ k < p /\ b[k] = a[k]
  BY <1>2 DEF Longer
<1>4. Places("script", "B")' = P \cup {p}
  <2>1. \A k : k \in DOMAIN b <=> k = p \/ k \in DOMAIN a
    BY <1>2 DEF Longer
  <2>2. \A k \in DOMAIN a : b[k] = a[k]
    BY <1>3
  <2>3. {k \in DOMAIN b : b[k][1] = "script"} = {k \in DOMAIN a : a[k][1] = "script"} \cup {p}
    BY <1>2, <2>1, <2>2
  <2>4. Places("script", "B")' = {k \in DOMAIN b : b[k][1] = "script"}
    BY <1>1 DEF Places
  <2> QED BY <2>3, <2>4 DEF Places
<1>5. \A k \in P : k \in Int /\ k < p /\ arrived'["B"][k] = arrived["B"][k]
  BY <1>1, <1>3 DEF Places
<1>6. \A k \in P : arrived["B"][k][2] <= script /\ arrived["B"][k][2] \in 1 .. script
  BY DEF ScriptIntact, Places, RouteInv, NoneEarly, Channels
<1>7. script \in Nat
  BY DEF RouteInv, RouteType
<1>8. {arrived["B"][k][2] : k \in P} = 1 .. script
  BY DEF ScriptIntact, RouteInv
<1>9. {arrived'["B"][k][2] : k \in P \cup {p}} = 1 .. script + 1
  <2>1. {arrived'["B"][k][2] : k \in P} = 1 .. script
    BY <1>5, <1>8
  <2>2. {arrived'["B"][k][2] : k \in P \cup {p}} = (1 .. script) \cup {script + 1}
    BY <2>1
  <2> QED BY <1>7, <2>2
<1>10. ASSUME NEW j \in P \cup {p}, NEW k \in P \cup {p}, j < k
       PROVE  arrived'["B"][j][2] < arrived'["B"][k][2]
  <2>1. j \in P
    BY <1>3, <1>5, <1>10
  <2>2. CASE k = p
    BY <1>5, <1>6, <1>7, <2>1, <2>2
  <2>3. CASE k \in P
    BY <1>5, <1>10, <2>1, <2>3 DEF ScriptIntact, RouteInv
  <2> QED BY <2>2, <2>3
<1> QED BY <1>4, <1>9, <1>10 DEF ScriptIntact

\* A typed character has reached who it had reached, unless it arrives now.
LEMMA ReachedStays ==
  ASSUME Arrives, NEW x, \A c \in Channels : \A k \in New(c) : arrived'[c][k] # x
  PROVE  Reached(x)' = Reached(x)
<1> SUFFICES ASSUME NEW c \in Channels
             PROVE  (\E k \in DOMAIN arrived'[c] : arrived'[c][k] = x)
                      <=> (\E k \in DOMAIN arrived[c] : arrived[c][k] = x)
  BY DEF Reached
<1>1. PICK a, b : a = arrived[c] /\ b = arrived'[c]
  OBVIOUS
<1>2. Longer(a, b)
  BY <1>1 DEF Arrives
<1>3. \A k \in DOMAIN a : k \in DOMAIN b /\ b[k] = a[k]
  BY <1>2 DEF Longer
<1>4. \A k \in DOMAIN b \ DOMAIN a : b[k] # x
  BY <1>1 DEF New
<1> QED BY <1>1, <1>3, <1>4

LEMMA RoutedStays ==
  ASSUME RouteInv, Arrives, UNCHANGED <<typed, console, split>>,
         \A c \in Channels : \A k \in New(c) : arrived'[c][k][1] # "typed"
  PROVE  TypedRouted'
<1> SUFFICES ASSUME NEW i \in 1 .. typed
             PROVE  IF console = NoConsole \/ i <= split
                    THEN Reached(<<"typed", i>>)' # {}
                    ELSE Reached(<<"typed", i>>)' = {console}
  BY DEF TypedRouted
<1>1. Reached(<<"typed", i>>)' = Reached(<<"typed", i>>)
  <2>1. \A c \in Channels : \A k \in New(c) : arrived'[c][k] # <<"typed", i>>
    OBVIOUS
  <2> QED BY <2>1, ReachedStays
<1> QED BY <1>1 DEF RouteInv, TypedRouted

\* The next typed character is fed to the channels that listen.
LEMMA RoutedGoesOn ==
  ASSUME RouteInv, Listening # {}, typed' = typed + 1, Feed(Listening, <<"typed", typed + 1>>)
  PROVE  TypedRouted'
<1>0. PICK x : x = <<"typed", typed + 1>>
  OBVIOUS
<1>1. typed \in Nat /\ split <= typed /\ split \in Nat /\ console \in Channels \cup {NoConsole}
  BY DEF RouteInv, RouteType
<1>2. x \in Letters
  BY <1>0, <1>1 DEF Letters
<1>3. \A c : c \in Listening => c \in Channels /\ Room(c)
  BY <1>1 DEF Listening, NoConsole
<1>4. /\ Arrives
      /\ \A c \in Channels : c \in Listening => \E p : New(c) = {p} /\ arrived'[c][p] = x
      /\ \A c \in Channels : c \notin Listening => New(c) = {}
      /\ UNCHANGED <<console, split>>
  <2>1. RouteType /\ Feed(Listening, x)
    BY <1>0 DEF RouteInv
  <2>2. /\ Arrives
        /\ \A c \in Channels : c \in Listening /\ Room(c) => \E p : New(c) = {p} /\ arrived'[c][p] = x
        /\ \A c \in Channels : ~(c \in Listening /\ Room(c)) => New(c) = {}
        /\ UNCHANGED <<console, split>>
    BY <1>2, <2>1, FeedArrives, Zenon
  <2> QED BY <1>3, <2>2, Zenon
<1>5. Reached(x)' = Listening
  <2> SUFFICES ASSUME NEW c \in Channels
               PROVE  (\E k \in DOMAIN arrived'[c] : arrived'[c][k] = x) <=> c \in Listening
    <3>1. Reached(x)' = {c \in Channels : \E k \in DOMAIN arrived'[c] : arrived'[c][k] = x}
      BY DEF Reached
    <3> QED BY <1>3, <3>1
  <2>1. CASE c \in Listening
    BY <1>4, <2>1 DEF New
  <2>2. CASE c \notin Listening
    <3> SUFFICES ASSUME NEW k \in DOMAIN arrived'[c], arrived'[c][k] = x PROVE FALSE
      BY <2>2
    <3>1. k \in DOMAIN arrived[c]
      BY <1>4, <2>2 DEF New
    <3>2. PICK a, b : a = arrived[c] /\ b = arrived'[c]
      OBVIOUS
    <3>3. Longer(a, b)
      BY <1>4, <3>2 DEF Arrives
    <3>4. a[k] = b[k]
      BY <3>1, <3>2, <3>3 DEF Longer
    <3>5. arrived[c][k] = x
      BY <3>2, <3>4
    <3>6. arrived[c][k][2] <= typed
      BY <1>0, <3>1, <3>5 DEF RouteInv, NoneEarly
    <3> QED BY <1>0, <1>1, <3>5, <3>6
  <2> QED BY <2>1, <2>2
<1>6. ASSUME NEW i \in 1 .. typed PROVE Reached(<<"typed", i>>)' = Reached(<<"typed", i>>)
  <2>1. <<"typed", i>> # x
    BY <1>0, <1>1
  <2>2. \A c \in Channels : \A k \in New(c) : arrived'[c][k] = x
    BY <1>4
  <2> QED BY <1>4, <2>1, <2>2, ReachedStays
<1> SUFFICES ASSUME NEW i \in 1 .. typed + 1
             PROVE  IF console = NoConsole \/ i <= split
                    THEN Reached(<<"typed", i>>)' # {}
                    ELSE Reached(<<"typed", i>>)' = {console}
  BY <1>4 DEF TypedRouted
<1>7. CASE i \in 1 .. typed
  BY <1>6, <1>7 DEF RouteInv, TypedRouted
<1>8. CASE i = typed + 1
  <2>1. console = NoConsole \/ Listening = {console}
    BY DEF Listening
  <2>2. ~(i <= split)
    BY <1>1, <1>8
  <2>3. <<"typed", i>> = x
    BY <1>0, <1>8
  <2>4. Reached(<<"typed", i>>)' = Listening
    BY <1>5, <2>3
  <2> QED BY <2>1, <2>2, <2>4
<1> QED BY <1>1, <1>7, <1>8

\* When the console is found, everything typed so far may have gone to both.
LEMMA RoutedConsole ==
  ASSUME RouteInv, UNCHANGED <<arrived, typed>>,
         split' = IF console' # console THEN typed ELSE split
  PROVE  TypedRouted'
<1> SUFFICES ASSUME NEW i \in 1 .. typed
             PROVE  IF console' = NoConsole \/ i <= split'
                    THEN Reached(<<"typed", i>>)' # {}
                    ELSE Reached(<<"typed", i>>)' = {console'}
  BY DEF TypedRouted
<1>1. Reached(<<"typed", i>>)' = Reached(<<"typed", i>>)
  BY DEF Reached
<1>2. Reached(<<"typed", i>>) # {}
  BY DEF RouteInv, TypedRouted
<1>3. CASE console' = console
  BY <1>1, <1>3 DEF RouteInv, TypedRouted
<1>4. CASE console' # console
  <2>1. i <= split'
    BY <1>4 DEF RouteInv, RouteType
  <2> QED BY <1>1, <1>2, <2>1
<1> QED BY <1>3, <1>4

LEMMA NoneEarlyStays ==
  ASSUME RouteInv, Arrives, script' \in Nat, typed' \in Nat, script <= script', typed <= typed',
         \A c \in Channels : \A k \in New(c) :
           /\ arrived'[c][k][1] = "script" => arrived'[c][k][2] <= script'
           /\ arrived'[c][k][1] = "typed" => arrived'[c][k][2] <= typed'
  PROVE  NoneEarly'
<1> SUFFICES ASSUME NEW c \in Channels, NEW k \in DOMAIN arrived'[c]
             PROVE  /\ arrived'[c][k][1] = "script" => arrived'[c][k][2] <= script'
                    /\ arrived'[c][k][1] = "typed" => arrived'[c][k][2] <= typed'
  BY DEF NoneEarly
<1>1. CASE k \in New(c)
  BY <1>1
<1>2. CASE k \in DOMAIN arrived[c]
  <2>1. PICK a, b : a = arrived[c] /\ b = arrived'[c]
    OBVIOUS
  <2>2. Longer(a, b)
    BY <2>1 DEF Arrives
  <2>3. arrived'[c][k] = arrived[c][k]
    BY <1>2, <2>1, <2>2 DEF Longer
  <2>4. PICK x : x = arrived[c][k]
    OBVIOUS
  <2>5. x \in Letters
    <3>1. \A T : \A s \in Seq(T) : \A j \in DOMAIN s : s[j] \in T
      OBVIOUS
    <3>2. arrived[c] \in Seq(Letters)
      BY Zenon DEF RouteInv, RouteType
    <3> QED BY <1>2, <2>4, <3>1, <3>2, Zenon
  <2>6. x[2] \in Nat
    BY <2>5 DEF Letters
  <2>7. (x[1] = "script" => x[2] <= script) /\ (x[1] = "typed" => x[2] <= typed)
    BY <1>2, <2>4 DEF RouteInv, NoneEarly
  <2>8. script \in Nat /\ typed \in Nat
    BY DEF RouteInv, RouteType
  <2> QED BY <2>3, <2>4, <2>6, <2>7, <2>8
<1> QED BY <1>1, <1>2 DEF New
-----------------------------------------------------------------------------
(* The steps.                                                              *)

\* Nothing arrives.
LEMMA NothingArrives == ASSUME RouteType, arrived' = arrived PROVE Arrives /\ \A c : New(c) = {}
<1>1. \A c \in Channels : arrived[c] \in Seq(Letters)
  BY Zenon DEF RouteType
<1>2. \A c \in Channels : Longer(arrived[c], arrived[c])
  BY <1>1, SameLonger, Zenon
<1>3. arrived' \in [Channels -> Seq(Letters)]
  BY Zenon DEF RouteType
<1> QED BY <1>2, <1>3 DEF Arrives, New

\* A step that moves no character.
LEMMA Elsewhere ==
  ASSUME RouteInv, DOMAIN ch' = Channels, \A c \in Channels : SameQueue(ch[c], ch'[c]),
         UNCHANGED <<arrived, script, typed, keys, split, console>>
  PROVE  RouteInv'
<1>1. \A c \in Channels : Queued(ch'[c])
  BY DEF RouteInv, RouteType, Queued, SameQueue
<1>2. RouteType'
  BY <1>1, Zenon DEF RouteInv, RouteType
<1>3. NoneEarly' /\ ScriptIntact' /\ TypedRouted'
  BY DEF RouteInv, NoneEarly, ScriptIntact, Places, TypedRouted, Reached
<1> QED BY <1>2, <1>3 DEF RouteInv

\* A step that computes something else from the same channels.
LEMMA ChannelsStay ==
  ASSUME RouteInv, ch' = ch, UNCHANGED <<arrived, script, typed, keys, split, console>>
  PROVE  RouteInv'
<1>1. DOMAIN ch' = Channels /\ \A c \in Channels : SameQueue(ch[c], ch'[c])
  BY DEF RouteInv, RouteType, SameQueue
<1> QED BY <1>1, Elsewhere

LEMMA CheckHostInputRoutes == ASSUME RouteInv, CheckHostInput PROVE RouteInv'
<1>1. CASE /\ Listening # {} /\ typed' = typed + 1 /\ Feed(Listening, <<"typed", typed'>>)
           /\ UNCHANGED <<script, keys>>
  <2>1. typed \in Nat /\ script \in Nat
    BY DEF RouteInv, RouteType
  <2>2. PICK x : x = <<"typed", typed + 1>>
    OBVIOUS
  <2>3. x \in Letters /\ Feed(Listening, x) /\ RouteType
    BY <1>1, <2>1, <2>2 DEF Letters, RouteInv
  <2>4. /\ Arrives
        /\ \A c \in Channels : c \in Listening /\ Room(c) => \E p : New(c) = {p} /\ arrived'[c][p] = x
        /\ \A c \in Channels : ~(c \in Listening /\ Room(c)) => New(c) = {}
        /\ DOMAIN ch' = Channels /\ \A c \in Channels : Queued(ch'[c])
        /\ UNCHANGED <<console, split>>
    BY <2>3, FeedArrives, Zenon
  <2>5. \A c \in Channels : \A k \in New(c) : arrived'[c][k] = x
    BY <2>4
  <2>6. RouteType'
    <3>1. {script, typed, keys, split}' \subseteq Nat /\ split' <= typed'
      BY <1>1, <2>1, <2>4 DEF RouteInv, RouteType
    <3>2. arrived' \in [Channels -> Seq(Letters)] /\ console' \in Channels \cup {NoConsole}
      BY <2>4, Zenon DEF Arrives, RouteInv, RouteType
    <3> QED BY <2>4, <3>1, <3>2, Zenon DEF RouteType
  <2>7. NoneEarly'
    BY <1>1, <2>1, <2>2, <2>4, <2>5, NoneEarlyStays
  <2>8. ScriptIntact'
    <3>1. \A k \in New("B") : arrived'["B"][k][1] # "script"
      BY <2>2, <2>5 DEF Channels
    <3> QED BY <1>1, <2>4, <3>1, ScriptStays
  <2>9. TypedRouted'
    BY <1>1, <2>2, <2>3, RoutedGoesOn
  <2> QED BY <2>6, <2>7, <2>8, <2>9 DEF RouteInv
<1>2. CASE UNCHANGED <<typed, script, keys>> /\ Quiet
  BY <1>2, ChannelsStay DEF Quiet, sccVars, history
<1> QED BY <1>1, <1>2 DEF CheckHostInput

LEMMA InjectRoutes == ASSUME RouteInv, Inject PROVE RouteInv'
<1>1. CASE /\ Due /\ script' = script + 1 /\ Feed(Channels, <<"script", script'>>)
           /\ UNCHANGED <<typed, keys>>
  <2>1. typed \in Nat /\ script \in Nat
    BY DEF RouteInv, RouteType
  <2>2. PICK x : x = <<"script", script + 1>>
    OBVIOUS
  <2>3. x \in Letters /\ Feed(Channels, x) /\ RouteType
    BY <1>1, <2>1, <2>2 DEF Letters, RouteInv
  <2>4. /\ Arrives
        /\ \A c \in Channels : c \in Channels /\ Room(c) => \E p : New(c) = {p} /\ arrived'[c][p] = x
        /\ \A c \in Channels : ~(c \in Channels /\ Room(c)) => New(c) = {}
        /\ DOMAIN ch' = Channels /\ \A c \in Channels : Queued(ch'[c])
        /\ UNCHANGED <<console, split>>
    BY <2>3, FeedArrives, Zenon
  <2>5. \A c \in Channels : \A k \in New(c) : arrived'[c][k] = x
    BY <2>4
  <2>6. RouteType'
    <3>1. {script, typed, keys, split}' \subseteq Nat /\ split' <= typed'
      BY <1>1, <2>1, <2>4 DEF RouteInv, RouteType
    <3>2. arrived' \in [Channels -> Seq(Letters)] /\ console' \in Channels \cup {NoConsole}
      BY <2>4, Zenon DEF Arrives, RouteInv, RouteType
    <3> QED BY <2>4, <3>1, <3>2, Zenon DEF RouteType
  <2>7. NoneEarly'
    BY <1>1, <2>1, <2>2, <2>4, <2>5, NoneEarlyStays
  <2>8. ScriptIntact'
    <3>1. "B" \in Channels /\ ch["B"].rx = <<>>
      BY <1>1 DEF Due, Channels
    <3>2. Room("B")
      BY <3>1, LoopAssumption DEF Room
    <3>3. \E p : New("B") = {p} /\ arrived'["B"][p] = <<"script", script + 1>>
      BY <2>2, <2>4, <3>1, <3>2
    <3> QED BY <1>1, <2>4, <3>3, ScriptGoesOn
  <2>9. TypedRouted'
    <3>1. \A c \in Channels : \A k \in New(c) : arrived'[c][k][1] # "typed"
      BY <2>2, <2>5
    <3> QED BY <1>1, <2>4, <3>1, RoutedStays
  <2> QED BY <2>6, <2>7, <2>8, <2>9 DEF RouteInv
<1>2. CASE UNCHANGED <<typed, script, keys>> /\ Quiet
  BY <1>2, ChannelsStay DEF Quiet, sccVars, history
<1> QED BY <1>1, <1>2 DEF Inject

LEMMA ConcatLonger ==
  ASSUME NEW T, NEW s \in Seq(T), NEW t \in Seq(T)
  PROVE  /\ s \o t \in Seq(T) /\ Longer(s, s \o t)
         /\ \A k \in DOMAIN (s \o t) \ DOMAIN s : \E j \in DOMAIN t : (s \o t)[k] = t[j]
<1> DEFINE u == s \o t
           m == Len(s)
           n == Len(t)
<1>1. /\ u \in Seq(T) /\ m \in Nat /\ n \in Nat
      /\ DOMAIN s = 1 .. m /\ DOMAIN t = 1 .. n /\ DOMAIN u = 1 .. m + n
      /\ \A k \in 1 .. m : u[k] = s[k]
      /\ \A k \in m + 1 .. m + n : u[k] = t[k - m]
  OBVIOUS
<1> HIDE DEF u, m, n
<1>2. Longer(s, u)
  <2>1. m + n \in Nat /\ m <= m + n
    BY <1>1
  <2> QED BY <1>1, <2>1, Zenon DEF Longer
<1>3. \A k \in DOMAIN u \ DOMAIN s : \E j \in DOMAIN t : u[k] = t[j]
  <2> SUFFICES ASSUME NEW k \in DOMAIN u \ DOMAIN s PROVE \E j \in DOMAIN t : u[k] = t[j]
    OBVIOUS
  <2>1. k \in m + 1 .. m + n /\ k - m \in 1 .. n
    BY <1>1
  <2> QED BY <1>1, <2>1
<1> QED BY <1>1, <1>2, <1>3, Zenon DEF u

LEMMA KeyRoutes == ASSUME RouteInv, NEW n \in Presses, Key(n) PROVE RouteInv'
<1> DEFINE c    == IF console # NoConsole THEN console ELSE "A"
           m    == IF n < FifoSize - Len(ch[c].rx) THEN n ELSE FifoSize - Len(ch[c].rx)
           fits == [i \in 1 .. m |-> <<"key", keys + i>>]
           b    == ch[c].rx_int /\ fits # <<>>
<1>1. /\ ch' = [ch EXCEPT ![c] = [ch[c] EXCEPT !.rx = ch[c].rx \o fits,
                                              !.rx_int_pending = ch[c].rx_int_pending \/ b]]
      /\ arrived' = [arrived EXCEPT ![c] = arrived[c] \o fits]
      /\ keys' = keys + n
      /\ UNCHANGED <<console, script, typed, split>>
  BY DEF Key
<1>2. c \in Channels /\ n \in Nat /\ keys \in Nat
  BY LoopAssumption DEF RouteInv, RouteType, Channels
<1>3. ch[c].rx \in Seq(Letters) /\ "rx" \in DOMAIN ch[c] /\ arrived[c] \in Seq(Letters)
  BY <1>2, Zenon DEF RouteInv, RouteType, Queued
<1>4. m \in Int
  <2>1. \A T : \A s \in Seq(T) : Len(s) \in Nat
    OBVIOUS
  <2>2. Len(ch[c].rx) \in Nat
    BY <1>3, <2>1, Zenon
  <2>3. FifoSize \in Nat
    BY LoopAssumption
  <2> QED BY <1>2, <2>2, <2>3
<1> HIDE DEF c
<1>5. fits \in Seq(Letters) /\ \A j \in DOMAIN fits : fits[j][1] = "key"
  <2> HIDE DEF m
  <2> DEFINE q == IF m > 0 THEN m ELSE 0
  <2>1. q \in Nat /\ 1 .. m = 1 .. q
    BY <1>4
  <2>2. \A i \in 1 .. q : <<"key", keys + i>> \in Letters
    BY <1>2, <2>1 DEF Letters
  <2>3. \A T, f : \A p \in Nat :
          (DOMAIN f = 1 .. p /\ f = [i \in 1 .. p |-> f[i]] /\ \A i \in 1 .. p : f[i] \in T)
             => f \in Seq(T)
    OBVIOUS
  <2>4. DOMAIN fits = 1 .. q /\ fits = [i \in 1 .. q |-> fits[i]] /\ \A i \in 1 .. q : fits[i] \in Letters
    BY <2>1, <2>2
  <2>5. fits \in Seq(Letters)
    BY <2>1, <2>3, <2>4, Zenon
  <2> QED BY <2>5
<1> HIDE DEF fits, b
<1>6. /\ ch[c].rx \o fits \in Seq(Letters) /\ arrived[c] \o fits \in Seq(Letters)
      /\ Longer(arrived[c], arrived[c] \o fits)
      /\ \A k \in DOMAIN (arrived[c] \o fits) \ DOMAIN arrived[c] :
           \E j \in DOMAIN fits : (arrived[c] \o fits)[k] = fits[j]
  BY <1>3, <1>5, ConcatLonger
<1>7. DOMAIN ch' = Channels /\ \A d \in Channels : Queued(ch'[d])
  <2>1. DOMAIN ch = Channels /\ \A d \in Channels : Queued(ch[d])
    BY Zenon DEF RouteInv, RouteType
  <2>2. \A d \in Channels : d # c => ch'[d] = ch[d]
    BY <1>1, <2>1
  <2>3. "rx" \in DOMAIN ch'[c] /\ ch'[c].rx = ch[c].rx \o fits
    BY <1>1, <1>2, <1>3, <2>1
  <2>4. Queued(ch'[c])
    BY <1>6, <2>3, Zenon DEF Queued
  <2>5. DOMAIN ch' = Channels
    BY <1>1, <2>1
  <2> QED BY <2>1, <2>2, <2>4, <2>5, Zenon
<1>8. arrived' \in [Channels -> Seq(Letters)]
  <2>1. arrived \in [Channels -> Seq(Letters)]
    BY DEF RouteInv, RouteType
  <2>2. \A D, T, f, v : f \in [D -> T] /\ v \in T => [f EXCEPT ![c] = v] \in [D -> T]
    OBVIOUS
  <2> QED BY <1>1, <1>6, <2>1, <2>2, Zenon
<1>9. \A d \in Channels : Longer(arrived[d], arrived'[d]) /\ \A k \in New(d) : arrived'[d][k][1] = "key"
  <2> SUFFICES ASSUME NEW d \in Channels
               PROVE  Longer(arrived[d], arrived'[d]) /\ \A k \in New(d) : arrived'[d][k][1] = "key"
    OBVIOUS
  <2>1. DOMAIN arrived = Channels /\ arrived[d] \in Seq(Letters)
    BY Zenon DEF RouteInv, RouteType
  <2>2. CASE d = c
    <3>1. arrived'[d] = arrived[c] \o fits
      BY <1>1, <1>2, <2>1, <2>2
    <3>2. PICK a, t : a = arrived[c] /\ t = arrived[c] \o fits
      OBVIOUS
    <3>3. Longer(a, t) /\ \A k \in DOMAIN t \ DOMAIN a : t[k][1] = "key"
      BY <1>5, <1>6, <3>2
    <3> QED BY <2>2, <3>1, <3>2, <3>3, Zenon DEF New
  <2>3. CASE d # c
    <3>1. arrived'[d] = arrived[d]
      BY <1>1, <2>1, <2>3
    <3>2. Longer(arrived[d], arrived[d])
      BY <2>1, SameLonger, Zenon
    <3>3. New(d) = {}
      BY <3>1 DEF New
    <3> QED BY <3>1, <3>2, <3>3, Zenon
  <2> QED BY <2>2, <2>3
<1>10. Arrives
  BY <1>8, <1>9, Zenon DEF Arrives
<1>11. RouteType'
  <2>1. {script, typed, keys, split}' \subseteq Nat /\ split' <= typed' /\ console' \in Channels \cup {NoConsole}
    BY <1>1, <1>2 DEF RouteInv, RouteType
  <2> QED BY <1>7, <1>8, <2>1, Zenon DEF RouteType
<1>12. NoneEarly'
  <2>1. script \in Nat /\ typed \in Nat
    BY DEF RouteInv, RouteType
  <2>2. script' \in Nat /\ typed' \in Nat /\ script <= script' /\ typed <= typed'
    BY <1>1, <2>1
  <2>3. \A d \in Channels : \A k \in New(d) :
           /\ arrived'[d][k][1] = "script" => arrived'[d][k][2] <= script'
           /\ arrived'[d][k][1] = "typed" => arrived'[d][k][2] <= typed'
    BY <1>9
  <2> QED BY <1>10, <2>2, <2>3, NoneEarlyStays
<1>13. ScriptIntact'
  <2>1. \A k \in New("B") : arrived'["B"][k][1] # "script"
    BY <1>9 DEF Channels
  <2> QED BY <1>1, <1>10, <2>1, ScriptStays
<1>14. TypedRouted'
  <2>1. \A d \in Channels : \A k \in New(d) : arrived'[d][k][1] # "typed"
    BY <1>9
  <2> QED BY <1>1, <1>10, <2>1, RoutedStays
<1> QED BY <1>11, <1>12, <1>13, <1>14 DEF RouteInv

LEMMA ReadDataRoutes == ASSUME RouteInv, NEW c \in Channels, ReadData(c) PROVE RouteInv'
<1>1. /\ ch' = [ch EXCEPT ![c] = ch[c]] \/ (ch[c].rx # <<>> /\ ch' = [ch EXCEPT ![c] = S!TakeChar(ch[c])])
      /\ console' \in {c, console}
      /\ split' = IF console' # console THEN typed ELSE split
      /\ UNCHANGED <<arrived, script, typed, keys>>
  BY DEF ReadData, S!ReadData, S!ReadFifo, Access, feeds
<1>2. DOMAIN ch = Channels /\ \A d \in Channels : Queued(ch[d])
  BY Zenon DEF RouteInv, RouteType
<1>3. DOMAIN ch' = Channels /\ \A d \in Channels : Queued(ch'[d])
  <2>1. DOMAIN ch' = Channels
    BY <1>1, <1>2
  <2>2. \A d \in Channels : d # c => ch'[d] = ch[d]
    BY <1>1, <1>2
  <2>3. ch'[c] = ch[c] \/ (ch[c].rx # <<>> /\ ch'[c] = S!TakeChar(ch[c]))
    BY <1>1, <1>2
  <2>4. Queued(ch'[c])
    BY <1>2, <2>3, TakeCharQueue, Zenon
  <2> QED BY <1>2, <2>1, <2>2, <2>4, Zenon
<1>4. RouteType'
  <2>1. {script, typed, keys, split}' \subseteq Nat /\ split' <= typed' /\ console' \in Channels \cup {NoConsole}
    BY <1>1 DEF RouteInv, RouteType
  <2>2. arrived' \in [Channels -> Seq(Letters)]
    BY <1>1, Zenon DEF RouteInv, RouteType
  <2> QED BY <1>3, <2>1, <2>2, Zenon DEF RouteType
<1>5. NoneEarly' /\ ScriptIntact'
  BY <1>1 DEF RouteInv, NoneEarly, ScriptIntact, Places
<1>6. TypedRouted'
  BY <1>1, RoutedConsole
<1> QED BY <1>4, <1>5, <1>6 DEF RouteInv

LEMMA WriteControlRoutes == ASSUME RouteInv, NEW c \in Channels, WriteControl(c) PROVE RouteInv'
<1>1. DOMAIN ch = Channels /\ \A d \in Channels : "rx" \in DOMAIN ch[d]
  BY Zenon DEF RouteInv, RouteType, Queued
<1>2. /\ \E v : S!WriteWr0(c, v) \/ S!WriteRegister(c, v)
      /\ UNCHANGED <<arrived, script, typed, keys, split, console>>
  BY DEF WriteControl, Access, feeds, S!WriteWr0, S!WriteRegister
<1>3. \E j : SameQueue(ch[c], j) /\ ch' = [ch EXCEPT ![c] = j]
  <2>1. PICK v : S!WriteWr0(c, v) \/ S!WriteRegister(c, v)
    BY <1>2
  <2>2. CASE S!WriteWr0(c, v)
    <3> DEFINE command == (v \div 8) % 8
               p == (v % 8) + (IF command = 1 THEN 8 ELSE 0)
               k == [ch[c] EXCEPT !.reg_ptr = p]
    <3>1. ch' = [ch EXCEPT ![c] = CASE command = 2 -> S!ResetExtStatus(k)
                                    [] command = 5 -> S!ResetTxInt(k)
                                    [] command = 7 -> S!ResetHighestIus(k)
                                    [] OTHER       -> k]
      BY <2>2 DEF S!WriteWr0
    <3>2. SameQueue(ch[c], k)
      BY <1>1 DEF SameQueue
    <3> HIDE DEF command, k
    <3>3. \A j : SameQueue(k, j) => SameQueue(ch[c], j)
      BY <3>2 DEF SameQueue
    <3>4. "rx" \in DOMAIN k
      BY <1>1, <3>2 DEF SameQueue
    <3>5. SameQueue(k, k) /\ SameQueue(k, S!ResetExtStatus(k)) /\ SameQueue(k, S!ResetTxInt(k))
          /\ SameQueue(k, S!ResetHighestIus(k))
      BY <3>4, ResetsQueue DEF SameQueue
    <3> QED BY <3>1, <3>3, <3>5
  <2>3. CASE S!WriteRegister(c, v)
    <3> DEFINE k == S!Written(ch[c], ch[c].reg_ptr, v)
    <3>1. SameQueue(ch[c], k)
      BY <1>1, WrittenQueue
    <3>2. ch' = [ch EXCEPT ![c] = [k EXCEPT !.reg_ptr = 0]]
      BY <2>3 DEF S!WriteRegister
    <3> HIDE DEF k
    <3>3. SameQueue(ch[c], [k EXCEPT !.reg_ptr = 0])
      BY <1>1, <3>1 DEF SameQueue
    <3> QED BY <3>2, <3>3
  <2> QED BY <2>1, <2>2, <2>3
<1>4. DOMAIN ch' = Channels /\ \A d \in Channels : SameQueue(ch[d], ch'[d])
  BY <1>1, <1>3 DEF SameQueue
<1> QED BY <1>2, <1>4, Elsewhere

LEMMA RoutesKept == ASSUME RouteInv, [Next]_vars PROVE RouteInv'
<1>1. CASE SetIrq
  BY <1>1, ChannelsStay DEF SetIrq, sccVars, feeds
<1>2. CASE EndSlice
  BY <1>2, ChannelsStay DEF EndSlice, Quiet, sccVars, history
<1>3. ASSUME NEW cycles, NEW raised, NEW calibrating, TickDevices(cycles, raised, calibrating) PROVE RouteInv'
  <2>1. /\ ch' = [c \in Channels |-> S!TickChannel(ch[c], S!Pclk(cycles))]
        /\ UNCHANGED <<arrived, script, typed, keys, split, console>>
    BY <1>3 DEF TickDevices, S!Tick, feeds, history
  <2>2. \A c \in Channels : "rx" \in DOMAIN ch[c]
    BY Zenon DEF RouteInv, RouteType, Queued
  <2>3. \A c \in Channels : SameQueue(ch[c], ch'[c])
    BY <2>1, <2>2, TickChannelQueue
  <2> QED BY <2>1, <2>3, Elsewhere
<1>4. CASE NoKey
  BY <1>4, ChannelsStay DEF NoKey, Quiet, sccVars, history, feeds
<1>5. ASSUME NEW v, SetVia(v) \/ SetLow(v) PROVE RouteInv'
  BY <1>5, ChannelsStay DEF SetVia, SetLow, Access, sccVars, feeds
<1>6. CASE UNCHANGED vars
  BY <1>6, ChannelsStay DEF vars, sccVars, history, feeds
<1> QED BY <1>1, <1>2, <1>3, <1>4, <1>5, <1>6, CheckHostInputRoutes, InjectRoutes, KeyRoutes,
           ReadDataRoutes, WriteControlRoutes DEF Next, Pass, Guest

LEMMA RouteInvHolds == Spec => []RouteInv
<1>1. Init => RouteInv
  <2> SUFFICES ASSUME Init PROVE RouteInv
    OBVIOUS
  <2>1. \A T : <<>> \in Seq(T)
    OBVIOUS
  <2>2. /\ DOMAIN ch = Channels /\ \A c \in Channels : "rx" \in DOMAIN ch[c] /\ ch[c].rx = <<>>
        /\ arrived = [c \in Channels |-> <<>>]
        /\ script = 0 /\ typed = 0 /\ keys = 0 /\ split = 0 /\ console = NoConsole
    BY DEF Init, S!Init, S!ResetChannel, NoConsole, S!NoConsole
  <2>3. RouteType
    <3>1. {script, typed, keys, split} \subseteq Nat /\ split <= typed
      BY <2>2
    <3>2. arrived \in [Channels -> Seq(Letters)] /\ \A c \in Channels : Queued(ch[c])
      BY <2>1, <2>2, Zenon DEF Queued
    <3> QED BY <2>2, <3>1, <3>2, Zenon DEF RouteType
  <2>4. \A c \in Channels : DOMAIN arrived[c] = {}
    BY <2>2
  <2>5. NoneEarly /\ Places("script", "B") = {}
    BY <2>4 DEF NoneEarly, Places, Channels
  <2>6. ScriptIntact /\ TypedRouted
    BY <2>2, <2>5 DEF ScriptIntact, TypedRouted
  <2> QED BY <2>3, <2>5, <2>6 DEF RouteInv
<1>2. RouteInv /\ [Next]_vars => RouteInv'
  BY RoutesKept
<1> QED BY <1>1, <1>2, PTL DEF Spec

\* Every byte of the Sys/Start script that the loop has sent (agfa9000.c, the
\* injection when channel B is empty) has arrived at channel B once and in
\* order, whatever the length of the FIFOs, the input and the guest.
THEOREM ScriptDelivered == Spec => []ScriptIntact
<1>1. RouteInv => ScriptIntact
  BY DEF RouteInv
<1> QED BY <1>1, RouteInvHolds, PTL

\* No character that check_host_input takes from the terminal is lost, and one
\* taken after the console is known goes to the console alone.
THEOREM TypedDelivered == Spec => []TypedRouted
<1>1. RouteInv => TypedRouted
  BY DEF RouteInv
<1> QED BY <1>1, RouteInvHolds, PTL
=============================================================================
