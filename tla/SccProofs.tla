----------------------------- MODULE SccProofs -----------------------------
(***************************************************************************)
(* Proofs about Scc, for any channels, FIFO size, guest and ticks.          *)
(*                                                                         *)
(* Each operation is a function from channels to channels, so the argument *)
(* has two layers: the functions keep a channel good (its type, its bounds *)
(* and the reason of its receive interrupt), and the actions apply them to *)
(* the channels one by one.                                                *)
(***************************************************************************)
EXTENDS Scc, SequenceTheorems, TLAPS

HasCause(k) == k.rx_int_pending => k.rx # <<>>
Good(c, k) == k \in ChannelType(c) /\ InBounds(k) /\ HasCause(k)

\* The least command or pointer that a byte holds is a register number.
LEMMA PointerIsRegister ==
  ASSUME NEW v \in Byte
  PROVE  /\ v % 8 \in Register
         /\ (v % 8) + 8 \in Register
         /\ (v % 8) + 0 \in Register
BY SMT DEF Byte, Register

\* A tick is one PCLK cycle at least.
LEMMA PclkPositive ==
  ASSUME NEW cycles \in Nat
  PROVE  Pclk(cycles) \in Nat \ {0}
BY SMT DEF Pclk

\* Reading a character leaves one less, and receiving one leaves one more.
LEMMA TailIsShorter ==
  ASSUME NEW S, NEW s \in Seq(S), s # <<>>
  PROVE  /\ Tail(s) \in Seq(S)
         /\ Len(Tail(s)) = Len(s) - 1
         /\ Len(s) > 1 => Tail(s) # <<>>
<1>1. Tail(s) \in Seq(S) /\ Len(Tail(s)) = Len(s) - 1
  BY HeadTailProperties, Zenon
<1>2. Len(s) \in Nat
  BY LenProperties, Zenon
<1>3. \A n \in Nat : n > 1 => n - 1 # 0
  OBVIOUS
<1>4. Tail(s) = <<>> => Len(Tail(s)) = 0
  BY <1>1, EmptySeq, Zenon
<1>5. QED BY <1>1, <1>2, <1>3, <1>4, Zenon

LEMMA AppendIsLonger ==
  ASSUME NEW S, NEW s \in Seq(S), NEW x \in S
  PROVE  /\ Append(s, x) \in Seq(S)
         /\ Len(Append(s, x)) = Len(s) + 1
         /\ Append(s, x) # <<>>
BY AppendProperties, Zenon

LEMMA ReloadPositive ==
  ASSUME NEW low \in Byte, NEW high \in Byte
  PROVE  low + 256 * high + 2 \in Nat \ {0}
BY SMT DEF Byte

-----------------------------------------------------------------------------
(* The functions keep a channel good.                                      *)

LEMMA UpdateRr0Good ==
  ASSUME NEW c \in Channels, NEW k, Good(c, k)
  PROVE  Good(c, UpdateRr0(k))
BY DEF Good, UpdateRr0, ChannelType, InBounds, HasCause

LEMMA TransmitGood ==
  ASSUME NEW c \in Channels, NEW k, Good(c, k)
  PROVE  Good(c, Transmit(k))
<1>1. Good(c, [k EXCEPT !.tx_pending = TRUE, !.tx_delay = 1])
  BY DEF Good, ChannelType, InBounds, HasCause
<1>2. QED BY <1>1, UpdateRr0Good DEF Transmit

LEMMA TakeCharGood ==
  ASSUME NEW c \in Channels, NEW k, Good(c, k), k.rx # <<>>
  PROVE  Good(c, TakeChar(k))
<1> DEFINE left == [k EXCEPT !.rx = Tail(@),
                             !.rx_int_pending = @ /\ Len(k.rx) > 1]
<1>1. k \in ChannelType(c) /\ k.rx \in Seq(Chars[c]) /\ k.rx_int_pending \in BOOLEAN
  BY DEF Good, ChannelType
<1>2. /\ Tail(k.rx) \in Seq(Chars[c]) /\ Len(Tail(k.rx)) = Len(k.rx) - 1
      /\ Len(k.rx) > 1 => Tail(k.rx) # <<>>
  BY <1>1, TailIsShorter
<1>3. left \in ChannelType(c) /\ left.rx = Tail(k.rx)
      /\ left.rx_int_pending = (k.rx_int_pending /\ Len(k.rx) > 1)
      /\ left.brg_enabled = k.brg_enabled /\ left.brg_counter = k.brg_counter
      /\ left.brg_reload = k.brg_reload
  BY <1>1, <1>2 DEF ChannelType
<1>4. InBounds(left)
  BY <1>1, <1>2, <1>3, SccAssumption DEF InBounds, Good
<1>5. HasCause(left)
  BY <1>1, <1>2, <1>3 DEF HasCause
<1>6. QED BY <1>3, <1>4, <1>5, UpdateRr0Good DEF Good, TakeChar

LEMMA ResetExtStatusGood ==
  ASSUME NEW c \in Channels, NEW k, Good(c, k)
  PROVE  Good(c, ResetExtStatus(k))
<1> DEFINE count == IF k.brg_enabled THEN k.brg_reload ELSE k.brg_counter
<1>1. /\ count \in Nat
      /\ k.brg_enabled => count \in 1 .. k.brg_reload
  BY DEF Good, ChannelType, InBounds
<1> HIDE DEF count
<1>2. Good(c, [k EXCEPT !.brg_zero_fired = FALSE, !.ext_status_pending = FALSE,
                        !.brg_counter = count])
  BY <1>1 DEF Good, ChannelType, InBounds, HasCause
<1>3. QED BY <1>2, UpdateRr0Good DEF ResetExtStatus, count

LEMMA ResetTxIntGood ==
  ASSUME NEW c \in Channels, NEW k, Good(c, k)
  PROVE  Good(c, ResetTxInt(k))
BY DEF Good, ResetTxInt, ChannelType, InBounds, HasCause

LEMMA ResetHighestIusGood ==
  ASSUME NEW c \in Channels, NEW k, Good(c, k)
  PROVE  Good(c, ResetHighestIus(k))
BY DEF Good, ResetHighestIus, ChannelType, InBounds, HasCause

LEMMA ControlBrgGood ==
  ASSUME NEW c \in Channels, NEW k, Good(c, k), NEW v
  PROVE  Good(c, ControlBrg(k, v))
<1> DEFINE reload == k.tc_low + 256 * k.tc_high + 2
<1>1. k.tc_low \in Byte /\ k.tc_high \in Byte
  BY DEF Good, ChannelType
<1>2. reload \in Nat \ {0}
  BY <1>1, ReloadPositive
<1> HIDE DEF reload
<1>3. reload \in Nat /\ reload \in 1 .. reload
  BY <1>2
<1>4. Good(c, [k EXCEPT !.brg_enabled = TRUE, !.brg_reload = reload,
                        !.brg_counter = reload, !.brg_zero_fired = FALSE])
  BY <1>3 DEF Good, ChannelType, InBounds, HasCause
<1>5. Good(c, [k EXCEPT !.brg_enabled = FALSE])
  BY DEF Good, ChannelType, InBounds, HasCause
<1>6. QED BY <1>4, <1>5 DEF ControlBrg, reload

LEMMA ReceiveGood ==
  ASSUME NEW c \in Channels, NEW k, Good(c, k), NEW x \in Chars[c],
         Len(k.rx) < FifoSize
  PROVE  Good(c, Receive(k, x))
<1> DEFINE more == [k EXCEPT !.rx = Append(@, x), !.rx_int_pending = @ \/ k.rx_int]
<1>1. k \in ChannelType(c) /\ k.rx \in Seq(Chars[c])
  BY DEF Good, ChannelType
<1>2. Append(k.rx, x) \in Seq(Chars[c]) /\ Len(Append(k.rx, x)) = Len(k.rx) + 1
  BY <1>1, AppendIsLonger
<1>3. Append(k.rx, x) # <<>>
  BY <1>1, AppendIsLonger
<1>4. more \in ChannelType(c) /\ more.rx = Append(k.rx, x)
      /\ more.brg_enabled = k.brg_enabled /\ more.brg_counter = k.brg_counter
      /\ more.brg_reload = k.brg_reload
  BY <1>1, <1>2 DEF ChannelType
<1>5. InBounds(more)
  BY <1>1, <1>2, <1>4, SccAssumption DEF InBounds, Good
<1>6. HasCause(more)
  BY <1>3, <1>4 DEF HasCause
<1>7. QED BY <1>4, <1>5, <1>6, UpdateRr0Good DEF Good, Receive

LEMMA FinishTxGood ==
  ASSUME NEW c \in Channels, NEW k, Good(c, k), NEW p \in Nat \ {0}
  PROVE  Good(c, FinishTx(k, p))
<1>1. k.tx_delay \in {0, 1}
  BY DEF Good, ChannelType
<1>2. ~(k.tx_delay > p)
  BY <1>1
<1>3. Good(c, [k EXCEPT !.tx_pending = FALSE, !.tx_delay = 0,
                        !.tx_int_pending = @ \/ k.tx_int])
  BY DEF Good, ChannelType, InBounds, HasCause
<1>4. QED BY <1>2, <1>3 DEF FinishTx

LEMMA CountDownGood ==
  ASSUME NEW c \in Channels, NEW k, Good(c, k), NEW p \in Nat \ {0}
  PROVE  Good(c, CountDown(k, p))
<1>1. k \in ChannelType(c) /\ k.brg_counter \in Nat /\ k.brg_reload \in Nat
  BY DEF Good, ChannelType
<1>2. ASSUME k.brg_enabled, k.brg_counter > p
      PROVE  Good(c, [k EXCEPT !.brg_counter = @ - p])
  <2>1. k.brg_counter - p \in Nat /\ k.brg_counter - p \in 1 .. k.brg_reload
    BY <1>1, <1>2 DEF Good, InBounds
  <2>2. QED BY <2>1 DEF Good, ChannelType, InBounds, HasCause
<1>3. ASSUME k.brg_enabled
      PROVE  Good(c, [k EXCEPT !.brg_counter = k.brg_reload, !.brg_zero_fired = TRUE,
                 !.ext_status_pending = @ \/ k.brg_zero_count_ie])
  <2>1. k.brg_reload \in 1 .. k.brg_reload
    BY <1>1, <1>3 DEF Good, InBounds
  <2>2. QED BY <2>1, <1>1 DEF Good, ChannelType, InBounds, HasCause
<1>4. QED BY <1>2, <1>3 DEF CountDown

LEMMA TickChannelGood ==
  ASSUME NEW c \in Channels, NEW k, Good(c, k), NEW p \in Nat \ {0}
  PROVE  Good(c, TickChannel(k, p))
<1>1. Good(c, FinishTx(k, p))
  BY FinishTxGood
<1>2. Good(c, UpdateRr0(FinishTx(k, p)))
  BY <1>1, UpdateRr0Good
<1>3. QED BY <1>2, CountDownGood DEF TickChannel

LEMMA PointGood ==
  ASSUME NEW c \in Channels, NEW k, Good(c, k), NEW r \in Register
  PROVE  Good(c, [k EXCEPT !.reg_ptr = r])
BY DEF Good, ChannelType, InBounds, HasCause

LEMMA WrittenGood ==
  ASSUME NEW c \in Channels, NEW k, Good(c, k), NEW reg, NEW v \in Byte
  PROVE  Good(c, Written(k, reg, v))
<1>1. (Bit(v, 3) \/ Bit(v, 4)) \in BOOLEAN /\ Bit(v, 1) \in BOOLEAN
  BY Zenon DEF Bit
<1>2. Good(c, [k EXCEPT !.rx_int = Bit(v, 3) \/ Bit(v, 4), !.tx_int = Bit(v, 1)])
  BY <1>1 DEF Good, ChannelType, InBounds, HasCause
<1>3. Good(c, [k EXCEPT !.tc_low = v]) /\ Good(c, [k EXCEPT !.tc_high = v])
  BY DEF Good, ChannelType, InBounds, HasCause
<1>4. Good(c, [k EXCEPT !.brg_zero_count_ie = Bit(v, 1)])
  <2>1. Bit(v, 1) \in BOOLEAN
    BY DEF Bit
  <2>2. QED BY <2>1 DEF Good, ChannelType, InBounds, HasCause
<1>5. Good(c, Transmit(k)) /\ Good(c, ControlBrg(k, v))
  BY TransmitGood, ControlBrgGood
<1>6. QED BY <1>2, <1>3, <1>4, <1>5, Zenon DEF Written

-----------------------------------------------------------------------------
(* The invariant.                                                          *)

AllGood == DOMAIN ch = Channels /\ \A c \in Channels : Good(c, ch[c])

Inv ==
  /\ AllGood
  /\ mie \in BOOLEAN
  /\ irq_state \in BOOLEAN
  /\ console \in Channels \cup {NoConsole}

LEMMA OneChannel ==
  ASSUME AllGood, NEW c \in Channels, NEW k, Good(c, k),
         ch' = [ch EXCEPT ![c] = k]
  PROVE  AllGood'
BY DEF AllGood

LEMMA IrqIsBoolean ==
  ASSUME Inv, UpdateIrq \/ UNCHANGED irq_state
  PROVE  irq_state' \in BOOLEAN
<1>1. (mie /\ \E c \in Channels : Pending(ch'[c])) \in BOOLEAN
  BY DEF Inv
<1>2. QED BY <1>1, Zenon DEF Inv, UpdateIrq

LEMMA GuestByte ==
  ASSUME Inv, NEW c \in Channels, NEW v \in Controls[c][ch[c].reg_ptr]
  PROVE  v \in Byte
<1>1. ch[c].reg_ptr \in Register
  BY DEF Inv, AllGood, Good, ChannelType
<1>2. QED BY <1>1, SccAssumption

LEMMA InitInv == Init => Inv
<1> SUFFICES ASSUME Init PROVE Inv
  OBVIOUS
<1>1. ASSUME NEW c \in Channels PROVE Good(c, ResetChannel)
  <2>1. 0 \in Register /\ 0 \in Byte /\ <<>> \in Seq(Chars[c]) /\ Len(<<>>) = 0
    BY EmptySeq DEF Register, Byte
  <2>2. QED BY <2>1, SccAssumption DEF Good, ResetChannel, ChannelType, InBounds, HasCause
<1>2. AllGood
  BY <1>1 DEF Init, AllGood
<1>3. QED BY <1>2 DEF Init, Inv

LEMMA WriteWr0Inv ==
  ASSUME Inv, NEW c \in Channels, NEW v \in Byte, WriteWr0(c, v)
  PROVE  Inv'
<1> DEFINE k == [ch[c] EXCEPT !.reg_ptr = (v % 8) + (IF (v \div 8) % 8 = 1 THEN 8 ELSE 0)]
           j == CASE (v \div 8) % 8 = 2 -> ResetExtStatus(k)
                  [] (v \div 8) % 8 = 5 -> ResetTxInt(k)
                  [] (v \div 8) % 8 = 7 -> ResetHighestIus(k)
                  [] OTHER -> k
<1>1. Good(c, ch[c])
  BY DEF Inv, AllGood
<1>2. (v % 8) + (IF (v \div 8) % 8 = 1 THEN 8 ELSE 0) \in Register
  BY PointerIsRegister, Zenon
<1>3. Good(c, k)
  BY <1>1, <1>2, PointGood
<1> HIDE DEF k
<1>4. Good(c, j)
  BY <1>3, ResetExtStatusGood, ResetTxIntGood, ResetHighestIusGood, Zenon
<1>5. ch' = [ch EXCEPT ![c] = j]
  BY DEF WriteWr0, k
<1> HIDE DEF j
<1>6. AllGood'
  BY <1>4, <1>5, OneChannel DEF Inv
<1>7. irq_state' \in BOOLEAN
  BY IrqIsBoolean DEF WriteWr0
<1>8. QED BY <1>6, <1>7 DEF Inv, WriteWr0

LEMMA WriteRegisterInv ==
  ASSUME Inv, NEW c \in Channels, NEW v \in Byte, WriteRegister(c, v)
  PROVE  Inv'
<1> DEFINE k == Written(ch[c], ch[c].reg_ptr, v)
<1>1. Good(c, k)
  BY WrittenGood DEF Inv, AllGood
<1>2. 0 \in Register
  BY DEF Register
<1>3. Good(c, [k EXCEPT !.reg_ptr = 0])
  BY <1>1, <1>2, PointGood
<1>4. ch' = [ch EXCEPT ![c] = [k EXCEPT !.reg_ptr = 0]]
  BY DEF WriteRegister, Inv, AllGood
<1> HIDE DEF k
<1>5. AllGood'
  BY <1>3, <1>4, OneChannel DEF Inv
<1>6. mie' \in BOOLEAN
  BY DEF WriteRegister, Inv, Bit
<1>7. QED BY <1>5, <1>6 DEF Inv, WriteRegister

LEMMA ReadFifoInv ==
  ASSUME Inv, NEW c \in Channels, NEW k, Good(c, k), ReadFifo(c, k)
  PROVE  AllGood' /\ (UpdateIrq \/ UNCHANGED irq_state)
<1>1. CASE k.rx = <<>>
  BY <1>1, OneChannel DEF ReadFifo, Inv
<1>2. CASE k.rx # <<>>
  <2>1. Good(c, TakeChar(k))
    BY <1>2, TakeCharGood
  <2>2. ch' = [ch EXCEPT ![c] = TakeChar(k)] /\ (UpdateIrq \/ UNCHANGED irq_state)
    BY <1>2 DEF ReadFifo
  <2>3. QED BY <2>1, <2>2, OneChannel DEF Inv
<1>3. QED BY <1>1, <1>2

LEMMA ReadControlInv ==
  ASSUME Inv, NEW c \in Channels, ReadControl(c)
  PROVE  Inv'
<1> DEFINE k == [ch[c] EXCEPT !.reg_ptr = 0]
<1>1. 0 \in Register
  BY DEF Register
<1>2. Good(c, k)
  BY <1>1, PointGood DEF Inv, AllGood
<1>3. Good(c, UpdateRr0(k))
  BY <1>2, UpdateRr0Good
<1> DEFINE j == IF ch[c].reg_ptr = 0 THEN UpdateRr0(k) ELSE k
<1>4. \/ ReadFifo(c, k)
      \/ ch' = [ch EXCEPT ![c] = j] /\ UNCHANGED irq_state
  BY DEF ReadControl
<1>5. Good(c, j)
  BY <1>2, <1>3
<1> HIDE DEF k, j
<1>6. AllGood' /\ (UpdateIrq \/ UNCHANGED irq_state)
  BY <1>2, <1>4, <1>5, ReadFifoInv, OneChannel DEF Inv
<1>7. irq_state' \in BOOLEAN
  BY <1>6, IrqIsBoolean
<1>8. QED BY <1>6, <1>7 DEF Inv, ReadControl

LEMMA ReadDataInv ==
  ASSUME Inv, NEW c \in Channels, ReadData(c)
  PROVE  Inv'
<1>1. AllGood' /\ (UpdateIrq \/ UNCHANGED irq_state)
  BY ReadFifoInv DEF ReadData, Inv, AllGood
<1>2. irq_state' \in BOOLEAN
  BY <1>1, IrqIsBoolean
<1>3. console' \in Channels \cup {NoConsole}
  BY DEF Inv, ReadData
<1>4. QED BY <1>1, <1>2, <1>3 DEF Inv, ReadData

LEMMA RxCharInv ==
  ASSUME Inv, NEW c \in Channels, NEW x \in Chars[c], RxChar(c, x)
  PROVE  Inv'
<1>1. CASE Len(ch[c].rx) < FifoSize
  <2>1. Good(c, Receive(ch[c], x))
    BY <1>1, ReceiveGood DEF Inv, AllGood
  <2>2. ch' = [ch EXCEPT ![c] = Receive(ch[c], x)]
    BY <1>1 DEF RxChar, Inv, AllGood
  <2>3. AllGood'
    BY <2>1, <2>2, OneChannel DEF Inv
  <2>4. irq_state' \in BOOLEAN
    BY <1>1, IrqIsBoolean DEF RxChar
  <2>5. QED BY <2>3, <2>4 DEF Inv, RxChar
<1>2. CASE ~(Len(ch[c].rx) < FifoSize)
  BY <1>2 DEF RxChar, Inv, AllGood
<1>3. QED BY <1>1, <1>2

LEMMA TickInv ==
  ASSUME Inv, NEW cycles \in Ticks, Tick(cycles)
  PROVE  Inv'
<1>1. Pclk(cycles) \in Nat \ {0}
  BY PclkPositive, SccAssumption
<1>2. \A c \in Channels : Good(c, TickChannel(ch[c], Pclk(cycles)))
  BY <1>1, TickChannelGood DEF Inv, AllGood
<1>3. AllGood'
  BY <1>2 DEF Tick, AllGood
<1>4. irq_state' \in BOOLEAN
  BY IrqIsBoolean DEF Tick
<1>5. QED BY <1>3, <1>4 DEF Inv, Tick

LEMMA WriteDataInv ==
  ASSUME Inv, NEW c \in Channels, WriteData(c)
  PROVE  Inv'
<1>1. Good(c, Transmit(ch[c]))
  BY TransmitGood DEF Inv, AllGood
<1>2. ch' = [ch EXCEPT ![c] = Transmit(ch[c])]
  BY DEF WriteData
<1>3. AllGood'
  BY <1>1, <1>2, OneChannel DEF Inv
<1>4. QED BY <1>3 DEF Inv, WriteData

LEMMA NextInv == Inv /\ [Next]_vars => Inv'
<1> SUFFICES ASSUME Inv, [Next]_vars PROVE Inv'
  OBVIOUS
<1>1. ASSUME NEW c \in Channels, WriteControl(c) PROVE Inv'
  BY <1>1, GuestByte, WriteWr0Inv, WriteRegisterInv DEF WriteControl
<1>2. ASSUME NEW c \in Channels,
             WriteData(c) \/ ReadControl(c) \/ ReadData(c)
               \/ \E x \in Chars[c] : RxChar(c, x)
      PROVE  Inv'
  BY <1>2, WriteDataInv, ReadControlInv, ReadDataInv, RxCharInv
<1>3. ASSUME NEW cycles \in Ticks, Tick(cycles) PROVE Inv'
  BY <1>3, TickInv
<1>4. CASE UNCHANGED vars
  BY <1>4 DEF vars, Inv, AllGood
<1>5. QED BY <1>1, <1>2, <1>3, <1>4 DEF Next

LEMMA Invariance == Spec => []Inv
BY InitInv, NextInv, PTL DEF Spec

\* Every variable keeps its type, the FIFOs their size and the counters of
\* enabled generators their range (scc.c), whatever the guest writes.
THEOREM TypeCorrect == Spec => []TypeOK
<1>1. Inv => TypeOK
  BY DEF Inv, AllGood, Good, TypeOK
<1>2. QED BY <1>1, Invariance, PTL

\* A handler that finds a receive interrupt pending finds a character
\* (scc.c, read_reg and the Reset IUS command).
THEOREM CauseKept == Spec => []RxInterruptHasCause
<1>1. Inv => RxInterruptHasCause
  BY DEF Inv, AllGood, Good, HasCause, RxInterruptHasCause
<1>2. QED BY <1>1, Invariance, PTL

-----------------------------------------------------------------------------
(* No step but a write to WR1 takes the interrupt from waiting characters. *)

Still(k, j) == Covered(k) => Covered(j)

LEMMA StillSimple ==
  ASSUME NEW c \in Channels, NEW k \in ChannelType(c), NEW v,
         NEW p, NEW r
  PROVE  /\ Still(k, UpdateRr0(k))
         /\ Still(k, Transmit(k))
         /\ Still(k, ResetExtStatus(k))
         /\ Still(k, ResetTxInt(k))
         /\ Still(k, ResetHighestIus(k))
         /\ Still(k, ControlBrg(k, v))
         /\ Still(k, FinishTx(k, p))
         /\ Still(k, CountDown(k, p))
         /\ Still(k, [k EXCEPT !.reg_ptr = r])
BY DEF Still, Covered, ChannelType, UpdateRr0, Transmit, ResetExtStatus, ResetTxInt,
       ResetHighestIus, ControlBrg, FinishTx, CountDown

LEMMA StillTake ==
  ASSUME NEW c \in Channels, NEW k \in ChannelType(c), k.rx # <<>>
  PROVE  Still(k, TakeChar(k))
<1> DEFINE left == [k EXCEPT !.rx = Tail(@),
                             !.rx_int_pending = @ /\ Len(k.rx) > 1]
<1>1. k.rx \in Seq(Chars[c])
  BY DEF ChannelType
<1>2. Len(k.rx) \in Nat /\ (Tail(k.rx) # <<>> => Len(Tail(k.rx)) \in Nat \ {0})
  BY <1>1, TailIsShorter, EmptySeq, LenProperties, Zenon
<1>3. Len(Tail(k.rx)) = Len(k.rx) - 1
  BY <1>1, TailIsShorter
<1>4. Tail(k.rx) # <<>> => Len(k.rx) > 1
  BY <1>2, <1>3
<1>5. left.rx = Tail(k.rx) /\ left.rx_int = k.rx_int
      /\ left.rx_int_pending = (k.rx_int_pending /\ Len(k.rx) > 1)
  BY DEF ChannelType
<1>6. Covered(k) => Covered(left)
  BY <1>4, <1>5 DEF Covered
<1>7. Covered(left) => Covered(UpdateRr0(left))
  BY DEF Covered, UpdateRr0, ChannelType
<1>8. QED BY <1>6, <1>7 DEF Still, TakeChar

LEMMA StillReceive ==
  ASSUME NEW c \in Channels, NEW k \in ChannelType(c), NEW x
  PROVE  Still(k, Receive(k, x))
BY DEF Still, Covered, ChannelType, Receive, UpdateRr0

LEMMA StillTick ==
  ASSUME NEW c \in Channels, NEW k, Good(c, k), NEW p \in Nat \ {0}
  PROVE  Still(k, TickChannel(k, p))
<1>1. Good(c, FinishTx(k, p)) /\ Good(c, UpdateRr0(FinishTx(k, p)))
  BY FinishTxGood, UpdateRr0Good
<1>2. /\ Still(k, FinishTx(k, p))
      /\ Still(FinishTx(k, p), UpdateRr0(FinishTx(k, p)))
      /\ Still(UpdateRr0(FinishTx(k, p)), TickChannel(k, p))
  BY <1>1, StillSimple DEF Good, TickChannel
<1>3. QED BY <1>2 DEF Still

\* The property for one channel.
Forgets(k, j) == Covered(k) /\ ~Covered(j)

LEMMA StillStored ==
  ASSUME NEW c \in Channels, NEW k \in ChannelType(c), NEW v
  PROVE  /\ Still(k, [k EXCEPT !.tc_low = v])
         /\ Still(k, [k EXCEPT !.tc_high = v])
         /\ Still(k, [k EXCEPT !.brg_zero_count_ie = v])
         /\ Still(k, k)
BY DEF Still, Covered, ChannelType

\* Of the registers, only WR1 can do it.
LEMMA WrittenStill ==
  ASSUME NEW c \in Channels, NEW k \in ChannelType(c), NEW reg, NEW v, reg # 1
  PROVE  Still(k, Written(k, reg, v))
<1>1. /\ Still(k, Transmit(k))
      /\ Still(k, ControlBrg(k, v))
  BY StillSimple
<1>2. /\ Still(k, [k EXCEPT !.tc_low = v])
      /\ Still(k, [k EXCEPT !.tc_high = v])
      /\ Still(k, [k EXCEPT !.brg_zero_count_ie = Bit(v, 1)])
      /\ Still(k, k)
  BY StillStored
<1>3. \/ Written(k, reg, v) = Transmit(k)
      \/ Written(k, reg, v) = [k EXCEPT !.tc_low = v]
      \/ Written(k, reg, v) = [k EXCEPT !.tc_high = v]
      \/ Written(k, reg, v) = ControlBrg(k, v)
      \/ Written(k, reg, v) = [k EXCEPT !.brg_zero_count_ie = Bit(v, 1)]
      \/ Written(k, reg, v) = k
  BY DEF Written
<1>4. QED BY <1>1, <1>2, <1>3, Zenon

\* With its interrupt already pending, a channel keeps it whatever is written.
LEMMA EnableKeeps ==
  ASSUME NEW c \in Channels, NEW k \in ChannelType(c), NEW v, k.rx_int
  PROVE  Still(k, Written(k, 1, v))
<1>1. Written(k, 1, v) = [k EXCEPT !.rx_int = Bit(v, 3) \/ Bit(v, 4),
                                   !.tx_int = Bit(v, 1)]
  BY DEF Written
<1>2. /\ Written(k, 1, v).rx = k.rx
      /\ Written(k, 1, v).rx_int_pending = k.rx_int_pending
  BY <1>1 DEF ChannelType
<1>3. QED BY <1>2 DEF Still, Covered

\* A write to any register, to a channel whose receive interrupts are on.
LEMMA RegisterKeeps ==
  ASSUME NEW c \in Channels, NEW k, Good(c, k), NEW reg, NEW v \in Byte,
         k.rx_int
  PROVE  Still(k, [Written(k, reg, v) EXCEPT !.reg_ptr = 0])
<1>1. Good(c, Written(k, reg, v))
  BY WrittenGood
<1>2. Still(k, Written(k, reg, v))
  BY WrittenStill, EnableKeeps DEF Good
<1>3. Still(Written(k, reg, v), [Written(k, reg, v) EXCEPT !.reg_ptr = 0])
  BY <1>1, StillSimple DEF Good
<1>4. QED BY <1>2, <1>3 DEF Still

LEMMA OneForgets ==
  ASSUME AllGood, NEW c \in Channels, NEW k, ch' = [ch EXCEPT ![c] = k],
         Forgets(ch[c], k) => ~ch[c].rx_int
  PROVE  \A d \in Channels : Forgets(ch[d], ch'[d]) => ~ch[d].rx_int
BY DEF AllGood, Forgets

LEMMA StillForgets ==
  ASSUME NEW k, NEW j, Still(k, j)
  PROVE  Forgets(k, j) => ~k.rx_int
BY DEF Still, Forgets

Kept == \A c \in Channels : Forgets(ch[c], ch'[c]) => ~ch[c].rx_int

LEMMA WriteControlKeeps ==
  ASSUME Inv, NEW c \in Channels, NEW v \in Byte,
         WriteWr0(c, v) \/ WriteRegister(c, v)
  PROVE  Kept
<1>1. Good(c, ch[c]) /\ ch[c] \in ChannelType(c) /\ AllGood
  BY DEF Inv, AllGood, Good
<1>2. ASSUME WriteWr0(c, v) PROVE Kept
  <2> DEFINE r == (v % 8) + (IF (v \div 8) % 8 = 1 THEN 8 ELSE 0)
             k == [ch[c] EXCEPT !.reg_ptr = r]
             j == CASE (v \div 8) % 8 = 2 -> ResetExtStatus(k)
                    [] (v \div 8) % 8 = 5 -> ResetTxInt(k)
                    [] (v \div 8) % 8 = 7 -> ResetHighestIus(k)
                    [] OTHER -> k
  <2>1. r \in Register
    BY PointerIsRegister, Zenon
  <2>2. ch' = [ch EXCEPT ![c] = j]
    BY <1>2 DEF WriteWr0
  <2> HIDE DEF r
  <2>3. k \in ChannelType(c)
    BY <1>1, <2>1, PointGood DEF Good
  <2>4. Still(ch[c], k)
    BY <1>1, StillSimple
  <2> HIDE DEF k
  <2>5. Still(k, ResetExtStatus(k)) /\ Still(k, ResetTxInt(k))
        /\ Still(k, ResetHighestIus(k)) /\ Still(k, k)
    BY <2>3, StillSimple DEF Still
  <2>6. Still(k, j)
    BY <2>5, Zenon
  <2> HIDE DEF j
  <2>7. Still(ch[c], j)
    BY <2>4, <2>6 DEF Still
  <2>8. QED BY <1>1, <2>2, <2>7, OneForgets, StillForgets DEF Kept
<1>3. ASSUME WriteRegister(c, v) PROVE Kept
  <2>1. ch' = [ch EXCEPT ![c] = [Written(ch[c], ch[c].reg_ptr, v) EXCEPT !.reg_ptr = 0]]
    BY <1>1, <1>3 DEF WriteRegister, AllGood
  <2>2. Forgets(ch[c], [Written(ch[c], ch[c].reg_ptr, v) EXCEPT !.reg_ptr = 0])
        => ~ch[c].rx_int
    BY <1>1, RegisterKeeps, StillForgets
  <2>3. QED BY <1>1, <2>1, <2>2, OneForgets DEF Kept
<1>4. QED BY <1>2, <1>3

LEMMA ReadFifoKeeps ==
  ASSUME Inv, NEW c \in Channels, NEW k, Good(c, k), Still(ch[c], k),
         ReadFifo(c, k)
  PROVE  Kept
<1>1. ASSUME k.rx = <<>> PROVE Kept
  <2>1. ch' = [ch EXCEPT ![c] = k]
    BY <1>1 DEF ReadFifo
  <2>2. QED BY <2>1, OneForgets, StillForgets DEF Kept, Inv
<1>2. ASSUME k.rx # <<>> PROVE Kept
  <2>1. ch' = [ch EXCEPT ![c] = TakeChar(k)]
    BY <1>2 DEF ReadFifo
  <2>2. Still(k, TakeChar(k))
    BY <1>2, StillTake DEF Good
  <2>3. Still(ch[c], TakeChar(k))
    BY <2>2 DEF Still
  <2>4. QED BY <2>1, <2>3, OneForgets, StillForgets DEF Kept, Inv
<1>3. QED BY <1>1, <1>2

LEMMA ReadKeeps ==
  ASSUME Inv, NEW c \in Channels, ReadControl(c) \/ ReadData(c)
  PROVE  Kept
<1>1. Good(c, ch[c]) /\ ch[c] \in ChannelType(c) /\ AllGood
  BY DEF Inv, AllGood, Good
<1>2. ASSUME ReadData(c) PROVE Kept
  <2>1. Still(ch[c], ch[c])
    BY DEF Still
  <2>2. QED BY <1>1, <1>2, <2>1, ReadFifoKeeps DEF ReadData
<1>3. ASSUME ReadControl(c) PROVE Kept
  <2> DEFINE k == [ch[c] EXCEPT !.reg_ptr = 0]
             j == IF ch[c].reg_ptr = 0 THEN UpdateRr0(k) ELSE k
  <2>1. 0 \in Register
    BY DEF Register
  <2>2. Good(c, k) /\ Still(ch[c], k)
    BY <1>1, <2>1, PointGood, StillSimple
  <2>3. \/ ReadFifo(c, k)
        \/ ch' = [ch EXCEPT ![c] = j]
    BY <1>3 DEF ReadControl
  <2> HIDE DEF k
  <2>4. Still(k, UpdateRr0(k))
    BY <2>2, StillSimple DEF Good
  <2>5. Still(ch[c], j)
    BY <2>2, <2>4 DEF Still
  <2> HIDE DEF j
  <2>6. QED BY <1>1, <2>2, <2>3, <2>5, ReadFifoKeeps, OneForgets, StillForgets DEF Kept
<1>4. QED BY <1>2, <1>3

LEMMA EventKeeps ==
  ASSUME Inv, NEW c \in Channels,
         WriteData(c) \/ \E x \in Chars[c] : RxChar(c, x)
  PROVE  Kept
<1>1. Good(c, ch[c]) /\ ch[c] \in ChannelType(c) /\ AllGood
  BY DEF Inv, AllGood, Good
<1>2. ASSUME WriteData(c) PROVE Kept
  <2>1. ch' = [ch EXCEPT ![c] = Transmit(ch[c])]
    BY <1>2 DEF WriteData
  <2>2. Still(ch[c], Transmit(ch[c]))
    BY <1>1, StillSimple
  <2>3. QED BY <1>1, <2>1, <2>2, OneForgets, StillForgets DEF Kept
<1>3. ASSUME NEW x \in Chars[c], RxChar(c, x) PROVE Kept
  <2>1. \/ ch' = [ch EXCEPT ![c] = Receive(ch[c], x)]
        \/ UNCHANGED ch
    BY <1>3 DEF RxChar
  <2>2. Still(ch[c], Receive(ch[c], x))
    BY <1>1, StillReceive
  <2>3. UNCHANGED ch => Kept
    BY DEF Kept, Forgets
  <2>4. QED BY <1>1, <2>1, <2>2, <2>3, OneForgets, StillForgets DEF Kept
<1>4. QED BY <1>2, <1>3

LEMMA TickKeeps ==
  ASSUME Inv, NEW cycles \in Ticks, Tick(cycles)
  PROVE  Kept
<1>1. Pclk(cycles) \in Nat \ {0}
  BY PclkPositive, SccAssumption
<1>2. ASSUME NEW c \in Channels PROVE Still(ch[c], ch'[c])
  <2>1. ch'[c] = TickChannel(ch[c], Pclk(cycles))
    BY DEF Tick
  <2>2. QED BY <1>1, <2>1, StillTick DEF Inv, AllGood
<1>3. QED BY <1>2, StillForgets DEF Kept

\* A waiting character with receive interrupts on keeps its pending interrupt
\* through every access, tick and reset of flags (scc.c); only turning the
\* interrupts on when characters already wait can leave them without.
THEOREM NothingForgotten == Spec => NoForgottenChar
<1>1. ASSUME Inv, [Next]_vars PROVE Kept
  <2>1. ASSUME NEW c \in Channels, WriteControl(c) PROVE Kept
    BY <1>1, <2>1, GuestByte, WriteControlKeeps DEF WriteControl
  <2>2. ASSUME NEW c \in Channels, ReadControl(c) \/ ReadData(c) PROVE Kept
    BY <1>1, <2>2, ReadKeeps
  <2>3. ASSUME NEW c \in Channels,
               WriteData(c) \/ \E x \in Chars[c] : RxChar(c, x)
        PROVE  Kept
    BY <1>1, <2>3, EventKeeps
  <2>4. ASSUME NEW cycles \in Ticks, Tick(cycles) PROVE Kept
    BY <1>1, <2>4, TickKeeps
  <2>5. ASSUME UNCHANGED vars PROVE Kept
    BY <2>5 DEF vars, Kept, Forgets
  <2>6. QED BY <1>1, <2>1, <2>2, <2>3, <2>4, <2>5 DEF Next
<1>2. Kept => \A c \in Channels : Covered(ch[c]) /\ ~Covered(ch'[c]) => ~ch[c].rx_int
  BY DEF Kept, Forgets
<1>3. Inv /\ [Next]_vars
        => [\A c \in Channels : Covered(ch[c]) /\ ~Covered(ch'[c]) => ~ch[c].rx_int]_vars
  BY <1>1, <1>2
<1>4. QED BY <1>3, Invariance, PTL DEF Spec, NoForgottenChar

-----------------------------------------------------------------------------
(* A step that does not compute the output again changes no flag.          *)

Flags(k) == <<k.ext_status_pending, k.rx_int_pending, k.tx_int_pending>>

LEMMA SameFlags ==
  ASSUME NEW c \in Channels, NEW k \in ChannelType(c), NEW v, NEW r, NEW x
  PROVE  /\ Flags(UpdateRr0(k)) = Flags(k)
         /\ Flags(Transmit(k)) = Flags(k)
         /\ Flags(ControlBrg(k, v)) = Flags(k)
         /\ Flags([k EXCEPT !.tc_low = v]) = Flags(k)
         /\ Flags([k EXCEPT !.tc_high = v]) = Flags(k)
         /\ Flags([k EXCEPT !.brg_zero_count_ie = v]) = Flags(k)
         /\ Flags([k EXCEPT !.reg_ptr = r]) = Flags(k)
         /\ ~k.rx_int => Flags(Receive(k, x)) = Flags(k)
BY DEF Flags, ChannelType, UpdateRr0, Transmit, ControlBrg, Receive

LEMMA SameFlagsTake ==
  ASSUME NEW c \in Channels, NEW k, Good(c, k), k.rx # <<>>, Len(k.rx) # 1
  PROVE  Flags(TakeChar(k)) = Flags(k)
<1> DEFINE left == [k EXCEPT !.rx = Tail(@),
                             !.rx_int_pending = @ /\ Len(k.rx) > 1]
<1>1. k.rx \in Seq(Chars[c]) /\ k \in ChannelType(c)
  BY DEF Good, ChannelType
<1>2. Len(k.rx) \in Nat \ {0}
  BY <1>1, EmptySeq, LenProperties
<1>3. Len(k.rx) > 1
  <2> DEFINE n == Len(k.rx)
  <2>1. n \in Nat \ {0} /\ n # 1
    BY <1>2
  <2> HIDE DEF n
  <2>2. n > 1
    BY <2>1
  <2>3. QED BY <2>2 DEF n
<1>4. left = [k EXCEPT !.rx = Tail(@)]
  BY <1>1, <1>3 DEF ChannelType
<1>5. Flags(UpdateRr0([k EXCEPT !.rx = Tail(@)])) = Flags(k)
  BY <1>1 DEF Flags, UpdateRr0, ChannelType
<1>6. QED BY <1>4, <1>5 DEF TakeChar

LEMMA SameFlagsWritten ==
  ASSUME NEW c \in Channels, NEW k, Good(c, k), NEW reg, NEW v \in Byte
  PROVE  Flags([Written(k, reg, v) EXCEPT !.reg_ptr = 0]) = Flags(k)
<1>1. Good(c, Written(k, reg, v)) /\ k \in ChannelType(c)
  BY WrittenGood DEF Good
<1>2. Flags([Written(k, reg, v) EXCEPT !.reg_ptr = 0]) = Flags(Written(k, reg, v))
  BY <1>1, SameFlags DEF Good
<1> DEFINE set == [k EXCEPT !.rx_int = Bit(v, 3) \/ Bit(v, 4), !.tx_int = Bit(v, 1)]
<1>3. ASSUME NEW y, NEW z
      PROVE  Flags([k EXCEPT !.rx_int = y, !.tx_int = z]) = Flags(k)
  BY <1>1 DEF Flags, ChannelType
<1>4. Flags(set) = Flags(k)
  BY <1>3, Zenon
<1>5. /\ Flags(Transmit(k)) = Flags(k)
      /\ Flags(ControlBrg(k, v)) = Flags(k)
      /\ Flags([k EXCEPT !.tc_low = v]) = Flags(k)
      /\ Flags([k EXCEPT !.tc_high = v]) = Flags(k)
      /\ Flags([k EXCEPT !.brg_zero_count_ie = Bit(v, 1)]) = Flags(k)
  BY <1>1, SameFlags
<1>6. Flags(Written(k, reg, v)) = Flags(k)
  BY <1>5, <1>4, Zenon DEF Written
<1>7. QED BY <1>2, <1>6

\* A step either computes the output again, or leaves it and all flags alone.
Recomputed == UpdateIrq /\ UNCHANGED mie
FlagsKept == UNCHANGED irq_state /\ \A c \in Channels : Flags(ch'[c]) = Flags(ch[c])

LEMMA OneKept ==
  ASSUME AllGood, NEW c \in Channels, NEW k, ch' = [ch EXCEPT ![c] = k],
         Flags(k) = Flags(ch[c]), UNCHANGED irq_state
  PROVE  FlagsKept
BY DEF AllGood, FlagsKept

LEMMA WriteRegisterFlags ==
  ASSUME Inv, NEW c \in Channels, NEW v \in Byte, WriteRegister(c, v)
  PROVE  FlagsKept
<1> DEFINE k == [Written(ch[c], ch[c].reg_ptr, v) EXCEPT !.reg_ptr = 0]
<1>1. ch' = [ch EXCEPT ![c] = k] /\ UNCHANGED irq_state
  BY DEF WriteRegister, Inv, AllGood
<1>2. Flags(k) = Flags(ch[c])
  BY SameFlagsWritten DEF Inv, AllGood
<1> HIDE DEF k
<1>3. QED BY <1>1, <1>2, OneKept DEF Inv

LEMMA WriteWr0Flags ==
  ASSUME Inv, NEW c \in Channels, NEW v \in Byte, WriteWr0(c, v)
  PROVE  Recomputed \/ FlagsKept
<1> DEFINE command == (v \div 8) % 8
           k == [ch[c] EXCEPT !.reg_ptr = (v % 8) + (IF command = 1 THEN 8 ELSE 0)]
<1>1. CASE command \in {2, 5, 7}
  BY <1>1 DEF WriteWr0, Recomputed
<1>2. CASE command \notin {2, 5, 7}
  <2>1. command # 2 /\ command # 5 /\ command # 7
    BY <1>2
  <2>2. ch' = [ch EXCEPT ![c] = k] /\ UNCHANGED irq_state
    BY <1>2, <2>1, Zenon DEF WriteWr0
  <2>3. Flags(k) = Flags(ch[c])
    BY SameFlags DEF Inv, AllGood, Good
  <2> HIDE DEF k
  <2>4. QED BY <2>2, <2>3, OneKept DEF Inv
<1>3. QED BY <1>1, <1>2

LEMMA ReadFifoFlags ==
  ASSUME Inv, NEW c \in Channels, NEW k, Good(c, k), Flags(k) = Flags(ch[c]),
         ReadFifo(c, k)
  PROVE  UpdateIrq \/ FlagsKept
<1>1. CASE k.rx = <<>>
  BY <1>1, OneKept DEF ReadFifo, Inv
<1>2. CASE k.rx # <<>> /\ Len(k.rx) = 1
  BY <1>2 DEF ReadFifo
<1>3. CASE k.rx # <<>> /\ Len(k.rx) # 1
  <2>1. ch' = [ch EXCEPT ![c] = TakeChar(k)] /\ UNCHANGED irq_state
    BY <1>3 DEF ReadFifo
  <2>2. Flags(TakeChar(k)) = Flags(ch[c])
    BY <1>3, SameFlagsTake
  <2>3. QED BY <2>1, <2>2, OneKept DEF Inv
<1>4. QED BY <1>1, <1>2, <1>3

LEMMA ReadFlags ==
  ASSUME Inv, NEW c \in Channels, ReadControl(c) \/ ReadData(c)
  PROVE  Recomputed \/ FlagsKept
<1>1. Good(c, ch[c]) /\ AllGood
  BY DEF Inv, AllGood
<1>2. CASE ReadData(c)
  BY <1>1, <1>2, ReadFifoFlags DEF ReadData, Recomputed
<1>3. CASE ReadControl(c)
  <2> DEFINE k == [ch[c] EXCEPT !.reg_ptr = 0]
             j == IF ch[c].reg_ptr = 0 THEN UpdateRr0(k) ELSE k
  <2>1. 0 \in Register
    BY DEF Register
  <2>2. Good(c, k) /\ Flags(k) = Flags(ch[c])
    BY <1>1, <2>1, PointGood, SameFlags DEF Good
  <2>3. \/ ReadFifo(c, k)
        \/ ch' = [ch EXCEPT ![c] = j] /\ UNCHANGED irq_state
    BY <1>3 DEF ReadControl
  <2>4. UNCHANGED mie
    BY <1>3 DEF ReadControl
  <2> HIDE DEF k
  <2>5. Flags(UpdateRr0(k)) = Flags(k)
    BY <2>2, SameFlags DEF Good
  <2>6. Flags(j) = Flags(ch[c])
    BY <2>2, <2>5
  <2> HIDE DEF j
  <2>7. QED BY <1>1, <2>2, <2>3, <2>4, <2>6, ReadFifoFlags, OneKept DEF Recomputed
<1>4. QED BY <1>2, <1>3

LEMMA EventFlags ==
  ASSUME Inv, NEW c \in Channels,
         WriteData(c) \/ \E x \in Chars[c] : RxChar(c, x)
  PROVE  Recomputed \/ FlagsKept
<1>1. ch[c] \in ChannelType(c) /\ AllGood
  BY DEF Inv, AllGood, Good
<1>2. CASE WriteData(c)
  <2>1. ch' = [ch EXCEPT ![c] = Transmit(ch[c])] /\ UNCHANGED irq_state
    BY <1>2 DEF WriteData
  <2>2. Flags(Transmit(ch[c])) = Flags(ch[c])
    BY <1>1, SameFlags
  <2>3. QED BY <1>1, <2>1, <2>2, OneKept
<1>3. ASSUME NEW x \in Chars[c], RxChar(c, x) PROVE Recomputed \/ FlagsKept
  <2>1. \/ UpdateIrq
        \/ ch' = [ch EXCEPT ![c] = Receive(ch[c], x)] /\ ~ch[c].rx_int
           /\ UNCHANGED irq_state
        \/ UNCHANGED <<ch, irq_state>>
    BY <1>3 DEF RxChar
  <2>2. UNCHANGED mie
    BY <1>3 DEF RxChar
  <2>3. ~ch[c].rx_int => Flags(Receive(ch[c], x)) = Flags(ch[c])
    BY <1>1, SameFlags
  <2>4. UNCHANGED <<ch, irq_state>> => FlagsKept
    BY DEF FlagsKept
  <2>5. QED BY <1>1, <2>1, <2>2, <2>3, <2>4, OneKept DEF Recomputed
<1>4. QED BY <1>2, <1>3

LEMMA RecomputedFollows == Recomputed => irq_state' = Asserted'
BY DEF Recomputed, UpdateIrq, Asserted

LEMMA KeptFollows ==
  ASSUME FlagsKept, UNCHANGED mie, irq_state = Asserted
  PROVE  irq_state' = Asserted'
<1>1. \A c \in Channels : Pending(ch'[c]) <=> Pending(ch[c])
  <2> SUFFICES ASSUME NEW c \in Channels PROVE Pending(ch'[c]) <=> Pending(ch[c])
    OBVIOUS
  <2>1. Flags(ch'[c]) = Flags(ch[c])
    BY DEF FlagsKept
  <2>2. QED BY <2>1 DEF Flags, Pending
<1>2. Asserted' = Asserted
  BY <1>1 DEF Asserted
<1>3. QED BY <1>2 DEF FlagsKept

\* The interrupt output is the OR of the pending flags under MIE (scc.c,
\* scc_update_irq): a step keeps it so, unless it changes MIE; and a tick
\* makes it so whatever came before.
THEOREM OutputIsCurrent == Spec => OutputFollows
<1> DEFINE Ticked == \E cycles \in Ticks : Tick(cycles)
           Follows == \/ irq_state' = Asserted'
                      \/ mie' # mie
                      \/ irq_state # Asserted /\ ~Ticked
<1>1. ASSUME Inv, Next PROVE Follows
  <2>1. Ticked => Recomputed
    BY DEF Tick, Recomputed
  <2>2. ASSUME NEW c \in Channels, WriteControl(c) PROVE Recomputed \/ FlagsKept
    BY <1>1, <2>2, GuestByte, WriteWr0Flags, WriteRegisterFlags DEF WriteControl
  <2>3. Recomputed \/ FlagsKept
    BY <1>1, <2>1, <2>2, ReadFlags, EventFlags DEF Next
  <2> HIDE DEF Ticked
  <2>4. QED BY <2>1, <2>3, RecomputedFollows, KeptFollows
<1>2. Inv /\ [Next]_vars => [Follows]_vars
  BY <1>1
<1>3. QED BY <1>2, Invariance, PTL DEF Spec, OutputFollows
=============================================================================
