-------------------------- MODULE InterBoardProofs --------------------------
(***************************************************************************)
(* Proofs about InterBoard, for FIFOs of any capacity and any number of    *)
(* bytes: in both directions bytes arrive in order, none twice, none made  *)
(* up.  The invariant says where in a cycle of accesses the main firmware  *)
(* is, and what the VIA holds there; the main loop may run the other board *)
(* and refresh the pins between any two accesses.                          *)
(***************************************************************************)
EXTENDS InterBoard, SequenceTheorems, TLAPS

-----------------------------------------------------------------------------
(* Sequences of bytes.                                                     *)

LEMMA HeadAndTail ==
  ASSUME NEW S, NEW s \in Seq(S), s # <<>>
  PROVE  /\ Len(s) \in Nat \ {0} /\ Head(s) = s[1]
         /\ Tail(s) \in Seq(S) /\ Len(Tail(s)) = Len(s) - 1
         /\ \A i \in 1 .. Len(s) - 1 : Tail(s)[i] = s[i + 1]
OBVIOUS

LEMMA EmptyIsLengthZero ==
  ASSUME NEW S, NEW s \in Seq(S)
  PROVE  Len(s) \in Nat /\ (s = <<>> <=> Len(s) = 0)
OBVIOUS

LEMMA RisingAppend ==
  ASSUME NEW s \in Seq(Nat), NEW b \in Nat, Rising(s),
         \A i \in DOMAIN s : s[i] < b
  PROVE  /\ Append(s, b) \in Seq(Nat)
         /\ Rising(Append(s, b))
         /\ Elements(Append(s, b)) = Elements(s) \cup {b}
<1>1. /\ Append(s, b) \in Seq(Nat) /\ Len(Append(s, b)) = Len(s) + 1
      /\ Append(s, b)[Len(s) + 1] = b
      /\ \A i \in 1 .. Len(s) : Append(s, b)[i] = s[i]
      /\ DOMAIN s = 1 .. Len(s) /\ Len(s) \in Nat
      /\ DOMAIN Append(s, b) = 1 .. Len(s) + 1
  OBVIOUS
<1>2. Rising(Append(s, b))
  BY <1>1 DEF Rising
<1>3. Elements(Append(s, b)) = Elements(s) \cup {b}
  BY <1>1 DEF Elements
<1>4. QED BY <1>1, <1>2, <1>3

LEMMA RisingTail ==
  ASSUME NEW s \in Seq(Nat), s # <<>>, Rising(s)
  PROVE  /\ Tail(s) \in Seq(Nat) /\ Head(s) \in Nat
         /\ Rising(Tail(s))
         /\ Elements(Tail(s)) \subseteq Elements(s)
         /\ Head(s) \in Elements(s)
         /\ \A b \in Elements(Tail(s)) : Head(s) < b
<1>1. /\ Tail(s) \in Seq(Nat) /\ Len(Tail(s)) = Len(s) - 1
      /\ \A i \in 1 .. Len(s) - 1 : Tail(s)[i] = s[i + 1]
      /\ DOMAIN s = 1 .. Len(s) /\ Len(s) \in Nat \ {0}
      /\ DOMAIN Tail(s) = 1 .. Len(s) - 1
      /\ Head(s) = s[1] /\ Head(s) \in Nat
  OBVIOUS
<1>2. \A i \in 1 .. Len(s) - 1 : i + 1 \in 1 .. Len(s) /\ 1 < i + 1
  BY <1>1
<1>3. Rising(Tail(s))
  BY <1>1, <1>2 DEF Rising
<1>4. Elements(Tail(s)) \subseteq Elements(s) /\ Head(s) \in Elements(s)
  BY <1>1, <1>2 DEF Elements
<1>5. \A b \in Elements(Tail(s)) : Head(s) < b
  BY <1>1, <1>2 DEF Elements, Rising
<1>6. QED BY <1>1, <1>3, <1>4, <1>5

LEMMA RisingConcat ==
  ASSUME NEW s \in Seq(Nat), NEW t \in Seq(Nat), Rising(s), Rising(t),
         \A a \in Elements(s), b \in Elements(t) : a < b
  PROVE  Rising(s \o t)
<1>1. /\ DOMAIN s = 1 .. Len(s) /\ DOMAIN t = 1 .. Len(t)
      /\ Len(s) \in Nat /\ Len(t) \in Nat
      /\ DOMAIN (s \o t) = 1 .. Len(s) + Len(t)
      /\ \A i \in 1 .. Len(s) + Len(t) :
           (s \o t)[i] = IF i <= Len(s) THEN s[i] ELSE t[i - Len(s)]
  OBVIOUS
<1>2. SUFFICES ASSUME NEW i \in 1 .. Len(s) + Len(t),
                      NEW j \in 1 .. Len(s) + Len(t), i < j
               PROVE  (s \o t)[i] < (s \o t)[j]
  BY <1>1 DEF Rising
<1>3. CASE j <= Len(s)
  <2>1. i \in DOMAIN s /\ j \in DOMAIN s
    BY <1>1, <1>2, <1>3
  <2>2. s[i] < s[j]
    BY <1>2, <2>1 DEF Rising
  <2>3. QED BY <1>1, <1>2, <1>3, <2>2
<1>4. CASE i > Len(s)
  <2>1. i - Len(s) \in DOMAIN t /\ j - Len(s) \in DOMAIN t
        /\ i - Len(s) < j - Len(s)
    BY <1>1, <1>2, <1>4
  <2>2. t[i - Len(s)] < t[j - Len(s)]
    BY <2>1 DEF Rising
  <2>3. QED BY <1>1, <1>2, <1>4, <2>2
<1>5. CASE i <= Len(s) /\ j > Len(s)
  <2>1. i \in DOMAIN s /\ j - Len(s) \in DOMAIN t
    BY <1>1, <1>2, <1>5
  <2>2. s[i] \in Elements(s) /\ t[j - Len(s)] \in Elements(t)
    BY <2>1, Zenon DEF Elements
  <2>3. QED BY <1>1, <1>2, <1>5, <2>2
<1>6. QED BY <1>1, <1>2, <1>3, <1>4, <1>5

\* Moving the head of one sequence to the end of another.
LEMMA MoveHead ==
  ASSUME NEW s \in Seq(Nat), NEW t \in Seq(Nat), t # <<>>
  PROVE  Append(s, Head(t)) \o Tail(t) = s \o t
<1> DEFINE l == Append(s, Head(t)) \o Tail(t)
           r == s \o t
<1>1. /\ l \in Seq(Nat) /\ r \in Seq(Nat)
      /\ Len(l) = Len(s) + Len(t) /\ Len(r) = Len(s) + Len(t)
  OBVIOUS
<1>2. \A i \in 1 .. Len(s) + Len(t) : l[i] = r[i]
  OBVIOUS
<1>3. QED BY <1>1, <1>2, SeqEqual

LEMMA ConcatAppend ==
  ASSUME NEW s \in Seq(Nat), NEW t \in Seq(Nat), NEW b \in Nat
  PROVE  s \o Append(t, b) = Append(s \o t, b)
<1> DEFINE l == s \o Append(t, b)
           r == Append(s \o t, b)
<1>1. /\ l \in Seq(Nat) /\ r \in Seq(Nat)
      /\ Len(l) = Len(s) + Len(t) + 1 /\ Len(r) = Len(s) + Len(t) + 1
  OBVIOUS
<1>2. \A i \in 1 .. Len(s) + Len(t) + 1 : l[i] = r[i]
  OBVIOUS
<1>3. QED BY <1>1, <1>2, SeqEqual
-----------------------------------------------------------------------------
(* The inductive invariant.                                                *)

Op == {Input, Output, Idle, Fetch} \cup {Clear(i) : i \in 2 .. 7}
        \cup {Store(b) : b \in 0 .. Config}

\* What is left to do is the end of a cycle.
Within(cycle) == \A i \in 1 .. Len(todo) : todo[i] = cycle[6 - Len(todo) + i]

\* A byte that may stand in for the next one of a queue behind the main
\* firmware: newer than those it has seen, older than those that wait.
Fits(b) ==
  \/ b = Zero
  \/ /\ b \in 1 .. replied
     /\ \A a \in Elements(seen) : a < b
     /\ \A c \in Elements(to_main) : b < c

Direction(dir, from) == Len(todo) <= from => ddra = dir

\* A status read, to its end.
PollInv ==
  /\ Within(ReadCycle(6))
  /\ Direction("in", 5)
  /\ todo = <<>> => cleared = {}

\* The transmit and receive registers are addressed by bit 7 alone.
DataAddress ==
  /\ cleared \cap {5, 6} = {}
  /\ Len(todo) \in 1 .. 4 => 7 \in cleared

\* Writing a byte: it is the last one sent.
SendInv ==
  /\ Within(WriteCycle(7, sent))
  /\ sent \in 1 .. MaxSends
  /\ Direction("out", 5)
  /\ Len(todo) <= 4 => ora = sent
  /\ cleared \cap {5, 6} = {}
  /\ Len(todo) \in 1 .. 3 => 7 \in cleared

\* Reading one: from the moment the register is addressed the pins hold a
\* byte in its place between those seen and those queued, and after the fetch
\* the firmware does.
ReceiveInv ==
  /\ Within(ReadCycle(7))
  /\ Direction("in", 5)
  /\ DataAddress
  /\ Len(todo) \in 2 .. 4 => \E b \in Nat : pa = Byte(b) /\ Fits(b)
  /\ Len(todo) <= 1 => \E b \in Nat : got = Byte(b) /\ Fits(b)

\* Writing another register: bit 6 is among those that address it.
ConfigureInv ==
  /\ Within(WriteCycle(6, Config))
  /\ Len(todo) \in 1 .. 3 => 6 \in cleared

FirmwareInv ==
  /\ goal \in {"none", "send", "receive", "configure"}
  /\ polled \in BOOLEAN
  /\ todo \in Seq(Op)
  /\ Len(todo) <= 6
  /\ goal = "none" => todo = <<>>
  /\ goal \in {"send", "receive"} /\ ~polled => PollInv
  /\ goal = "send" /\ ~polled => sent < MaxSends
  /\ goal = "send" /\ polled => SendInv
  /\ goal = "receive" /\ polled => ReceiveInv
  /\ goal = "configure" => polled /\ ConfigureInv

Sending == goal = "send" /\ polled /\ todo # <<>>

ToIoInv ==
  /\ sent \in 0 .. MaxSends
  /\ received \in Seq(Nat) /\ to_io \in Seq(Nat)
  /\ SentOnce

ToMainInv ==
  /\ replied \in 0 .. MaxReplies
  /\ seen \in Seq(Nat) /\ to_main \in Seq(Nat)
  /\ Rising(seen) /\ Rising(to_main)
  /\ Elements(seen) \subseteq 1 .. replied
  /\ Elements(to_main) \subseteq 1 .. replied
  /\ \A a \in Elements(seen), b \in Elements(to_main) : a < b

IInv == FirmwareInv /\ ToIoInv /\ ToMainInv
-----------------------------------------------------------------------------
(* The FIFO to the main board.                                             *)

LEMMA ElementsNat ==
  ASSUME NEW s \in Seq(Nat)
  PROVE  Elements(s) \subseteq Nat
BY DEF Elements

LEMMA QueueTypes ==
  ASSUME ToMainInv
  PROVE  /\ replied \in Nat
         /\ Elements(seen) \subseteq Nat /\ Elements(to_main) \subseteq Nat
         /\ 1 .. replied \subseteq Nat
BY BoundsAssumption, ElementsNat DEF ToMainInv

\* Refreshing the pins takes at most the head of the FIFO, which fits.
LEMMA PinsMove ==
  ASSUME ToMainInv, UNCHANGED <<seen, replied>>,
         UNCHANGED to_main \/ FetchToPins
  PROVE  /\ ToMainInv'
         /\ \A b \in Nat : Fits(b) => Fits(b)'
         /\ FetchToPins => \E b \in Nat : pa' = Byte(b) /\ Fits(b)'
<1>1. CASE UNCHANGED to_main /\ ~FetchToPins
  BY <1>1 DEF ToMainInv, Fits
<1>2. CASE FetchToPins /\ to_main = <<>>
  <2>1. to_main' = to_main /\ pa' = Byte(Zero)
    BY <1>2 DEF FetchToPins
  <2>2. Zero \in Nat
    BY DEF Zero
  <2>3. QED BY <2>1, <2>2 DEF ToMainInv, Fits
<1>3. CASE FetchToPins /\ to_main # <<>>
  <2>1. to_main' = Tail(to_main) /\ pa' = Byte(Head(to_main))
    BY <1>3 DEF FetchToPins
  <2>2. /\ Tail(to_main) \in Seq(Nat) /\ Head(to_main) \in Nat
        /\ Rising(Tail(to_main))
        /\ Elements(Tail(to_main)) \subseteq Elements(to_main)
        /\ Head(to_main) \in Elements(to_main)
        /\ \A b \in Elements(Tail(to_main)) : Head(to_main) < b
    BY <1>3, RisingTail DEF ToMainInv
  <2>3. ToMainInv'
    BY <2>1, <2>2 DEF ToMainInv
  <2>4. \A b \in Nat : Fits(b) => Fits(b)'
    BY <2>1, <2>2 DEF Fits
  <2>5. \E b \in Nat : b = Head(to_main) /\ Fits(b)'
    <3>1. \A b \in Nat : b = Head(to_main) => Fits(b)'
      <4> SUFFICES ASSUME NEW b \in Nat, b = Head(to_main)
                   PROVE  Fits(b)'
        OBVIOUS
      <4>1. b \in 1 .. replied /\ \A a \in Elements(seen) : a < b
        BY <2>2 DEF ToMainInv
      <4>2. \A c \in Elements(to_main') : b < c
        BY <2>1, <2>2
      <4>3. Elements(to_main)' = Elements(to_main')
        BY DEF Elements
      <4>4. QED BY <4>1, <4>2, <4>3 DEF Fits
    <3>2. QED BY <2>2, <3>1
  <2>6. QED BY <2>1, <2>2, <2>3, <2>4, <2>5
<1>4. QED BY <1>1, <1>2, <1>3

-----------------------------------------------------------------------------
(* The FIFO to the IO board.                                               *)

LEMMA NothingForwarded ==
  ASSUME ToIoInv, UNCHANGED <<to_io, dropped, received, sent>>,
         Sending' <=> Sending
  PROVE  ToIoInv'
BY DEF ToIoInv, SentOnce, Sending

\* The byte sent last reaches the FIFO, or meets it full.
LEMMA LastForwarded ==
  ASSUME ToIoInv, Sending, ~Sending', sent \in 1 .. MaxSends,
         to_io' = Offer(to_io, sent),
         dropped' = IF Len(to_io) >= Capacity THEN dropped \cup {sent}
                                              ELSE dropped,
         UNCHANGED <<received, sent>>
  PROVE  ToIoInv'
<1> DEFINE queued == received \o to_io
<1>1. /\ queued \in Seq(Nat) /\ sent \in Nat /\ sent > 0
      /\ to_io \in Seq(Nat) /\ received \in Seq(Nat)
      /\ Len(to_io) \in Nat /\ Capacity \in Nat
  BY BoundsAssumption DEF ToIoInv
<1>2. /\ Rising(queued)
      /\ Elements(queued) \cup dropped = 1 .. sent - 1
      /\ Elements(queued) \cap dropped = {}
  BY DEF ToIoInv, SentOnce, Sending
<1>3. 1 .. sent = (1 .. sent - 1) \cup {sent} /\ sent \notin 1 .. sent - 1
  BY <1>1
<1>4. CASE Len(to_io) >= Capacity
  <2>1. to_io' = to_io /\ dropped' = dropped \cup {sent}
    BY <1>1, <1>4 DEF Offer
  <2>2. received' \o to_io' = queued
    BY <2>1
  <2> HIDE DEF queued
  <2>3. SentOnce'
    BY <1>2, <1>3, <2>1, <2>2 DEF SentOnce, Sending
  <2>4. QED BY <1>1, <2>1, <2>3 DEF ToIoInv
<1>5. CASE Len(to_io) < Capacity
  <2>1. to_io' = Append(to_io, sent) /\ dropped' = dropped
    BY <1>1, <1>5 DEF Offer
  <2>2. received' \o to_io' = Append(queued, sent)
    BY <1>1, <2>1, ConcatAppend
  <2>3. to_io' \in Seq(Nat)
    BY <1>1, <2>1
  <2> HIDE DEF queued
  <2>4. \A i \in DOMAIN queued : queued[i] < sent
    <3>1. Elements(queued) \subseteq 1 .. sent - 1
      BY <1>2
    <3>2. \A i \in DOMAIN queued : queued[i] \in 1 .. sent - 1
      BY <3>1 DEF Elements
    <3>3. QED BY <1>1, <3>2
  <2>5. /\ Rising(Append(queued, sent))
        /\ Elements(Append(queued, sent)) = Elements(queued) \cup {sent}
    BY <1>1, <1>2, <2>4, RisingAppend
  <2>6. SentOnce'
    BY <1>2, <1>3, <2>1, <2>2, <2>5 DEF SentOnce, Sending
  <2>7. QED BY <1>1, <2>3, <2>6 DEF ToIoInv
<1>6. QED BY <1>1, <1>4, <1>5

-----------------------------------------------------------------------------
(* One access of a cycle.                                                  *)

LEMMA RegisterAddressed ==
  ASSUME NEW bits
  PROVE  /\ 7 \in bits /\ bits \cap {5, 6} = {} => Register(bits) = 3
         /\ 6 \in bits => Register(bits) # 3
BY DEF Register

\* What an access finds at the head of the cycle, and what it leaves.
LEMMA AccessTakesHead ==
  ASSUME FirmwareInv, Access, NEW cycle, Within(cycle)
  PROVE  /\ Len(todo) \in 1 .. 6
         /\ Head(todo) = cycle[7 - Len(todo)]
         /\ todo' \in Seq(Op) /\ Len(todo') = Len(todo) - 1
         /\ \A i \in 1 .. Len(todo') : todo'[i] = cycle[6 - Len(todo') + i]
<1>1. todo \in Seq(Op) /\ Len(todo) <= 6 /\ todo # <<>> /\ todo' = Tail(todo)
  BY DEF FirmwareInv, Access
<1>2. /\ Len(todo) \in 1 .. 6 /\ Head(todo) = todo[1]
      /\ todo' \in Seq(Op) /\ Len(todo') = Len(todo) - 1
      /\ \A i \in 1 .. Len(todo) - 1 : todo'[i] = todo[i + 1]
  <2>1. /\ Len(todo) \in Nat \ {0} /\ Head(todo) = todo[1]
        /\ Tail(todo) \in Seq(Op) /\ Len(Tail(todo)) = Len(todo) - 1
        /\ \A i \in 1 .. Len(todo) - 1 : Tail(todo)[i] = todo[i + 1]
    BY <1>1, HeadAndTail, Zenon
  <2>2. Len(todo) \in 1 .. 6
    <3>1. PICK n : n = Len(todo) /\ n \in Nat \ {0} /\ n <= 6
      BY <1>1, <2>1, Zenon
    <3>2. n \in 1 .. 6
      BY <3>1
    <3> QED BY <3>1, <3>2, Zenon
  <2>3. QED BY <1>1, <2>1, <2>2, Zenon
<1>3. Head(todo) = cycle[7 - Len(todo)]
  BY <1>2 DEF Within
<1>4. ASSUME NEW i \in 1 .. Len(todo')
      PROVE  todo'[i] = cycle[6 - Len(todo') + i]
  <2>1. /\ i + 1 \in 1 .. Len(todo) /\ i \in 1 .. Len(todo) - 1
        /\ 6 - Len(todo) + (i + 1) = 6 - Len(todo') + i
    BY <1>2
  <2>2. QED BY <1>2, <2>1 DEF Within
<1>5. QED BY <1>2, <1>3, <1>4

LEMMA AccessShortens ==
  ASSUME FirmwareInv, Access, NEW cycle, Within(cycle)
  PROVE  todo' \in Seq(Op) /\ Len(todo') <= 6 /\ Len(todo) \in 1 .. 6
           /\ Len(todo') = Len(todo) - 1 /\ (todo' = <<>> <=> Len(todo) = 1)
           /\ todo # <<>>
<1>1. todo' \in Seq(Op)
  BY AccessTakesHead, Zenon
<1>2. Len(todo) \in 1 .. 6 /\ Len(todo') = Len(todo) - 1
  BY AccessTakesHead, Zenon
<1>3. todo' = <<>> <=> Len(todo') = 0
  BY <1>1, EmptyIsLengthZero, Zenon
<1>4. Len(todo') <= 6 /\ (Len(todo') = 0 <=> Len(todo) = 1)
  <2>1. \A n \in 1 .. 6 : n - 1 <= 6 /\ (n - 1 = 0 <=> n = 1)
    OBVIOUS
  <2>2. QED BY <1>2, <2>1, Zenon
<1>5. todo # <<>>
  BY DEF Access
<1>6. QED BY <1>1, <1>2, <1>3, <1>4, <1>5, Zenon

\* The access the cycle prescribes is the one made.
LEMMA ReadCycleAccess ==
  ASSUME FirmwareInv, Access, NEW a \in 2 .. 7, Within(ReadCycle(a))
  PROVE  /\ Len(todo) = 6 => WriteDdra("in")
         /\ Len(todo) = 5 => WriteOrb(cleared \cup {a})
         /\ Len(todo) = 4 => WriteOrb(cleared \cup {2})
         /\ Len(todo) = 3 => WriteOrb(cleared \cup {3})
         /\ Len(todo) = 2 => ReadOraNoHandshake
         /\ Len(todo) = 1 => WriteOrb({})
<1>1. \A n \in 1 .. 6 : Len(todo) = n => Head(todo) = ReadCycle(a)[7 - n]
  BY AccessTakesHead, Zenon
<1>2. /\ ReadCycle(a)[1] = Input /\ ReadCycle(a)[2] = Clear(a)
      /\ ReadCycle(a)[3] = Clear(2) /\ ReadCycle(a)[4] = Clear(3)
      /\ ReadCycle(a)[5] = Fetch /\ ReadCycle(a)[6] = Idle
  BY DEF ReadCycle
<1>3. /\ Len(todo) = 6 => Head(todo) = Input
      /\ Len(todo) = 5 => Head(todo) = Clear(a)
      /\ Len(todo) = 4 => Head(todo) = Clear(2)
      /\ Len(todo) = 3 => Head(todo) = Clear(3)
      /\ Len(todo) = 2 => Head(todo) = Fetch
      /\ Len(todo) = 1 => Head(todo) = Idle
  <2>1. /\ 7 - 6 = 1 /\ 7 - 5 = 2 /\ 7 - 4 = 3 /\ 7 - 3 = 4 /\ 7 - 2 = 5 /\ 7 - 1 = 6
        /\ {1, 2, 3, 4, 5, 6} \subseteq 1 .. 6
    OBVIOUS
  <2>2. QED BY <1>1, <1>2, <2>1, Zenon
<1>4. Head(todo) = Input => WriteDdra("in")
  BY DEF Access, Input
<1>5. ASSUME NEW i \in 2 .. 7, Head(todo) = Clear(i)
      PROVE  WriteOrb(cleared \cup {i})
  <2>1. Head(todo).op = "clear" /\ Head(todo).bit = i
    BY <1>5 DEF Clear
  <2>2. QED BY <2>1, Zenon DEF Access
<1>6. Head(todo) = Fetch => ReadOraNoHandshake
  BY DEF Access, Fetch
<1>7. Head(todo) = Idle => WriteOrb({})
  BY DEF Access, Idle
<1>8. QED BY <1>3, <1>4, <1>5, <1>6, <1>7

LEMMA WriteCycleAccess ==
  ASSUME FirmwareInv, Access, NEW a \in 2 .. 7, NEW b, Within(WriteCycle(a, b))
  PROVE  /\ Len(todo) = 6 => WriteDdra("out")
         /\ Len(todo) = 5 => WriteOraNoHandshake(b)
         /\ Len(todo) = 4 => WriteOrb(cleared \cup {a})
         /\ Len(todo) = 3 => WriteOrb(cleared \cup {2})
         /\ Len(todo) = 2 => WriteOrb(cleared \cup {4})
         /\ Len(todo) = 1 => WriteOrb({})
<1>1. \A n \in 1 .. 6 : Len(todo) = n => Head(todo) = WriteCycle(a, b)[7 - n]
  BY AccessTakesHead, Zenon
<1>2. /\ WriteCycle(a, b)[1] = Output /\ WriteCycle(a, b)[2] = Store(b)
      /\ WriteCycle(a, b)[3] = Clear(a) /\ WriteCycle(a, b)[4] = Clear(2)
      /\ WriteCycle(a, b)[5] = Clear(4) /\ WriteCycle(a, b)[6] = Idle
  BY DEF WriteCycle
<1>3. /\ Len(todo) = 6 => Head(todo) = Output
      /\ Len(todo) = 5 => Head(todo) = Store(b)
      /\ Len(todo) = 4 => Head(todo) = Clear(a)
      /\ Len(todo) = 3 => Head(todo) = Clear(2)
      /\ Len(todo) = 2 => Head(todo) = Clear(4)
      /\ Len(todo) = 1 => Head(todo) = Idle
  <2>1. /\ 7 - 6 = 1 /\ 7 - 5 = 2 /\ 7 - 4 = 3 /\ 7 - 3 = 4 /\ 7 - 2 = 5 /\ 7 - 1 = 6
        /\ {1, 2, 3, 4, 5, 6} \subseteq 1 .. 6
    OBVIOUS
  <2>2. QED BY <1>1, <1>2, <2>1, Zenon
<1>4. Head(todo) = Output => WriteDdra("out")
  BY DEF Access, Output
<1>5. ASSUME NEW i \in 2 .. 7, Head(todo) = Clear(i)
      PROVE  WriteOrb(cleared \cup {i})
  <2>1. Head(todo).op = "clear" /\ Head(todo).bit = i
    BY <1>5 DEF Clear
  <2>2. QED BY <2>1, Zenon DEF Access
<1>6. Head(todo) = Store(b) => WriteOraNoHandshake(b)
  BY DEF Access, Store
<1>7. Head(todo) = Idle => WriteOrb({})
  BY DEF Access, Idle
<1>8. QED BY <1>3, <1>4, <1>5, <1>6, <1>7
LEMMA WriteOrbEffect ==
  ASSUME NEW bits, WriteOrb(bits)
  PROVE  /\ cleared' = bits /\ UNCHANGED <<ddra, ora, got>>
         /\ UNCHANGED to_main \/ FetchToPins
         /\ ddra = "in" /\ Register(bits) = 3 => FetchToPins
         /\ ~CycleSends(bits) => UNCHANGED <<to_io, dropped>>
         /\ CycleSends(bits)
              => /\ to_io' = Offer(to_io, ora)
                 /\ dropped' = IF Len(to_io) >= Capacity THEN dropped \cup {ora}
                                                         ELSE dropped
BY DEF WriteOrb, PinsAfterWrite

LEMMA OtherAccessEffect ==
  /\ \A dir : WriteDdra(dir)
       => /\ ddra' = dir
          /\ UNCHANGED <<cleared, ora, pa, got, to_io, to_main, dropped>>
  /\ \A b : WriteOraNoHandshake(b)
       => /\ ora' = b
          /\ UNCHANGED <<cleared, ddra, pa, got, to_io, to_main, dropped>>
  /\ ReadOraNoHandshake
       => /\ got' = IF ddra = "in" THEN pa ELSE Byte(ora)
          /\ UNCHANGED <<cleared, ddra, ora, pa, to_io, to_main, dropped>>
BY DEF WriteDdra, WriteOraNoHandshake, ReadOraNoHandshake

LEMMA AccessFrame ==
  ASSUME Access
  PROVE  /\ UNCHANGED <<goal, polled, sent, received, replied, seen>>
         /\ UNCHANGED to_main \/ FetchToPins
<1>1. UNCHANGED <<goal, polled, sent, received, replied, seen>>
  BY DEF Access
<1>2. \A bits : WriteOrb(bits) => UNCHANGED to_main \/ FetchToPins
  BY WriteOrbEffect
<1>3. UNCHANGED to_main \/ FetchToPins
  BY <1>2, OtherAccessEffect DEF Access
<1>4. QED BY <1>1, <1>3

\* An access of a read cycle forwards nothing, and its last one leaves the
\* address bits idle.
LEMMA ReadCycleEffect ==
  ASSUME FirmwareInv, Access, NEW a \in 2 .. 7, Within(ReadCycle(a)),
         Direction("in", 5)
  PROVE  /\ Within(ReadCycle(a))'
         /\ Direction("in", 5)'
         /\ todo' = <<>> => cleared' = {}
         /\ UNCHANGED <<to_io, dropped>>
<1>1. /\ Len(todo) \in 1 .. 6
      /\ todo' \in Seq(Op) /\ Len(todo') = Len(todo) - 1
      /\ \A i \in 1 .. Len(todo') : todo'[i] = ReadCycle(a)[6 - Len(todo') + i]
  BY AccessTakesHead
<1>2. Within(ReadCycle(a))'
  BY <1>1 DEF Within, ReadCycle, Input, Clear, Fetch, Idle
<1>3. /\ Len(todo) = 6 => WriteDdra("in")
      /\ Len(todo) = 5 => WriteOrb(cleared \cup {a})
      /\ Len(todo) = 4 => WriteOrb(cleared \cup {2})
      /\ Len(todo) = 3 => WriteOrb(cleared \cup {3})
      /\ Len(todo) = 2 => ReadOraNoHandshake
      /\ Len(todo) = 1 => WriteOrb({})
  BY ReadCycleAccess
<1>4. Len(todo) <= 5 => ddra = "in"
  BY DEF Direction
<1>5. ddra' = "in"
  BY <1>1, <1>3, <1>4, WriteOrbEffect, OtherAccessEffect
<1>6. todo' = <<>> => cleared' = {}
  BY <1>1, <1>3, WriteOrbEffect
<1>7. ASSUME NEW bits, WriteOrb(bits), bits # {} \/ ddra = "in"
      PROVE  UNCHANGED <<to_io, dropped>>
  BY <1>7, WriteOrbEffect DEF CycleSends
<1>8. UNCHANGED <<to_io, dropped>>
  BY <1>1, <1>3, <1>4, <1>7, OtherAccessEffect
<1>9. QED BY <1>2, <1>5, <1>6, <1>8 DEF Direction

LEMMA PollAccess ==
  ASSUME IInv, Access, goal \in {"send", "receive"}, ~polled
  PROVE  IInv'
<1>1. FirmwareInv /\ PollInv /\ ToIoInv /\ ToMainInv
  BY DEF IInv, FirmwareInv
<1>2. UNCHANGED <<goal, polled, sent, received, replied, seen>>
  BY AccessFrame
<1>3. PollInv' /\ UNCHANGED <<to_io, dropped>>
  BY <1>1, ReadCycleEffect DEF PollInv
<1>4. todo' \in Seq(Op) /\ Len(todo') <= 6
  BY <1>1, AccessShortens, Zenon DEF PollInv
<1>5. FirmwareInv'
  BY <1>1, <1>2, <1>3, <1>4, Zenon DEF FirmwareInv
<1>6. ToIoInv'
  BY <1>1, <1>2, <1>3, NothingForwarded DEF Sending
<1>7. ToMainInv'
  BY <1>1, <1>2, AccessFrame, PinsMove
<1>8. QED BY <1>5, <1>6, <1>7 DEF IInv
LEMMA ReceiveAccess ==
  ASSUME IInv, Access, goal = "receive", polled
  PROVE  IInv'
<1>1. FirmwareInv /\ ReceiveInv /\ ToIoInv /\ ToMainInv
  BY DEF IInv, FirmwareInv
<1>2. UNCHANGED <<goal, polled, sent, received, replied, seen>>
  BY AccessFrame
<1>3. /\ Within(ReadCycle(7))' /\ Direction("in", 5)'
      /\ UNCHANGED <<to_io, dropped>>
  BY <1>1, ReadCycleEffect DEF ReceiveInv
<1>4. /\ todo' \in Seq(Op) /\ Len(todo') <= 6
      /\ Len(todo) \in 1 .. 6 /\ Len(todo') = Len(todo) - 1
  BY <1>1, AccessShortens, Zenon DEF ReceiveInv
<1>5. /\ Len(todo) = 6 => WriteDdra("in")
      /\ Len(todo) = 5 => WriteOrb(cleared \cup {7})
      /\ Len(todo) = 4 => WriteOrb(cleared \cup {2})
      /\ Len(todo) = 3 => WriteOrb(cleared \cup {3})
      /\ Len(todo) = 2 => ReadOraNoHandshake
      /\ Len(todo) = 1 => WriteOrb({})
  BY <1>1, ReadCycleAccess DEF ReceiveInv
<1>6. /\ Len(todo) <= 5 => ddra = "in"
      /\ cleared \cap {5, 6} = {} /\ (Len(todo) \in 1 .. 4 => 7 \in cleared)
  BY <1>1 DEF ReceiveInv, Direction, DataAddress
<1>7. /\ ToMainInv'
      /\ \A b \in Nat : Fits(b) => Fits(b)'
      /\ FetchToPins => \E b \in Nat : pa' = Byte(b) /\ Fits(b)'
  BY <1>1, <1>2, AccessFrame, PinsMove
<1>8. DataAddress'
  <2>1. CASE Len(todo) = 6
    BY <1>4, <1>5, <1>6, <2>1, OtherAccessEffect DEF DataAddress
  <2>2. CASE Len(todo) = 2
    BY <1>4, <1>5, <1>6, <2>2, OtherAccessEffect DEF DataAddress
  <2>3. CASE Len(todo) = 1
    BY <1>4, <1>5, <2>3, WriteOrbEffect DEF DataAddress
  <2>4. CASE Len(todo) \in {3, 4, 5}
    <3>1. \A i \in {2, 3, 7} : WriteOrb(cleared \cup {i}) => cleared' = cleared \cup {i}
      BY WriteOrbEffect
    <3>2. QED BY <1>4, <1>5, <1>6, <2>4, <3>1 DEF DataAddress
  <2>5. QED BY <1>4, <2>1, <2>2, <2>3, <2>4
<1>9. Len(todo) \in {3, 4, 5} => FetchToPins
  <2>1. ASSUME NEW i \in {2, 3, 7}, WriteOrb(cleared \cup {i}), ddra = "in",
               7 \in cleared \/ i = 7
        PROVE  FetchToPins
    <3>1. Register(cleared \cup {i}) = 3
      <4>1. 7 \in cleared \cup {i} /\ (cleared \cup {i}) \cap {5, 6} = {}
        BY <1>6, <2>1
      <4>2. QED BY <4>1, RegisterAddressed
    <3>2. QED BY <2>1, <3>1, WriteOrbEffect
  <2>2. CASE Len(todo) = 5
    BY <1>5, <1>6, <2>1, <2>2
  <2>3. CASE Len(todo) = 4
    BY <1>5, <1>6, <2>1, <2>3
  <2>4. CASE Len(todo) = 3
    BY <1>5, <1>6, <2>1, <2>4
  <2>5. QED BY <2>2, <2>3, <2>4
<1>10. Len(todo') \in 2 .. 4 => (\E b \in Nat : pa = Byte(b) /\ Fits(b))'
  <2>1. Len(todo') \in 2 .. 4 => Len(todo) \in {3, 4, 5}
    BY <1>4
  <2>2. QED BY <1>7, <1>9, <2>1
<1>11. Len(todo') <= 1 => (\E b \in Nat : got = Byte(b) /\ Fits(b))'
  <2>1. CASE Len(todo) = 2
    <3>1. \E b \in Nat : pa = Byte(b) /\ Fits(b)
      BY <1>1, <2>1 DEF ReceiveInv
    <3>2. got' = pa
      BY <1>5, <1>6, <2>1, OtherAccessEffect
    <3>3. QED BY <1>7, <3>1, <3>2
  <2>2. CASE Len(todo) = 1
    <3>1. \E b \in Nat : got = Byte(b) /\ Fits(b)
      BY <1>1, <2>2 DEF ReceiveInv
    <3>2. got' = got
      BY <1>5, <2>2, WriteOrbEffect
    <3>3. QED BY <1>7, <3>1, <3>2
  <2>3. QED BY <1>4, <2>1, <2>2
<1>12. ReceiveInv'
  BY <1>3, <1>8, <1>10, <1>11 DEF ReceiveInv
<1>13. FirmwareInv'
  BY <1>1, <1>2, <1>4, <1>12, Zenon DEF FirmwareInv
<1>14. ToIoInv'
  BY <1>1, <1>2, <1>3, NothingForwarded DEF Sending
<1>15. QED BY <1>7, <1>13, <1>14 DEF IInv

\* The accesses of a write cycle, but for the last, forward nothing.
LEMMA WriteCycleEffect ==
  ASSUME FirmwareInv, Access, NEW a \in 2 .. 7, NEW b, Within(WriteCycle(a, b)),
         Len(todo) # 1
  PROVE  UNCHANGED <<to_io, dropped>>
<1>1. Len(todo) \in 1 .. 6
  BY AccessShortens, Zenon
<1>2. /\ Len(todo) = 6 => WriteDdra("out")
      /\ Len(todo) = 5 => WriteOraNoHandshake(b)
      /\ Len(todo) = 4 => WriteOrb(cleared \cup {a})
      /\ Len(todo) = 3 => WriteOrb(cleared \cup {2})
      /\ Len(todo) = 2 => WriteOrb(cleared \cup {4})
  BY WriteCycleAccess
<1>3. \A i : WriteOrb(cleared \cup {i}) => UNCHANGED <<to_io, dropped>>
  BY WriteOrbEffect DEF CycleSends
<1>4. QED BY <1>1, <1>2, <1>3, OtherAccessEffect

LEMMA SendAccess ==
  ASSUME IInv, Access, goal = "send", polled
  PROVE  IInv'
<1>1. FirmwareInv /\ SendInv /\ ToIoInv /\ ToMainInv
  BY DEF IInv, FirmwareInv
<1>2. UNCHANGED <<goal, polled, sent, received, replied, seen>>
  BY AccessFrame
<1>3. /\ Len(todo) \in 1 .. 6
      /\ todo' \in Seq(Op) /\ Len(todo') = Len(todo) - 1
      /\ \A i \in 1 .. Len(todo') :
           todo'[i] = WriteCycle(7, sent)[6 - Len(todo') + i]
  BY <1>1, AccessTakesHead DEF SendInv
<1>4. Within(WriteCycle(7, sent))'
  BY <1>2, <1>3 DEF Within, WriteCycle, Output, Store, Clear, Idle
<1>5. /\ Len(todo) = 6 => WriteDdra("out")
      /\ Len(todo) = 5 => WriteOraNoHandshake(sent)
      /\ Len(todo) = 4 => WriteOrb(cleared \cup {7})
      /\ Len(todo) = 3 => WriteOrb(cleared \cup {2})
      /\ Len(todo) = 2 => WriteOrb(cleared \cup {4})
      /\ Len(todo) = 1 => WriteOrb({})
  <2>1. 7 \in 2 .. 7
    OBVIOUS
  <2>2. QED BY <1>1, <2>1, WriteCycleAccess, Zenon DEF SendInv
<1>6. /\ Len(todo) <= 5 => ddra = "out"
      /\ Len(todo) <= 4 => ora = sent
      /\ cleared \cap {5, 6} = {} /\ (Len(todo) \in 1 .. 3 => 7 \in cleared)
      /\ sent \in 1 .. MaxSends
  BY <1>1 DEF SendInv, Direction
<1>7. /\ todo # <<>> /\ (todo' = <<>> <=> Len(todo) = 1) /\ Len(todo') <= 6
  BY <1>1, AccessShortens, Zenon DEF SendInv
<1>8. /\ Direction("out", 5)' /\ (Len(todo') <= 4 => ora' = sent)
      /\ cleared' \cap {5, 6} = {} /\ (Len(todo') \in 1 .. 3 => 7 \in cleared')
  <2>1. CASE Len(todo) = 6
    BY <1>3, <1>5, <1>6, <2>1, OtherAccessEffect DEF Direction
  <2>2. CASE Len(todo) = 5
    BY <1>3, <1>5, <1>6, <2>2, OtherAccessEffect DEF Direction
  <2>3. CASE Len(todo) = 1
    BY <1>3, <1>5, <1>6, <2>3, WriteOrbEffect DEF Direction
  <2>4. CASE Len(todo) \in {2, 3, 4}
    <3>1. \A i \in {2, 4, 7} : WriteOrb(cleared \cup {i})
             => cleared' = cleared \cup {i} /\ UNCHANGED <<ddra, ora>>
      BY WriteOrbEffect
    <3>2. QED BY <1>3, <1>5, <1>6, <2>4, <3>1 DEF Direction
  <2>5. Len(todo) \in 1 .. 6
    BY <1>3
  <2>6. QED BY <2>1, <2>2, <2>3, <2>4, <2>5
<1>9. SendInv'
  BY <1>2, <1>4, <1>6, <1>8 DEF SendInv
<1>10. FirmwareInv'
  BY <1>1, <1>2, <1>3, <1>7, <1>9, Zenon DEF FirmwareInv
<1>11. ToIoInv'
  <2>1. CASE Len(todo) = 1
    <3>1. CycleSends({})
      BY <1>6, <2>1, RegisterAddressed DEF CycleSends
    <3>2. /\ to_io' = Offer(to_io, sent)
          /\ dropped' = IF Len(to_io) >= Capacity THEN dropped \cup {sent}
                                                  ELSE dropped
      BY <1>5, <1>6, <2>1, <3>1, WriteOrbEffect
    <3>3. Sending /\ ~Sending'
      BY <1>7, <2>1 DEF Sending
    <3>4. QED BY <1>1, <1>2, <1>6, <3>2, <3>3, LastForwarded
  <2>2. CASE Len(todo) # 1
    <3>1. UNCHANGED <<to_io, dropped>>
      BY <1>1, <2>2, WriteCycleEffect DEF SendInv
    <3>2. Sending /\ Sending'
      BY <1>2, <1>7, <2>2 DEF Sending
    <3>3. QED BY <1>1, <1>2, <3>1, <3>2, NothingForwarded
  <2>3. QED BY <2>1, <2>2
<1>12. ToMainInv'
  BY <1>1, <1>2, AccessFrame, PinsMove
<1>13. QED BY <1>10, <1>11, <1>12 DEF IInv

LEMMA ConfigureAccess ==
  ASSUME IInv, Access, goal = "configure"
  PROVE  IInv'
<1>1. FirmwareInv /\ ConfigureInv /\ ToIoInv /\ ToMainInv /\ polled
  BY DEF IInv, FirmwareInv
<1>2. UNCHANGED <<goal, polled, sent, received, replied, seen>>
  BY AccessFrame
<1>3. /\ Len(todo) \in 1 .. 6
      /\ todo' \in Seq(Op) /\ Len(todo') = Len(todo) - 1
      /\ \A i \in 1 .. Len(todo') :
           todo'[i] = WriteCycle(6, Config)[6 - Len(todo') + i]
  BY <1>1, AccessTakesHead DEF ConfigureInv
<1>4. Within(WriteCycle(6, Config))'
  BY <1>3 DEF Within, WriteCycle, Output, Store, Clear, Idle, Config
<1>5. /\ Len(todo) = 6 => WriteDdra("out")
      /\ Len(todo) = 5 => WriteOraNoHandshake(Config)
      /\ Len(todo) = 4 => WriteOrb(cleared \cup {6})
      /\ Len(todo) = 3 => WriteOrb(cleared \cup {2})
      /\ Len(todo) = 2 => WriteOrb(cleared \cup {4})
      /\ Len(todo) = 1 => WriteOrb({})
  BY <1>1, WriteCycleAccess DEF ConfigureInv
<1>6. Len(todo) \in 1 .. 3 => 6 \in cleared
  BY <1>1 DEF ConfigureInv
<1>7. Len(todo') \in 1 .. 3 => 6 \in cleared'
  <2>1. \A i \in {2, 4, 6} : WriteOrb(cleared \cup {i}) => cleared' = cleared \cup {i}
    BY WriteOrbEffect
  <2>2. QED BY <1>3, <1>5, <1>6, <2>1
<1>8. FirmwareInv'
  <2>1. Len(todo') <= 6
    BY <1>1, AccessShortens, Zenon DEF ConfigureInv
  <2>2. ConfigureInv'
    BY <1>4, <1>7 DEF ConfigureInv
  <2>3. QED BY <1>1, <1>2, <1>3, <2>1, <2>2, Zenon DEF FirmwareInv
<1>9. UNCHANGED <<to_io, dropped>>
  <2>1. CASE Len(todo) = 1
    <3>1. ~CycleSends({})
      BY <1>6, <2>1, RegisterAddressed DEF CycleSends
    <3>2. QED BY <1>5, <2>1, <3>1, WriteOrbEffect
  <2>2. CASE Len(todo) # 1
    BY <1>1, <2>2, WriteCycleEffect DEF ConfigureInv
  <2>3. QED BY <2>1, <2>2
<1>10. ToIoInv'
  BY <1>1, <1>2, <1>9, NothingForwarded DEF Sending
<1>11. ToMainInv'
  BY <1>1, <1>2, AccessFrame, PinsMove
<1>12. QED BY <1>8, <1>10, <1>11 DEF IInv
-----------------------------------------------------------------------------
(* Between the cycles.                                                     *)

LEMMA CyclesAreOps ==
  /\ \A a \in 2 .. 7 : ReadCycle(a) \in Seq(Op) /\ Len(ReadCycle(a)) = 6
  /\ \A a \in 2 .. 7, b \in 0 .. Config :
       WriteCycle(a, b) \in Seq(Op) /\ Len(WriteCycle(a, b)) = 6
<1>1. /\ Input \in Op /\ Output \in Op /\ Idle \in Op /\ Fetch \in Op
      /\ \A i \in 2 .. 7 : Clear(i) \in Op
      /\ \A b \in 0 .. Config : Store(b) \in Op
  BY DEF Op
<1>2. 2 \in 2 .. 7 /\ 3 \in 2 .. 7 /\ 4 \in 2 .. 7
  OBVIOUS
<1>3. ASSUME NEW S, NEW u \in S, NEW v \in S, NEW w \in S, NEW x \in S,
             NEW y \in S, NEW z \in S
      PROVE  <<u, v, w, x, y, z>> \in Seq(S) /\ Len(<<u, v, w, x, y, z>>) = 6
  OBVIOUS
<1>4. QED BY <1>1, <1>2, <1>3, Zenon DEF ReadCycle, WriteCycle

\* A cycle that has just begun.
LEMMA WholeCycle ==
  ASSUME NEW cycle, Len(cycle) = 6, todo' = cycle
  PROVE  /\ \A i \in 1 .. Len(todo') : todo'[i] = cycle[6 - Len(todo') + i]
         /\ Len(todo') = 6 /\ Len(todo') <= 6
         /\ ~(Len(todo') <= 5) /\ ~(Len(todo') <= 4) /\ ~(Len(todo') <= 1)
         /\ Len(todo') \notin 1 .. 3 /\ Len(todo') \notin 1 .. 4
         /\ Len(todo') \notin 2 .. 4
<1>1. /\ 6 <= 6 /\ ~(6 <= 5) /\ ~(6 <= 4) /\ ~(6 <= 1)
      /\ 6 \notin 1 .. 3 /\ 6 \notin 1 .. 4 /\ 6 \notin 2 .. 4
      /\ \A i \in 1 .. 6 : 6 - 6 + i = i
  OBVIOUS
<1>2. QED BY <1>1, Zenon

LEMMA BeginPreserves ==
  ASSUME IInv, Begin
  PROVE  IInv'
<1>1. /\ goal' \in {"send", "receive"} /\ polled' = FALSE /\ todo' = ReadCycle(6)
      /\ goal' = "send" => sent < MaxSends
      /\ goal = "none"
  BY DEF Begin
<1>2. UNCHANGED <<to_io, to_main, sent, dropped, received, replied, seen>>
  BY DEF Begin, history
<1>3. ReadCycle(6) \in Seq(Op) /\ Len(ReadCycle(6)) = 6
  BY CyclesAreOps
<1>4. PollInv'
  <2>1. Within(ReadCycle(6))'
    BY <1>1, <1>3, WholeCycle DEF Within, ReadCycle, Input, Clear, Fetch, Idle
  <2>2. Direction("in", 5)'
    BY <1>1, <1>3, WholeCycle DEF Direction
  <2>3. todo' # <<>>
    BY <1>1 DEF ReadCycle
  <2>4. QED BY <2>1, <2>2, <2>3 DEF PollInv
<1>5. Len(todo') <= 6
  BY <1>1, <1>3, WholeCycle, Zenon
<1>6. FirmwareInv'
  BY <1>1, <1>2, <1>3, <1>4, <1>5 DEF FirmwareInv
<1>7. ToIoInv'
  BY <1>1, <1>2, NothingForwarded DEF IInv, Sending
<1>8. ToMainInv'
  BY <1>2 DEF IInv, ToMainInv
<1>9. QED BY <1>6, <1>7, <1>8 DEF IInv

LEMMA ConfigurePreserves ==
  ASSUME IInv, Configure
  PROVE  IInv'
<1>1. /\ goal' = "configure" /\ polled' = TRUE /\ todo' = WriteCycle(6, Config)
      /\ goal = "none"
  BY DEF Configure
<1>2. UNCHANGED <<to_io, to_main, sent, dropped, received, replied, seen>>
  BY DEF Configure, history
<1>3. WriteCycle(6, Config) \in Seq(Op) /\ Len(WriteCycle(6, Config)) = 6
  <2>1. Config \in 0 .. Config
    BY BoundsAssumption DEF Config
  <2>2. QED BY <2>1, CyclesAreOps
<1>4. ConfigureInv'
  <2>1. Within(WriteCycle(6, Config))'
    BY <1>1, <1>3, WholeCycle
    DEF Within, WriteCycle, Output, Store, Clear, Idle, Config
  <2>2. ~(Len(todo') \in 1 .. 3)
    BY <1>1, <1>3, WholeCycle
  <2>3. QED BY <2>1, <2>2 DEF ConfigureInv
<1>5. Len(todo') <= 6
  BY <1>1, <1>3, WholeCycle, Zenon
<1>6. FirmwareInv'
  BY <1>1, <1>2, <1>3, <1>4, <1>5 DEF FirmwareInv
<1>7. ToIoInv'
  BY <1>1, <1>2, NothingForwarded DEF IInv, Sending
<1>8. ToMainInv'
  BY <1>2 DEF IInv, ToMainInv
<1>9. QED BY <1>6, <1>7, <1>8 DEF IInv

LEMMA EndPollPreserves ==
  ASSUME IInv, EndPoll
  PROVE  IInv'
<1>1. /\ FirmwareInv /\ PollInv /\ ToIoInv /\ ToMainInv
      /\ goal \in {"send", "receive"} /\ ~polled /\ todo = <<>>
      /\ goal = "send" => sent < MaxSends
  BY DEF IInv, FirmwareInv, EndPoll
<1>2. /\ cleared = {}
      /\ UNCHANGED <<goal, cleared, to_io, to_main, dropped, received, replied,
                     seen>>
  BY <1>1 DEF PollInv, EndPoll, via
<1>3. /\ ReadCycle(6) \in Seq(Op) /\ Len(ReadCycle(6)) = 6
      /\ ReadCycle(7) \in Seq(Op) /\ Len(ReadCycle(7)) = 6
  BY CyclesAreOps
<1>4. ToMainInv'
  BY <1>1, <1>2 DEF ToMainInv
<1>5. sent \in Nat /\ MaxSends \in Nat
  BY <1>1, BoundsAssumption DEF ToIoInv
<1>6. CASE todo' = ReadCycle(6) /\ UNCHANGED <<polled, sent>>
  <2>1. PollInv'
    <3>1. Within(ReadCycle(6))'
      BY <1>3, <1>6, WholeCycle DEF Within, ReadCycle, Input, Clear, Fetch, Idle
    <3>2. Direction("in", 5)' /\ todo' # <<>>
      BY <1>3, <1>6, WholeCycle DEF Direction, ReadCycle
    <3>3. QED BY <3>1, <3>2 DEF PollInv
  <2>2. Len(todo') <= 6
    BY <1>3, <1>6, WholeCycle, Zenon
  <2>3. FirmwareInv'
    BY <1>1, <1>2, <1>3, <1>6, <2>1, <2>2 DEF FirmwareInv
  <2>4. ToIoInv'
    BY <1>1, <1>2, <1>6, NothingForwarded DEF Sending
  <2>5. QED BY <1>4, <2>3, <2>4 DEF IInv
<1>7. CASE /\ goal = "send" /\ polled' = TRUE
           /\ todo' = WriteCycle(7, sent + 1) /\ sent' = sent + 1
  <2>1. sent + 1 \in 1 .. MaxSends /\ sent + 1 \in 0 .. Config
    BY <1>1, <1>5, <1>7 DEF Config
  <2>2. /\ WriteCycle(7, sent + 1) \in Seq(Op)
        /\ Len(WriteCycle(7, sent + 1)) = 6
    BY <2>1, CyclesAreOps
  <2>3. SendInv'
    <3>1. Within(WriteCycle(7, sent))'
      BY <1>7, <2>2, WholeCycle
      DEF Within, WriteCycle, Output, Store, Clear, Idle
    <3>2. Direction("out", 5)' /\ ~(Len(todo') <= 4) /\ ~(Len(todo') \in 1 .. 3)
      BY <1>7, <2>2, WholeCycle DEF Direction
    <3>3. QED BY <1>2, <1>7, <2>1, <3>1, <3>2 DEF SendInv
  <2>4. Len(todo') <= 6 /\ todo' # <<>>
    BY <1>7, <2>2 DEF WriteCycle
  <2>5. FirmwareInv'
    BY <1>1, <1>2, <1>7, <2>2, <2>3, <2>4 DEF FirmwareInv
  <2>6. ToIoInv'
    <3>1. Sending' /\ ~Sending
      BY <1>1, <1>2, <1>7, <2>4 DEF Sending
    <3>2. sent' - 1 = sent
      BY <1>5, <1>7
    <3>3. SentOnce'
      BY <1>1, <1>2, <3>1, <3>2 DEF ToIoInv, SentOnce, Sending
    <3>4. QED BY <1>1, <1>2, <1>5, <1>7, <2>1, <3>3 DEF ToIoInv
  <2>7. QED BY <1>4, <2>5, <2>6 DEF IInv
<1>8. CASE /\ goal = "receive" /\ polled' = TRUE
           /\ todo' = ReadCycle(7) /\ UNCHANGED sent
  <2>1. ReceiveInv'
    <3>1. Within(ReadCycle(7))'
      BY <1>3, <1>8, WholeCycle DEF Within, ReadCycle, Input, Clear, Fetch, Idle
    <3>2. /\ Direction("in", 5)'
          /\ ~(Len(todo') <= 1) /\ ~(Len(todo') \in 1 .. 4)
          /\ ~(Len(todo') \in 2 .. 4)
      BY <1>3, <1>8, WholeCycle, Zenon DEF Direction
    <3>3. DataAddress'
      BY <1>2, <3>2 DEF DataAddress
    <3>4. QED BY <3>1, <3>2, <3>3 DEF ReceiveInv
  <2>2. Len(todo') <= 6
    BY <1>3, <1>8, WholeCycle, Zenon
  <2>3. FirmwareInv'
    BY <1>1, <1>2, <1>3, <1>8, <2>1, <2>2 DEF FirmwareInv
  <2>4. ToIoInv'
    BY <1>1, <1>2, <1>8, NothingForwarded DEF Sending
  <2>5. QED BY <1>4, <2>3, <2>4 DEF IInv
<1>9. QED BY <1>1, <1>6, <1>7, <1>8 DEF EndPoll

LEMMA EndCyclePreserves ==
  ASSUME IInv, EndCycle
  PROVE  IInv'
<1>1. /\ FirmwareInv /\ ToIoInv /\ ToMainInv /\ todo = <<>> /\ polled
      /\ goal' = "none" /\ UNCHANGED <<todo, polled>>
      /\ seen' = IF goal = "receive" /\ got.byte # Zero
                   THEN Append(seen, got.byte) ELSE seen
  BY DEF IInv, EndCycle
<1>2. UNCHANGED <<to_io, to_main, sent, dropped, received, replied>>
  BY DEF EndCycle
<1>3. FirmwareInv'
  BY <1>1 DEF FirmwareInv
<1>4. ToIoInv'
  BY <1>1, <1>2, NothingForwarded DEF Sending
<1>5. ToMainInv'
  <2>1. CASE goal = "receive" /\ got.byte # Zero
    <3>1. PICK b \in Nat : got = Byte(b) /\ Fits(b)
      <4>1. ReceiveInv
        BY <1>1, <2>1 DEF FirmwareInv
      <4>2. Len(todo) <= 1
        BY <1>1
      <4>3. QED BY <4>1, <4>2 DEF ReceiveInv
    <3>2. got.byte = b /\ b # Zero
      BY <2>1, <3>1 DEF Byte
    <3>3. /\ b \in 1 .. replied
          /\ \A a \in Elements(seen) : a < b
          /\ \A c \in Elements(to_main) : b < c
      BY <3>1, <3>2 DEF Fits
    <3>4. \A i \in DOMAIN seen : seen[i] < b
      BY <3>3 DEF Elements
    <3>5. /\ seen' \in Seq(Nat) /\ Rising(seen')
          /\ Elements(seen') = Elements(seen) \cup {b}
      BY <1>1, <2>1, <3>2, <3>4, RisingAppend DEF ToMainInv
    <3>6. Elements(seen)' = Elements(seen') /\ Elements(to_main)' = Elements(to_main)
      BY <1>2 DEF Elements
    <3>7. QED BY <1>1, <1>2, <3>3, <3>5, <3>6 DEF ToMainInv
  <2>2. CASE ~(goal = "receive" /\ got.byte # Zero)
    BY <1>1, <1>2, <2>2 DEF ToMainInv
  <2>3. QED BY <2>1, <2>2
<1>6. QED BY <1>3, <1>4, <1>5 DEF IInv
-----------------------------------------------------------------------------
(* The other board and the wiring, between two accesses.                   *)

\* What happens meanwhile leaves the firmware where it is, if what it needs of
\* the pins stays true.
LEMMA FirmwareKept ==
  ASSUME FirmwareInv,
         UNCHANGED <<goal, polled, todo, got, cleared, ddra, ora, sent>>,
         \A b \in Nat : Fits(b) => Fits(b)',
         goal = "receive" /\ polled /\ Len(todo) \in 2 .. 4
           => \/ UNCHANGED pa
              \/ \E b \in Nat : pa' = Byte(b) /\ Fits(b)'
  PROVE  FirmwareInv'
<1>1. PollInv => PollInv'
  BY DEF PollInv, Within, Direction, ReadCycle, Input, Clear, Fetch, Idle
<1>2. SendInv => SendInv'
  BY DEF SendInv, Within, Direction, WriteCycle, Output, Store, Clear, Idle
<1>3. ConfigureInv => ConfigureInv'
  BY DEF ConfigureInv, Within, WriteCycle, Output, Store, Clear, Idle, Config
<1>4. goal = "receive" /\ polled /\ ReceiveInv => ReceiveInv'
  <2> SUFFICES ASSUME goal = "receive", polled, ReceiveInv
               PROVE  ReceiveInv'
    OBVIOUS
  <2>1. Within(ReadCycle(7))' /\ Direction("in", 5)' /\ DataAddress'
    BY DEF ReceiveInv, DataAddress, Within, Direction, ReadCycle, Input, Clear,
       Fetch, Idle
  <2>2. Len(todo) \in 2 .. 4 => (\E b \in Nat : pa = Byte(b) /\ Fits(b))'
    BY DEF ReceiveInv
  <2>3. Len(todo) <= 1 => (\E b \in Nat : got = Byte(b) /\ Fits(b))'
    BY DEF ReceiveInv
  <2>4. QED BY <2>1, <2>2, <2>3 DEF ReceiveInv
<1>5. QED BY <1>1, <1>2, <1>3, <1>4, Zenon DEF FirmwareInv

LEMMA SlicesPreserve ==
  ASSUME IInv,
         UNCHANGED <<via, to_io, to_main, mainFirmware, history>>
  PROVE  IInv'
<1>1. /\ UNCHANGED <<goal, polled, todo, got, cleared, ddra, ora, pa>>
      /\ UNCHANGED <<to_io, to_main, sent, dropped, received, replied, seen>>
  BY DEF via, mainFirmware, history
<1>2. FirmwareInv'
  BY <1>1, FirmwareKept DEF IInv, Fits
<1>3. ToIoInv'
  BY <1>1, NothingForwarded DEF IInv, Sending
<1>4. ToMainInv'
  BY <1>1 DEF IInv, ToMainInv
<1>5. QED BY <1>2, <1>3, <1>4 DEF IInv

LEMMA ReadDuartPreserves ==
  ASSUME IInv, ReadDuart
  PROVE  IInv'
<1>1. /\ UNCHANGED <<goal, polled, todo, got, cleared, ddra, ora, pa>>
      /\ UNCHANGED <<to_main, sent, dropped, replied, seen>>
      /\ to_io # <<>>
      /\ received' = Append(received, Head(to_io)) /\ to_io' = Tail(to_io)
  BY DEF ReadDuart, via, mainFirmware
<1>2. FirmwareInv'
  BY <1>1, FirmwareKept DEF IInv, Fits
<1>3. ToIoInv'
  <2>1. received \in Seq(Nat) /\ to_io \in Seq(Nat)
    BY DEF IInv, ToIoInv
  <2>2. received' \o to_io' = received \o to_io
    BY <1>1, <2>1, MoveHead
  <2>3. received' \in Seq(Nat) /\ to_io' \in Seq(Nat)
    BY <1>1, <2>1
  <2>4. SentOnce'
    BY <1>1, <2>2 DEF IInv, ToIoInv, SentOnce
  <2>5. QED BY <1>1, <2>3, <2>4 DEF IInv, ToIoInv
<1>4. ToMainInv'
  BY <1>1 DEF IInv, ToMainInv
<1>5. QED BY <1>2, <1>3, <1>4 DEF IInv

LEMMA WriteDuartPreserves ==
  ASSUME IInv, WriteDuart
  PROVE  IInv'
<1>1. /\ UNCHANGED <<goal, polled, todo, got, cleared, ddra, ora, pa>>
      /\ UNCHANGED <<to_io, sent, dropped, received, seen>>
      /\ to_main' = Offer(to_main, replied + 1) /\ replied' = replied + 1
      /\ replied < MaxReplies
  BY DEF WriteDuart, via, mainFirmware
<1>2. /\ ToMainInv /\ replied \in Nat /\ MaxReplies \in Nat
      /\ Elements(seen) \subseteq 1 .. replied
      /\ Elements(to_main) \subseteq 1 .. replied
      /\ replied \in 0 .. MaxReplies
  BY QueueTypes, BoundsAssumption DEF IInv, ToMainInv
<1>3. /\ to_main' \in Seq(Nat) /\ Rising(to_main')
      /\ Elements(to_main') \subseteq Elements(to_main) \cup {replied + 1}
  <2>1. CASE to_main' = to_main
    BY <1>2, <2>1 DEF ToMainInv
  <2>2. CASE to_main' = Append(to_main, replied + 1)
    <3>1. \A i \in DOMAIN to_main : to_main[i] < replied + 1
      <4>1. \A i \in DOMAIN to_main : to_main[i] \in 1 .. replied
        BY <1>2 DEF Elements
      <4>2. QED BY <1>2, <4>1
    <3>2. replied + 1 \in Nat
      BY <1>2
    <3>3. QED BY <1>2, <2>2, <3>1, <3>2, RisingAppend DEF ToMainInv
  <2>3. QED BY <1>1, <2>1, <2>2 DEF Offer
<1>4. \A a \in 1 .. replied : a < replied + 1 /\ a \in 1 .. replied + 1
  BY <1>2
<1>5. Elements(to_main)' = Elements(to_main') /\ Elements(seen)' = Elements(seen)
  BY <1>1 DEF Elements
<1>6. ToMainInv'
  <2>1. replied + 1 \in 0 .. MaxReplies /\ replied + 1 \in 1 .. replied + 1
    BY <1>1, <1>2
  <2>2. /\ Elements(seen) \subseteq 1 .. replied + 1
        /\ Elements(to_main') \subseteq 1 .. replied + 1
    BY <1>2, <1>3, <1>4, <2>1
  <2>3. \A a \in Elements(seen), b \in Elements(to_main') : a < b
    BY <1>2, <1>3, <1>4 DEF ToMainInv
  <2>4. QED BY <1>1, <1>2, <1>3, <1>5, <2>1, <2>2, <2>3 DEF ToMainInv
<1>7. ASSUME NEW b \in Nat, Fits(b)
      PROVE  Fits(b)'
  <2>1. CASE b = Zero
    BY <2>1 DEF Fits, Zero
  <2>2. CASE b # Zero
    <3>1. b \in 1 .. replied /\ (\A a \in Elements(seen) : a < b)
          /\ \A c \in Elements(to_main) : b < c
      BY <1>7, <2>2 DEF Fits
    <3>2. \A c \in Elements(to_main') : b < c
      BY <1>3, <1>4, <3>1
    <3>3. QED BY <1>1, <1>4, <1>5, <3>1, <3>2 DEF Fits
  <2>3. QED BY <2>1, <2>2
<1>8. FirmwareInv'
  BY <1>1, <1>7, FirmwareKept DEF IInv
<1>9. ToIoInv'
  BY <1>1, NothingForwarded DEF IInv, Sending
<1>10. QED BY <1>6, <1>8, <1>9 DEF IInv

LEMMA WirePreserves ==
  ASSUME IInv, Wire
  PROVE  IInv'
<1>1. /\ UNCHANGED <<goal, polled, todo, got, cleared, ddra, ora>>
      /\ UNCHANGED <<to_io, sent, dropped, received, replied, seen>>
      /\ UNCHANGED to_main \/ FetchToPins
      /\ ddra # "in" => UNCHANGED pa
      /\ ddra = "in" /\ Register(cleared) = 3 => FetchToPins
  BY DEF Wire, PinsAfterSlice, mainFirmware, history
<1>2. FirmwareInv /\ ToIoInv /\ ToMainInv
  BY DEF IInv
<1>3. /\ ToMainInv'
      /\ \A b \in Nat : Fits(b) => Fits(b)'
      /\ FetchToPins => \E b \in Nat : pa' = Byte(b) /\ Fits(b)'
  BY <1>1, <1>2, PinsMove
<1>4. goal = "receive" /\ polled /\ Len(todo) \in 2 .. 4 => FetchToPins
  <2> SUFFICES ASSUME goal = "receive", polled, Len(todo) \in 2 .. 4
               PROVE  FetchToPins
    OBVIOUS
  <2>1. ReceiveInv
    BY <1>2 DEF FirmwareInv
  <2>2. Len(todo) <= 5 /\ Len(todo) \in 1 .. 4
    <3>1. \A n \in 2 .. 4 : n <= 5 /\ n \in 1 .. 4
      OBVIOUS
    <3>2. QED BY <3>1, Zenon
  <2>3. ddra = "in" /\ Register(cleared) = 3
    BY <2>1, <2>2, RegisterAddressed DEF ReceiveInv, Direction, DataAddress
  <2>4. QED BY <1>1, <2>3
<1>5. FirmwareInv'
  BY <1>1, <1>2, <1>3, <1>4, FirmwareKept
<1>6. ToIoInv'
  BY <1>1, <1>2, NothingForwarded DEF Sending
<1>7. QED BY <1>3, <1>5, <1>6 DEF IInv

-----------------------------------------------------------------------------
(* Theorems.                                                               *)

LEMMA InitInv == Init => IInv
<1> SUFFICES ASSUME Init
             PROVE  IInv
  OBVIOUS
<1>1. FirmwareInv
  <2>1. todo \in Seq(Op)
    BY DEF Init
  <2>2. Len(todo) <= 6
    BY DEF Init
  <2>3. QED BY <2>1, <2>2 DEF Init, FirmwareInv
<1>2. ToIoInv
  <2>1. /\ received = <<>> /\ to_io = <<>> /\ sent = 0 /\ dropped = {}
        /\ goal = "none"
    BY DEF Init
  <2>2. received \o to_io = <<>>
    BY <2>1
  <2>3. SentOnce
    BY <2>1, <2>2 DEF SentOnce, Rising, Elements
  <2>4. QED BY <2>1, <2>3, BoundsAssumption DEF ToIoInv
<1>3. ToMainInv
  <2>1. /\ to_main = [i \in 1 .. Preload |-> i] /\ replied = Preload
        /\ seen = <<>> /\ Preload \in Nat /\ Preload \in 0 .. MaxReplies
    BY BoundsAssumption DEF Init
  <2>2. to_main \in Seq(Nat)
    BY <2>1
  <2>3. Rising(to_main) /\ Elements(to_main) \subseteq 1 .. replied
    BY <2>1 DEF Rising, Elements
  <2>4. Rising(seen) /\ Elements(seen) = {} /\ seen \in Seq(Nat)
    BY <2>1 DEF Rising, Elements
  <2>5. QED BY <2>1, <2>2, <2>3, <2>4 DEF ToMainInv
<1>4. QED BY <1>1, <1>2, <1>3 DEF IInv

LEMMA NextInv == IInv /\ [Next]_vars => IInv'
<1> SUFFICES ASSUME IInv, [Next]_vars
             PROVE  IInv'
  OBVIOUS
<1>1. CASE Access
  <2>1. goal \in {"send", "receive", "configure"}
    BY <1>1 DEF IInv, FirmwareInv, Access
  <2>2. QED
    BY <1>1, <2>1, PollAccess, ReceiveAccess, SendAccess, ConfigureAccess
<1>2. CASE Begin
  BY <1>2, BeginPreserves
<1>3. CASE Configure
  BY <1>3, ConfigurePreserves
<1>4. CASE EndPoll
  BY <1>4, EndPollPreserves
<1>5. CASE EndCycle
  BY <1>5, EndCyclePreserves
<1>6. CASE EndMainSlice \/ PollDuart \/ EndIoSlice \/ UNCHANGED vars
  <2>1. UNCHANGED <<via, to_io, to_main, mainFirmware, history>>
    BY <1>6 DEF EndMainSlice, PollDuart, EndIoSlice, vars
  <2>2. QED BY <2>1, SlicesPreserve
<1>7. CASE ReadDuart
  BY <1>7, ReadDuartPreserves
<1>8. CASE WriteDuart
  BY <1>8, WriteDuartPreserves
<1>9. CASE Wire
  BY <1>9, WirePreserves
<1>10. QED
  BY <1>1, <1>2, <1>3, <1>4, <1>5, <1>6, <1>7, <1>8, <1>9 DEF Next

LEMMA IInvAlways == Spec => []IInv
BY InitInv, NextInv, PTL DEF Spec

\* Every byte the main firmware sends reaches the IO board's FIFO once, in
\* order, or met it full; nothing else does, wherever the slices of the main
\* loop cut its cycles on VIA #1.
THEOREM BytesForwardedOnce == Spec => []SentOnce
<1>1. IInv => SentOnce
  BY DEF IInv, ToIoInv
<1>2. QED BY <1>1, IInvAlways, PTL

\* The bytes the main firmware reads come in the order the IO board sent them,
\* none twice, though every refresh of the pins takes one off the FIFO.
THEOREM BytesReceivedInOrder == Spec => []SeenInOrder
<1>1. IInv => SeenInOrder
  BY RisingConcat DEF IInv, ToMainInv, SeenInOrder
<1>2. QED BY <1>1, IInvAlways, PTL
=============================================================================
