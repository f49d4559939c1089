---------------------------- MODULE BoardsProofs ----------------------------
(***************************************************************************)
(* Proofs about XFifo and Boards.                                          *)
(*                                                                         *)
(* For every ring size and every set of values: the fields of the ring     *)
(* agree, and the ring is a bounded FIFO.                                  *)
(*                                                                         *)
(* For a map of any size: wide reads are byte reads, and the EEPROM        *)
(* survives restarts.  The invariant ties the file to the EEPROM: as long  *)
(* as nobody disturbed it, a byte the file does not have is one that would *)
(* be read as 0, and only the byte that is being saved may differ.         *)
(***************************************************************************)
EXTENDS Boards, SequenceTheorems, TLAPS

-----------------------------------------------------------------------------
(* The ring of XFifo.                                                      *)

\* Before the indices have gone round twice, % is one subtraction.
LEMMA Wrap ==
  ASSUME NEW x \in 0 .. 2 * Size - 1
  PROVE  x % Size = IF x < Size THEN x ELSE x - Size
BY SizeAssumption

LEMMA WrapSum ==
  ASSUME NEW a \in 0 .. Size - 1, NEW b \in 0 .. Size
  PROVE  (a + b) % Size = IF a + b < Size THEN a + b ELSE a + b - Size
BY SizeAssumption

LEMMA RingFields ==
  ASSUME RingInv
  PROVE  /\ rd \in 0 .. Size - 1 /\ wr \in 0 .. Size - 1 /\ count \in 0 .. Size
         /\ wr = IF rd + count < Size THEN rd + count ELSE rd + count - Size
<1>1. rd \in 0 .. Size - 1 /\ wr \in 0 .. Size - 1 /\ count \in 0 .. Size
  BY DEF RingInv, Slots
<1>2. (rd + count) % Size = IF rd + count < Size
                            THEN rd + count ELSE rd + count - Size
  BY <1>1, WrapSum, Zenon
<1>3. QED BY <1>1, <1>2 DEF RingInv

LEMMA RingInit == Init => RingInv
BY SizeAssumption, Wrap DEF Init, RingInv, Slots, Queue!Got

LEMMA RingNext == RingInv /\ [Next]_vars => RingInv'
<1> SUFFICES ASSUME RingInv, [Next]_vars
             PROVE  RingInv'
  OBVIOUS
<1> USE SizeAssumption
<1>1. /\ rd \in 0 .. Size - 1 /\ wr \in 0 .. Size - 1 /\ count \in 0 .. Size
      /\ wr = IF rd + count < Size THEN rd + count ELSE rd + count - Size
  BY RingFields
<1>2. ASSUME NEW v \in Values, Put(v)
      PROVE  RingInv'
  <2>1. CASE count >= Size
    BY <1>2, <2>1 DEF Put, RingInv
  <2>2. CASE count < Size
    <3>1. buf' \in [Slots -> Values \cup {Nothing}]
      BY <1>2, <2>2 DEF Put, RingInv
    <3>2. rd' = rd /\ count' = count + 1 /\ wr' = (wr + 1) % Size
      BY <1>1, <1>2, <2>2 DEF Put
    <3>3. wr' = IF wr + 1 < Size THEN wr + 1 ELSE wr + 1 - Size
      BY <1>1, <3>2, Wrap
    <3>4. (rd' + count') % Size = IF rd + count + 1 < Size
                                  THEN rd + count + 1 ELSE rd + count + 1 - Size
      BY <1>1, <2>2, <3>2, Wrap
    <3>5. wr' \in Slots /\ wr' = (rd' + count') % Size
      BY <1>1, <2>2, <3>3, <3>4 DEF Slots
    <3>6. QED BY <1>1, <2>2, <3>1, <3>2, <3>5 DEF RingInv, Slots
  <2>3. QED BY <1>1, <2>1, <2>2
<1>3. CASE Get
  <2>1. CASE count <= 0
    BY <1>3, <2>1 DEF Get, RingInv
  <2>2. CASE count > 0
    <3>1. /\ rd' = (rd + 1) % Size /\ count' = count - 1
          /\ wr' = wr /\ buf' = buf
      BY <1>1, <1>3, <2>2 DEF Get
    <3>2. rd' = IF rd + 1 < Size THEN rd + 1 ELSE rd + 1 - Size
      BY <1>1, <3>1, Wrap
    <3>3. rd' \in 0 .. Size - 1 /\ count' \in 0 .. Size - 1
      BY <1>1, <2>2, <3>1, <3>2
    <3>4. (rd' + count') % Size = IF rd' + count' < Size
                                  THEN rd' + count' ELSE rd' + count' - Size
      <4>1. count' \in 0 .. Size
        BY <3>3
      <4>2. QED BY <3>3, <4>1, WrapSum, Zenon
    <3>5. wr' = (rd' + count') % Size
      BY <1>1, <2>2, <3>1, <3>2, <3>4
    <3>6. QED BY <1>1, <3>1, <3>3, <3>5 DEF RingInv, Slots
  <2>3. QED BY <1>1, <2>1, <2>2
<1>4. CASE UNCHANGED vars
  BY <1>4 DEF vars, RingInv
<1>5. QED BY <1>2, <1>3, <1>4 DEF Next

\* The read index, the write index and the count of the ring agree in every
\* reachable state.
THEOREM RingConsistent == Spec => []RingInv
BY RingInit, RingNext, PTL DEF Spec

-----------------------------------------------------------------------------
(* The ring implements BoundedQueue.                                       *)

RingBytes == Values \cup {Nothing}

LEMMA AppendIs ==
  ASSUME NEW S, NEW s \in Seq(S), NEW t \in Seq(S), NEW v \in S,
         Len(t) = Len(s) + 1, \A i \in 1 .. Len(s) : t[i] = s[i],
         t[Len(s) + 1] = v
  PROVE  t = Append(s, v)
<1>1. Append(s, v) \in Seq(S) /\ Len(Append(s, v)) = Len(t)
  OBVIOUS
<1>2. \A i \in 1 .. Len(t) : t[i] = Append(s, v)[i]
  OBVIOUS
<1>3. QED BY <1>1, <1>2, SeqEqual

LEMMA TailIs ==
  ASSUME NEW S, NEW s \in Seq(S), NEW t \in Seq(S), s # <<>>,
         Len(t) = Len(s) - 1, \A i \in 1 .. Len(t) : t[i] = s[i + 1]
  PROVE  t = Tail(s)
<1>1. /\ Tail(s) \in Seq(S)
      /\ Len(Tail(s)) = Len(s) - 1
      /\ \A i \in 1 .. Len(Tail(s)) : Tail(s)[i] = s[i + 1]
  BY HeadTailProperties, Zenon
<1>2. QED BY <1>1, SeqEqual

LEMMA ItemsSequence ==
  ASSUME RingInv
  PROVE  /\ Items \in Seq(RingBytes)
         /\ Len(Items) = count
         /\ count \in 0 .. Size
         /\ \A i \in 1 .. count : Items[i] = buf[(rd + i - 1) % Size]
<1> USE SizeAssumption
<1>1. count \in 0 .. Size /\ rd \in 0 .. Size - 1
  BY DEF RingInv, Slots
<1>2. \A i \in 1 .. count : buf[(rd + i - 1) % Size] \in RingBytes
  <2> SUFFICES ASSUME NEW i \in 1 .. count
               PROVE  buf[(rd + i - 1) % Size] \in RingBytes
    OBVIOUS
  <2>1. (rd + i - 1) % Size \in Slots
    BY <1>1 DEF Slots
  <2>2. QED BY <2>1 DEF RingInv, RingBytes
<1>3. QED BY <1>1, <1>2 DEF Items

LEMMA ItemsSequenceNext ==
  (RingInv => /\ Items \in Seq(RingBytes)
              /\ Len(Items) = count
              /\ \A i \in 1 .. count : Items[i] = buf[(rd + i - 1) % Size])'
<1>1. RingInv => /\ Items \in Seq(RingBytes)
                 /\ Len(Items) = count
                 /\ \A i \in 1 .. count : Items[i] = buf[(rd + i - 1) % Size]
  BY ItemsSequence
<1>2. QED BY <1>1, PTL

\* A byte stored at the write index becomes the newest one, and disturbs no
\* other.
LEMMA StoreAppends ==
  ASSUME RingInv, NEW v \in Values, Put(v), count < Size
  PROVE  Items' = Append(Items, v)
<1> USE SizeAssumption
<1>1. /\ rd \in 0 .. Size - 1 /\ wr \in 0 .. Size - 1 /\ count \in 0 .. Size
      /\ wr = IF rd + count < Size THEN rd + count ELSE rd + count - Size
      /\ DOMAIN buf = Slots
  BY RingFields DEF RingInv
<1>2. buf' = [buf EXCEPT ![wr] = v] /\ rd' = rd /\ count' = count + 1
  BY <1>1 DEF Put
<1>3. \A i \in 1 .. count : buf'[(rd + i - 1) % Size] = buf[(rd + i - 1) % Size]
  <2> SUFFICES ASSUME NEW i \in 1 .. count
               PROVE  (rd + i - 1) % Size # wr
    BY <1>2
  <2>1. (rd + i - 1) % Size = IF rd + i - 1 < Size
                              THEN rd + i - 1 ELSE rd + i - 1 - Size
    BY <1>1, Wrap
  <2>2. QED BY <1>1, <2>1
<1>4. buf'[(rd + (count + 1) - 1) % Size] = v
  <2>1. (rd + (count + 1) - 1) % Size = wr
    BY <1>1, Wrap
  <2>2. QED BY <1>1, <1>2, <2>1 DEF Slots
<1>5. /\ Items \in Seq(RingBytes) /\ Items' \in Seq(RingBytes) /\ v \in RingBytes
      /\ Len(Items) = count /\ Len(Items') = count'
      /\ \A i \in 1 .. count : Items[i] = buf[(rd + i - 1) % Size]
      /\ \A i \in 1 .. count' : Items'[i] = buf'[(rd' + i - 1) % Size]
  <2>1. RingInv'
    BY RingNext DEF Next
  <2>2. QED BY <2>1, ItemsSequence, ItemsSequenceNext DEF RingBytes
<1>6. Len(Items') = Len(Items) + 1
  BY <1>2, <1>5
<1>7. \A i \in 1 .. Len(Items) : Items'[i] = Items[i]
  <2> SUFFICES ASSUME NEW i \in 1 .. count
               PROVE  Items'[i] = Items[i]
    BY <1>5
  <2>1. i \in 1 .. count'
    BY <1>1, <1>2
  <2>2. Items'[i] = buf'[(rd + i - 1) % Size]
    BY <1>2, <1>5, <2>1
  <2>3. QED BY <1>3, <1>5, <2>2
<1>8. Items'[Len(Items) + 1] = v
  BY <1>1, <1>2, <1>4, <1>5
<1>9. QED BY <1>5, <1>6, <1>7, <1>8, AppendIs

\* Advancing the read index removes the oldest byte and keeps the others.
LEMMA FetchRemoves ==
  ASSUME RingInv, Get, count > 0
  PROVE  Items' = Tail(Items) /\ Head(Items) = buf[rd]
<1> USE SizeAssumption
<1>1. rd \in 0 .. Size - 1 /\ count \in 0 .. Size
  BY DEF RingInv, Slots
<1>2. buf' = buf /\ rd' = (rd + 1) % Size /\ count' = count - 1
  BY <1>1 DEF Get
<1>3. \A i \in 1 .. count - 1 : (rd' + i - 1) % Size = (rd + (i + 1) - 1) % Size
  <2> SUFFICES ASSUME NEW i \in 1 .. count - 1
               PROVE  (rd' + i - 1) % Size = (rd + (i + 1) - 1) % Size
    OBVIOUS
  <2>1. rd' = IF rd + 1 < Size THEN rd + 1 ELSE rd + 1 - Size
    BY <1>1, <1>2, Wrap
  <2>2. (rd' + i - 1) % Size = IF rd' + i - 1 < Size
                               THEN rd' + i - 1 ELSE rd' + i - 1 - Size
    BY <1>1, <2>1, Wrap
  <2>3. (rd + (i + 1) - 1) % Size = IF rd + i < Size THEN rd + i ELSE rd + i - Size
    BY <1>1, Wrap
  <2>4. QED BY <1>1, <2>1, <2>2, <2>3
<1>4. (rd + 1 - 1) % Size = rd
  BY <1>1, Wrap
<1>5. /\ Items \in Seq(RingBytes) /\ Items' \in Seq(RingBytes)
      /\ Len(Items) = count /\ Len(Items') = count'
      /\ \A i \in 1 .. count : Items[i] = buf[(rd + i - 1) % Size]
      /\ \A i \in 1 .. count' : Items'[i] = buf'[(rd' + i - 1) % Size]
  <2>1. RingInv'
    BY RingNext DEF Next
  <2>2. QED BY <2>1, ItemsSequence, ItemsSequenceNext
<1>6. Items # <<>> /\ Len(Items') = Len(Items) - 1
  BY <1>1, <1>2, <1>5
<1>7. \A i \in 1 .. Len(Items') : Items'[i] = Items[i + 1]
  <2> SUFFICES ASSUME NEW i \in 1 .. count - 1
               PROVE  Items'[i] = Items[i + 1]
    BY <1>2, <1>5
  <2>1. Items'[i] = buf[(rd' + i - 1) % Size]
    BY <1>2, <1>5
  <2>2. i + 1 \in 1 .. count
    BY <1>1
  <2>3. Items[i + 1] = buf[(rd + (i + 1) - 1) % Size]
    BY <1>5, <2>2
  <2>4. QED BY <1>3, <2>1, <2>3
<1>8. Items' = Tail(Items)
  BY <1>5, <1>6, <1>7, TailIs, Zenon
<1>9. Head(Items) = buf[rd]
  <2>1. Items[1] = buf[(rd + 1 - 1) % Size]
    BY <1>1, <1>5
  <2>2. QED BY <1>4, <1>5, <1>6, <2>1
<1>10. QED BY <1>8, <1>9

\* The ring implements the bounded FIFO.
THEOREM RingIsQueue == Spec => ImplementsQueue
<1>1. Init => Queue!Init
  BY DEF Init, Queue!Init, Items
<1>2. RingInv /\ [Next]_vars => [Queue!Next]_(Queue!vars)
  <2> SUFFICES ASSUME RingInv, [Next]_vars
               PROVE  [Queue!Next]_(Queue!vars)
    OBVIOUS
  <2>1. Len(Items) = count /\ count \in 0 .. Size
    BY SizeAssumption DEF Items, RingInv
  <2>2. ASSUME NEW v \in Values, Put(v)
        PROVE  Queue!Put(v)
    <3>1. CASE count >= Size
      BY <2>1, <2>2, <3>1, SizeAssumption DEF Put, Queue!Put, Items
    <3>2. CASE count < Size
      <4>1. answer' = Queue!Accepted
        BY <2>1, <2>2, <3>2, SizeAssumption DEF Put
      <4>2. Items' = Append(Items, v)
        BY <2>2, <3>2, StoreAppends, Zenon
      <4>3. Len(Items) < Size
        BY <2>1, <3>2
      <4>4. QED BY <4>1, <4>2, <4>3 DEF Queue!Put
    <3>3. QED BY <2>1, <3>1, <3>2, SizeAssumption
  <2>3. ASSUME Get
        PROVE  Queue!Get
    <3>1. CASE count <= 0
      <4>1. /\ Len(Items) = 0 /\ UNCHANGED Items
            /\ answer' = Queue!Got(Nothing)
        BY <2>1, <2>3, <3>1 DEF Get, Items
      <4>2. QED BY <4>1 DEF Queue!Get
    <3>2. CASE count > 0
      <4>1. /\ Len(Items) > 0 /\ Items' = Tail(Items)
            /\ answer' = Queue!Got(Head(Items))
        BY <2>1, <2>3, <3>2, FetchRemoves DEF Get
      <4>2. QED BY <4>1 DEF Queue!Get
    <3>3. QED BY <2>1, <3>1, <3>2
  <2>4. CASE UNCHANGED vars
    BY <2>4 DEF vars, Queue!vars, Items
  <2>5. QED BY <2>2, <2>3, <2>4 DEF Next, Queue!Next
<1>3. QED BY <1>1, <1>2, RingConsistent, PTL DEF Spec, ImplementsQueue, Queue!Spec

-----------------------------------------------------------------------------
(* The main board's memory.                                                *)

Contents == Written \cup {0, Erased}

\* The arrays of the main board.
Arrays ==
  /\ ram \in [Cells(RamTop - RamBase) -> Contents]
  /\ eeprom \in [Cells(EeTop - EeBase) -> Contents]
  /\ file \in Seq(Contents)
  /\ present \in BOOLEAN /\ intact \in BOOLEAN

\* A byte that is being saved is one of the EEPROM, and had a value before; the
\* EEPROM is erased while its file is created.
SavingInv ==
  /\ saving.stage \in {"idle", "create", "fill"} => saving = [Idle EXCEPT !.stage = saving.stage]
  /\ saving.stage \in {"create", "fill"} =>
       ~intact /\ \A i \in Cells(EeTop - EeBase) : eeprom[i] = Erased
  /\ saving.stage \in {"open", "close"} =>
       saving.at \in Cells(EeTop - EeBase) /\ saving.old \in Contents

\* A byte as a start would read it from the file.
InFile(i) == IF i < Len(file) THEN file[i + 1] ELSE 0

\* The file, read as a restart would read it, is the EEPROM but for the byte
\* that is being saved.
FileAgrees ==
  intact => /\ present
            /\ \A i \in Cells(EeTop - EeBase) :
                 InFile(i) = IF i = saving.at THEN saving.old ELSE eeprom[i]

IInv == Arrays /\ SavingInv /\ FileAgrees

LEMMA Constants ==
  /\ Space \in Nat /\ RomTop \in Nat /\ RamBase \in Nat /\ RamTop \in Nat
  /\ EeBase \in Nat /\ EeTop \in Nat /\ LatchBase \in Nat
  /\ 0 < RomTop /\ RomTop <= RamBase /\ RamBase < RamTop /\ RamTop <= EeBase
  /\ EeBase < EeTop /\ EeTop <= LatchBase /\ LatchBase + 4 <= Space
  /\ DOMAIN Rom = 0 .. RomTop - 1
BY MapAssumption

LEMMA InitHolds == BoardsInit => IInv
<1> SUFFICES ASSUME BoardsInit PROVE IInv
  OBVIOUS
<1>1. file \in Seq(Contents)
  BY DEF BoardsInit
<1>2. ram \in [Cells(RamTop - RamBase) -> Contents] /\ eeprom \in [Cells(EeTop - EeBase) -> Contents]
  BY DEF BoardsInit, Contents
<1>3. saving = [Idle EXCEPT !.stage = "create"] /\ ~intact /\ saving.stage = "create"
      /\ intact \in BOOLEAN /\ present \in BOOLEAN
  BY DEF BoardsInit, Creating, Idle
<1>4. \A i \in Cells(EeTop - EeBase) : eeprom[i] = Erased
  BY DEF BoardsInit
<1> QED BY <1>1, <1>2, <1>3, <1>4 DEF IInv, Arrays, SavingInv, FileAgrees

\* What a restart reads, from any file.
LEMMA LoadAgrees ==
  ASSUME IInv, NEW opens \in BOOLEAN, Restart(opens)
  PROVE  IInv' /\ (opens /\ intact =>
                     \A i \in DOMAIN eeprom :
                       eeprom'[i] = eeprom[i] \/ (i = saving.at /\ eeprom'[i] = saving.old))
<1> DEFINE n == EeTop - EeBase
<1>1. n \in Nat \ {0}
  BY Constants
<1>2. DOMAIN eeprom = Cells(n) /\ DOMAIN ram = Cells(RamTop - RamBase) /\ file \in Seq(Contents)
  BY DEF IInv, Arrays
<1>3. ram' \in [Cells(RamTop - RamBase) -> Contents] /\ UNCHANGED <<file, present>>
  BY <1>2 DEF Restart, Contents
<1>4. \A i \in Cells(n) : InFile(i) \in Contents
  BY <1>1, <1>2 DEF Contents, Cells, InFile
<1>5. CASE present /\ opens
  <2>1. eeprom' = [i \in DOMAIN eeprom |-> InFile(i)] /\ saving' = Idle /\ intact' = TRUE
    BY <1>5 DEF Restart, EepromLoad, InFile
  <2>2. eeprom' \in [Cells(n) -> Contents]
    BY <2>1, <1>2, <1>4
  <2>3. \A i \in Cells(n) : eeprom'[i] = InFile(i)
    BY <2>1, <1>2
  <2>4. FileAgrees'
    <3>1. saving'.at = Outside /\ \A i \in Cells(n) : i # Outside
      BY <2>1 DEF Idle, Outside, Cells
    <3>2. \A i \in Cells(n) : InFile(i)' = InFile(i)
      BY <1>3 DEF InFile
    <3> QED BY <3>1, <3>2, <2>3, <1>3, <1>5 DEF FileAgrees
  <2>5. SavingInv'
    BY <2>1 DEF SavingInv, Idle
  <2>6. intact => \A i \in DOMAIN eeprom :
                     eeprom'[i] = eeprom[i] \/ (i = saving.at /\ eeprom'[i] = saving.old)
    BY <2>3, <1>2 DEF IInv, FileAgrees
  <2>7. Arrays'
    BY <2>1, <2>2, <1>2, <1>3 DEF IInv, Arrays
  <2> QED BY <2>4, <2>5, <2>6, <2>7 DEF IInv
<1>6. CASE ~(present /\ opens)
  <2>1. eeprom' = [i \in DOMAIN eeprom |-> Erased] /\ saving' = Creating("create") /\ intact' = FALSE
    BY <1>6 DEF Restart, EepromLoad
  <2>2. eeprom' \in [Cells(n) -> Contents]
    BY <2>1, <1>2 DEF Contents
  <2>3. SavingInv' /\ FileAgrees'
    BY <2>1, <1>2 DEF SavingInv, FileAgrees, Idle, Creating
  <2>4. Arrays'
    BY <2>1, <2>2, <1>2, <1>3 DEF IInv, Arrays
  <2> QED BY <1>6, <2>3, <2>4 DEF IInv, FileAgrees
<1> QED BY <1>5, <1>6

\* What saving a byte leaves in the file.
LEMMA SavedAgrees ==
  ASSUME IInv, NEW i \in Cells(EeTop - EeBase), NEW v \in Contents
  PROVE  /\ Saved(i, v) \in Seq(Contents)
         /\ \A j \in Cells(EeTop - EeBase) :
              (IF j < Len(Saved(i, v)) THEN Saved(i, v)[j + 1] ELSE 0)
                = IF j = i THEN v ELSE InFile(j)
<1> DEFINE n == EeTop - EeBase
           m == IF i + 1 > Len(file) THEN i + 1 ELSE Len(file)
           t == Saved(i, v)
<1>1. i \in 0 .. n - 1 /\ n \in Nat
  BY Constants DEF Cells
<1>2. file \in Seq(Contents) /\ Len(file) \in Nat
  BY DEF IInv, Arrays
<1>3. t = [k \in 1 .. m |-> IF k = i + 1 THEN v ELSE IF k <= Len(file) THEN file[k] ELSE 0]
  BY DEF Saved
<1>4. m \in Nat /\ m > i /\ m >= Len(file)
  BY <1>1, <1>2
<1>5. \A k \in 1 .. m : k <= Len(file) => file[k] \in Contents
  BY <1>2
<1>6. t \in Seq(Contents) /\ Len(t) = m
  <2>1. \A k \in 1 .. m : t[k] \in Contents
    BY <1>3, <1>5 DEF Contents
  <2> HIDE DEF m
  <2> QED BY <1>3, <1>4, <2>1
<1>7. ASSUME NEW j \in 0 .. n - 1
      PROVE  (IF j < Len(t) THEN t[j + 1] ELSE 0) = IF j = i THEN v ELSE InFile(j)
  <2>1. CASE j = i
    BY <2>1, <1>1, <1>3, <1>4, <1>6
  <2>2. CASE j # i
    <3>1. j < m => t[j + 1] = IF j < Len(file) THEN file[j + 1] ELSE 0
      BY <2>2, <1>1, <1>2, <1>3
    <3> HIDE DEF t, m
    <3> QED BY <2>2, <3>1, <1>4, <1>6, <1>2, <1>7 DEF InFile
  <2> QED BY <2>1, <2>2
<1> HIDE DEF t
<1>8. \A j \in Cells(n) : (IF j < Len(t) THEN t[j + 1] ELSE 0) = IF j = i THEN v ELSE InFile(j)
  BY <1>7 DEF Cells
<1> QED BY <1>6, <1>8 DEF t

\* A byte that is written is the one that is being saved.
LEMMA Write8Keeps ==
  ASSUME IInv, saving.stage = "idle", NEW a, NEW v \in Written, Write8(a, v)
  PROVE  IInv'
<1>1. UNCHANGED <<file, present, intact>>
  BY DEF Write8
<1>2. CASE UNCHANGED <<eeprom, saving>> /\ a \in RamBase .. RamTop - 1 /\ ram' = [ram EXCEPT ![a - RamBase] = v]
  <2>1. ram' \in [Cells(RamTop - RamBase) -> Contents]
    BY <1>2 DEF IInv, Arrays, Contents
  <2> QED BY <1>1, <1>2, <2>1 DEF IInv, Arrays, SavingInv, FileAgrees, InFile
<1>3. CASE /\ a \in EeBase .. EeTop - 1
           /\ eeprom' = [eeprom EXCEPT ![a - EeBase] = v]
           /\ saving' = [stage |-> "open", at |-> a - EeBase, old |-> eeprom[a - EeBase]]
           /\ UNCHANGED ram
  <2> DEFINE j == a - EeBase
  <2>1. j \in Cells(EeTop - EeBase)
    BY <1>3, Constants DEF Cells
  <2> HIDE DEF j
  <2>2. eeprom' = [eeprom EXCEPT ![j] = v] /\ saving' = [stage |-> "open", at |-> j, old |-> eeprom[j]]
    BY <1>3 DEF j
  <2>3. Arrays'
    BY <1>1, <1>3, <2>1, <2>2 DEF IInv, Arrays, Contents
  <2>4. eeprom[j] \in Contents
    BY <2>1 DEF IInv, Arrays
  <2>5. SavingInv'
    BY <2>1, <2>2, <2>4 DEF SavingInv
  <2>6. ASSUME intact', NEW i \in Cells(EeTop - EeBase)
        PROVE  present' /\ InFile(i)' = IF i = saving'.at THEN saving'.old ELSE eeprom'[i]
    <3>1. saving.at = Outside /\ i # Outside
      BY Constants DEF IInv, SavingInv, Idle, Outside, Cells
    <3>2. present /\ InFile(i) = eeprom[i]
      BY <3>1, <2>6, <1>1 DEF IInv, FileAgrees
    <3>3. InFile(i)' = InFile(i)
      BY <1>1 DEF InFile
    <3>4. i # j => eeprom'[i] = eeprom[i]
      BY <2>2 DEF IInv, Arrays
    <3> QED BY <3>2, <3>3, <3>4, <2>2, <1>1
  <2>7. intact' => present'
    BY <1>1 DEF IInv, FileAgrees
  <2> QED BY <2>3, <2>5, <2>6, <2>7 DEF IInv, FileAgrees
<1>4. CASE UNCHANGED <<ram, eeprom, saving>>
  BY <1>1, <1>4 DEF IInv, Arrays, SavingInv, FileAgrees, InFile
<1> QED BY <1>2, <1>3, <1>4 DEF Write8

\* The creation of the file and the saving of a byte, one stage at a time.
LEMMA SavingKeeps == ASSUME IInv, Saving PROVE IInv'
<1>1. UNCHANGED <<ram, eeprom>>
  BY DEF Saving
<1> USE DEF IInv
<1>2. ASSUME NEW fails \in BOOLEAN, Create(fails) PROVE IInv'
  <2>1. ~intact /\ intact' = intact
    BY <1>2 DEF Create, SavingInv
  <2>2. saving' = Creating("fill") \/ saving' = Idle
    BY <1>2 DEF Create
  <2>3. file' \in Seq(Contents)
    <3>1. file \in Seq(Contents) /\ <<>> \in Seq(Contents) /\ (file' = file \/ file' = <<>>)
      BY <1>2 DEF Create, Arrays
    <3> QED BY <3>1
  <2>4. present' \in BOOLEAN /\ intact' \in BOOLEAN
    BY <1>2, Zenon DEF Create, Arrays
  <2>5. \A i \in Cells(EeTop - EeBase) : eeprom[i] = Erased
    BY <1>2 DEF Create, SavingInv
  <2> QED BY <1>1, <2>1, <2>2, <2>3, <2>4, <2>5 DEF Arrays, SavingInv, FileAgrees, Creating, Idle
<1>3. ASSUME NEW fails \in BOOLEAN, Fill(fails) PROVE IInv'
  <2> DEFINE n == EeTop - EeBase
             e == [k \in 1 .. n |-> Erased]
  <2>1. n \in Nat
    BY Constants
  <2>2. e \in Seq(Contents) /\ Len(e) = n /\ \A i \in Cells(n) : e[i + 1] = Erased /\ i < n
    BY <2>1 DEF Contents, Cells
  <2>3. file' \in Seq(Contents) /\ saving' = Idle
    BY <1>3, <2>2 DEF Fill, Arrays
  <2>5. present' = present /\ intact' = (present /\ ~fails) /\ intact' \in BOOLEAN /\ present' \in BOOLEAN
    BY <1>3, Zenon DEF Fill, Arrays
  <2>4. ASSUME intact', NEW i \in Cells(n)
        PROVE  present' /\ InFile(i)' = IF i = saving'.at THEN saving'.old ELSE eeprom'[i]
    <3>0. present /\ ~fails
      BY <2>4, <2>5, Zenon
    <3>1. file' = e /\ present' /\ saving'.at = Outside
      BY <2>3, <2>5, <3>0, <1>3 DEF Fill, Idle
    <3>2. i # Outside
      BY <2>1 DEF Cells, Outside
    <3>3. eeprom'[i] = Erased
      BY <1>1, <1>3 DEF Fill, SavingInv
    <3> HIDE DEF e
    <3>4. InFile(i)' = Erased
      BY <3>1, <2>2 DEF InFile
    <3> QED BY <3>1, <3>2, <3>3, <3>4
  <2> HIDE DEF e
  <2> QED BY <1>1, <2>3, <2>4, <2>5 DEF Arrays, SavingInv, FileAgrees, Idle
<1>4. ASSUME NEW how \in {"r+b", "w+b", "fails"}, OpenFile(how) PROVE IInv'
  <2>1. saving.stage = "open" /\ saving.at \in Cells(EeTop - EeBase) /\ saving.old \in Contents
    BY <1>4 DEF OpenFile, SavingInv
  <2>2. CASE how = "r+b"
    <3>1. saving' = [saving EXCEPT !.stage = "close"] /\ file' = file /\ present' = present /\ intact' = intact
      BY <1>4, <2>2 DEF OpenFile, Arrays
    <3>2. saving'.stage = "close" /\ saving'.at = saving.at /\ saving'.old = saving.old
      BY <2>1, <3>1
    <3> QED BY <1>1, <2>1, <3>1, <3>2 DEF Arrays, SavingInv, FileAgrees, InFile
  <2>3. CASE how # "r+b"
    <3>1. file' \in Seq(Contents)
      BY <1>4 DEF OpenFile, Arrays
    <3>3. ~intact' /\ intact' \in BOOLEAN /\ present' \in BOOLEAN
      BY <1>4, <2>3, Zenon DEF OpenFile, Arrays
    <3>2. CASE how = "fails"
      <4>1. saving' = Idle
        BY <1>4, <3>2 DEF OpenFile
      <4> QED BY <1>1, <3>1, <3>3, <4>1 DEF Arrays, SavingInv, FileAgrees, Idle
    <3>4. CASE how # "fails"
      <4>1. saving' = [saving EXCEPT !.stage = "close"]
        BY <1>4, <3>4 DEF OpenFile
      <4>2. saving'.stage = "close" /\ saving'.at = saving.at /\ saving'.old = saving.old
        BY <2>1, <4>1
      <4> QED BY <1>1, <2>1, <3>1, <3>3, <4>2 DEF Arrays, SavingInv, FileAgrees
    <3> QED BY <3>2, <3>4
  <2> QED BY <2>2, <2>3
<1>5. ASSUME NEW fails \in BOOLEAN, CloseFile(fails) PROVE IInv'
  <2>1. saving.stage = "close" /\ saving.at \in Cells(EeTop - EeBase)
    BY <1>5 DEF CloseFile, SavingInv
  <2> DEFINE v == eeprom[saving.at]
             t == Saved(saving.at, v)
  <2>2. v \in Contents
    BY <2>1 DEF Arrays
  <2>3. t \in Seq(Contents) /\ \A j \in Cells(EeTop - EeBase) :
              (IF j < Len(t) THEN t[j + 1] ELSE 0) = IF j = saving.at THEN v ELSE InFile(j)
    BY <2>1, <2>2, SavedAgrees
  <2>4. saving' = Idle /\ file' = (IF present /\ ~fails THEN t ELSE file)
        /\ intact' = (intact /\ present /\ ~fails) /\ present' = present
    BY <1>5 DEF CloseFile
  <2> HIDE DEF t
  <2>5. ASSUME intact', NEW i \in Cells(EeTop - EeBase)
        PROVE  present' /\ InFile(i)' = IF i = saving'.at THEN saving'.old ELSE eeprom'[i]
    <3>1. intact /\ present /\ file' = t /\ present' /\ saving'.at = Outside
      BY <2>4, <2>5 DEF Idle
    <3>2. i # Outside
      BY Constants DEF Cells, Outside
    <3>3. InFile(i)' = IF i = saving.at THEN v ELSE InFile(i)
      BY <3>1, <2>3 DEF InFile
    <3>4. i # saving.at => InFile(i) = eeprom[i]
      BY <3>1 DEF FileAgrees
    <3> QED BY <1>1, <3>1, <3>2, <3>3, <3>4
  <2>6. file' \in Seq(Contents) /\ present' \in BOOLEAN /\ intact' \in BOOLEAN
    <3>1. file' \in Seq(Contents)
      BY <2>3, <2>4 DEF Arrays
    <3>2. intact' \in BOOLEAN /\ present' \in BOOLEAN
      BY <2>4, Zenon DEF Arrays
    <3> QED BY <3>1, <3>2
  <2> QED BY <1>1, <2>4, <2>5, <2>6 DEF Arrays, SavingInv, FileAgrees, Idle
<1> QED BY <1>2, <1>3, <1>4, <1>5 DEF Saving

LEMMA StepKeeps == IInv /\ [BoardsNext]_boardVars => IInv'
<1> SUFFICES ASSUME IInv, [BoardsNext]_boardVars PROVE IInv'
  OBVIOUS
<1>1. CASE UNCHANGED mainVars
  BY <1>1 DEF mainVars, fileVars, IInv, Arrays, SavingInv, FileAgrees, InFile
<1>2. ASSUME NEW a, NEW v \in Written, Write32(a, v) PROVE IInv'
  <2>1. ram' \in [Cells(RamTop - RamBase) -> Contents]
    BY <1>2 DEF Write32, IInv, Arrays, Contents
  <2>2. UNCHANGED <<eeprom, file, present, saving, intact>>
    BY <1>2 DEF Write32, fileVars
  <2> QED BY <2>1, <2>2 DEF IInv, Arrays, SavingInv, FileAgrees, InFile
<1>3. ASSUME NEW opens \in BOOLEAN, Restart(opens) PROVE IInv'
  BY <1>3, LoadAgrees
<1>4. CASE RemoveFile
  <2>1. /\ UNCHANGED <<ram, eeprom, saving>> /\ file' \in Seq(Contents)
        /\ intact' = FALSE /\ present' = FALSE
    BY <1>4 DEF RemoveFile
  <2> QED BY <2>1 DEF IInv, Arrays, SavingInv, FileAgrees
<1>5. CASE Switch
  BY <1>5, <1>1 DEF Switch
<1>6. ASSUME NEW a, IoRead8(a) \/ \E v \in Written : IoWrite8(a, v) PROVE IInv'
  BY <1>6, <1>1 DEF IoRead8, IoWrite8
<1>7. CASE Accesses
  BY <1>7, <1>2, <1>5, <1>6, Write8Keeps DEF Accesses
<1>8. CASE Saving
  BY <1>8, SavingKeeps
<1>9. CASE UNCHANGED boardVars
  BY <1>9, <1>1 DEF boardVars
<1> QED BY <1>3, <1>4, <1>7, <1>8, <1>9 DEF BoardsNext

\* The file is the EEPROM while nobody disturbed it.
THEOREM Invariant == BoardsSpec => []IInv
<1> QED BY InitHolds, StepKeeps, PTL DEF BoardsSpec

\* A restart finds what was written, with an EEPROM of any size.
THEOREM SurvivesRestarts == BoardsSpec => EepromSurvives
<1>1. IInv /\ [BoardsNext]_boardVars =>
       [Restart(TRUE) /\ intact =>
          \A i \in DOMAIN eeprom :
            eeprom'[i] = eeprom[i] \/ (i = saving.at /\ eeprom'[i] = saving.old)]_boardVars
  BY LoadAgrees
<1> QED BY <1>1, Invariant, PTL DEF BoardsSpec, EepromSurvives

-----------------------------------------------------------------------------
(* Wide reads.  The state's arrays cover their address ranges; the rest is *)
(* arithmetic of the map.                                                  *)

\* Where the fast paths apply, each of their bytes is that of a byte read.
LEMMA RomByte ==
  ASSUME NEW a \in Nat, a < RomTop
  PROVE  a \in DOMAIN Rom /\ Read8(a) = Rom[a]
<1>1. a \notin RamBase .. RamTop - 1 /\ a \notin EeBase .. EeTop - 1
      /\ a \notin LatchBase .. LatchBase + 3
  BY Constants
<1> QED BY <1>1, Constants DEF Read8

LEMMA RamByte ==
  ASSUME Arrays, NEW a \in Nat, RamBase <= a, a < RamTop
  PROVE  a - RamBase \in DOMAIN ram /\ Read8(a) = ram[a - RamBase]
<1> DEFINE i == a - RamBase
<1>1. ~(a < RomTop) /\ a \in RamBase .. RamTop - 1 /\ a \notin EeBase .. EeTop - 1
      /\ a \notin LatchBase .. LatchBase + 3
  BY Constants
<1>2. Read8(a) = ram[i]
  BY <1>1 DEF Read8
<1>3. i \in DOMAIN ram
  BY Constants DEF Arrays, Cells
<1> QED BY <1>2, <1>3

\* The address of an access's last byte does not wrap round.
LEMMA NoWrap ==
  ASSUME NEW n \in 1 .. 4, NEW a \in 0 .. Space - n, NEW k \in 0 .. n - 1
  PROVE  (a + k) % Space = a + k /\ a + k \in Nat
BY Constants

\* A fast path of n bytes reads n bytes.
LEMMA FastIsBytes ==
  ASSUME Arrays, NEW n \in 1 .. 4, NEW a \in 0 .. Space - n
  PROVE  /\ FastRom(a, n) => Bytes(Rom, a, n) = Bytes8(a, n)
         /\ ~FastRom(a, n) /\ FastRam(a, n) => Bytes(ram, a - RamBase, n) = Bytes8(a, n)
<1>1. ASSUME NEW k \in 1 .. n
      PROVE  a + k - 1 \in Nat /\ (a + k - 1) % Space = a + k - 1
  <2>1. k - 1 \in 0 .. n - 1 /\ a + (k - 1) = a + k - 1
    BY Constants
  <2> QED BY <2>1, NoWrap
<1>2. (a + n - 1) % Space = a + n - 1
  BY <1>1
<1>3. ASSUME FastRom(a, n), NEW k \in 1 .. n
      PROVE  Bytes(Rom, a, n)[k] = Bytes8(a, n)[k]
  <2>1. a + k - 1 \in Nat /\ a + k - 1 < RomTop
    BY <1>1, <1>2, <1>3, Constants DEF FastRom
  <2>2. a + k - 1 \in DOMAIN Rom /\ Read8(a + k - 1) = Rom[a + k - 1]
    BY <2>1, RomByte
  <2>3. Bytes(Rom, a, n)[k] = Rom[a + k - 1]
    BY <2>2 DEF Bytes
  <2>4. Bytes8(a, n)[k] = Read8(a + k - 1)
    BY <1>1 DEF Bytes8
  <2> QED BY <2>2, <2>3, <2>4
<1>4. ASSUME FastRam(a, n), NEW k \in 1 .. n
      PROVE  Bytes(ram, a - RamBase, n)[k] = Bytes8(a, n)[k]
  <2>1. a + k - 1 \in Nat /\ RamBase <= a + k - 1 /\ a + k - 1 < RamTop
    BY <1>1, <1>2, <1>4, Constants DEF FastRam
  <2>2. a + k - 1 - RamBase \in DOMAIN ram /\ Read8(a + k - 1) = ram[a + k - 1 - RamBase]
    BY <2>1, RamByte, Constants
  <2>3. a - RamBase + k - 1 = a + k - 1 - RamBase
    BY Constants
  <2>4. Bytes(ram, a - RamBase, n)[k] = ram[a + k - 1 - RamBase]
    BY <2>2, <2>3 DEF Bytes
  <2>5. Bytes8(a, n)[k] = Read8(a + k - 1)
    BY <1>1 DEF Bytes8
  <2> QED BY <2>2, <2>4, <2>5
<1> QED BY <1>3, <1>4 DEF Bytes, Bytes8

LEMMA Pairs ==
  ASSUME NEW p, NEW q, NEW r, NEW s PROVE <<p, q>> \o <<r, s>> = <<p, q, r, s>>
<1> DEFINE S == {p, q, r, s}
           c == <<p, q>> \o <<r, s>>
<1>1. <<p, q>> \in Seq(S) /\ <<r, s>> \in Seq(S) /\ <<p, q, r, s>> \in Seq(S)
  OBVIOUS
<1>2. c \in Seq(S) /\ Len(c) = 4
  BY <1>1
<1>3. c[1] = p /\ c[2] = q /\ c[3] = r /\ c[4] = s
  BY <1>1
<1> HIDE DEF c, S
<1>4. c = <<p, q, r, s>>
  BY <1>1, <1>2, <1>3
<1> QED BY <1>4 DEF c

LEMMA Read16IsBytes ==
  ASSUME Arrays, NEW a \in 0 .. Space - 2 PROVE Read16(a) = Bytes8(a, 2)
<1>1. (a + 1) % Space = a + 1 /\ (a + 0) % Space = a /\ a \in Nat
  BY Constants
<1>2. Bytes8(a, 2) = <<Read8(a), Read8(a + 1)>>
  BY <1>1 DEF Bytes8
<1>3. Slow16(a) = Bytes8(a, 2)
  BY <1>1, <1>2 DEF Slow16
<1> QED BY <1>3, FastIsBytes DEF Read16
LEMMA Read32IsBytes ==
  ASSUME Arrays, NEW a \in 0 .. Space - 4 PROVE Read32(a) = Bytes8(a, 4)
<1>1. /\ a \in Nat /\ a % Space = a /\ (a + 1) % Space = a + 1
      /\ (a + 2) % Space = a + 2 /\ (a + 3) % Space = a + 3
  BY Constants
<1>2. Bytes8(a, 4) = <<Read8(a), Read8(a + 1), Read8(a + 2), Read8(a + 3)>>
  BY <1>1 DEF Bytes8
<1>3. Bytes8(a, 2) = <<Read8(a), Read8(a + 1)>>
  BY <1>1 DEF Bytes8
<1>4. Bytes8(a + 2, 2) = <<Read8(a + 2), Read8(a + 3)>>
  BY <1>1 DEF Bytes8
<1>5. Read16(a) = Bytes8(a, 2) /\ Read16((a + 2) % Space) = Bytes8(a + 2, 2)
  BY <1>1, Constants, Read16IsBytes
<1>6. Read16(a) \o Read16((a + 2) % Space) = Bytes8(a, 4)
  BY <1>2, <1>3, <1>4, <1>5, Pairs
<1> QED BY <1>6, FastIsBytes, Constants DEF Read32

\* A wide read finds what byte reads would, whatever the map's sizes are and
\* whatever the memories hold.
THEOREM WideReads == BoardsSpec => []WideIsBytes
<1>1. IInv => WideIsBytes
  <2> SUFFICES ASSUME IInv, NEW a \in 0 .. Space - 4
               PROVE  Read16(a) = Bytes8(a, 2) /\ Read32(a) = Bytes8(a, 4)
    BY DEF WideIsBytes
  <2> QED BY Constants, Read16IsBytes, Read32IsBytes DEF IInv
<1> QED BY <1>1, Invariant, PTL
=============================================================================
