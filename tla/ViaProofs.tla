------------------------------ MODULE ViaProofs -----------------------------
(***************************************************************************)
(* Proofs about Via, for counters of any width and slices of any length:   *)
(* the composite bit and the causes of flags, which rest on the edge       *)
(* detectors having seen the levels of their lines; and the time timer 1   *)
(* keeps.  How often a slice carries its counter through zero is defined   *)
(* by recursion (Run): the induction over the ticks left is by the least   *)
(* counterexample.                                                         *)
(***************************************************************************)
EXTENDS Via, WellFoundedInduction, TLAPS

\* The inductive invariant.
IInv == IrqFollows /\ prev = level

\* An acknowledgement leaves the bit current, if it was; so does a flag.
LEMMA ClearFollows == ASSUME NEW cleared, Clear(cleared), ier' = ier PROVE IrqFollows'
BY DEF Clear, UpdateIrq, IrqFollows

LEMMA RaiseFollows == ASSUME NEW raised, Raise(raised), ier' = ier, IrqFollows PROVE IrqFollows'
<1>1. CASE raised = {}
  BY <1>1 DEF Raise, IrqFollows
<1>2. CASE raised # {}
  BY <1>2 DEF Raise, UpdateIrq, IrqFollows
<1> QED BY <1>1, <1>2

\* Once its line's level has been seen, a detector finds no edge.
LEMMA NoEdge == ASSUME prev = level PROVE Edges(level, prev) = {}
BY DEF Edges

\* Every step keeps the invariant.
LEMMA StepKeeps == IInv /\ [Next]_vars => IInv'
<1> SUFFICES ASSUME IInv, [Next]_vars PROVE IInv'
  OBVIOUS
<1>1. CASE Ticks
  <2> PICK n \in 1 .. MaxTick : Tick(n)
    BY <1>1 DEF Ticks
  <2>1. ier' = ier
    BY DEF Tick, control
  <2>2. prev' = level'
    BY DEF Tick
  <2>3. PICK raised : Raise(raised)
    BY DEF Tick
  <2> QED BY <2>1, <2>2, <2>3, RaiseFollows DEF IInv
<1>2. CASE UseTimer1
  BY <1>2, ClearFollows DEF UseTimer1, ReadT1Low, WriteT1LatchLow, WriteT1LatchHigh, StartT1,
       control, lines, IInv, IrqFollows
<1>3. CASE UseTimer2
  BY <1>3, ClearFollows DEF UseTimer2, ReadT2Low, WriteT2Low, StartT2, control, lines, IInv, IrqFollows
<1>4. CASE \E l \in Lines : UseLine(l)
  <2> PICK l \in Lines : UseLine(l)
    BY <1>4
  <2>1. CASE AccessPort(l)
    BY <2>1, ClearFollows DEF AccessPort, control, lines, IInv
  <2>2. ASSUME NEW v \in {0, 1}, SetLine(l, v) PROVE IInv'
    BY <2>2, RaiseFollows DEF SetLine, control, IInv
  <2> QED BY <2>1, <2>2 DEF UseLine
<1>5. CASE Configure
  <2>1. ASSUME NEW f \in BOOLEAN, NEW p \in BOOLEAN, NEW c \in BOOLEAN, WriteAcr(f, p, c) PROVE IInv'
    BY <2>1 DEF WriteAcr, lines, IInv, IrqFollows
  <2>2. ASSUME NEW edges, WritePcr(edges) PROVE IInv'
    BY <2>2 DEF WritePcr, lines, IInv, IrqFollows
  <2>3. ASSUME NEW mask, WriteIfr(mask) PROVE IInv'
    BY <2>3, ClearFollows DEF WriteIfr, control, lines, IInv
  <2>4. ASSUME NEW mask, NEW set \in BOOLEAN, WriteIer(mask, set) PROVE IInv'
    BY <2>4 DEF WriteIer, UpdateIrq, lines, IInv, IrqFollows
  <2> QED BY <1>5, <2>1, <2>2, <2>3, <2>4 DEF Configure
<1>6. CASE UNCHANGED vars
  BY <1>6 DEF vars, control, lines, IInv, IrqFollows
<1> QED BY <1>1, <1>2, <1>3, <1>4, <1>5, <1>6 DEF Next

THEOREM Invariant == Spec => []IInv
<1>1. Init => IInv
  BY DEF Init, IInv, IrqFollows
<1> QED BY <1>1, StepKeeps, PTL DEF Spec

\* The composite bit of IFR and the line the main loop computes never disagree.
THEOREM BitFollows == Spec => []IrqFollows
<1>1. IInv => IrqFollows
  BY DEF IInv
<1> QED BY <1>1, Invariant, PTL

\* What a step may do to the flags.
Caused == \A f \in ifr' \ ifr :
            IF f \in Lines
              THEN level'[f] # level[f] /\ (level'[f] = 1 <=> f \in rising)
              ELSE /\ f = "T1" => t1_running
                   /\ f = "T2" => t2_running /\ ~pulses

LEMMA Names == "T1" # "T2" /\ "T1" \notin Lines /\ "T2" \notin Lines
BY DEF Lines

\* A timer that does not count does not fire.
LEMMA OnlyRunningFires ==
  ASSUME NEW n
  PROVE  /\ AfterT1(n).fired > 0 => t1_running
         /\ AfterT2(n).fired > 0 => t2_running /\ ~pulses
<1>1. ~t1_running => AfterT1(n).fired = 0
  BY DEF AfterT1, Stopped
<1>2. ~(t2_running /\ ~pulses) => AfterT2(n).fired = 0
  BY DEF AfterT2, Stopped
<1> QED BY <1>1, <1>2

LEMMA TickCauses == ASSUME NEW n, Tick(n), IInv PROVE Caused
<1>1. Edges(level, prev) = {}
  BY NoEdge DEF IInv
<1>2. ifr' \subseteq ifr \cup (IF AfterT1(n).fired > 0 THEN {"T1"} ELSE {})
                       \cup (IF AfterT2(n).fired > 0 THEN {"T2"} ELSE {})
  BY <1>1 DEF Tick, Raise
<1> QED BY <1>2, OnlyRunningFires, Names DEF Caused

LEMMA SetLineCauses ==
  ASSUME NEW l \in Lines, NEW v, SetLine(l, v), IInv PROVE Caused
<1>1. ifr' \subseteq ifr \cup Edges(level', level)
  BY DEF SetLine, Raise, IInv
<1> QED BY <1>1 DEF Edges, Caused

LEMMA StepCauses == ASSUME IInv, [Next]_vars PROVE Caused
<1>1. CASE ifr' \subseteq ifr
  BY <1>1 DEF Caused
<1>2. CASE Ticks
  BY <1>2, TickCauses DEF Ticks
<1>3. CASE UseTimer1
  <2> ifr' \subseteq ifr
    BY <1>3 DEF UseTimer1, ReadT1Low, WriteT1LatchLow, WriteT1LatchHigh, StartT1, Clear
  <2> QED BY <1>1
<1>4. CASE UseTimer2
  <2> ifr' \subseteq ifr
    BY <1>4 DEF UseTimer2, ReadT2Low, WriteT2Low, StartT2, Clear
  <2> QED BY <1>1
<1>5. ASSUME NEW l \in Lines, UseLine(l) PROVE Caused
  <2>1. CASE AccessPort(l)
    BY <2>1, <1>1 DEF AccessPort, Clear
  <2>2. ASSUME NEW v \in {0, 1}, SetLine(l, v) PROVE Caused
    BY <2>2, SetLineCauses
  <2> QED BY <1>5, <2>1, <2>2 DEF UseLine
<1>6. CASE Configure
  <2> ifr' \subseteq ifr
    BY <1>6 DEF Configure, WriteAcr, WritePcr, WriteIfr, WriteIer, Clear
  <2> QED BY <1>1
<1>7. CASE UNCHANGED vars
  BY <1>7, <1>1 DEF vars
<1> QED BY <1>2, <1>3, <1>4, <1>5, <1>6, <1>7 DEF Next

\* No flag rises without its cause: a line's active edge, a running timer.
THEOREM FlagsCaused == Spec => FlagsHaveCause
<1>1. IInv /\ [Next]_vars => [Caused]_vars
  BY StepCauses
<1> QED BY <1>1, Invariant, PTL DEF Spec, FlagsHaveCause, Caused
-----------------------------------------------------------------------------
(* Timer 1 running freely.  Run is defined by recursion on the ticks left; *)
(* it exists, and every value of it keeps time, by induction: no natural   *)
(* number is the least at which either fails.                              *)

LEMMA Least ==
  ASSUME NEW T, T \subseteq Nat, T # {} PROVE \E m \in T : \A k \in T : m <= k
<1>1. PICK m \in T : \A k \in T : <<k, m>> \notin OpToRel(<, Nat)
  BY WFMin, NatLessThanWellFounded, Zenon
<1>2. \A k \in T : ~ (k < m)
  BY <1>1, Zenon DEF OpToRel
<1> QED BY <1>2

LEMMA Constants ==
  /\ Base \in Nat \ {0} /\ Word \in Nat \ {0}
  /\ MaxTick \in 1 .. Word - 1 /\ MaxCalls \in Nat
<1>1. Base \in Nat /\ Base >= 1
  BY ViaAssumption
<1>2. Base * Base \in Nat /\ Base * Base >= 1
  BY <1>1
<1> QED BY <1>1, <1>2, ViaAssumption DEF Word

\* What a function says of shorter runs gives the run of so many ticks.
RunFrom(f, left) ==
  [c \in Words |->
     IF left <= 0 THEN [fired |-> 0, counter |-> c]
     ELSE IF c <= left % Word
       THEN LET rest == f[left - (c + 1)][t1_latch]
            IN  [fired |-> rest.fired + 1, counter |-> rest.counter]
       ELSE [fired |-> 0, counter |-> (c - left) % Word]]
IsRun(f, n) == DOMAIN f = -1 .. n /\ \A left \in -1 .. n : f[left] = RunFrom(f, left)

LEMMA Whole == ASSUME NEW left \in 1 .. MaxTick PROVE left % Word = left
<1> DEFINE w == Word
<1>1. w \in Nat /\ left \in 1 .. w - 1
  BY Constants
<1> HIDE DEF w
<1>2. left % w = left
  BY <1>1
<1> QED BY <1>2 DEF w

LEMMA RunFromShorter ==
  ASSUME NEW f, NEW g, NEW left \in -1 .. MaxTick,
         \A j \in -1 .. left - 1 : f[j] = g[j]
  PROVE  RunFrom(f, left) = RunFrom(g, left)
<1>1. CASE left <= 0
  BY <1>1 DEF RunFrom
<1>2. CASE left > 0
  <2>1. left \in 1 .. MaxTick /\ left % Word = left
    BY <1>2, Whole, Constants
  <2>2. \A c \in Words : c <= left => left - (c + 1) \in -1 .. left - 1
    BY <2>1, Constants DEF Words
  <2>3. \A c \in Words : c <= left => f[left - (c + 1)] = g[left - (c + 1)]
    BY <2>2
  <2> QED BY <1>2, <2>1, <2>3 DEF RunFrom
<1> QED BY <1>1, <1>2, Constants

LEMMA RunExists == \E f : IsRun(f, MaxTick)
<1> DEFINE Lacking == {n \in 0 .. MaxTick + 1 : ~\E f : IsRun(f, n - 1)}
<1>1. SUFFICES ASSUME Lacking # {} PROVE FALSE
  <2>1. MaxTick + 1 \in 0 .. MaxTick + 1 /\ (MaxTick + 1) - 1 = MaxTick
    BY Constants
  <2> QED BY <2>1
<1>2. PICK n \in Lacking : \A k \in Lacking : n <= k
  <2>1. Lacking \subseteq Nat
    BY Constants
  <2> HIDE DEF Lacking
  <2> QED BY <1>1, <2>1, Least
<1>3. n \in 0 .. MaxTick + 1 /\ ~\E f : IsRun(f, n - 1)
  BY <1>2
<1>4. CASE n = 0
  <2> DEFINE f == [left \in -1 .. -1 |-> RunFrom([j \in {} |-> 0], left)]
  <2>1. RunFrom(f, -1) = RunFrom([j \in {} |-> 0], -1)
    BY DEF RunFrom
  <2>2. DOMAIN f = -1 .. n - 1 /\ \A left \in -1 .. n - 1 : left = -1 /\ f[left] = RunFrom([j \in {} |-> 0], -1)
    BY <1>4
  <2> HIDE DEF f
  <2>3. IsRun(f, n - 1)
    BY <2>1, <2>2 DEF IsRun
  <2> QED BY <1>3, <2>3
<1>5. CASE n > 0
  <2>1. n - 1 \in 0 .. MaxTick /\ n - 1 \notin Lacking
    BY <1>2, <1>3, <1>5, Constants
  <2>2. PICK f : IsRun(f, (n - 1) - 1)
    BY <2>1, Constants
  <2>3. PICK m : m = n - 1 /\ m \in 0 .. MaxTick
    BY <2>1
  <2>4. DOMAIN f = -1 .. m - 1 /\ \A left \in -1 .. m - 1 : f[left] = RunFrom(f, left)
    BY <2>2, <2>3 DEF IsRun
  <2> DEFINE g == [left \in -1 .. m |-> IF left = m THEN RunFrom(f, m) ELSE f[left]]
  <2>5. DOMAIN g = -1 .. m /\ g[m] = RunFrom(f, m) /\ \A j \in -1 .. m - 1 : g[j] = f[j]
    BY <2>3
  <2> HIDE DEF g
  <2>6. ASSUME NEW left \in -1 .. m PROVE g[left] = RunFrom(g, left)
    <3>1. left \in -1 .. MaxTick
      BY <2>3, Constants
    <3>2. \A j \in -1 .. left - 1 : f[j] = g[j]
      BY <2>3, <2>5
    <3>3. RunFrom(f, left) = RunFrom(g, left)
      BY <3>1, <3>2, RunFromShorter
    <3>4. g[left] = RunFrom(f, left)
      BY <2>3, <2>4, <2>5
    <3> QED BY <3>3, <3>4
  <2>7. IsRun(g, n - 1)
    BY <2>3, <2>5, <2>6 DEF IsRun
  <2> QED BY <1>3, <2>7
<1> QED BY <1>3, <1>4, <1>5

LEMMA RunIs == \A left \in -1 .. MaxTick : Run[left] = RunFrom(Run, left)
<1>1. PICK f : IsRun(f, MaxTick) /\ f = [left \in -1 .. MaxTick |-> f[left]]
  <2>1. PICK g : IsRun(g, MaxTick)
    BY RunExists
  <2> DEFINE f == [left \in -1 .. MaxTick |-> g[left]]
  <2>2. \A left \in -1 .. MaxTick : f[left] = g[left]
    OBVIOUS
  <2>3. DOMAIN f = -1 .. MaxTick /\ f = [left \in -1 .. MaxTick |-> f[left]]
    OBVIOUS
  <2> HIDE DEF f
  <2>4. ASSUME NEW left \in -1 .. MaxTick PROVE f[left] = RunFrom(f, left)
    <3>1. \A j \in -1 .. left - 1 : f[j] = g[j]
      BY <2>2, Constants
    <3>2. RunFrom(f, left) = RunFrom(g, left)
      BY <3>1, RunFromShorter
    <3>3. g[left] = RunFrom(g, left)
      BY <2>1 DEF IsRun
    <3> QED BY <2>2, <3>2, <3>3
  <2>5. IsRun(f, MaxTick)
    BY <2>3, <2>4 DEF IsRun
  <2> QED BY <2>3, <2>5
<1>2. f = [left \in -1 .. MaxTick |-> RunFrom(f, left)]
  BY <1>1 DEF IsRun
<1>3. \A g : RunFrom(g, 0) = RunFrom(g, 0)
  OBVIOUS
<1>4. Run = CHOOSE g : g = [left \in -1 .. MaxTick |-> RunFrom(g, left)]
  BY DEF Run, RunFrom
<1>5. Run = [left \in -1 .. MaxTick |-> RunFrom(Run, left)]
  BY <1>2, <1>4, Zenon
<1>6. ASSUME NEW left \in -1 .. MaxTick PROVE Run[left] = RunFrom(Run, left)
  <2>1. PICK r : r = Run
    OBVIOUS
  <2>2. r = [l \in -1 .. MaxTick |-> RunFrom(r, l)]
    BY <1>5, <2>1
  <2>3. r[left] = RunFrom(r, left)
    BY <2>2
  <2> QED BY <2>1, <2>3
<1> QED BY <1>6

\* The ticks that a run from c stands for: those of its periods, and those its
\* counter has come down.  They are the ticks it was given or one more.
Periods(k) == k * (t1_latch + 1)
KeepsTime(left, c) ==
  LET r == Run[left][c]
  IN  /\ r.fired \in Nat /\ r.counter \in Words
      /\ Periods(r.fired) + c - r.counter - left \in 0 .. 1

LEMMA PeriodsAdd ==
  ASSUME t1_latch \in Words
  PROVE  /\ Periods(0) = 0
         /\ \A k \in Nat : Periods(k) \in Nat
         /\ \A k, j \in Nat : Periods(k + j) = Periods(k) + Periods(j)
         /\ Periods(1) = t1_latch + 1
<1> DEFINE p == t1_latch + 1
<1>1. p \in Nat
  BY Constants DEF Words
<1>2. \A k, j, q \in Nat : k * q \in Nat /\ (k + j) * q = k * q + j * q /\ 0 * q = 0 /\ 1 * q = q
  OBVIOUS
<1> QED BY <1>1, <1>2 DEF Periods

LEMMA RunsKeepTime ==
  ASSUME t1_latch \in Words
  PROVE  \A left \in -1 .. MaxTick : \A c \in Words : KeepsTime(left, c)
<1> DEFINE Failing == {n \in 0 .. MaxTick + 1 : ~\A c \in Words : KeepsTime(n - 1, c)}
<1>1. SUFFICES ASSUME Failing # {} PROVE FALSE
  <2>1. \A left \in -1 .. MaxTick : left + 1 \in 0 .. MaxTick + 1 /\ (left + 1) - 1 = left
    BY Constants
  <2> QED BY <2>1
<1>2. PICK n \in Failing : \A k \in Failing : n <= k
  <2>1. Failing \subseteq Nat
    BY Constants
  <2> HIDE DEF Failing
  <2> QED BY <1>1, <2>1, Least
<1>3. PICK left : left = n - 1 /\ left \in -1 .. MaxTick
  BY <1>2, Constants
<1>4. \A j \in -1 .. left - 1 : \A c \in Words : KeepsTime(j, c)
  <2> SUFFICES ASSUME NEW j \in -1 .. left - 1 PROVE \A c \in Words : KeepsTime(j, c)
    OBVIOUS
  <2>1. j + 1 \in 0 .. MaxTick + 1 /\ j + 1 < n /\ (j + 1) - 1 = j
    BY <1>2, <1>3, Constants
  <2>2. j + 1 \notin Failing
    BY <1>2, <2>1, Constants
  <2> QED BY <2>1, <2>2
<1>5. PICK c \in Words : ~KeepsTime(left, c)
  BY <1>2, <1>3
<1>6. Run[left][c] = RunFrom(Run, left)[c]
  BY <1>3, RunIs
<1>7. c \in Nat /\ t1_latch \in Nat
  BY Constants DEF Words
<1>8. CASE left <= 0
  <2>1. Run[left][c] = [fired |-> 0, counter |-> c]
    BY <1>6, <1>8 DEF RunFrom
  <2>2. Periods(0) + c - c - left \in 0 .. 1
    <3>1. Periods(0) = 0
      BY PeriodsAdd
    <3>2. left \in {-1, 0}
      BY <1>3, <1>8, Constants
    <3>3. 0 + c - c - left \in 0 .. 1
      BY <1>7, <3>2
    <3> QED BY <3>1, <3>3
  <2> QED BY <1>5, <2>1, <2>2 DEF KeepsTime
<1>9. CASE left > 0
  <2>1. left \in 1 .. MaxTick /\ left % Word = left
    BY <1>3, <1>9, Whole, Constants
  <2>2. CASE c <= left
    <3>1. PICK rest : rest = Run[left - (c + 1)][t1_latch]
      OBVIOUS
    <3>2. Run[left][c] = [fired |-> rest.fired + 1, counter |-> rest.counter]
      BY <1>6, <2>1, <2>2, <3>1 DEF RunFrom
    <3>3. left - (c + 1) \in -1 .. left - 1
      BY <1>7, <2>1, <2>2
    <3>4. KeepsTime(left - (c + 1), t1_latch)
      BY <1>4, <3>3
    <3>5. /\ rest.fired \in Nat /\ rest.counter \in Words
          /\ Periods(rest.fired) + t1_latch - rest.counter - (left - (c + 1)) \in 0 .. 1
      BY <3>1, <3>4 DEF KeepsTime
    <3>6. Periods(rest.fired + 1) = Periods(rest.fired) + (t1_latch + 1) /\ Periods(rest.fired) \in Nat
      BY <3>5, PeriodsAdd
    <3>7. rest.counter \in Nat
      BY <3>5, Constants DEF Words
    <3>8. Periods(rest.fired + 1) + c - rest.counter - left \in 0 .. 1
      BY <1>3, <1>7, <3>5, <3>6, <3>7
    <3> QED BY <1>5, <3>2, <3>5, <3>8 DEF KeepsTime
  <2>3. CASE c > left
    <3>1. Run[left][c] = [fired |-> 0, counter |-> (c - left) % Word]
      BY <1>6, <1>7, <2>1, <2>3 DEF RunFrom
    <3>2. c - left \in Words
      BY <1>7, <2>1, <2>3, Constants DEF Words
    <3>3. (c - left) % Word = c - left
      <4> DEFINE w == Word
                 d == c - left
      <4>1. w \in Nat /\ d \in 0 .. w - 1
        BY <3>2, Constants DEF Words
      <4> HIDE DEF w, d
      <4>2. d % w = d
        BY <4>1
      <4> QED BY <4>2 DEF w, d
    <3>4. Periods(0) + c - (c - left) - left \in 0 .. 1
      BY <1>7, <2>1, PeriodsAdd
    <3> QED BY <1>5, <3>1, <3>2, <3>3, <3>4 DEF KeepsTime
  <2> QED BY <1>7, <2>1, <2>2, <2>3
<1> QED BY <1>3, <1>8, <1>9

-----------------------------------------------------------------------------
(* What timer 1 did since its last start.                                  *)

TimerType ==
  /\ t1_counter \in Words /\ t1_latch \in Words /\ t1_running \in BOOLEAN
  /\ free \in BOOLEAN
  /\ since \in [known : BOOLEAN, calls : Nat, elapsed : Nat, fired : Nat]

\* Running freely it never stops, and one tick at most is gained in a step.
FreeTime ==
  /\ t1_running
  /\ Periods(since.fired) + t1_latch - t1_counter - since.elapsed \in 0 .. since.calls

\* In one-shot mode the counter holds what is left of the count, until it fires.
OneShotTime ==
  \/ /\ t1_running /\ since.fired = 0
     /\ t1_counter = t1_latch - since.elapsed
     /\ IF since.calls = 0 THEN since.elapsed = 0 ELSE since.elapsed < t1_latch
  \/ /\ ~t1_running /\ since.fired = 1
     /\ since.calls > 0 /\ since.elapsed >= t1_latch

TimeInv ==
  /\ TimerType
  /\ since.known => IF free THEN FreeTime ELSE OneShotTime

LEMMA Halves ==
  ASSUME NEW l \in Words, NEW v \in Half
  PROVE  High(l) * Base + v \in Words /\ v * Base + Low(l) \in Words
<1>1. Base \in Nat \ {0} /\ l \in Nat /\ l < Base * Base /\ v \in 0 .. Base - 1
  BY Constants DEF Words, Word, Half
<1>2. Low(l) \in 0 .. Base - 1
  BY <1>1 DEF Low
<1>3. High(l) \in Nat /\ High(l) * Base <= l
  BY <1>1 DEF High
<1>4. High(l) <= Base - 1
  <2> SUFFICES ASSUME High(l) >= Base PROVE FALSE
    BY <1>1, <1>3
  <2>1. High(l) * Base >= Base * Base
    BY <1>1, <1>3
  <2> QED BY <1>1, <1>3, <2>1
<1>5. \A h, x \in 0 .. Base - 1 : h * Base + x \in 0 .. Base * Base - 1
  <2> SUFFICES ASSUME NEW h \in 0 .. Base - 1, NEW x \in 0 .. Base - 1
               PROVE  h * Base + x \in 0 .. Base * Base - 1
    OBVIOUS
  <2>1. h * Base <= (Base - 1) * Base /\ h * Base \in Nat
    BY <1>1
  <2>2. (Base - 1) * Base = Base * Base - Base
    BY <1>1
  <2> QED BY <1>1, <2>1, <2>2
<1> QED BY <1>1, <1>2, <1>3, <1>4, <1>5 DEF Words, Word

\* A step that leaves timer 1 and what bears on its period alone.
LEMMA TimerStays ==
  ASSUME TimeInv, UNCHANGED <<t1_counter, t1_latch, t1_running, free, since>> PROVE TimeInv'
BY DEF TimeInv, TimerType, FreeTime, OneShotTime, Periods

\* A write that ends the record.
LEMMA RecordEnds ==
  ASSUME since' = Unknown, TimerType' PROVE TimeInv'
BY DEF TimeInv, Unknown

LEMMA UnknownIs ==
  /\ Unknown \in [known : BOOLEAN, calls : Nat, elapsed : Nat, fired : Nat]
  /\ Started \in [known : BOOLEAN, calls : Nat, elapsed : Nat, fired : Nat]
  /\ ~Unknown.known /\ Started.calls = 0 /\ Started.elapsed = 0 /\ Started.fired = 0
BY DEF Unknown, Started

LEMMA StartKeepsTime == ASSUME TimeInv, NEW v \in Half, StartT1(v) PROVE TimeInv'
<1>1. /\ t1_latch' = v * Base + Low(t1_latch) /\ t1_counter' = t1_latch' /\ t1_running' = TRUE
      /\ since' = Started /\ free' = free
  BY DEF StartT1, control
<1>2. t1_latch' \in Words
  BY <1>1, Halves DEF TimeInv, TimerType
<1>3. TimerType'
  BY <1>1, <1>2, UnknownIs DEF TimeInv, TimerType
<1>4. t1_latch' \in Nat /\ since'.calls = 0 /\ since'.elapsed = 0 /\ since'.fired = 0
  BY <1>1, <1>2, Constants, UnknownIs DEF Words
<1>5. FreeTime'
  <2>1. \A q \in Nat : 0 * (q + 1) = 0
    OBVIOUS
  <2> QED BY <1>1, <1>4, <2>1 DEF FreeTime, Periods
<1>6. OneShotTime'
  BY <1>1, <1>4 DEF OneShotTime
<1> QED BY <1>3, <1>5, <1>6 DEF TimeInv

LEMMA TickKeepsTime == ASSUME TimeInv, NEW n \in 1 .. MaxTick, Tick(n) PROVE TimeInv'
<1>1. PICK one : one = AfterT1(n)
  OBVIOUS
<1>2. /\ t1_counter' = one.counter /\ t1_running' = one.running
      /\ since' = Recorded(n, one.fired) /\ t1_latch' = t1_latch /\ free' = free
  BY <1>1 DEF Tick, control
<1>3. /\ t1_counter \in Words /\ t1_latch \in Words /\ t1_running \in BOOLEAN /\ free \in BOOLEAN
      /\ since \in [known : BOOLEAN, calls : Nat, elapsed : Nat, fired : Nat]
  BY DEF TimeInv, TimerType
<1>4. t1_counter \in Nat /\ t1_latch \in Nat /\ n \in Nat /\ n > 0
  BY <1>3, Constants DEF Words
<1>5. ASSUME t1_running, ~free
      PROVE  one = IF t1_counter <= n
                     THEN [fired |-> 1, counter |-> Word - 1, running |-> FALSE]
                     ELSE [fired |-> 0, counter |-> t1_counter - n, running |-> TRUE]
  <2>1. n % Word = n
    BY Whole
  <2>2. ~(t1_counter <= n) => (t1_counter - n) % Word = t1_counter - n
    <3> DEFINE w == Word
               d == t1_counter - n
    <3>1. w \in Nat /\ (~(t1_counter <= n) => d \in 0 .. w - 1)
      BY <1>3, <1>4, Constants DEF Words
    <3> HIDE DEF w, d
    <3>2. ~(t1_counter <= n) => d % w = d
      BY <3>1
    <3> QED BY <3>2 DEF w, d
  <2> QED BY <1>1, <1>5, <2>1, <2>2 DEF AfterT1, OneShot
<1>6. ASSUME t1_running, free
      PROVE  /\ one.fired \in Nat /\ one.counter \in Words /\ one.running = TRUE
             /\ Periods(one.fired) + t1_counter - one.counter - n \in 0 .. 1
  <2>1. PICK r : r = Run[n][t1_counter]
    OBVIOUS
  <2>2. one = [fired |-> r.fired, counter |-> r.counter, running |-> TRUE]
    BY <1>1, <1>6, <2>1 DEF AfterT1, FreeRun
  <2>3. n \in -1 .. MaxTick
    BY Constants
  <2>4. KeepsTime(n, t1_counter)
    BY <1>3, <2>3, RunsKeepTime
  <2>5. /\ r.fired \in Nat /\ r.counter \in Words
        /\ Periods(r.fired) + t1_counter - r.counter - n \in 0 .. 1
    BY <2>1, <2>4 DEF KeepsTime
  <2> QED BY <2>2, <2>5
<1>7. ASSUME ~t1_running PROVE one = [fired |-> 0, counter |-> t1_counter, running |-> FALSE]
  BY <1>1, <1>7 DEF AfterT1, Stopped
<1>8. one.counter \in Words /\ one.running \in BOOLEAN /\ one.fired \in Nat
  <2>1. Word - 1 \in Words
    BY Constants DEF Words
  <2>2. ~(t1_counter <= n) => t1_counter - n \in Words
    BY <1>3, <1>4, Constants DEF Words
  <2>3. CASE ~t1_running
    <3>1. one.counter = t1_counter /\ one.running = FALSE /\ one.fired = 0
      BY <1>7, <2>3
    <3>2. one.running \in BOOLEAN
      BY <3>1, Zenon
    <3>3. one.counter \in Words /\ one.fired \in Nat
      BY <1>3, <3>1
    <3> QED BY <3>2, <3>3
  <2>4. CASE t1_running /\ free
    BY <1>6, <2>4, Zenon
  <2>5. CASE t1_running /\ ~free
    <3>1. /\ one.counter \in {Word - 1, t1_counter - n} /\ one.fired \in {0, 1}
          /\ one.counter = t1_counter - n => ~(t1_counter <= n) \/ one.counter = Word - 1
      BY <1>5, <2>5
    <3>2. one.running = FALSE \/ one.running = TRUE
      BY <1>5, <2>5
    <3>3. one.running \in BOOLEAN
      BY <3>2, Zenon
    <3>4. one.counter \in Words /\ one.fired \in Nat
      BY <2>1, <2>2, <3>1
    <3> QED BY <3>3, <3>4
  <2> QED BY <2>3, <2>4, <2>5, Zenon
<1>9. /\ Recorded(n, one.fired) \in [known : BOOLEAN, calls : Nat, elapsed : Nat, fired : Nat]
      /\ Recorded(n, one.fired).known =>
           /\ since.known
           /\ Recorded(n, one.fired).calls = since.calls + 1
           /\ Recorded(n, one.fired).elapsed = since.elapsed + n
           /\ Recorded(n, one.fired).fired = since.fired + one.fired
  BY <1>3, <1>4, <1>8, UnknownIs DEF Recorded
<1>10. TimerType'
  BY <1>2, <1>3, <1>8, <1>9 DEF TimerType
<1>11. CASE ~since'.known
  BY <1>10, <1>11 DEF TimeInv
<1>12. CASE since'.known
  <2>1. /\ since.known /\ since'.calls = since.calls + 1
        /\ since'.elapsed = since.elapsed + n /\ since'.fired = since.fired + one.fired
    BY <1>2, <1>9, <1>12
  <2>2. since.calls \in Nat /\ since.elapsed \in Nat /\ since.fired \in Nat
    BY <1>3
  <2>3. CASE free
    <3>1. FreeTime
      BY <2>1, <2>3 DEF TimeInv
    <3>2. t1_running /\ Periods(since.fired) + t1_latch - t1_counter - since.elapsed \in 0 .. since.calls
      BY <3>1 DEF FreeTime
    <3>3. /\ one.fired \in Nat /\ one.counter \in Words /\ one.running = TRUE
          /\ Periods(one.fired) + t1_counter - one.counter - n \in 0 .. 1
      BY <1>6, <2>3, <3>2
    <3>4. /\ Periods(since.fired + one.fired) = Periods(since.fired) + Periods(one.fired)
          /\ Periods(since.fired) \in Nat /\ Periods(one.fired) \in Nat
      BY <1>3, <2>2, <3>3, PeriodsAdd
    <3>5. one.counter \in Nat
      BY <3>3, Constants DEF Words
    <3>6. Periods(since.fired + one.fired) + t1_latch - one.counter - (since.elapsed + n)
            \in 0 .. since.calls + 1
      BY <1>4, <2>2, <3>2, <3>3, <3>4, <3>5
    <3>7. Periods(since.fired)' = Periods(since.fired + one.fired)
      BY <1>2, <2>1 DEF Periods
    <3>8. FreeTime'
      BY <1>2, <2>1, <3>3, <3>6, <3>7 DEF FreeTime
    <3> QED BY <1>2, <1>10, <2>3, <3>8 DEF TimeInv
  <2>4. CASE ~free
    <3>1. OneShotTime
      BY <2>1, <2>4 DEF TimeInv
    <3>2. CASE ~t1_running
      <4>1. since.fired = 1 /\ since.elapsed >= t1_latch /\ since.calls > 0
        BY <3>1, <3>2 DEF OneShotTime
      <4>2. one.fired = 0 /\ one.running = FALSE
        BY <1>7, <3>2
      <4>3. OneShotTime'
        BY <1>2, <1>4, <2>1, <2>2, <4>1, <4>2 DEF OneShotTime
      <4> QED BY <1>2, <1>10, <2>4, <4>3 DEF TimeInv
    <3>3. CASE t1_running
      <4>1. /\ since.fired = 0 /\ t1_counter = t1_latch - since.elapsed
            /\ IF since.calls = 0 THEN since.elapsed = 0 ELSE since.elapsed < t1_latch
        BY <3>1, <3>3 DEF OneShotTime
      <4>2. CASE t1_counter <= n
        <5>1. one.fired = 1 /\ one.running = FALSE
          BY <1>5, <2>4, <3>3, <4>2
        <5>2. OneShotTime'
          BY <1>2, <1>4, <2>1, <2>2, <4>1, <4>2, <5>1 DEF OneShotTime
        <5> QED BY <1>2, <1>10, <2>4, <5>2 DEF TimeInv
      <4>3. CASE ~(t1_counter <= n)
        <5>1. one.fired = 0 /\ one.running = TRUE /\ one.counter = t1_counter - n
          BY <1>5, <2>4, <3>3, <4>3
        <5>2. OneShotTime'
          BY <1>2, <1>4, <2>1, <2>2, <4>1, <4>3, <5>1 DEF OneShotTime
        <5> QED BY <1>2, <1>10, <2>4, <5>2 DEF TimeInv
      <4> QED BY <4>2, <4>3
    <3> QED BY <1>3, <3>2, <3>3
  <2> QED BY <1>3, <2>3, <2>4
<1> QED BY <1>11, <1>12

LEMMA TimeInvHolds == Spec => []TimeInv
<1>1. Init => TimeInv
  <2>1. 0 \in Words
    BY Constants DEF Words
  <2> QED BY <2>1, UnknownIs DEF Init, TimeInv, TimerType
<1>2. TimeInv /\ [Next]_vars => TimeInv'
  <2> SUFFICES ASSUME TimeInv, [Next]_vars PROVE TimeInv'
    OBVIOUS
  <2>1. TimerType
    BY DEF TimeInv
  <2>2. CASE Ticks
    BY <2>2, TickKeepsTime DEF Ticks
  <2>3. CASE UseTimer1
    <3>1. CASE ReadT1Low
      BY <3>1, TimerStays DEF ReadT1Low, control, timer1
    <3>2. ASSUME NEW v \in Half, WriteT1LatchLow(v) PROVE TimeInv'
      <4>1. t1_latch' \in Words
        BY <2>1, <3>2, Halves DEF WriteT1LatchLow, TimerType
      <4> QED BY <2>1, <3>2, <4>1, RecordEnds, UnknownIs DEF WriteT1LatchLow, TimerType, control
    <3>3. ASSUME NEW v \in Half, WriteT1LatchHigh(v) PROVE TimeInv'
      <4>1. t1_latch' \in Words
        BY <2>1, <3>3, Halves DEF WriteT1LatchHigh, TimerType
      <4> QED BY <2>1, <3>3, <4>1, RecordEnds, UnknownIs DEF WriteT1LatchHigh, TimerType, control
    <3> QED BY <2>3, <3>1, <3>2, <3>3, StartKeepsTime DEF UseTimer1
  <2>4. CASE UseTimer2
    BY <2>4, TimerStays DEF UseTimer2, ReadT2Low, WriteT2Low, StartT2, control, timer1
  <2>5. ASSUME NEW l \in Lines, UseLine(l) PROVE TimeInv'
    BY <2>5, TimerStays DEF UseLine, AccessPort, SetLine, control, timer1
  <2>6. CASE Configure
    <3>1. ASSUME NEW f \in BOOLEAN, NEW p \in BOOLEAN, NEW c \in BOOLEAN, WriteAcr(f, p, c) PROVE TimeInv'
      BY <2>1, <3>1, RecordEnds, UnknownIs DEF WriteAcr, TimerType, timer1
    <3>2. ASSUME NEW edges, WritePcr(edges) PROVE TimeInv'
      BY <3>2, TimerStays DEF WritePcr, timer1
    <3>3. ASSUME NEW mask, WriteIfr(mask) PROVE TimeInv'
      BY <3>3, TimerStays DEF WriteIfr, control, timer1
    <3>4. ASSUME NEW mask, NEW set \in BOOLEAN, WriteIer(mask, set) PROVE TimeInv'
      BY <3>4, TimerStays DEF WriteIer, timer1
    <3> QED BY <2>6, <3>1, <3>2, <3>3, <3>4 DEF Configure
  <2>7. CASE UNCHANGED vars
    BY <2>7, TimerStays DEF vars, control, timer1
  <2> QED BY <2>2, <2>3, <2>4, <2>5, <2>6, <2>7 DEF Next
<1> QED BY <1>1, <1>2, PTL DEF Spec

\* Timer 1 keeps time however the elapsed ticks are cut into slices
\* (via_tick): running freely it is early by one tick a slice at most, for a
\* slice that spans any number of periods; one-shot it fires once, in the slice
\* that brings the count to its end.
THEOREM TimeKept == Spec => []T1KeepsTime
<1>1. TimeInv => T1KeepsTime
  <2> DEFINE stood == since.fired * (t1_latch + 1) + t1_latch - t1_counter
             once == /\ since.fired = (IF since.calls > 0 /\ since.elapsed >= t1_latch THEN 1 ELSE 0)
                     /\ t1_running = (since.fired = 0)
  <2>1. ASSUME TimeInv, since.known, free PROVE stood - since.elapsed \in 0 .. since.calls
    <3>1. FreeTime
      BY <2>1, Zenon DEF TimeInv
    <3>2. TimerType
      BY <2>1 DEF TimeInv
    <3>3. t1_latch \in Nat /\ t1_counter \in Nat /\ since.elapsed \in Nat /\ since.fired \in Nat
      BY <3>2, Constants DEF TimerType, Words
    <3>4. PICK k : k = Periods(since.fired)
      OBVIOUS
    <3>5. k \in Nat
      BY <3>2, <3>3, <3>4, PeriodsAdd DEF TimerType
    <3>6. stood = k + t1_latch - t1_counter
      BY <3>4 DEF Periods
    <3> QED BY <3>1, <3>3, <3>4, <3>5, <3>6 DEF FreeTime
  <2>2. ASSUME TimeInv, since.known, ~free PROVE once
    <3>1. /\ OneShotTime /\ t1_latch \in Nat /\ since.calls \in Nat /\ since.elapsed \in Nat
          /\ t1_running \in BOOLEAN
      BY <2>2, Constants DEF TimeInv, TimerType, Words
    <3>2. CASE t1_running
      <4>1. since.fired = 0 /\ ~(since.calls > 0 /\ since.elapsed >= t1_latch)
        BY <3>1, <3>2 DEF OneShotTime
      <4> QED BY <3>1, <3>2, <4>1
    <3>3. CASE ~t1_running
      <4>1. since.fired = 1 /\ since.calls > 0 /\ since.elapsed >= t1_latch
        BY <3>1, <3>3 DEF OneShotTime
      <4> QED BY <3>1, <3>3, <4>1
    <3> QED BY <3>2, <3>3
  <2>3. T1KeepsTime = (since.known => IF free THEN stood - since.elapsed \in 0 .. since.calls ELSE once)
    BY Zenon DEF T1KeepsTime
  <2> HIDE DEF stood, once
  <2> QED BY <2>1, <2>2, <2>3, Zenon
<1> QED BY <1>1, TimeInvHolds, PTL
=============================================================================
