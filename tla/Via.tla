-------------------------------- MODULE Via ---------------------------------
(***************************************************************************)
(* A Rockwell R6522 as src/src/via.c emulates it: two timers, the edge     *)
(* detectors of CA1 and CB1, the flag register and its composite bit.  The *)
(* CPU runs slices of thousands of cycles, and the timers only move when   *)
(* the slice is over, by the whole slice at once (via_tick).  The ports'   *)
(* data is modelled in InterBoard; here a port access is what it does to   *)
(* the flags.                                                              *)
(***************************************************************************)
EXTENDS Integers

CONSTANTS
  Base,     \* values of half a counter, 256 in the code
  MaxTick,  \* longest step of via_tick: a slice of the CPU at the E clock
  Programs, \* the sets of flags a firmware may work with
  MaxCalls  \* bound: ticks the history of timer 1 records after a start

Flags == {"CA1", "CB1", "T1", "T2"}
Lines == {"CA1", "CB1"}
Word  == Base * Base
Words == 0 .. Word - 1
Half  == 0 .. Base - 1
High(w) == w \div Base
Low(w)  == w % Base

\* A slice is 10000 CPU cycles, some 1000 of the E clock: far below 2^16, so
\* the (uint16_t) in via_tick's comparison cuts nothing.
ASSUME ViaAssumption ==
  /\ Base \in Nat \ {0}
  /\ MaxTick \in 1 .. Word - 1
  /\ Programs \subseteq SUBSET Flags
  /\ MaxCalls \in Nat

VARIABLES
  ifr,        \* the flags that are set, without bit 7
  any,        \* bit 7 of IFR, which the guest reads
  ier,        \* the enabled flags
  free,       \* ACR bit 6: timer 1 runs freely
  pb7_on,     \* ACR bit 7: timer 1 drives PB7
  pulses,     \* ACR bit 5: timer 2 counts pulses
  rising,     \* PCR bits 0 and 4: the lines whose active edge is the rising one
  level,      \* ca1 and cb1
  prev,       \* ca1_prev and cb1_prev
  t1_counter, t1_latch, t1_running, t1_pb7_state,
  t2_counter, t2_latch_lo, t2_running,
  uses,       \* the flags this firmware works with
  since       \* history: what timer 1 did since its last start, while nothing
              \* that bears on its period was written

control == <<ier, free, pb7_on, pulses, rising>>
lines   == <<level, prev>>
timer1  == <<t1_counter, t1_latch, t1_running, t1_pb7_state>>
timer2  == <<t2_counter, t2_latch_lo, t2_running>>
vars == <<ifr, any, control, lines, timer1, timer2, uses, since>>

Unknown == [known |-> FALSE, calls |-> 0, elapsed |-> 0, fired |-> 0]
Started == [Unknown EXCEPT !.known = TRUE]

-----------------------------------------------------------------------------
(* Flags: update_irq, set_ifr and the acknowledgements.                    *)

UpdateIrq(enabled) == any' = (ifr' \cap enabled # {})

\* set_ifr: bit 7 is recomputed only when a flag is set.
Raise(raised) ==
  /\ ifr' = ifr \cup raised
  /\ IF raised # {} THEN UpdateIrq(ier) ELSE UNCHANGED any

Clear(cleared) ==
  /\ ifr' = ifr \ cleared
  /\ UpdateIrq(ier)

\* check_handshake: the flags of the lines that made their active edge.
Edges(now, before) ==
  {l \in Lines : now[l] # before[l] /\ (now[l] = 1 <=> l \in rising)}

-----------------------------------------------------------------------------
(* Register accesses.  A read that changes nothing is not an action.       *)

\* ORA and ORB, read or written, clear the flag of their line.
AccessPort(l) ==
  /\ Clear({l})
  /\ UNCHANGED <<control, lines, timer1, timer2, since>>

ReadT1Low ==
  /\ Clear({"T1"})
  /\ UNCHANGED <<control, lines, timer1, timer2, since>>

ReadT2Low ==
  /\ Clear({"T2"})
  /\ UNCHANGED <<control, lines, timer1, timer2, since>>

\* T1C-L and T1L-L write the same half of the latch.
WriteT1LatchLow(v) ==
  /\ t1_latch' = High(t1_latch) * Base + v
  /\ since' = Unknown
  /\ UNCHANGED <<ifr, any, control, lines, t1_counter, t1_running, t1_pb7_state, timer2>>

WriteT1LatchHigh(v) ==
  /\ t1_latch' = v * Base + Low(t1_latch)
  /\ Clear({"T1"})
  /\ since' = Unknown
  /\ UNCHANGED <<control, lines, t1_counter, t1_running, t1_pb7_state, timer2>>

StartT1(v) ==
  /\ t1_latch' = v * Base + Low(t1_latch)
  /\ t1_counter' = t1_latch'
  /\ t1_running' = TRUE
  /\ Clear({"T1"})
  /\ since' = Started
  /\ UNCHANGED <<control, lines, t1_pb7_state, timer2>>

WriteT2Low(v) ==
  /\ t2_latch_lo' = v
  /\ UNCHANGED <<ifr, any, control, lines, timer1, t2_counter, t2_running, since>>

StartT2(v) ==
  /\ t2_counter' = v * Base + t2_latch_lo
  /\ t2_running' = TRUE
  /\ Clear({"T2"})
  /\ UNCHANGED <<control, lines, timer1, t2_latch_lo, since>>

WriteAcr(f, p, c) ==
  /\ free' = f
  /\ pb7_on' = p
  /\ pulses' = c
  /\ since' = Unknown
  /\ UNCHANGED <<ifr, any, ier, rising, lines, timer1, timer2>>

WritePcr(edges) ==
  /\ rising' = edges
  /\ UNCHANGED <<ifr, any, ier, free, pb7_on, pulses, lines, timer1, timer2, since>>

WriteIfr(mask) ==
  /\ Clear(mask)
  /\ UNCHANGED <<control, lines, timer1, timer2, since>>

\* Mutant of WriteIer: bit 7 of IFR is left as it was.
WriteIerNoUpdate(mask, set) ==
  /\ ier' = IF set THEN ier \cup mask ELSE ier \ mask
  /\ UNCHANGED <<ifr, any, free, pb7_on, pulses, rising, lines, timer1, timer2, since>>

WriteIer(mask, set) ==
  /\ ier' = IF set THEN ier \cup mask ELSE ier \ mask
  /\ UNCHANGED ifr
  /\ UpdateIrq(ier')
  /\ UNCHANGED <<free, pb7_on, pulses, rising, lines, timer1, timer2, since>>

-----------------------------------------------------------------------------
(* via_tick.                                                               *)

\* Timer 1 running freely, with so many ticks of a step left and at c: how
\* often it fires, and its counter then.  A step that ends exactly on the count
\* fires already, a tick early.
Run[left \in -1 .. MaxTick] ==
  [c \in Words |->
     IF left <= 0 THEN [fired |-> 0, counter |-> c]
     ELSE IF c <= left % Word
       THEN LET rest == Run[left - (c + 1)][t1_latch]
            IN  [fired |-> rest.fired + 1, counter |-> rest.counter]
       ELSE [fired |-> 0, counter |-> (c - left) % Word]]

\* Mutant of FreeRun: a step that crosses zero loses what is left of it.
FreeRunOnce(n, counter) ==
  IF counter <= n % Word
    THEN [fired |-> 1, counter |-> t1_latch]
    ELSE [fired |-> 0, counter |-> (counter - n) % Word]

FreeRun(n, counter) == Run[n][counter]

\* A timer in one-shot mode: it stops when it fires, its counter at the top.
OneShot(n, counter) ==
  IF counter <= n % Word
    THEN [fired |-> 1, counter |-> Word - 1, running |-> FALSE]
    ELSE [fired |-> 0, counter |-> (counter - n) % Word, running |-> TRUE]

Stopped(counter) == [fired |-> 0, counter |-> counter, running |-> FALSE]

\* Mutant of AfterT1: the pulse mode of timer 2 stops timer 1.
AfterT1Pulses(n) ==
  IF ~t1_running \/ pulses THEN [Stopped(t1_counter) EXCEPT !.running = t1_running]
  ELSE OneShot(n, t1_counter)

AfterT1(n) ==
  IF ~t1_running THEN Stopped(t1_counter)
  ELSE IF free
    THEN LET r == FreeRun(n, t1_counter)
         IN  [fired |-> r.fired, counter |-> r.counter, running |-> TRUE]
    ELSE OneShot(n, t1_counter)

AfterT2(n) ==
  IF t2_running /\ ~pulses
    THEN OneShot(n, t2_counter)
    ELSE [Stopped(t2_counter) EXCEPT !.running = t2_running]

Recorded(n, fired) ==
  IF since.known /\ since.calls < MaxCalls
    THEN [known   |-> TRUE,
          calls   |-> since.calls + 1,
          elapsed |-> since.elapsed + n,
          fired   |-> since.fired + fired]
    ELSE Unknown

\* The main loop ticks the VIA after each slice.
Tick(n) ==
  LET one == AfterT1(n)
      two == AfterT2(n)
  IN  /\ t1_counter' = one.counter
      /\ t1_running' = one.running
      /\ t1_pb7_state' = IF free /\ pb7_on /\ one.fired % 2 = 1
                           THEN ~t1_pb7_state ELSE t1_pb7_state
      /\ t2_counter' = two.counter
      /\ t2_running' = two.running
      /\ UNCHANGED <<control, level, t1_latch, t2_latch_lo>>
      /\ Raise((IF one.fired > 0 THEN {"T1"} ELSE {})
                 \cup (IF two.fired > 0 THEN {"T2"} ELSE {})
                 \cup Edges(level, prev))
      /\ prev' = level
      /\ since' = Recorded(n, one.fired)

\* Mutant of SetLine: the edge detector keeps the old level.
SetLineKeepsPrev(l, v) ==
  /\ level' = [level EXCEPT ![l] = v]
  /\ UNCHANGED <<control, timer1, timer2, since>>
  /\ Raise(Edges(level', prev))
  /\ UNCHANGED prev

\* via_set_ca1 and via_set_cb1, called by the wiring of the main loop.
SetLine(l, v) ==
  /\ level' = [level EXCEPT ![l] = v]
  /\ UNCHANGED <<control, timer1, timer2, since>>
  /\ Raise(Edges(level', prev))
  /\ prev' = level'

-----------------------------------------------------------------------------
Init ==
  /\ ifr = {}
  /\ any = FALSE
  /\ ier = {}
  /\ free = FALSE
  /\ pb7_on = FALSE
  /\ pulses = FALSE
  /\ rising = {}
  /\ level = [l \in Lines |-> 1]
  /\ prev = [l \in Lines |-> 1]
  /\ t1_counter = 0
  /\ t1_latch = 0
  /\ t1_running = FALSE
  /\ t1_pb7_state = FALSE
  /\ t2_counter = 0
  /\ t2_latch_lo = 0
  /\ t2_running = FALSE
  /\ uses \in Programs
  /\ since = Unknown

Ticks == \E n \in 1 .. MaxTick : Tick(n)

UseTimer1 ==
  /\ "T1" \in uses
  /\ \/ ReadT1Low
     \/ \E v \in Half : WriteT1LatchLow(v) \/ WriteT1LatchHigh(v) \/ StartT1(v)

UseTimer2 ==
  /\ "T2" \in uses
  /\ \/ ReadT2Low
     \/ \E v \in Half : WriteT2Low(v) \/ StartT2(v)

UseLine(l) ==
  /\ l \in uses
  /\ \/ AccessPort(l)
     \/ \E v \in {0, 1} : SetLine(l, v)

Configure ==
  \/ \E f, p, c \in BOOLEAN :
       /\ f \/ p => "T1" \in uses
       /\ WriteAcr(f, p, c)
  \/ \E edges \in SUBSET (Lines \cap uses) : WritePcr(edges)
  \/ \E mask \in SUBSET uses : WriteIfr(mask)
  \/ \E mask \in SUBSET uses, set \in BOOLEAN : WriteIer(mask, set)

Next ==
  /\ \/ Ticks
     \/ UseTimer1
     \/ UseTimer2
     \/ \E l \in Lines : UseLine(l)
     \/ Configure
  /\ UNCHANGED uses

\* Every pass of the main loop ticks the VIA; the guest owes nothing.
Spec == Init /\ [][Next]_vars
FairSpec == Spec /\ WF_vars(Ticks /\ UNCHANGED uses)

-----------------------------------------------------------------------------
(* Properties.                                                             *)

\* The composite bit the guest reads in IFR and the interrupt line the main
\* loop computes (via_irq_active) never disagree, after any access, tick or
\* edge: each of them recomputes the bit when it must.
IrqFollows == any = (ifr \cap ier # {})

\* A free-running timer 1 keeps time: after any split of the elapsed ticks into
\* slices, the ticks its periods and its counter stand for are the elapsed
\* ones, but for one tick per slice that ended just on its count.  In one-shot
\* mode it fires once, when the count has elapsed and never again.
T1KeepsTime ==
  since.known =>
    IF free
      THEN LET stood == since.fired * (t1_latch + 1) + t1_latch - t1_counter
           IN  stood - since.elapsed \in 0 .. since.calls
      ELSE /\ since.fired = (IF since.calls > 0 /\ since.elapsed >= t1_latch THEN 1 ELSE 0)
           /\ t1_running = (since.fired = 0)

\* A flag rises only for its cause: a line's, when the line makes its active
\* edge, and never for a write to PCR or for an edge already seen; a timer's,
\* when the timer was running, and timer 2's not in pulse mode.
FlagsHaveCause ==
  [][\A f \in ifr' \ ifr :
       IF f \in Lines
         THEN level'[f] # level[f] /\ (level'[f] = 1 <=> f \in rising)
         ELSE /\ f = "T1" => t1_running
              /\ f = "T2" => t2_running /\ ~pulses]_vars

\* Once the firmware stops restarting it, a running timer 1 fires.
T1Expires ==
  <>[][~\E v \in Half : StartT1(v)]_vars => (t1_running ~> "T1" \in ifr \/ ~t1_running)
=============================================================================
