------------------------------ MODULE PcmFifo -------------------------------
(***************************************************************************)
(* VERA's PCM FIFO (src/src/vera.c): a ring the guest's CPU thread fills   *)
(* and restarts, and that is played either by SDL's audio thread, with no  *)
(* lock between the two, or, without sound, by vera_tick on the CPU thread *)
(* itself.  Each load and each store of a shared index or of the count by  *)
(* the two threads is a step of its own, but that a test of the count goes *)
(* with the store after it.  Volumes and samples are left out.             *)
(***************************************************************************)
EXTENDS Integers, Sequences

CONSTANTS
  Size,    \* sizeof(pcm_fifo), 4096 in the code
  Modulus, \* the count is unsigned: 2^32 in the code
  Frames,  \* bytes of a sample frame: {1, 2, 4}
  Values   \* the bytes the guest writes

ASSUME PcmAssumption ==
  /\ Size \in Nat \ {0, 1}
  /\ Modulus \in Nat /\ Modulus > Size
  /\ Frames \subseteq Nat \ {0}

VARIABLES
  silent,  \* silent_pcm_drain, chosen when the emulator starts
  buf, wr, rd, cnt,
  loop,    \* pcm_loop
  frame,   \* what bits 4 and 5 of pcm_ctrl make of a frame, in bytes
  playing, \* pcm_rate # 0
  cpu,     \* the CPU thread's next step in a call
  cpu_reg, \* the count it has loaded
  audio,   \* the audio thread's next step in pcm_consume_one
  audio_reg, \* the value it has loaded
  left,    \* bytes its frame lacks, the current one included
  waiting, \* history: the bytes that should be in the ring, oldest first
  raced    \* history: the threads got into each other's way since the last
           \* reset or restart that nobody disturbed

shared == <<buf, wr, rd, cnt>>
pcm_regs  == <<loop, frame, playing>>
cpuSide   == <<cpu, cpu_reg>>
audioSide == <<audio, audio_reg, left>>
pcm_vars == <<silent, shared, pcm_regs, cpuSide, audioSide, waiting, raced>>

Slots == 0 .. Size - 1
Counts == 0 .. Modulus - 1
Items == [i \in 1 .. cnt |-> buf[(rd + i - 1) % Size]]
\* What a restart makes of the ring: everything up to the write index.
Rewound == [i \in 1 .. wr |-> buf[i - 1]]

Full  == cnt >= Size - 1
Empty == cnt = 0

Idle == cpu = "ready" /\ audio = "idle"
Resetting == cpu \in {"reset_rd", "reset_cnt", "restart_cnt"}

\* A history step: c says whether the two threads collide here.
Collide(c) == raced' = (raced \/ c)
Expect(items) == waiting' = IF raced' THEN <<>> ELSE items

-----------------------------------------------------------------------------
(* The CPU thread.                                                         *)

\* Mutant of WriteFifo: the full ring is noticed one byte late.
WriteFifoLate(b) ==
  /\ cpu = "ready"
  /\ cnt < Size + 1
  /\ buf' = [buf EXCEPT ![wr] = b]
  /\ wr' = (wr + 1) % Size
  /\ cpu' = "load"
  /\ Collide(audio = "restart")
  /\ Expect(Append(waiting, b))
  /\ UNCHANGED <<silent, rd, cnt, pcm_regs, cpu_reg, audioSide>>

\* pcm_write_fifo; on a full FIFO the byte is lost and nothing changes.
WriteFifo(b) ==
  /\ cpu = "ready"
  /\ ~Full
  /\ buf' = [buf EXCEPT ![wr] = b]
  /\ wr' = (wr + 1) % Size
  /\ cpu' = "load"
  /\ Collide(audio = "restart")
  /\ Expect(Append(waiting, b))
  /\ UNCHANGED <<silent, rd, cnt, pcm_regs, cpu_reg, audioSide>>

LoadCount ==
  /\ cpu = "load"
  /\ cpu_reg' = cnt
  /\ cpu' = "store"
  /\ UNCHANGED <<silent, shared, pcm_regs, audioSide, waiting, raced>>

StoreCount ==
  /\ cpu = "store"
  /\ cnt' = (cpu_reg + 1) % Modulus
  /\ cpu' = "ready"
  /\ cpu_reg' = 0
  /\ Collide(audio = "store")
  /\ Expect(waiting)
  /\ UNCHANGED <<silent, buf, wr, rd, pcm_regs, audioSide>>

\* pcm_fifo_reset and pcm_fifo_restart, up to their first store.
BeginReset ==
  /\ wr' = 0
  /\ cpu' = "reset_rd"
  /\ raced' = (audio # "idle")
  /\ Expect(<<>>)
  /\ UNCHANGED rd

BeginRestart ==
  /\ rd' = 0
  /\ cpu' = "restart_cnt"
  /\ raced' = (audio # "idle")
  /\ Expect(Rewound)
  /\ UNCHANGED wr

\* Bit 7 alone resets the FIFO; bit 6 restarts it, and with bit 7 for ever.
WriteCtrl(bit7, bit6, bytes) ==
  /\ cpu = "ready"
  /\ loop' = (bit7 /\ bit6)
  /\ frame' = bytes
  /\ \/ bit7 /\ ~bit6 /\ BeginReset
     \/ bit6 /\ BeginRestart
     \/ ~bit7 /\ ~bit6 /\ UNCHANGED <<wr, rd, cpu, waiting, raced>>
  /\ UNCHANGED <<silent, buf, cnt, playing, cpu_reg, audioSide>>

\* pcm_reset, from a VERA reset: pcm_loop keeps its value.
PcmReset ==
  /\ cpu = "ready"
  /\ frame' = 1
  /\ playing' = FALSE
  /\ BeginReset
  /\ UNCHANGED <<silent, buf, cnt, loop, cpu_reg, audioSide>>

StoreReset ==
  /\ \/ cpu = "reset_rd" /\ rd' = 0 /\ cpu' = "reset_cnt" /\ UNCHANGED cnt
     \/ cpu = "reset_cnt" /\ cnt' = 0 /\ cpu' = "ready" /\ UNCHANGED rd
     \/ cpu = "restart_cnt" /\ cnt' = wr /\ cpu' = "ready" /\ UNCHANGED rd
  /\ UNCHANGED <<silent, buf, wr, pcm_regs, cpu_reg, audioSide, waiting, raced>>

\* pcm_write_rate folds every other value to one in 1 .. 128.
WriteRate(on) ==
  /\ cpu = "ready"
  /\ playing' = on
  /\ UNCHANGED <<silent, shared, loop, frame, cpuSide, audioSide, waiting, raced>>

-----------------------------------------------------------------------------
(* pcm_consume_one.  The phase accumulator that decides when a frame is    *)
(* due is left out: while the rate is not zero, frames go on falling due.  *)

Least(a, b) == IF a < b THEN a ELSE b

\* pcm_tick_cycles, between the slices of the CPU, one frame: a frame that is
\* not complete is played as far as it goes.
TickConsume ==
  /\ silent
  /\ playing
  /\ cpu = "ready"
  /\ LET bytes == Least(frame, cnt)
     IN  \/ /\ ~Empty
            /\ rd' = (rd + bytes) % Size
            /\ cnt' = cnt - bytes
            /\ waiting' = SubSeq(waiting, bytes + 1, Len(waiting))
         \/ /\ Empty /\ loop
            /\ rd' = 0
            /\ cnt' = wr
            /\ waiting' = Rewound
  /\ UNCHANGED <<silent, buf, wr, pcm_regs, cpuSide, audioSide, raced>>

\* vera_audio_render, in the audio thread, finds a frame due.
AudioStart ==
  /\ ~silent
  /\ playing
  /\ audio = "idle"
  /\ \/ /\ ~Empty
        /\ audio' = "load_rd"
        /\ left' = frame
        /\ Collide(Resetting)
        /\ Expect(waiting)
        /\ UNCHANGED <<rd, audio_reg>>
     \/ /\ Empty /\ loop
        /\ rd' = 0
        /\ audio_reg' = wr
        /\ audio' = "restart"
        /\ left' = 1
        /\ Collide(cpu # "ready")
        /\ Expect(Rewound)
  /\ UNCHANGED <<silent, buf, wr, cnt, pcm_regs, cpuSide>>

AudioRestart ==
  /\ audio = "restart"
  /\ cnt' = audio_reg
  /\ audio' = "idle"
  /\ audio_reg' = 0
  /\ left' = 0
  /\ Collide(cpu = "store")
  /\ Expect(waiting)
  /\ UNCHANGED <<silent, buf, wr, rd, pcm_regs, cpuSide>>

\* pcm_read_fifo: its loads of the two shared variables.
AudioLoad ==
  /\ \/ audio = "load_rd" /\ audio_reg' = rd /\ audio' = "store_rd"
     \/ audio = "load" /\ audio_reg' = cnt /\ audio' = "store"
  /\ UNCHANGED <<silent, shared, pcm_regs, cpuSide, left, waiting, raced>>

AudioStoreRd ==
  /\ audio = "store_rd"
  /\ rd' = (audio_reg + 1) % Size
  /\ audio' = "load"
  /\ audio_reg' = 0
  /\ UNCHANGED <<silent, buf, wr, cnt, pcm_regs, cpuSide, left, waiting, raced>>

\* Mutant of AudioStoreCount: the byte is not taken off the count.
AudioStoreCountNot ==
  /\ audio = "store"
  /\ cnt' = audio_reg
  /\ left' = 0
  /\ audio' = "idle"
  /\ audio_reg' = 0
  /\ Collide(cpu = "store")
  /\ Expect(IF waiting = <<>> THEN <<>> ELSE Tail(waiting))
  /\ UNCHANGED <<silent, buf, wr, rd, pcm_regs, cpuSide>>

\* The byte is taken; the frame goes on if it lacks more and there are more.
AudioStoreCount ==
  /\ audio = "store"
  /\ cnt' = (audio_reg - 1) % Modulus
  /\ left' = IF cnt' > 0 THEN left - 1 ELSE 0
  /\ audio' = IF left' > 0 THEN "load_rd" ELSE "idle"
  /\ audio_reg' = 0
  /\ Collide(cpu = "store")
  /\ Expect(IF waiting = <<>> THEN <<>> ELSE Tail(waiting))
  /\ UNCHANGED <<silent, buf, wr, rd, pcm_regs, cpuSide>>

-----------------------------------------------------------------------------
PcmInit ==
  /\ silent \in BOOLEAN
  /\ buf = [s \in Slots |-> 0]
  /\ wr = 0 /\ rd = 0 /\ cnt = 0
  /\ loop = FALSE
  /\ frame = 1
  /\ playing = FALSE
  /\ cpu = "ready" /\ cpu_reg = 0
  /\ audio = "idle" /\ audio_reg = 0 /\ left = 0
  /\ waiting = <<>>
  /\ raced = FALSE

PcmGuest ==
  \/ \E b \in Values : WriteFifo(b)
  \/ \E bit7, bit6 \in BOOLEAN, bytes \in Frames : WriteCtrl(bit7, bit6, bytes)
  \/ \E on \in BOOLEAN : WriteRate(on)
  \/ PcmReset

CpuStep   == LoadCount \/ StoreCount \/ StoreReset
AudioStep == AudioStart \/ AudioRestart \/ AudioLoad \/ AudioStoreRd \/ AudioStoreCount

PcmNext == PcmGuest \/ CpuStep \/ TickConsume \/ AudioStep

\* A call once begun is finished, SDL goes on calling back, and slices go on
\* ending between calls, however many calls the guest makes (hence SF).
PcmSpec == PcmInit /\ [][PcmNext]_pcm_vars
PcmFairSpec == PcmSpec /\ WF_pcm_vars(CpuStep) /\ SF_pcm_vars(TickConsume) /\ WF_pcm_vars(AudioStep)

-----------------------------------------------------------------------------
(* Properties.                                                             *)

\* Whatever the threads do to each other, both indices stay in the ring and
\* the count in its width.
TypeOK ==
  /\ {silent, loop, playing, raced} \subseteq BOOLEAN
  /\ buf \in [Slots -> Values \cup {0}]
  /\ wr \in Slots
  /\ rd \in Slots
  /\ cnt \in Counts
  /\ frame \in Frames \cup {1}
  /\ cpu \in {"ready", "load", "store", "reset_rd", "reset_cnt", "restart_cnt"}
  /\ cpu_reg \in Counts
  /\ audio \in {"idle", "restart", "load_rd", "store_rd", "load", "store"}
  /\ audio_reg \in Counts
  /\ left \in Nat /\ (left = 0 <=> audio = "idle")
  /\ waiting \in Seq(Values \cup {0})

\* The ring is a FIFO: between calls it holds what was written and not yet
\* played, oldest first, and the count is its length, below Size.  Without
\* sound always; with the audio thread, unless it was inside a read while the
\* guest reset or restarted the FIFO, or the two overlapped in the update of
\* the count: no other interleaving of their loads and stores does harm, and
\* an undisturbed reset or restart puts right what those did.
HoldsTheWaiting ==
  Idle /\ (silent \/ ~raced) => cnt = Len(waiting) /\ cnt < Size /\ Items = waiting

\* A full FIFO does not stay full while it is played, with or without sound:
\* a guest that polls for room goes on, even after the threads collided.
FullDrains == Full /\ playing ~> ~Full \/ ~playing
=============================================================================
