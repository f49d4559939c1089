------------------------------- MODULE Boards -------------------------------
(***************************************************************************)
(* What the two CPUs find at an address (the memory callbacks of           *)
(* src/src/agfa9000.c, src/src/ioboard.c).  emu_current_cpu says whose     *)
(* slice it is, and every access goes to that board: also those of the     *)
(* debug sockets' threads, which do not ask.  The ring of XFifo is the     *)
(* IO board's MK4501.                                                      *)
(*                                                                         *)
(* Wide accesses are byte accesses but for ROM and RAM, where they have a  *)
(* fast path.  The main board's devices with side effects are modules of   *)
(* their own (Via, VeraPorts, Scsi, Scc); channel A's data register of the *)
(* DUART is in InterBoard.                                                 *)
(***************************************************************************)
EXTENDS XFifo

CONSTANTS
  Space,              \* 2^32
  RomTop,             \* ROM_TOTAL
  RamBase, RamTop,    \* 0x02000000, and where RAM ends
  EeBase, EeTop,      \* the EEPROM, 512 bytes
  LatchBase,          \* display_ctl, four bytes
  IoSpan,             \* 512 KB: higher address bits of the IO board are ignored
  IoRam, IoCells,     \* its RAM's block, and physical bytes, mirrored
  IoFifo, IoDuart, IoNone, \* first addresses of the blocks after it
  Rom,                \* contents of the ROM
  Written,            \* the bytes written
  Programs            \* what a run's CPUs access: records of addresses, main and io

ASSUME MapAssumption ==
  /\ {Space, RomTop, RamBase, RamTop, EeBase, EeTop, LatchBase} \subseteq Nat
  /\ {IoSpan, IoRam, IoFifo, IoDuart, IoNone} \subseteq Nat
  /\ 0 < RomTop /\ RomTop <= RamBase /\ RamBase < RamTop /\ RamTop <= EeBase
  /\ EeBase < EeTop /\ EeTop <= LatchBase /\ LatchBase + 4 <= Space
  /\ 0 < IoRam /\ IoRam < IoFifo /\ IoFifo < IoDuart /\ IoDuart < IoNone /\ IoNone <= IoSpan
  /\ IoCells \in Nat \ {0}
  /\ DOMAIN Rom = 0 .. RomTop - 1

Address == 0 .. Space - 1
Cells(n) == 0 .. n - 1
Outside == -1 \* what lies beyond an array of the emulator
Erased == 255

VARIABLES
  emu_current_cpu, \* 0 main, 1 IO board
  ram, eeprom, display_ctl,
  file,    \* eeprom.bin: as many bytes as it has
  present, \* there is such a file
  saving,  \* the creation of the file or the saving of a byte that is under way
  io_ram,
  mode_a, mode_b, \* MR1, MR2 and the pointer of the DUART's channels
  uses,    \* the program of this run
  intact   \* history: the file could be read at this start or created by it,
           \* and nothing was removed or failed since

ringVars == <<buf, rd, wr, count, answer>>
fileVars == <<file, present, saving, intact>>
mainVars == <<ram, eeprom, display_ctl, fileVars>>
ioVars == <<io_ram, mode_a, mode_b>>
boardVars == <<ringVars, emu_current_cpu, mainVars, ioVars, uses>>

-----------------------------------------------------------------------------
(* The main board.                                                         *)

\* m68k_read_memory_8 where reading has no effect.
Read8(a) ==
  CASE a < RomTop -> Rom[a]
    [] a \in RamBase .. RamTop - 1 -> ram[a - RamBase]
    [] a \in EeBase .. EeTop - 1 -> eeprom[a - EeBase]
    [] a \in LatchBase .. LatchBase + 3 -> display_ctl[a - LatchBase]
    [] OTHER -> 0

\* n bytes of an array from index i on: the fast path does not look again.
Bytes(array, i, n) ==
  [k \in 1 .. n |-> IF i + k - 1 \in DOMAIN array THEN array[i + k - 1] ELSE Outside]

\* Mutant of FastRom: the last byte is not looked at.
FastRomFirst(a, n) == a < RomTop

\* Whether an access of n bytes takes the fast path: the last byte's address
\* is computed in 32 bits.
FastRom(a, n) == (a + n - 1) % Space < RomTop
FastRam(a, n) == a >= RamBase /\ (a + n - 1) % Space < RamTop

Slow16(a) == <<Read8(a), Read8((a + 1) % Space)>>

\* m68k_read_memory_16 and _32: the most significant byte first.
Read16(a) ==
  IF FastRom(a, 2) THEN Bytes(Rom, a, 2)
  ELSE IF FastRam(a, 2) THEN Bytes(ram, a - RamBase, 2)
  ELSE Slow16(a)
Read32(a) ==
  IF FastRom(a, 4) THEN Bytes(Rom, a, 4)
  ELSE IF FastRam(a, 4) THEN Bytes(ram, a - RamBase, 4)
  ELSE Read16(a) \o Read16((a + 2) % Space)

\* The stages of eeprom_load's creation of the file and of eeprom_write_byte:
\* a file is opened, and closing it writes what was buffered.
Idle == [stage |-> "idle", at |-> Outside, old |-> 0]
Creating(stage) == [Idle EXCEPT !.stage = stage]

\* A byte written to the main board.  That of the EEPROM is still to be saved.
Write8(a, v) ==
  /\ emu_current_cpu = 0
  /\ \/ /\ a \in RamBase .. RamTop - 1
        /\ ram' = [ram EXCEPT ![a - RamBase] = v]
        /\ UNCHANGED <<eeprom, display_ctl, saving>>
     \/ /\ a \in EeBase .. EeTop - 1
        /\ eeprom' = [eeprom EXCEPT ![a - EeBase] = v]
        /\ saving' = [stage |-> "open", at |-> a - EeBase, old |-> eeprom[a - EeBase]]
        /\ UNCHANGED <<ram, display_ctl>>
     \/ /\ a \in LatchBase .. LatchBase + 3
        /\ display_ctl' = [display_ctl EXCEPT ![a - LatchBase] = v]
        /\ UNCHANGED <<ram, eeprom, saving>>
  /\ UNCHANGED <<ringVars, emu_current_cpu, file, present, intact, ioVars>>

\* m68k_write_memory_32 of four like bytes where all of them are RAM.
Write32(a, v) ==
  /\ emu_current_cpu = 0
  /\ a \in RamBase .. RamTop - 1
  /\ FastRam(a, 4)
  /\ ram' = [i \in DOMAIN ram |-> IF i - (a - RamBase) \in 0 .. 3 THEN v ELSE ram[i]]
  /\ UNCHANGED <<ringVars, emu_current_cpu, eeprom, display_ctl, fileVars, ioVars>>

-----------------------------------------------------------------------------
(* The IO board.                                                           *)

\* A DUART channel's mode registers share an address; each access of it moves
\* on to the other.
Moved(mode) == [mode EXCEPT !.ptr = 1 - @]
Mode(mode) == IF mode.ptr = 0 THEN mode.mr1 ELSE mode.mr2
Stored(mode, v) == Moved(IF mode.ptr = 0 THEN [mode EXCEPT !.mr1 = v] ELSE [mode EXCEPT !.mr2 = v])

\* Register number of an address in the DUART's block: the odd ones.
IsReg(a, r) == a \in IoDuart .. IoNone - 1 /\ a % 2 = 1 /\ a = IoDuart + 2 * r + 1
IsFifo(a) == a \in IoFifo .. IoDuart - 1 /\ a % 2 = 0

\* ioboard_read8: the MK4501 and the mode registers change when they are read.
IoRead8(a) ==
  LET b == a % IoSpan
  IN  /\ emu_current_cpu = 1
      /\ IF IsFifo(b) THEN Get ELSE UNCHANGED ringVars
      /\ mode_a' = IF IsReg(b, 0) THEN Moved(mode_a) ELSE mode_a
      /\ mode_b' = IF IsReg(b, 8) THEN Moved(mode_b) ELSE mode_b
      /\ UNCHANGED <<emu_current_cpu, mainVars, io_ram>>

\* ioboard_write8.  Command 1 of CRA and CRB resets the mode pointer.
IoWrite8(a, v) ==
  LET b     == a % IoSpan
      reset == (v \div 16) % 8 = 1
  IN  /\ emu_current_cpu = 1
      /\ IF IsFifo(b) THEN Put(v) ELSE UNCHANGED ringVars
      /\ io_ram' = IF b \in IoRam .. IoFifo - 1
                     THEN [io_ram EXCEPT ![(b - IoRam) % IoCells] = v] ELSE io_ram
      /\ mode_a' = IF IsReg(b, 0) THEN Stored(mode_a, v)
                   ELSE IF IsReg(b, 2) /\ reset THEN [mode_a EXCEPT !.ptr = 0] ELSE mode_a
      /\ mode_b' = IF IsReg(b, 8) THEN Stored(mode_b, v)
                   ELSE IF IsReg(b, 10) /\ reset THEN [mode_b EXCEPT !.ptr = 0] ELSE mode_b
      /\ UNCHANGED <<emu_current_cpu, mainVars>>

-----------------------------------------------------------------------------
(* Slices, threads, restarts.                                              *)

\* ioboard_run begins and ends.
Switch ==
  /\ emu_current_cpu' = 1 - emu_current_cpu
  /\ UNCHANGED <<ringVars, mainVars, ioVars>>

\* Mutant of EepromLoad: the rest of a short file is taken for erased.
EepromLoadErased(opens) ==
  IF present /\ opens
  THEN /\ eeprom' = [i \in DOMAIN eeprom |-> IF i < Len(file) THEN file[i + 1] ELSE Erased]
       /\ saving' = Idle /\ intact' = TRUE
  ELSE /\ eeprom' = [i \in DOMAIN eeprom |-> Erased]
       /\ saving' = Creating("create") /\ intact' = FALSE

\* eeprom_load: of a short file the rest stays 0; one that cannot be opened is
\* created, erased.
EepromLoad(opens) ==
  IF present /\ opens
  THEN /\ eeprom' = [i \in DOMAIN eeprom |-> IF i < Len(file) THEN file[i + 1] ELSE 0]
       /\ saving' = Idle /\ intact' = TRUE
  ELSE /\ eeprom' = [i \in DOMAIN eeprom |-> Erased]
       /\ saving' = Creating("create") /\ intact' = FALSE

\* fopen for writing in eeprom_load: the file is there, empty, or the start
\* goes on without it.
Create(fails) ==
  /\ saving.stage = "create"
  /\ IF fails THEN saving' = Idle /\ UNCHANGED <<file, present>>
              ELSE saving' = Creating("fill") /\ file' = <<>> /\ present' = TRUE
  /\ UNCHANGED intact

\* fclose there.  A file that was removed in the meantime is written for nothing.
Fill(fails) ==
  /\ saving.stage = "fill"
  /\ saving' = Idle
  /\ file' = IF present /\ ~fails THEN [k \in 1 .. EeTop - EeBase |-> Erased] ELSE file
  /\ intact' = (present /\ ~fails)
  /\ UNCHANGED present

\* fopen in eeprom_write_byte: for update, or, where that fails, of a new file,
\* or not at all.
OpenFile(how) ==
  /\ saving.stage = "open"
  /\ how = "r+b" => present
  /\ saving' = IF how = "fails" THEN Idle ELSE [saving EXCEPT !.stage = "close"]
  /\ file' = IF how = "w+b" THEN <<>> ELSE file
  /\ present' = (present \/ how = "w+b")
  /\ intact' = (intact /\ how = "r+b")

\* A byte stored in the file, behind its end too.
Saved(i, v) ==
  [k \in 1 .. (IF i + 1 > Len(file) THEN i + 1 ELSE Len(file)) |->
     IF k = i + 1 THEN v ELSE IF k <= Len(file) THEN file[k] ELSE 0]

\* fclose there.
CloseFile(fails) ==
  /\ saving.stage = "close"
  /\ saving' = Idle
  /\ file' = IF present /\ ~fails THEN Saved(saving.at, eeprom[saving.at]) ELSE file
  /\ intact' = (intact /\ present /\ ~fails)
  /\ UNCHANGED present

Saving ==
  /\ \/ \E fails \in BOOLEAN : Create(fails) \/ Fill(fails) \/ CloseFile(fails)
     \/ \E how \in {"r+b", "w+b", "fails"} : OpenFile(how)
  /\ UNCHANGED <<ringVars, emu_current_cpu, ram, eeprom, display_ctl, ioVars>>

FreshMode == [mr1 |-> 0, mr2 |-> 0, ptr |-> 0]

\* The emulator is stopped, at any time, and started again.
Restart(opens) ==
  /\ EepromLoad(opens)
  /\ buf' = [i \in Slots |-> Nothing]
  /\ rd' = 0 /\ wr' = 0 /\ count' = 0 /\ answer' = Queue!Got(Nothing)
  /\ io_ram' = [i \in Cells(IoCells) |-> 0]
  /\ mode_a' = FreshMode /\ mode_b' = FreshMode
  /\ emu_current_cpu' = 0
  /\ ram' = [i \in DOMAIN ram |-> 0]
  /\ display_ctl' = [i \in 0 .. 3 |-> 0]
  /\ UNCHANGED <<file, present>>

\* Somebody removes the EEPROM's file.
RemoveFile ==
  /\ file' = <<>> /\ present' = FALSE /\ intact' = FALSE
  /\ UNCHANGED <<ringVars, emu_current_cpu, ram, eeprom, display_ctl, saving, ioVars>>

\* The first start, without a file.
BoardsInit ==
  /\ Init
  /\ io_ram = [i \in Cells(IoCells) |-> 0]
  /\ mode_a = FreshMode /\ mode_b = FreshMode
  /\ emu_current_cpu = 0
  /\ uses \in Programs
  /\ ram = [i \in Cells(RamTop - RamBase) |-> 0]
  /\ eeprom = [i \in Cells(EeTop - EeBase) |-> Erased]
  /\ file = <<>> /\ present = FALSE
  /\ saving = Creating("create") /\ intact = FALSE
  /\ display_ctl = [i \in 0 .. 3 |-> 0]

\* The CPUs' thread is in eeprom_load or eeprom_write_byte until it is done.
Accesses ==
  /\ saving.stage = "idle"
  /\ \/ \E a \in uses.main, v \in Written : Write8(a, v) \/ Write32(a, v)
     \/ \E a \in uses.io : IoRead8(a) \/ \E v \in Written : IoWrite8(a, v)
     \/ Switch

BoardsNext ==
  /\ Accesses \/ Saving \/ RemoveFile \/ \E opens \in BOOLEAN : Restart(opens)
  /\ UNCHANGED uses

BoardsSpec == BoardsInit /\ [][BoardsNext]_boardVars

-----------------------------------------------------------------------------
(* Properties.                                                             *)

Bytes8(a, n) == [k \in 1 .. n |-> Read8((a + k - 1) % Space)]

\* A wide read finds what byte reads would, at every address: across the ends
\* of ROM, RAM and EEPROM, where the fast path of one width applies and the
\* other's does not.  Not so in the last three, where the address of the last
\* byte wraps round to the ROM.
WideIsBytes ==
  \A a \in 0 .. Space - 4 : Read16(a) = Bytes8(a, 2) /\ Read32(a) = Bytes8(a, 4)

\* What the guest wrote to the EEPROM is there after a restart at any moment,
\* if the file was there or created when the emulator was started last, was left
\* alone and could be opened and written since: also one that an earlier
\* failure left too short.  Of a byte that is being saved the old value may come
\* back, and nothing else.
EepromSurvives ==
  [][Restart(TRUE) /\ intact =>
       \A i \in DOMAIN eeprom :
         eeprom'[i] = eeprom[i] \/ (i = saving.at /\ eeprom'[i] = saving.old)]_boardVars
=============================================================================
