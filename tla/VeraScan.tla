------------------------------ MODULE VeraScan ------------------------------
(***************************************************************************)
(* VERA's beam and its interrupts (src/src/vera.c).  vera_tick, called     *)
(* after each slice of the CPU, moves two beams at once, VGA's by whole    *)
(* lines and NTSC's by half lines, renders the lines of the one that is    *)
(* shown, raises flags, and only then recomputes the interrupt output; the *)
(* guest's accesses fall between two ticks.  The vertical scale is one,    *)
(* the screen has no border, and NTSC is not progressive.                  *)
(***************************************************************************)
EXTENDS Picture

CONSTANTS
  ScanHeight, ScreenHeight, \* 525 and 480
  NtscLow, NtscHigh,        \* first lines of the two fields: 42 and 568
  Rows,      \* values of the upper half of eff_y_fp: 2^16
  MaxLines,  \* most lines a slice stands for: 19
  Compares,  \* the values a guest writes to irq_line
  Scenes,    \* the sprite tables it sets up: sequences of sprites
  Programs   \* the sets of things that vary

ASSUME ScanAssumption ==
  /\ {ScanHeight, Rows, NtscLow, NtscHigh, MaxLines} \subseteq Nat \ {0}
  /\ ScreenHeight \in 1 .. ScanHeight - 1 /\ ScreenHeight % 2 = 0
  /\ Rows > ScreenHeight
  /\ NtscHigh >= ScanHeight
  /\ Compares \subseteq Nat
  /\ Scenes \subseteq Seq(Sprites)

Flags == {"VSYNC", "LINE", "SPRCOL"}

VARIABLES
  ahead,      \* lines the tick under way has to go
  vga, ntsc,  \* vga_scan_pos_y, ntsc_scan_pos_y
  field,      \* bit 7 of reg_composer[0]
  ntsc_mode,  \* bit 1 of it
  sprites_on, \* bit 6 of it
  y_prev,     \* of render_line: the line rendered last
  eff_y,      \* of render_line: the upper half of eff_y_fp, the row of the scene
  scale,      \* rows to a line: prev_reg_composer[0][2]
  isr,        \* its flags
  coll,       \* its upper half
  hits,       \* sprite_line_collisions
  ien,        \* the enabled flags
  irq_line,
  scene,      \* sprite_properties
  aflow,      \* the PCM FIFO is almost empty
  irq_out,
  uses,       \* what varies: what the guest changes, and the beams' distance
  skewed,     \* history: no line has set the row since the mode was
  met,        \* history: the groups that met on the lines of this frame
  reported,   \* history: those of the last frame, less what the guest cleared
  touched     \* history: what irq_out depends on was changed since the last tick

beam == <<vga, ntsc, field>>
raster == <<y_prev, eff_y, scale>>
regs == <<ntsc_mode, sprites_on, ien, irq_line, scene>>
vars == <<ahead, beam, raster, skewed, regs, isr, coll, hits, aflow, irq_out, uses, met, reported, touched>>

Done == [vga |-> 0, ntsc |-> 0]

Active == (isr \cup (IF aflow THEN {"AFLOW"} ELSE {})) \cap ien # {}

-----------------------------------------------------------------------------
(* vera_tick, taken a line at a time.                                      *)

Known == Scenes \cup {<<>>}
LineHits == [s \in Known |-> [row \in 0 .. ScreenHeight |-> SpriteLine(s, row).hits]]
LineMeetings == [s \in Known |-> [row \in 0 .. ScreenHeight |-> Meetings(s, row)]]

LinesRight == [s \in Known |-> [row \in 0 .. ScreenHeight |->
                 \A pic \in Pictures : LineRight(pic, s, row)]]

OnScreen(y) == y \in 0 .. ScreenHeight - 1

\* Some lines set the row; each other one on the screen goes on from where it
\* is, whichever line brought it there.
Top(y) == y = 0 \/ (ntsc_mode /\ y = 1)
Step == IF ntsc_mode THEN 2 * scale ELSE scale
\* Mutant of Accumulated: it takes the lines of an NTSC field for neighbours.
AccumulatedByOne(y) ==
  IF y = y_prev \/ ~OnScreen(y) THEN eff_y
  ELSE IF Top(y) THEN y * scale
  ELSE (eff_y + scale) % Rows
Accumulated(y) ==
  IF y = y_prev \/ ~OnScreen(y) THEN eff_y
  ELSE IF Top(y) THEN y * scale
  ELSE (eff_y + Step) % Rows

\* Past the last row an even line shows the one after it, and an odd one it.
Clamped(y, row) == IF row >= ScreenHeight THEN ScreenHeight - (y % 2) ELSE row

\* What rendering line y adds to the collisions; and what it should add: the
\* meetings on its own row, once the mode's own top line has set the row.
Hit(y) == IF sprites_on /\ OnScreen(y) THEN LineHits[scene][Clamped(y, Accumulated(y))] ELSE {}
Met(y) ==
  IF sprites_on /\ OnScreen(y)
    THEN LineMeetings[scene][IF skewed THEN Clamped(y, Accumulated(y)) ELSE y]
    ELSE {}

\* render_line.  A top line that is not rendered again sets the row.
RenderLine(y) ==
  /\ y_prev' = y
  /\ eff_y' = Accumulated(y)
  /\ scale' = IF y = y_prev THEN scale ELSE 1
  /\ skewed' = (skewed /\ ~(Top(y) /\ y # y_prev /\ y = y * scale))

\* Mutant of ShownLine: the collisions are not cleared for the next frame.
ShownLineKeeps(hit, due, y, compare) ==
  LET now == hits \cup hit
      line == IF y = compare THEN {"LINE"} ELSE {}
  IN  IF y = ScreenHeight
        THEN /\ isr' = isr \cup line \cup {"VSYNC"} \cup (IF now # {} THEN {"SPRCOL"} ELSE {})
             /\ coll' = now
             /\ hits' = now
             /\ met' = {}
             /\ reported' = met \cup due
        ELSE /\ isr' = isr \cup line
             /\ hits' = now
             /\ met' = met \cup due
             /\ UNCHANGED <<coll, reported>>

\* A beam that is shown has hit some groups, others were due, and arrives at
\* line y: update_isr_and_coll.
ShownLine(hit, due, y, compare) ==
  LET now == hits \cup hit
      line == IF y = compare THEN {"LINE"} ELSE {}
  IN  IF y = ScreenHeight
        THEN /\ isr' = isr \cup line \cup {"VSYNC"} \cup (IF now # {} THEN {"SPRCOL"} ELSE {})
             /\ coll' = now
             /\ hits' = {}
             /\ met' = {}
             /\ reported' = met \cup due
        ELSE /\ isr' = isr \cup line
             /\ hits' = now
             /\ met' = met \cup due
             /\ UNCHANGED <<coll, reported>>

HiddenLine == UNCHANGED <<raster, skewed, isr, coll, hits, met, reported>>

\* A slice of the CPU is over: n VGA lines have passed and m NTSC half lines,
\* whose periods differ by less than a hundredth.
BeginTick(n, m) ==
  /\ ahead = Done
  /\ ahead' = [vga |-> n, ntsc |-> m]
  /\ UNCHANGED <<beam, raster, skewed, regs, isr, coll, hits, aflow, irq_out, met, reported, touched>>

\* Mutant of VgaLine: the beam skips the line after the last visible one.
VgaLineSkips ==
  /\ ahead.vga > 0
  /\ ahead' = [ahead EXCEPT !.vga = @ - 1]
  /\ vga' = (vga + (IF vga = ScreenHeight - 1 THEN 2 ELSE 1)) % ScanHeight
  /\ IF ntsc_mode THEN HiddenLine
     ELSE RenderLine(vga) /\ ShownLine(Hit(vga), Met(vga), vga', irq_line)
  /\ UNCHANGED <<ntsc, field, regs, aflow, irq_out, touched>>

VgaLine ==
  /\ ahead.vga > 0
  /\ ahead' = [ahead EXCEPT !.vga = @ - 1]
  /\ vga' = (vga + 1) % ScanHeight
  /\ IF ntsc_mode THEN HiddenLine
     ELSE RenderLine(vga) /\ ShownLine(Hit(vga), Met(vga), vga', irq_line)
  /\ UNCHANGED <<ntsc, field, regs, aflow, irq_out, touched>>

\* The fields start at different lines, and each shows every second one.
NtscY(pos) == IF pos < ScanHeight THEN pos - NtscLow ELSE pos - NtscHigh
NtscShows(pos) == NtscY(pos) % 2 = 0
NtscRow(pos) == IF pos < ScanHeight THEN NtscY(pos) ELSE NtscY(pos) + 1

\* Mutant of TickOutput: the output is computed before the beam moves.
TickOutputEarly == irq_out' = Active

\* What a line is compared with.
NtscCompare == irq_line - (irq_line % 2)

\* When the beams have arrived the interrupt output is computed.
TickOutput == irq_out' = Active'

\* The last half line ends the tick.
NtscLine ==
  /\ ahead.vga = 0 /\ ahead.ntsc > 0
  /\ ahead' = [ahead EXCEPT !.ntsc = @ - 1]
  /\ ntsc' = (ntsc + 1) % (2 * ScanHeight)
  /\ field' = IF ntsc' = ScanHeight THEN TRUE ELSE IF ntsc' = 0 THEN FALSE ELSE field
  /\ IF ~ntsc_mode THEN HiddenLine
     ELSE IF NtscShows(ntsc)
       THEN /\ RenderLine(NtscRow(ntsc))
            /\ ShownLine(Hit(NtscRow(ntsc)), Met(NtscRow(ntsc)), NtscY(ntsc'), NtscCompare)
       ELSE /\ ShownLine({}, {}, NtscY(ntsc'), NtscCompare)
            /\ UNCHANGED <<raster, skewed>>
  /\ UNCHANGED <<vga, regs, aflow>>
  /\ IF ahead.ntsc = 1 THEN TickOutput /\ touched' = FALSE ELSE UNCHANGED <<irq_out, touched>>

-----------------------------------------------------------------------------
(* The guest, between two ticks.                                           *)

Between == ahead = Done /\ UNCHANGED <<beam, raster, ahead, hits, irq_out, met>>
Touch == Between /\ touched' = TRUE /\ skewed' = skewed

\* ISR acknowledges by ones; the same bits clear the collisions.
WriteIsr(flags, groups) ==
  /\ isr' = isr \ flags
  /\ coll' = coll \ groups
  /\ reported' = reported \ groups
  /\ Touch /\ UNCHANGED <<regs, aflow>>

WriteIen(flags) ==
  /\ ien' = flags
  /\ Touch
  /\ UNCHANGED <<ntsc_mode, sprites_on, irq_line, scene, isr, coll, aflow, reported>>

WriteIrqLine(y) ==
  /\ irq_line' = y
  /\ Between
  /\ UNCHANGED <<skewed, touched, ntsc_mode, sprites_on, ien, scene, isr, coll, aflow, reported>>

WriteVideo(ntscOn, spritesOn) ==
  /\ ntsc_mode' = ntscOn
  /\ sprites_on' = spritesOn
  /\ skewed' = (skewed \/ ntscOn # ntsc_mode)
  /\ Between
  /\ UNCHANGED <<touched, ien, irq_line, scene, isr, coll, aflow, reported>>

WriteSprites(s) ==
  /\ scene' = s
  /\ Between
  /\ UNCHANGED <<skewed, touched, ntsc_mode, sprites_on, ien, irq_line, isr, coll, aflow, reported>>

\* The guest fills the PCM FIFO, or it drains.
Aflow(low) ==
  /\ aflow' = low
  /\ Touch /\ UNCHANGED <<regs, isr, coll, reported>>

\* video_reset: sprite_properties, and with them the scene, the state of
\* render_line and the output stay.  The PCM FIFO is emptied.
Reset ==
  /\ ahead = Done
  /\ vga' = 0 /\ ntsc' = 0 /\ field' = FALSE
  /\ ntsc_mode' = FALSE /\ sprites_on' = FALSE
  /\ isr' = {} /\ coll' = {} /\ hits' = {} /\ ien' = {}
  /\ irq_line' = 0
  /\ aflow' = TRUE
  /\ met' = {} /\ reported' = {}
  /\ touched' = TRUE
  /\ skewed' = TRUE
  /\ UNCHANGED <<ahead, raster, scene, irq_out>>

Init ==
  /\ ahead = Done
  /\ vga = 0 /\ ntsc = 0 /\ field = FALSE
  /\ y_prev = 0 /\ eff_y = 0 /\ scale = 0 /\ skewed = TRUE
  /\ ntsc_mode = FALSE /\ sprites_on = FALSE
  /\ isr = {} /\ coll = {} /\ hits = {} /\ ien = {}
  /\ irq_line = 0
  /\ scene = <<>>
  /\ aflow = TRUE
  /\ irq_out = FALSE
  /\ uses \in Programs
  /\ met = {} /\ reported = {}
  /\ touched = FALSE

Ticks ==
  \/ \E n, m \in 1 .. MaxLines :
       /\ n = m \/ ("drift" \in uses /\ n - m \in {-1, 1})
       /\ BeginTick(n, m)
  \/ VgaLine
  \/ NtscLine

Guest ==
  \/ \E flags \in SUBSET (Flags \cap uses), groups \in SUBSET coll :
       (groups # {} => "SPRCOL" \in uses) /\ WriteIsr(flags, groups)
  \/ \E flags \in SUBSET ((Flags \cup {"AFLOW"}) \cap uses) : WriteIen(flags)
  \/ "LINE" \in uses /\ \E y \in Compares : WriteIrqLine(y)
  \/ "AFLOW" \in uses /\ \E low \in BOOLEAN : Aflow(low)
  \/ \E ntscOn, spritesOn \in BOOLEAN :
       /\ ntscOn => "ntsc" \in uses
       /\ spritesOn => "sprites" \in uses
       /\ WriteVideo(ntscOn, spritesOn)
  \/ /\ "scenes" \in uses \/ ("sprites" \in uses /\ scene = <<>>)
     /\ \E s \in Scenes : WriteSprites(s)
  \/ Reset

Next == (Ticks \/ Guest) /\ UNCHANGED uses

\* Every pass of the main loop ticks VERA; the guest owes nothing.
Spec == Init /\ [][Next]_vars
FairSpec == Spec /\ WF_vars(Ticks /\ UNCHANGED uses)

-----------------------------------------------------------------------------
(* Properties.                                                             *)

\* No line of a scene the guest sets up runs out of clocks.
LinesInBudget ==
  \A s \in Scenes, y \in 0 .. ScreenHeight : ClocksSuffice(s, y)

\* The collision bits say which groups met: ISR those of the last frame less
\* what the guest cleared, the accumulator those of this frame so far, through
\* changes of mode and of sprites in the middle of a frame.  A line shows its
\* own row; but until the first top line after a change of mode, a reset or the
\* start, the row is the one that render_line was left with.
CollisionsReported == hits = met /\ coll = reported

\* Each pixel shows the foremost thing there, the backdrop, a layer or a
\* sprite, wherever sprites overlap or are flipped or cut by the screen's edge
\* and however the layers are scrolled, flipped and changed between lines; but
\* for the first pixels of a tile layer that is scrolled by part of a byte.
ForemostShown == \A row \in 0 .. ScreenHeight : LinesRight[scene][row]

\* The interrupt output is the enabled flags' OR, the FIFO's included, when a
\* tick is over: only what the guest did since can differ from it.
OutputAtTick == ahead = Done /\ ~touched => irq_out = Active

ModeChanges == Reset \/ \E n, s \in BOOLEAN : WriteVideo(n, s)
LineMoves == ModeChanges \/ \E y \in Compares : WriteIrqLine(y)

\* However many lines a slice covers, no frame passes without its VSYNC, once
\* the guest leaves the mode alone; nor without its line interrupt, if the line
\* is one the beam of the chosen mode passes and the guest stays with it: NTSC
\* ignores its lowest bit.
InterruptsRecur ==
  /\ <>[][~ModeChanges]_vars => []<>("VSYNC" \in isr)
  /\ <>[][~LineMoves]_vars =>
       []<>("LINE" \in isr \/ irq_line >= ScanHeight - (IF ntsc_mode THEN NtscLow ELSE 0))
=============================================================================
