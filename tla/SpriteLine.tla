----------------------------- MODULE SpriteLine -----------------------------
(***************************************************************************)
(* render_sprite_line (src/src/vera.c): one line of the sprites, drawn in  *)
(* the order of their numbers with a budget of clocks, and what two        *)
(* sprites of one collision group have in common.  Beside it, what the     *)
(* line should be, pixel by pixel.                                         *)
(***************************************************************************)
EXTENDS Integers, Sequences, FiniteSets

CONSTANTS
  Width,  \* SCREEN_WIDTH
  Budget, \* clocks of a line: 801
  Wrap    \* values of sprite_budget, 2^16

ASSUME SpriteAssumption ==
  /\ Width \in Nat \ {0}
  /\ Wrap \in Nat /\ Budget \in 1 .. Wrap - 1

\* A sprite is a record: depth z, collision group mask (a set), x, y, width w
\* and height h, flips, colour, opaque, its pixels that are not colour 0, and
\* fetch, the pixels in a 32-bit fetch: eight of 4 bits or four of 8.
Sprites ==
  [x : Int, y : Int, w : Nat, h : Nat, z : 0 .. 3, mask : SUBSET Nat, col : Nat \ {0},
   fetch : Nat \ {0}, hflip : BOOLEAN, vflip : BOOLEAN, opaque : SUBSET (Nat \X Nat)]

Covers(s, y) == s.z # 0 /\ y >= s.y /\ y < s.y + s.h

Row(s, y) == IF s.vflip THEN s.h - 1 - (y - s.y) ELSE y - s.y
Column(s, sx) == IF s.hflip THEN s.w - 1 - sx ELSE sx
Visible(x) == x \in 0 .. Width - 1

Blank == [x \in 0 .. Width - 1 |-> [col |-> 0, z |-> 0, mask |-> {}]]

\* Mutant of Plot: the last sprite of equal depth wins.
PlotLast(line, s, x) ==
  [line EXCEPT ![x] = [col |-> IF s.z >= @.z THEN s.col ELSE @.col,
                       z |-> IF s.z >= @.z THEN s.z ELSE @.z,
                       mask |-> @.mask \cup s.mask]]

\* An opaque pixel over what is there: deeper sprites hide it, its group stays.
Over(s, there) ==
  [col |-> IF s.z > there.z THEN s.col ELSE there.col,
   z |-> IF s.z > there.z THEN s.z ELSE there.z,
   mask |-> there.mask \cup s.mask]
Plot(line, s, x) == [line EXCEPT ![x] = Over(s, @)]

Spend(budget) == (budget - 1) % Wrap

\* Column sx of sprite s.  A pixel costs a clock, and one more where a fetch
\* begins; running out ends this sprite and only this one.
Pixel(s, y, sx, st) ==
  LET x  == s.x + sx
      b1 == IF sx % s.fetch = 0 THEN Spend(st.budget) ELSE st.budget
      b2 == IF b1 = 0 THEN 0 ELSE Spend(b1)
  IN  IF st.out \/ ~Visible(x) THEN st
      ELSE IF b2 = 0 THEN [st EXCEPT !.budget = 0, !.out = TRUE]
      ELSE IF <<Row(s, y), Column(s, sx)>> \in s.opaque
        THEN [st EXCEPT !.budget = b2,
                        !.line = Plot(@, s, x),
                        !.hits = @ \cup (st.line[x].mask \cap s.mask)]
        ELSE [st EXCEPT !.budget = b2]

Pixels(s, y, start) ==
  LET from[sx \in 0 .. s.w] ==
        IF sx = 0 THEN [start EXCEPT !.out = FALSE] ELSE Pixel(s, y, sx - 1, from[sx - 1])
  IN  from[s.w]

\* The look-up of a sprite costs a clock as well, and there running out ends
\* the line; but a budget that ran out among the pixels is 0, and the next
\* look-up takes it round to Wrap - 1.
LookUp(s, y, st) ==
  LET b == Spend(st.budget)
  IN  IF st.over THEN st
      ELSE IF b = 0 THEN [st EXCEPT !.over = TRUE]
      ELSE IF ~Covers(s, y) THEN [st EXCEPT !.budget = b]
      ELSE Pixels(s, y, [st EXCEPT !.budget = b])

Unspent == [budget |-> Budget, over |-> FALSE, out |-> FALSE, line |-> Blank, hits |-> {}]

SpriteLine(sprites, y) ==
  LET upto[i \in 0 .. Len(sprites)] ==
        IF i = 0 THEN Unspent ELSE LookUp(sprites[i], y, upto[i - 1])
  IN  upto[Len(sprites)]

-----------------------------------------------------------------------------
(* What a line should be, without a budget.                                *)

\* The sprites with an opaque pixel at x.
OpaqueAt(sprites, x, y) ==
  {i \in 1 .. Len(sprites) :
     LET s == sprites[i]
     IN  /\ Covers(s, y)
         /\ x - s.x \in 0 .. s.w - 1
         /\ <<Row(s, y), Column(s, x - s.x)>> \in s.opaque}

\* The sprite to be seen at x: of the least hidden ones, the first.
OnTop(sprites, x, y) ==
  LET here == OpaqueAt(sprites, x, y)
  IN  {i \in here : \A j \in here :
         \/ sprites[j].z < sprites[i].z
         \/ sprites[j].z = sprites[i].z /\ i <= j}

\* The groups of which two sprites meet on line y.
Meetings(sprites, y) ==
  UNION {UNION {sprites[p[1]].mask \cap sprites[p[2]].mask :
                  p \in {q \in OpaqueAt(sprites, x, y) \X OpaqueAt(sprites, x, y) : q[1] < q[2]}}
         : x \in 0 .. Width - 1}

\* The clocks of each sprite, seen in full, and what those up to each cost.
Clocks(s, y) == IF Covers(s, y) THEN 1 + s.w + (s.w + s.fetch - 1) \div s.fetch ELSE 1
Spent(sprites, y) ==
  LET upto[i \in 0 .. Len(sprites)] ==
        IF i = 0 THEN 0 ELSE upto[i - 1] + Clocks(sprites[i], y)
  IN  upto
ClocksSuffice(sprites, y) == \A i \in 0 .. Len(sprites) : Spent(sprites, y)[i] < Budget
=============================================================================
