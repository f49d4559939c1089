------------------------------- MODULE Picture -------------------------------
(***************************************************************************)
(* What a line of VERA's picture is made of (src/src/vera.c): the text,    *)
(* tile and bitmap layers, fetched a byte at a time while the line goes    *)
(* on, and their composition with the sprites' line.  Beside it, what each *)
(* pixel should be, looked up on its own.                                  *)
(*                                                                         *)
(* A layer is drawn with its properties of the line before, but scrolled   *)
(* vertically, and a bitmap coloured, with those of this one.  The maps    *)
(* and the tiles are memories of their own; horizontal and vertical scale  *)
(* are one and there is no border.                                         *)
(***************************************************************************)
EXTENDS SpriteLine

CONSTANTS
  Bits,   \* of a byte of tile data, and tiles of a text: 8
  Map,    \* map entries, by index: a tile, and the nibbles of the second byte
  Tiles,  \* bytes of tile data, by address
  Pictures \* pairs of settings of the two layers

\* Properties of a layer: depth is log2 of the bits of a pixel, wide says that
\* a text has 256 foregrounds or a tile the second half of the palette.
Properties ==
  [kind : {"tiled", "bitmap"}, depth : Nat, wide : BOOLEAN, offset : Nat, hscroll : Nat, vscroll : Nat,
   tilew : Nat \ {0}, tileh : Nat \ {0}, mapw : Nat \ {0}, maph : Nat \ {0}, map : Nat, tiles : Nat]

\* A layer's settings: whether it is on, and its properties now and before.
Settings == [on : BOOLEAN, now : Properties, before : Properties]
Entries  == [tile : Nat, hi : Nat, lo : Nat]

Fields(p) == Bits \div 2^p.depth

\* The heights and widths of tile maps are powers of two.
PowerOfTwo(n) == \A d \in 2 .. n : n % d = 0 => d % 2 = 0

ASSUME PictureAssumption ==
  /\ Bits \in Nat \ {0}
  /\ Cardinality(DOMAIN Map) \in Nat \ {0}
  /\ Map \in [0 .. Cardinality(DOMAIN Map) - 1 -> Entries]
  /\ Pictures \subseteq Settings \X Settings
  /\ \A pic \in Pictures, l \in {1, 2} :
       LET p == pic[l].before
           now == pic[l].now
       IN  /\ Bits % 2^p.depth = 0 /\ Fields(p) \in Nat \ {0} /\ p.tilew % Fields(p) = 0
           /\ p.kind = "tiled" => PowerOfTwo(p.mapw * p.tilew) /\ PowerOfTwo(p.tileh)
           /\ IF now.kind = "tiled" THEN PowerOfTwo(now.maph * now.tileh)
              ELSE now.maph = 1 /\ now.vscroll = 0

Text(p) == p.kind = "tiled" /\ p.depth = 0

\* The colour of pixel f of a byte, counted from its most significant bits.
Field(p, address, f) ==
  LET byte == Tiles[address % Cardinality(DOMAIN Tiles)]
  IN  (byte \div 2^((Fields(p) - 1 - f) * 2^p.depth)) % 2^(2^p.depth)

\* a & b, bit by bit.
And(a, b) ==
  LET and[n \in 0 .. a] ==
        [c \in Nat |-> IF n = 0 \/ c = 0 THEN 0
                       ELSE (n % 2) * (c % 2) + 2 * and[n \div 2][c \div 2]]
  IN  and[a][b]

\* layerw_max and layerh_max are masks.  The width is that of a tile map, and
\* its mask a remainder; the height may be a bitmap's, which is no power of two.
EffX(p, x) == (x + p.hscroll) % (p.mapw * p.tilew)
EffY(p, y) == And(y + p.vscroll, p.maph * p.tileh - 1)
Entry(p, ex, ey) ==
  Map[(p.map + (ey \div p.tileh) * p.mapw + ex \div p.tilew) % Cardinality(DOMAIN Map)]

HFlip(p, e) == ~Text(p) /\ (e.lo \div 4) % 2 = 1
VFlip(p, e) == ~Text(p) /\ (e.lo \div 8) % 2 = 1
Index(p, e) == IF Text(p) THEN e.tile ELSE e.tile + 256 * (e.lo % 4)

\* A text's bit picks one of two colours; in a tile or a bitmap the lowest
\* fifteen colours are offset.
Offset(p, v, by) ==
  IF v \notin 1 .. 15 THEN v
  ELSE IF p.wide /\ by < 8 THEN v + 16 * by + 128 ELSE v + 16 * by
Colour(p, e, v) ==
  CASE ~Text(p) -> Offset(p, v, e.hi)
    [] Text(p) /\ p.wide -> IF v = 1 THEN 16 * e.hi + e.lo ELSE 0
    [] Text(p) /\ ~p.wide -> IF v = 1 THEN e.lo ELSE e.hi

\* The address of the byte of tile e with pixel column xx of line yy.
ByteAt(p, e, xx, yy) ==
  LET row == IF VFlip(p, e) THEN p.tileh - 1 - yy ELSE yy
      column == IF HFlip(p, e) THEN p.tilew - 1 - xx ELSE xx
  IN  p.tiles + (Index(p, e) * p.tilew * p.tileh) \div Fields(p)
        + (row * p.tilew) \div Fields(p) + column \div Fields(p)

\* render_layer_line_text and _tile.  The map is looked at where a tile begins
\* and the data where a byte does; the line may begin inside of either, and
\* then a text starts at its pixel and a tile at the first pixel of the byte.
Loaded(p, e, ex, ey) ==
  [entry |-> e, byte |-> ByteAt(p, e, ex % p.tilew, ey % p.tileh),
   f |-> IF HFlip(p, e) THEN Fields(p) - 1 ELSE 0]
Begun(p, ey) ==
  LET ex == EffX(p, 0)
      st == Loaded(p, Entry(p, ex, ey), ex, ey)
  IN  IF Text(p) THEN [st EXCEPT !.f = ex % Fields(p)] ELSE st
Moved(p, st) == [st EXCEPT !.f = IF HFlip(p, st.entry) THEN @ - 1 ELSE @ + 1]
Fetched(p, ex, ey, st) ==
  IF ex % Fields(p) # 0 THEN st
  ELSE Loaded(p, IF ex % p.tilew = 0 THEN Entry(p, ex, ey) ELSE st.entry, ex, ey)

TiledLine(now, p, y) ==
  LET ey == EffY(now, y)
      at[x \in 0 .. Width - 1] ==
        Fetched(p, EffX(p, x), ey, IF x = 0 THEN Begun(p, ey) ELSE Moved(p, at[x - 1]))
  IN  [x \in 0 .. Width - 1 |-> Colour(p, at[x].entry, Field(p, at[x].byte, at[x].f))]

BitmapLine(now, p, y) ==
  [x \in 0 .. Width - 1 |->
     LET xx == x % p.tilew
         byte == p.tiles + ((y % p.tileh) * p.tilew) \div Fields(p) + xx \div Fields(p)
     IN  Offset(p, Field(p, byte, xx % Fields(p)), now.offset)]

LayerLine(s, y) ==
  CASE ~s.on -> [x \in 0 .. Width - 1 |-> 0]
    [] s.on /\ s.before.kind = "bitmap" -> BitmapLine(s.now, s.before, y)
    [] s.on /\ s.before.kind = "tiled" -> TiledLine(s.now, s.before, y)

FirstOpaque(colours) ==
  LET opaque == {i \in DOMAIN colours : colours[i] # 0}
  IN  IF opaque = {} THEN 0 ELSE colours[CHOOSE i \in opaque : \A j \in opaque : i <= j]

\* calculate_line_col_index: a sprite's depth says how many layers it covers.
Composed(z, s, l0, l1) ==
  CASE z = 3 -> FirstOpaque(<<s, l1, l0>>)
    [] z = 2 -> FirstOpaque(<<l1, s, l0>>)
    [] z = 1 -> FirstOpaque(<<l1, l0, s>>)
    [] z = 0 -> FirstOpaque(<<l1, l0>>)

PictureLine(pic, sprites, y) ==
  LET s  == SpriteLine(sprites, y).line
      l0 == LayerLine(pic[1], y)
      l1 == LayerLine(pic[2], y)
  IN  [x \in 0 .. Width - 1 |-> Composed(s[x].z, s[x].col, l0[x], l1[x])]

-----------------------------------------------------------------------------
(* What a pixel should be.                                                 *)

\* The row of a layer's plane at row y of the screen: a map repeats, and a
\* bitmap is not scrolled.
Scrolled(p, y) ==
  IF p.kind = "bitmap" THEN y ELSE (y + p.vscroll) % (p.maph * p.tileh)

\* The pixel of the layer's plane under column x: its tile, its place in the
\* tile after flipping, its bits counted from the tile's first.
LayerPixel(s, x, y) ==
  LET p  == s.before
      ex == EffX(p, x)
      ey == Scrolled(s.now, y)
      e  == Entry(p, ex, ey)
      fx == IF HFlip(p, e) THEN p.tilew - 1 - (ex % p.tilew) ELSE ex % p.tilew
      fy == IF VFlip(p, e) THEN p.tileh - 1 - (ey % p.tileh) ELSE ey % p.tileh
      n  == IF p.kind = "tiled" THEN (Index(p, e) * p.tileh + fy) * p.tilew + fx
            ELSE (y % p.tileh) * p.tilew + (x % p.tilew)
      v  == Field(p, p.tiles + n \div Fields(p), n % Fields(p))
  IN  IF ~s.on THEN 0
      ELSE IF p.kind = "bitmap" THEN Offset(p, v, s.now.offset) ELSE Colour(p, e, v)

\* A tile layer that is scrolled by part of a byte begins with the wrong ones
\* of the byte's pixels.
Misplaced(s, x) ==
  LET p == s.before
      into == p.hscroll % Fields(p)
  IN  s.on /\ p.kind = "tiled" /\ ~Text(p) /\ into # 0 /\ x < Fields(p) - into

\* A layer that has just become a bitmap is drawn as tiles for a line or two,
\* and the mask of a bitmap's height loses the rows that have a bit it has not.
MaskedOut(s, y) ==
  s.on /\ s.before.kind = "tiled" /\ s.now.kind = "bitmap" /\ And(y, s.now.tileh - 1) # y

\* What can be seen at x, with its depth: backdrop 0, layers 2 and 4, and
\* sprites before, between and behind them.
Things(pic, sprites, x, y) ==
  {[depth |-> 0, col |-> 0]}
    \cup {[depth |-> 2 * i, col |-> LayerPixel(pic[i], x, y)] :
            i \in {l \in {1, 2} : LayerPixel(pic[l], x, y) # 0}}
    \cup {[depth |-> 2 * sprites[i].z - 1, col |-> sprites[i].col] : i \in OnTop(sprites, x, y)}

\* The line shows the foremost thing in each column.
LineRight(pic, sprites, y) ==
  \A x \in 0 .. Width - 1 :
    \/ \E l \in {1, 2} : Misplaced(pic[l], x) \/ MaskedOut(pic[l], y)
    \/ \E t \in Things(pic, sprites, x, y) :
         /\ PictureLine(pic, sprites, y)[x] = t.col
         /\ \A u \in Things(pic, sprites, x, y) : u.depth <= t.depth
=============================================================================
