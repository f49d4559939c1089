----------------------------- MODULE MCVeraScan -----------------------------
(* VeraScan on a screen of six lines and four columns in frames of eight     *)
(* lines, with slices of one or two.                                         *)
EXTENDS VeraScan

Sprite(x, y, z, mask, col, hflip, vflip, opaque) ==
  [x |-> x, y |-> y, w |-> 2, h |-> 2, z |-> z, mask |-> mask, col |-> col,
   fetch |-> 1 + (col % 2), hflip |-> hflip, vflip |-> vflip, opaque |-> opaque]
Solid == {0, 1} \X {0, 1}
Corner == {<<0, 0>>}

\* Partial overlaps at several depths; flips that make two sprites meet or
\* miss each other; a sprite across each edge of the screen.
MCScenes ==
  {<<Sprite(0, 1, 1, {1}, 1, FALSE, FALSE, Solid), Sprite(1, 2, 2, {1, 2}, 2, FALSE, FALSE, Solid),
     Sprite(1, 3, 2, {2}, 3, FALSE, FALSE, Corner)>>,
   <<Sprite(0, 4, 3, {1}, 1, TRUE, FALSE, Corner), Sprite(1, 3, 3, {1}, 2, FALSE, TRUE, Corner),
     Sprite(-1, 5, 1, {1}, 3, FALSE, FALSE, Solid), Sprite(3, -1, 1, {1}, 2, TRUE, TRUE, Solid),
     Sprite(2, 4, 0, {1}, 3, FALSE, FALSE, Solid)>>}

\* With this Budget none of their lines runs out of clocks.
ASSUME BudgetAssumption == LinesInBudget

\* Maps of two by two tiles: plain, flipped either way, with an offset.
MCMap == [i \in 0 .. 3 |-> [tile |-> <<0, 1, 1, 0>>[i + 1], hi |-> <<0, 2, 9, 1>>[i + 1],
                            lo |-> <<0, 4, 8, 12>>[i + 1]]]
MCTiles == [a \in 0 .. 15 |-> (7 * a + 5) % 16]

Layer(kind, depth, hscroll, vscroll, tilew) ==
  [kind |-> kind, depth |-> depth, wide |-> hscroll > 2, offset |-> 3, hscroll |-> hscroll,
   vscroll |-> vscroll, tilew |-> tilew, tileh |-> IF kind = "tiled" THEN 2 ELSE ScreenHeight,
   mapw |-> IF kind = "tiled" THEN 2 ELSE 1, maph |-> IF kind = "tiled" THEN 2 ELSE 1,
   map |-> 0, tiles |-> 1]
Still(p) == [on |-> TRUE, now |-> p, before |-> p]

\* Texts with tiles of a byte and of two, tiles of two and four bits, bitmaps
\* of both widths, scrolled within a byte, a tile and round the map's end; and
\* changes of everything from one line to the next.
MCLayers ==
  {[Still(Layer("tiled", 0, 0, 0, 4)) EXCEPT !.on = FALSE]}
    \cup {Still(Layer("tiled", 0, h, 1, w)) : h \in {1, 6}, w \in {4, 8}}
    \cup {Still(Layer("tiled", d, h, 3, 4)) : d \in {1, 2}, h \in {1, 2, 5}}
    \cup {Still(Layer("bitmap", 1, 0, 0, 2)), Still(Layer("bitmap", 0, 0, 0, 4)), Still(Layer("bitmap", 1, 0, 0, 4))}
    \cup {[on |-> TRUE, now |-> Layer("bitmap", 1, 0, 0, 4), before |-> Layer("tiled", 1, 2, 0, 4)],
          [on |-> TRUE, now |-> Layer("tiled", 2, 1, 3, 4), before |-> Layer("tiled", 1, 2, 1, 4)],
          [on |-> TRUE, now |-> Layer("tiled", 2, 1, 3, 4), before |-> Layer("bitmap", 1, 0, 0, 4)]}
Two == {Still(Layer("tiled", 1, 1, 3, 4)), Still(Layer("bitmap", 1, 0, 0, 4))}
MCPictures == (MCLayers \X Two) \cup (Two \X MCLayers)
MCPrograms ==
  {{"VSYNC", "LINE"}, {"VSYNC", "ntsc"}, {"LINE", "ntsc"}, {"AFLOW"}, {"ntsc", "drift"},
   {"SPRCOL", "sprites", "scenes"}, {"sprites", "ntsc"}}
=============================================================================
