----------------------------- MODULE VeraPorts ------------------------------
(***************************************************************************)
(* The guest's side of VERA (src/src/vera.c): the two data ports with      *)
(* their prefetched bytes, the FX unit that bends their addresses and      *)
(* writes, and the copies of video memory that writes must keep current:   *)
(* palette, sprite attributes and what is derived from them and from the   *)
(* layer registers.  Accesses come one at a time, in any order a guest     *)
(* program may choose.  The multiplier, the second dimension of the affine *)
(* and polygon helpers and the log files are left out; the DC registers    *)
(* are reached without the CTRL write that selects their bank.             *)
(***************************************************************************)
EXTENDS Integers, FiniteSets

CONSTANTS
  Cells,    \* bytes of video memory, 2^17 in the code
  Span,     \* values of io_addr, 2^32 in the code
  LowPart, MidPart, \* values of ADDR_L and ADDR_M, 256 each
  Group,    \* bytes of the cache, 4 in the code
  Nib,      \* values of a nibble, 16 in the code
  One,      \* a pixel in the positions of the FX unit, 2^16 in the code
  XSpan,    \* values of a position
  TileW, MapSize, TileBase, MapBase, \* the affine helper's set-up
  Palette, Sprites, \* the cells that are mirrored
  Noise,    \* contents video memory may have after a reset
  Hops,     \* the increments that 16-bit hop splits: 4 and 320
  Bytes,    \* the bytes the guest writes
  Masks,    \* the nibble masks of its cache writes: sets of <<byte, half>>
  Programs, \* what guests do: the features they use, the sizes of increment,
            \* and bounds on register writes and data accesses since a reset
  Slopes, Positions \* the position increments and positions it writes

Byte == 0 .. Nib * Nib - 1
Hi(b) == b \div Nib
Lo(b) == b % Nib
Mix(hi, lo) == Nib * Hi(hi) + Lo(lo)
InGroup == 0 .. Group - 1
Ports == {0, 1}
Mirrored == Palette \cup Sprites

ASSUME VeraAssumption ==
  /\ {Cells, Span, LowPart, MidPart, Group, Nib, One, XSpan, TileW, MapSize} \subseteq Nat \ {0}
  /\ {TileBase, MapBase} \subseteq Nat /\ Group % 2 = 0 /\ 2 * One <= XSpan
  /\ Span % Cells = 0 /\ Cells % (LowPart * MidPart) = 0
  /\ Cells % Group = 0 /\ LowPart % Group = 0
  /\ Mirrored \subseteq 0 .. Cells - 1 /\ Palette \cap Sprites = {}
  /\ Noise \subseteq [0 .. Cells - 1 -> Byte]
  /\ Bytes \subseteq Byte
  /\ Masks \subseteq SUBSET (InGroup \X {"hi", "lo"})
  /\ Slopes \cup Positions \subseteq 0 .. XSpan - 1
  /\ \A g \in Programs : g.steps \subseteq Nat /\ {g.setup, g.data} \subseteq Nat

VARIABLES
  vram,     \* video_ram
  port,     \* io_addr, io_rddata, io_inc and the nibble bits of each port
  sel,      \* io_addrsel
  fx,       \* the FX control register and the bits of FX_TILEBASE and FX_MULT
  align,    \* fx_16bit_hop_align
  poking,   \* fx_2bit_poking
  cache, cidx, nidx, \* fx_cache and its byte and nibble index
  x, xinc,  \* fx_x_pixel_position and its increment
  mirror,   \* palette and sprite_data
  derived,  \* sprite_properties, as the bytes they were computed from
  dirty, colours, \* video_palette, as what it was computed from
  out,      \* the output mode in reg_composer[0]
  layer, layer_props, \* a layer register, and what was derived from it
  guest,    \* the program
  spent,    \* history: what the guest has done since the last reset
  stale,    \* history: ports whose prefetched byte others have overwritten
  torn,     \* history: mirrored cells last touched by a write or a reset
            \* that does not treat the two copies alike
  orphans,  \* history: derived data that a reset left behind
  course    \* history: the line being drawn through port 1

fxSide  == <<fx, align, poking, cache, cidx, nidx, x, xinc>>
mirrors == <<mirror, derived, dirty>>
video   == <<colours, out, layer, layer_props>>
vars == <<vram, port, sel, fxSide, mirrors, video, guest, spent, stale, torn, orphans, course>>

Memory == 0 .. Cells - 1
At(a) == a % Cells
Base(a, size) == a - (a % size)
Step(p) == IF p.down THEN -p.step ELSE p.step
Layer == -1 \* the layer, among the orphans
Nothing == [setup |-> 0, data |-> 0]
NoCourse == [on |-> FALSE, from |-> 0, count |-> 0]
FxOff == [mode |-> 0, fourbit |-> FALSE, hop |-> FALSE, cycling |-> FALSE,
          fill |-> FALSE, cwrite |-> FALSE, trans |-> FALSE,
          poly2 |-> FALSE, clip |-> FALSE, pairs |-> FALSE]

-----------------------------------------------------------------------------
(* Addresses: get_and_inc_address and fx_affine_prefetch.                  *)

\* Port q moves by a nibble, in the direction of the increment of `by'.
Nibbled(P, q, by) ==
  [P EXCEPT ![q].nib = 1 - @,
            ![q].addr = (@ + (IF P[q].nib = 1 /\ ~by.down THEN 1 ELSE 0)
                           - (IF P[q].nib = 0 /\ by.down THEN 1 ELSE 0)) % Span]

Hopped(q, incr) ==
  IF q = 1 /\ fx.hop /\ incr \in Hops
    THEN IF align = port[1].addr % Group THEN 1 ELSE incr - 1
    ELSE incr

\* The access's own increment.
Stepped(q) ==
  LET P == IF fx.fourbit /\ port[q].nibinc /\ port[q].step = 0
             THEN Nibbled(port, q, port[q]) ELSE port
  IN  [P EXCEPT ![q].addr = (@ + Hopped(q, Step(port[q]))) % Span]

\* Line drawing: port 1 also takes port 0's increment when the position
\* crosses a pixel.
Drawn(P, crosses) ==
  IF ~crosses THEN P
  ELSE LET N == IF fx.fourbit /\ P[0].nibinc THEN Nibbled(P, 1, P[0]) ELSE P
       IN  [N EXCEPT ![1].addr = (@ + Step(P[0])) % Span]

Polygon(P, pos) ==
  [P EXCEPT ![1].addr = (P[0].addr + pos \div (IF fx.fourbit THEN 2 * One ELSE One)) % Span,
            ![1].nib = IF fx.fourbit THEN (pos \div One) % 2 ELSE @]

\* Mutant of Accessed: line drawing does not take the crossed pixel off.
AccessedNoClear(q, writing) ==
  LET P == Stepped(q)
      pos == (x + xinc) % XSpan
      crosses == (pos \div One) % 2 = 1
  IN  CASE q = 1 /\ fx.mode = 1 -> [port |-> Drawn(P, crosses), x |-> pos, cidx |-> cidx]
        [] OTHER -> [port |-> P, x |-> x, cidx |-> cidx]

Accessed(q, writing) ==
  LET P == Stepped(q)
      pos == (x + xinc) % XSpan
      crosses == (pos \div One) % 2 = 1
  IN  CASE q = 1 /\ fx.mode = 1 ->
             [port |-> Drawn(P, crosses), x |-> IF crosses THEN pos - One ELSE pos, cidx |-> cidx]
        [] fx.mode = 2 /\ ~writing ->
             [port |-> IF q = 1 THEN Polygon(P, pos) ELSE P, x |-> pos,
              cidx |-> IF q = 0 /\ fx.cycling /\ ~fx.fill THEN (cidx + 1) % Group ELSE cidx]
        [] q = 1 /\ fx.mode = 3 /\ ~writing -> [port |-> P, x |-> pos, cidx |-> cidx]
        [] OTHER -> [port |-> P, x |-> x, cidx |-> cidx]

\* Port 1 on the pixel of the tile map the position is in.
Affine(P, pos, ram) ==
  LET tile == pos \div (One * TileW)
      at   == IF fx.clip THEN tile ELSE tile % MapSize
      sub  == (pos \div One) % TileW
      div  == IF fx.fourbit THEN 2 ELSE 1
      a    == TileBase + sub \div div
                + (IF at < MapSize THEN ram[At(MapBase + at)] * (TileW \div div) ELSE 0)
  IN  [P EXCEPT ![1] = [@ EXCEPT !.addr = a, !.data = ram[At(a)],
                                 !.nib = IF fx.fourbit THEN sub % 2 ELSE 0]]

Fetched(P, q, ram) == [P EXCEPT ![q].data = ram[At(P[q].addr)]]

-----------------------------------------------------------------------------
(* The data ports.                                                         *)

\* The cache after a read of v, whose nibble was nib.
Filled(v, nib) ==
  LET half == IF nib = 1 THEN Lo(v) ELSE Hi(v)
  IN  IF fx.fourbit
        THEN [cache EXCEPT ![cidx] = IF nidx = 1 THEN Nib * Hi(@) + half ELSE Nib * half + Lo(@)]
        ELSE [cache EXCEPT ![cidx] = v]
FilledAt(i) ==
  IF fx.fourbit /\ nidx = 0 THEN i
  ELSE IF ~fx.fourbit /\ fx.pairs THEN (i \div 2) * 2 + ((i + 1) % 2) ELSE (i + 1) % Group

Coursed(q) ==
  course' = IF q = 0 \/ ~course.on THEN course
            ELSE [course EXCEPT !.count = @ + 1]

\* DATA0 and DATA1, read: the byte comes from the prefetch, which is renewed.
ReadData(q) ==
  LET r == Accessed(q, FALSE)
  IN  /\ port' = IF q = 1 /\ fx.mode = 3 THEN Affine(r.port, r.x, vram)
                                         ELSE Fetched(r.port, q, vram)
      /\ x' = r.x
      /\ IF fx.fill
           THEN /\ cache' = Filled(port[q].data, port[q].nib)
                /\ cidx' = FilledAt(r.cidx)
                /\ nidx' = IF fx.fourbit THEN 1 - nidx ELSE nidx
           ELSE cidx' = r.cidx /\ UNCHANGED <<cache, nidx>>
      /\ stale' = stale \ {q}
      /\ Coursed(q)
      /\ UNCHANGED <<vram, sel, fx, align, poking, xinc, mirrors, video, guest, torn, orphans>>

\* fx_video_space_write: what a cell makes of a byte.
Plain(old, v, nib) ==
  IF ~fx.fourbit THEN (IF fx.trans /\ v = 0 THEN old ELSE v)
  ELSE IF nib = 1 THEN (IF fx.trans /\ Lo(v) = 0 THEN old ELSE Mix(old, v))
  ELSE IF fx.trans /\ Hi(v) = 0 THEN old ELSE Mix(v, old)

\* Mutant of Mirror: sprite attributes are stored and not looked at again.
MirrorNoRefresh(a, v) ==
  /\ mirror' = IF a \in Mirrored THEN [mirror EXCEPT ![a] = v] ELSE mirror
  /\ dirty' = (dirty \/ a \in Palette)
  /\ UNCHANGED derived
  /\ orphans' = orphans \ {a}

\* The copies get the whole byte, and only at an address below the end of
\* video memory: one that has run past it writes the cell and not the copy.
Mirror(a, v) ==
  /\ mirror' = IF a \in Mirrored THEN [mirror EXCEPT ![a] = v] ELSE mirror
  /\ dirty' = (dirty \/ a \in Palette)
  /\ derived' = IF a \in Sprites THEN [derived EXCEPT ![a] = v] ELSE derived
  /\ orphans' = orphans \ {a}

\* What a write of `cells' through port q does to history.
Overwrote(q, cells) ==
  /\ stale' = (stale \ {q}) \cup {r \in Ports \ {q} : At(port'[r].addr) \in cells}

\* Mutant of WriteByte: the port keeps its prefetched byte.
WriteByteNoFetch(q, v) ==
  LET r == Accessed(q, TRUE)
      a == port[q].addr
      b == IF fx.cycling THEN cache[cidx] ELSE v
  IN  /\ vram' = [vram EXCEPT ![At(a)] = Plain(@, b, port[q].nib)]
      /\ Mirror(a, b)
      /\ port' = r.port
      /\ x' = r.x
      /\ torn' = IF fx.fourbit \/ fx.trans \/ a >= Cells THEN torn \cup {At(a)} ELSE torn \ {a}
      /\ Overwrote(q, {At(a)})
      /\ Coursed(q)

\* Without cache writes: one cell, from the guest's byte or from the cache.
WriteByte(q, v) ==
  LET r == Accessed(q, TRUE)
      a == port[q].addr
      b == IF fx.cycling THEN cache[cidx] ELSE v
  IN  /\ vram' = [vram EXCEPT ![At(a)] = Plain(@, b, port[q].nib)]
      /\ Mirror(a, b)
      /\ port' = Fetched(r.port, q, vram')
      /\ x' = r.x
      /\ torn' = IF fx.fourbit \/ fx.trans \/ a >= Cells THEN torn \cup {At(a)} ELSE torn \ {a}
      /\ Overwrote(q, {At(a)})
      /\ Coursed(q)

\* With them: a whole group of cells, each nibble unless it is masked, and
\* never a copy.  The guest's byte is the mask.
WriteGroup(q, mask) ==
  LET r == Accessed(q, TRUE)
      base == Base(At(port[q].addr), Group)
      src(i) == IF fx.cycling THEN cache[cidx] ELSE cache[i]
      keeps(i, half) ==
        IF fx.trans THEN (IF fx.fourbit THEN (IF half = "hi" THEN Hi(src(i)) ELSE Lo(src(i))) = 0
                                        ELSE src(i) = 0)
                    ELSE <<i, half>> \in mask
      cells == {base + i : i \in InGroup}
      written(c) == LET i == c - base
                    IN  Mix(IF keeps(i, "hi") THEN vram[c] ELSE src(i),
                            IF keeps(i, "lo") THEN vram[c] ELSE src(i))
  IN  /\ vram' = [c \in Memory |-> IF c \in cells THEN written(c) ELSE vram[c]]
      /\ port' = Fetched(r.port, q, vram')
      /\ x' = r.x
      /\ torn' = torn \cup (cells \cap Mirrored)
      /\ Overwrote(q, cells)
      /\ Coursed(q)
      /\ UNCHANGED <<mirrors, orphans>>

\* A two-bit poke: one field of port 1's cell, from the cache, the others
\* from the prefetched byte, and neither address nor prefetch is touched.  A
\* field is a nibble here and a pair of bits in the code.
PokeField(field) ==
  LET c == At(port[1].addr)
      from == cache[cidx]
  IN  /\ poking' = FALSE
      /\ vram' = [vram EXCEPT ![c] = IF field = 0 THEN Mix(from, port[1].data)
                                                  ELSE Mix(port[1].data, from)]
      /\ stale' = stale \cup {q \in Ports : At(port[q].addr) = c}
      /\ torn' = torn \cup ({c} \cap Mirrored)
      /\ UNCHANGED <<port, x, mirrors, orphans, course>>

WriteData(q) ==
  /\ \/ /\ poking /\ fx.mode # 0
        /\ \E field \in {0, 1} : PokeField(field)
     \/ /\ ~(poking /\ fx.mode # 0)
        /\ UNCHANGED poking
        /\ \/ ~fx.cwrite /\ \E v \in Bytes : WriteByte(q, v)
           \/ fx.cwrite /\ \E mask \in Masks : WriteGroup(q, mask)
  /\ UNCHANGED <<sel, fx, align, cache, cidx, nidx, xinc, video, guest>>

-----------------------------------------------------------------------------
(* The address registers: each write renews the selected port's prefetch.  *)

Readdressed(P) ==
  /\ port' = Fetched(P, sel, vram)
  /\ stale' = stale \ {sel}
  /\ course' = NoCourse
  /\ UNCHANGED <<vram, sel, fx, cache, cidx, nidx, x, xinc, mirrors, video, guest, torn, orphans>>

\* ADDR_L clears what ran past the end; in polygon mode with two-bit pixels it
\* arms a poke instead.
WriteAddrL(v) ==
  IF fx.poly2 /\ fx.fourbit /\ fx.mode = 2 /\ sel = 1
    THEN /\ poking' = TRUE
         /\ Readdressed([port EXCEPT ![1].addr = Base(At(@), Group) + (v % Group)])
         /\ UNCHANGED align
    ELSE /\ align' = IF fx.hop /\ sel = 1 THEN v % Group ELSE align
         /\ Readdressed([port EXCEPT ![sel].addr = Base(At(@), LowPart) + v])
         /\ UNCHANGED poking

WriteAddrM(v) ==
  LET low(a) == a % LowPart
      high(a) == At(a) \div (LowPart * MidPart)
  IN  /\ Readdressed([port EXCEPT ![sel].addr =
                        high(@) * LowPart * MidPart + v * LowPart + low(@)])
      /\ UNCHANGED <<align, poking>>

WriteAddrH(v, step, down, nib, nibinc) ==
  /\ Readdressed([port EXCEPT ![sel] =
       [addr |-> v * LowPart * MidPart + (@.addr % (LowPart * MidPart)), data |-> @.data,
        step |-> step, down |-> down, nib |-> nib, nibinc |-> nibinc]])
  /\ UNCHANGED <<align, poking>>

-----------------------------------------------------------------------------
(* FX, layer and composer registers, and CTRL.                             *)

FxOnly == UNCHANGED <<vram, sel, mirrors, video, guest, torn, orphans>>

WriteFxCtrl(c) ==
  /\ fx' = [c EXCEPT !.poly2 = fx.poly2, !.clip = fx.clip, !.pairs = fx.pairs]
  /\ course' = NoCourse
  /\ FxOnly /\ UNCHANGED <<port, align, poking, cache, cidx, nidx, x, xinc, stale>>

WriteFxTile(poly2, clip) ==
  /\ fx' = [fx EXCEPT !.poly2 = poly2, !.clip = clip]
  /\ FxOnly
  /\ UNCHANGED <<port, align, poking, cache, cidx, nidx, x, xinc, stale, course>>

WriteFxMult(pairs, n, i) ==
  /\ fx' = [fx EXCEPT !.pairs = pairs]
  /\ nidx' = n
  /\ cidx' = i
  /\ FxOnly /\ UNCHANGED <<port, align, poking, cache, x, xinc, stale, course>>

\* The high half of the increment; in line and polygon mode the position
\* goes to the middle of its pixel.
WriteXInc(v) ==
  /\ xinc' = v
  /\ x' = IF fx.mode \in {1, 2} THEN (x \div One) * One + One \div 2 ELSE x
  /\ course' = IF fx.mode = 1 /\ x' = One \div 2 /\ ~fx.fourbit /\ ~fx.hop /\ v <= One
                 THEN [on |-> TRUE, from |-> port[1].addr, count |-> 0]
                 ELSE NoCourse
  /\ FxOnly /\ UNCHANGED <<port, fx, align, poking, cache, cidx, nidx, stale>>

WriteXPosition(v) ==
  /\ x' = v
  /\ port' = IF fx.mode = 3 THEN Affine(port, v, vram) ELSE port
  /\ stale' = IF fx.mode = 3 THEN stale \ {1} ELSE stale
  /\ course' = NoCourse
  /\ FxOnly /\ UNCHANGED <<fx, align, poking, cache, cidx, nidx, xinc>>

WriteCache(i, v) ==
  /\ cache' = [cache EXCEPT ![i] = v]
  /\ FxOnly /\ UNCHANGED <<port, fx, align, poking, cidx, nidx, x, xinc, stale, course>>

Beside == UNCHANGED <<vram, port, fxSide, guest, stale, torn>>

WriteLayer(v) ==
  /\ layer' = v
  /\ layer_props' = v
  /\ orphans' = orphans \ {Layer}
  /\ Beside /\ UNCHANGED <<sel, mirrors, colours, out, course>>

WriteVideo(v) ==
  /\ out' = v
  /\ dirty' = TRUE
  /\ Beside
  /\ UNCHANGED <<sel, mirror, derived, colours, layer, layer_props, orphans, course>>

Colours(m, o) == [palette |-> [c \in Palette |-> m[c]], out |-> o]

\* render_line renews the colours before it uses them.
RenderLine ==
  /\ dirty
  /\ dirty' = FALSE
  /\ colours' = Colours(mirror, out)
  /\ Beside /\ UNCHANGED <<sel, mirror, derived, out, layer, layer_props, orphans, course>>

SelectPort(q) ==
  /\ sel' = q
  /\ Beside /\ UNCHANGED <<mirrors, video, orphans, course>>

\* video_reset: noise in video memory, the default palette in its copy, and
\* nothing done about what was derived from sprites and layer registers.
\* fx_16bit_hop_align is cleared, fx_2bit_poking too.
Reset(q) ==
  /\ vram' \in Noise
  /\ port' = [p \in Ports |-> [addr |-> 0, data |-> 0, step |-> 0, down |-> FALSE,
                               nib |-> 0, nibinc |-> FALSE]]
  /\ sel' = q
  /\ fx' = FxOff
  /\ align' = 0 /\ poking' = FALSE
  /\ cache' = [i \in InGroup |-> 0] /\ cidx' = 0 /\ nidx' = 0
  /\ x' = One \div 2 /\ xinc' = 0
  /\ mirror' = [c \in Mirrored |-> 0]
  /\ out' = 0 /\ layer' = 0
  /\ dirty' = FALSE
  /\ colours' = Colours(mirror', 0)
  /\ UNCHANGED <<derived, layer_props, guest>>
  /\ stale' = Ports
  /\ torn' = Mirrored
  /\ orphans' = Sprites \cup {Layer}
  /\ course' = NoCourse

-----------------------------------------------------------------------------
\* vera_init resets, with the derived data all zero, and turns VGA output on.
Init ==
  /\ vram \in Noise
  /\ port = [p \in Ports |-> [addr |-> 0, data |-> 0, step |-> 0, down |-> FALSE,
                              nib |-> 0, nibinc |-> FALSE]]
  /\ sel = 0
  /\ fx = FxOff /\ align = 0 /\ poking = FALSE
  /\ cache = [i \in InGroup |-> 0] /\ cidx = 0 /\ nidx = 0
  /\ x = One \div 2 /\ xinc = 0
  /\ mirror = [c \in Mirrored |-> 0]
  /\ derived = [c \in Sprites |-> 0]
  /\ dirty = FALSE
  /\ out = 1
  /\ colours = Colours(mirror, 1)
  /\ layer = 0 /\ layer_props = 0
  /\ guest \in Programs
  /\ spent = Nothing
  /\ stale = Ports
  /\ torn = Mirrored
  /\ orphans = Sprites \cup {Layer}
  /\ course = NoCourse

Data ==
  /\ spent.data < guest.data
  /\ spent' = [spent EXCEPT !.data = @ + 1]
  /\ \E q \in Ports : ReadData(q) \/ WriteData(q)

Address ==
  \/ \E v \in 0 .. LowPart - 1 : WriteAddrL(v)
  \/ \E v \in 0 .. MidPart - 1 : WriteAddrM(v)
  \/ \E v \in 0 .. Cells \div (LowPart * MidPart) - 1, step \in guest.steps :
       \E down, nibinc \in BOOLEAN, nib \in {0, 1} :
         /\ down => "down" \in guest.uses
         /\ nibinc \/ nib = 1 => "fourbit" \in guest.uses
         /\ WriteAddrH(v, step, down, nib, nibinc)

\* The modes and switches a program may turn on.
Offered ==
  {c \in [mode : 0 .. 3, fourbit : BOOLEAN, hop : BOOLEAN, cycling : BOOLEAN,
          fill : BOOLEAN, cwrite : BOOLEAN, trans : BOOLEAN,
          poly2 : {FALSE}, clip : {FALSE}, pairs : {FALSE}] :
     /\ c.mode # 0 => <<"line", "polygon", "affine">>[c.mode] \in guest.uses
     /\ \A s \in {"fourbit", "hop", "cycling", "fill", "cwrite", "trans"} : c[s] => s \in guest.uses}

Effects ==
  \/ \E c \in Offered : WriteFxCtrl(c)
  \/ "polygon" \in guest.uses /\ \E poly2 \in BOOLEAN : WriteFxTile(poly2, fx.clip)
  \/ "affine" \in guest.uses
       /\ \/ \E clip \in BOOLEAN : WriteFxTile(fx.poly2, clip)
          \/ \E v \in Positions : WriteXPosition(v)
  \/ guest.uses \cap {"line", "polygon", "affine"} # {} /\ \E v \in Slopes : WriteXInc(v)
  \/ guest.uses \cap {"cycling", "fill"} # {}
       /\ \E pairs \in BOOLEAN, n \in {0, 1}, i \in InGroup : WriteFxMult(pairs, n, i)
  \/ guest.uses \cap {"cycling", "cwrite"} # {}
       /\ \E i \in InGroup, v \in Bytes : WriteCache(i, v)

Screen ==
  /\ "screen" \in guest.uses
  /\ \/ \E v \in {0, 1} : WriteLayer(v)
     \/ \E v \in {0, 1} : WriteVideo(v)
     \/ RenderLine

Setup ==
  /\ spent.setup < guest.setup
  /\ spent' = [spent EXCEPT !.setup = @ + 1]
  /\ Address \/ Effects \/ Screen \/ \E q \in Ports : SelectPort(q)

Next ==
  \/ Data
  \/ Setup
  \/ /\ "reset" \in guest.uses
     /\ spent' = Nothing
     /\ \E q \in Ports : Reset(q)

Spec == Init /\ [][Next]_vars

-----------------------------------------------------------------------------
(* Properties.                                                             *)

\* What a port will return is what video memory holds at the address it shows,
\* through every way the FX unit moves addresses and writes cells.  The only
\* exceptions are a cell overwritten since through the other port or by a poke,
\* and the zero a reset leaves in the prefetch.
PrefetchCurrent ==
  \A q \in Ports \ stale : port[q].data = vram[At(port[q].addr)]

\* The palette and the sprite attributes agree with video memory except where
\* the last write was a nibble's, a transparent one, a cache write, a poke or
\* one at an address past the end; what is derived from sprites and layer
\* registers is current except where a reset left it behind; and the colours
\* that the renderer uses without a refresh are those of the palette and the
\* output mode.
CopiesFollow ==
  /\ \A c \in Mirrored \ torn : mirror[c] = vram[c]
  /\ \A c \in Sprites \ orphans : derived[c] = mirror[c]
  /\ Layer \notin orphans => layer_props = layer
  /\ ~dirty => colours = Colours(mirror, out)

\* Line drawing: after n accesses port 1 has made n of its own steps and one of
\* port 0's for each whole pixel the position has crossed, for any slope of at
\* most one and any mixture of reads and writes.
LineOnCourse ==
  course.on =>
    port[1].addr % Span = (course.from + course.count * Step(port[1])
                             + ((One \div 2 + course.count * xinc) \div One) * Step(port[0])) % Span
=============================================================================
