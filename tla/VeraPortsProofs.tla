-------------------------- MODULE VeraPortsProofs ---------------------------
(***************************************************************************)
(* Proofs about VeraPorts, for a video memory of any size, any increments  *)
(* and any guest: what the ports will return is what is there, and the     *)
(* copies of video memory follow it.  The heart of both is that an access  *)
(* moves no port but its own, whatever the FX unit does to addresses.      *)
(***************************************************************************)
EXTENDS VeraPorts, TLAPS

PortRec == [addr : Nat, data : Nat, step : Int, down : BOOLEAN, nib : Int, nibinc : BOOLEAN]

\* As much of the types as the addresses need to stay numbers.
Types ==
  /\ vram \in [Memory -> Nat]
  /\ port \in [Ports -> PortRec]
  /\ sel \in Ports
  /\ cache \in [InGroup -> Nat]
  /\ cidx \in InGroup
  /\ x \in Int /\ xinc \in Int
  /\ guest \in Programs

IInv == Types /\ PrefetchCurrent

LEMMA Constants ==
  /\ Cells \in Nat \ {0} /\ Span \in Nat \ {0} /\ LowPart \in Nat \ {0} /\ MidPart \in Nat \ {0}
  /\ Group \in Nat \ {0} /\ Group % 2 = 0 /\ Nib \in Nat \ {0} /\ One \in Nat \ {0}
  /\ XSpan \in Nat \ {0} /\ TileW \in Nat \ {0} /\ MapSize \in Nat \ {0}
  /\ TileBase \in Nat /\ MapBase \in Nat /\ 2 * One <= XSpan
BY VeraAssumption

LEMMA AtIn == ASSUME NEW a \in Nat PROVE At(a) \in Memory
BY Constants DEF At, Memory

LEMMA AtInt == ASSUME NEW a \in Int PROVE At(a) \in Memory
BY Constants DEF At, Memory

-----------------------------------------------------------------------------
(* Addresses.                                                              *)

\* P and Q differ at most in port q, and then in where it is.
Touches(P, Q, q) == Q \in [Ports -> PortRec] /\ \A r \in Ports \ {q} : Q[r] = P[r]
Moves(P, Q, q) ==
  /\ Q \in [Ports -> PortRec]
  /\ \A r \in Ports : Q[r].data = P[r].data /\ Q[r].step = P[r].step /\ Q[r].down = P[r].down
  /\ \A r \in Ports \ {q} : Q[r] = P[r]

LEMMA Moved == ASSUME NEW P, NEW Q, NEW q, Moves(P, Q, q) PROVE Touches(P, Q, q)
BY DEF Moves, Touches

LEMMA MovesTwice ==
  ASSUME NEW P, NEW Q, NEW R, NEW q, Moves(P, Q, q), Moves(Q, R, q) PROVE Moves(P, R, q)
BY DEF Moves

LEMMA AddrMoves ==
  ASSUME NEW P \in [Ports -> PortRec], NEW q \in Ports, NEW a \in Nat
  PROVE  Moves(P, [P EXCEPT ![q].addr = a], q)
<1>1. [P[q] EXCEPT !.addr = a] \in PortRec
  BY DEF PortRec
<1> QED BY <1>1 DEF Moves, PortRec

LEMMA NibMoves ==
  ASSUME NEW P \in [Ports -> PortRec], NEW q \in Ports, NEW a \in Nat, NEW n \in Int
  PROVE  /\ Moves(P, [P EXCEPT ![q].addr = a, ![q].nib = n], q)
         /\ Moves(P, [P EXCEPT ![q].nib = n, ![q].addr = a], q)
<1>1. [P[q] EXCEPT !.addr = a] \in PortRec /\ [P[q] EXCEPT !.nib = n] \in PortRec
  BY DEF PortRec
<1> QED BY <1>1 DEF Moves, PortRec

LEMMA NibbledMoves ==
  ASSUME NEW P \in [Ports -> PortRec], NEW q \in Ports, NEW by PROVE Moves(P, Nibbled(P, q, by), q)
<1> DEFINE n == 1 - P[q].nib
           a == (P[q].addr + (IF P[q].nib = 1 /\ ~by.down THEN 1 ELSE 0)
                           - (IF P[q].nib = 0 /\ by.down THEN 1 ELSE 0)) % Span
<1>1. n \in Int /\ a \in Nat
  BY Constants DEF PortRec
<1>2. Nibbled(P, q, by) = [P EXCEPT ![q].nib = n, ![q].addr = a]
  BY DEF Nibbled, PortRec
<1> HIDE DEF n, a
<1>3. Moves(P, [P EXCEPT ![q].nib = n, ![q].addr = a], q)
  BY <1>1, NibMoves
<1> QED BY <1>2, <1>3

LEMMA SteppedMoves == ASSUME Types, NEW q \in Ports PROVE Moves(port, Stepped(q), q)
<1> DEFINE P == IF fx.fourbit /\ port[q].nibinc /\ port[q].step = 0
                  THEN Nibbled(port, q, port[q]) ELSE port
           a == (P[q].addr + Hopped(q, Step(port[q]))) % Span
<1>1. Moves(port, P, q)
  BY NibbledMoves DEF Types, Moves
<1>2. P \in [Ports -> PortRec]
  BY <1>1 DEF Moves
<1>3. Step(port[q]) \in Int
  BY DEF Types, PortRec, Step
<1>4. Hopped(q, Step(port[q])) \in Int
  BY <1>3 DEF Hopped
<1> HIDE DEF P
<1>5. a \in Nat
  BY <1>2, <1>4, Constants DEF PortRec
<1>6. Moves(P, [P EXCEPT ![q].addr = a], q)
  BY <1>2, <1>5, AddrMoves
<1>7. Stepped(q) = [P EXCEPT ![q].addr = a]
  BY DEF Stepped, P
<1> HIDE DEF a
<1> QED BY <1>1, <1>6, <1>7, MovesTwice

LEMMA DrawnMoves ==
  ASSUME NEW P \in [Ports -> PortRec], NEW crosses \in BOOLEAN PROVE Moves(P, Drawn(P, crosses), 1)
<1> DEFINE N == IF fx.fourbit /\ P[0].nibinc THEN Nibbled(P, 1, P[0]) ELSE P
           a == (N[1].addr + Step(P[0])) % Span
<1>1. 0 \in Ports /\ 1 \in Ports
  BY DEF Ports
<1>2. Moves(P, N, 1)
  BY <1>1, NibbledMoves DEF Moves
<1>3. N \in [Ports -> PortRec]
  BY <1>2 DEF Moves
<1>4. Step(P[0]) \in Int
  BY <1>1 DEF PortRec, Step
<1> HIDE DEF N
<1>5. a \in Nat
  BY <1>1, <1>3, <1>4, Constants DEF PortRec
<1>6. Moves(N, [N EXCEPT ![1].addr = a], 1)
  BY <1>1, <1>3, <1>5, AddrMoves
<1>7. crosses => Drawn(P, crosses) = [N EXCEPT ![1].addr = a]
  BY DEF Drawn, N
<1>8. ~crosses => Moves(P, Drawn(P, crosses), 1)
  BY DEF Drawn, Moves
<1> HIDE DEF a
<1> QED BY <1>2, <1>6, <1>7, <1>8, MovesTwice

LEMMA PolygonMoves ==
  ASSUME NEW P \in [Ports -> PortRec], NEW pos \in Int PROVE Moves(P, Polygon(P, pos), 1)
<1> DEFINE w == IF fx.fourbit THEN 2 * One ELSE One
           a == (P[0].addr + pos \div w) % Span
           n == IF fx.fourbit THEN (pos \div One) % 2 ELSE P[1].nib
<1>1. 0 \in Ports /\ 1 \in Ports /\ w \in Nat \ {0}
  BY Constants DEF Ports
<1>2. pos \div w \in Int /\ pos \div One \in Int
  BY <1>1, Constants
<1>3. a \in Nat /\ n \in Int
  BY <1>1, <1>2, Constants DEF PortRec
<1>4. Polygon(P, pos) = [P EXCEPT ![1].addr = a, ![1].nib = n]
  BY <1>1 DEF Polygon, PortRec
<1> HIDE DEF a, n
<1>5. Moves(P, [P EXCEPT ![1].addr = a, ![1].nib = n], 1)
  BY <1>1, <1>3, NibMoves
<1> QED BY <1>4, <1>5

\* An access moves its own port and no other.
LEMMA AccessedMoves ==
  ASSUME Types, NEW q \in Ports, NEW writing \in BOOLEAN
  PROVE  /\ Moves(port, Accessed(q, writing).port, q)
         /\ Accessed(q, writing).x \in Int
         /\ Accessed(q, writing).cidx \in InGroup
<1> DEFINE P == Stepped(q)
           pos == (x + xinc) % XSpan
           crosses == (pos \div One) % 2 = 1
           r == Accessed(q, writing)
<1>1. Moves(port, P, q) /\ P \in [Ports -> PortRec]
  BY SteppedMoves DEF Moves
<1>2. pos \in Int /\ crosses \in BOOLEAN
  BY Constants DEF Types
<1>3. pos - One \in Int /\ x \in Int /\ cidx \in InGroup
  BY <1>2, Constants DEF Types
<1>4. (cidx + 1) % Group \in InGroup
  BY Constants DEF Types, InGroup
<1> HIDE DEF P, pos, crosses
<1>5. CASE q = 1 /\ fx.mode = 1
  <2>1. /\ r.port = Drawn(P, crosses) /\ r.cidx = cidx
        /\ r.x = IF crosses THEN pos - One ELSE pos
    BY <1>5 DEF Accessed, P, pos, crosses
  <2>2. Moves(P, Drawn(P, crosses), 1)
    BY <1>1, <1>2, DrawnMoves
  <2> QED BY <1>1, <1>2, <1>3, <1>5, <2>1, <2>2, MovesTwice
<1>6. CASE fx.mode = 2 /\ ~writing
  <2>1. /\ r.port = IF q = 1 THEN Polygon(P, pos) ELSE P
        /\ r.x = pos
        /\ r.cidx = IF q = 0 /\ fx.cycling /\ ~fx.fill THEN (cidx + 1) % Group ELSE cidx
    BY <1>6 DEF Accessed, P, pos
  <2>2. Moves(P, Polygon(P, pos), 1)
    BY <1>1, <1>2, PolygonMoves
  <2>3. Moves(port, r.port, q)
    BY <1>1, <2>1, <2>2, MovesTwice
  <2> QED BY <1>2, <1>3, <1>4, <2>1, <2>3
<1>7. CASE q = 1 /\ fx.mode = 3 /\ ~writing
  <2>1. r.port = P /\ r.x = pos /\ r.cidx = cidx
    BY <1>7 DEF Accessed, P, pos
  <2> QED BY <1>1, <1>2, <1>3, <2>1
<1>8. CASE /\ ~(q = 1 /\ fx.mode = 1)
           /\ ~(fx.mode = 2 /\ ~writing)
           /\ ~(q = 1 /\ fx.mode = 3 /\ ~writing)
  <2>1. r.port = P /\ r.x = x /\ r.cidx = cidx
    BY <1>8 DEF Accessed, P
  <2> QED BY <1>1, <1>3, <2>1
<1> QED BY <1>5, <1>6, <1>7, <1>8

-----------------------------------------------------------------------------
(* The prefetched bytes.                                                   *)

\* Port q shows what is at its address, of the memory ram.
Shows(P, q, ram) == P[q].data = ram[At(P[q].addr)]

LEMMA FetchedShows ==
  ASSUME NEW P \in [Ports -> PortRec], NEW q \in Ports, NEW ram \in [Memory -> Nat]
  PROVE  /\ Fetched(P, q, ram) \in [Ports -> PortRec]
         /\ \A r \in Ports \ {q} : Fetched(P, q, ram)[r] = P[r]
         /\ \A r \in Ports : /\ Fetched(P, q, ram)[r].addr = P[r].addr
                            /\ Fetched(P, q, ram)[r].step = P[r].step
                            /\ Fetched(P, q, ram)[r].down = P[r].down
         /\ Shows(Fetched(P, q, ram), q, ram)
<1> DEFINE d == ram[At(P[q].addr)]
<1>1. d \in Nat
  BY AtIn DEF PortRec
<1>2. Fetched(P, q, ram) = [P EXCEPT ![q].data = d]
  BY DEF Fetched
<1>3. [P[q] EXCEPT !.data = d] \in PortRec
  BY <1>1 DEF PortRec
<1> HIDE DEF d
<1>4. /\ [P EXCEPT ![q].data = d] \in [Ports -> PortRec]
      /\ \A r \in Ports \ {q} : [P EXCEPT ![q].data = d][r] = P[r]
      /\ \A r \in Ports : /\ [P EXCEPT ![q].data = d][r].addr = P[r].addr
                         /\ [P EXCEPT ![q].data = d][r].step = P[r].step
                         /\ [P EXCEPT ![q].data = d][r].down = P[r].down
      /\ [P EXCEPT ![q].data = d][q].data = d
  BY <1>3 DEF PortRec
<1> QED BY <1>2, <1>4 DEF Shows, d

LEMMA AffineShows ==
  ASSUME NEW P \in [Ports -> PortRec], NEW pos \in Int, NEW ram \in [Memory -> Nat]
  PROVE  /\ Affine(P, pos, ram) \in [Ports -> PortRec]
         /\ Affine(P, pos, ram)[0] = P[0]
         /\ Shows(Affine(P, pos, ram), 1, ram)
<1> DEFINE tile == pos \div (One * TileW)
           at   == IF fx.clip THEN tile ELSE tile % MapSize
           sub  == (pos \div One) % TileW
           div  == IF fx.fourbit THEN 2 ELSE 1
           entry == IF at < MapSize THEN ram[At(MapBase + at)] * (TileW \div div) ELSE 0
           a    == TileBase + sub \div div + entry
           n    == IF fx.fourbit THEN sub % 2 ELSE 0
<1>1. tile \in Int
  <2>1. One * TileW \in Nat \ {0}
    BY Constants
  <2> HIDE DEF tile
  <2>2. tile = pos \div (One * TileW)
    BY DEF tile
  <2> DEFINE w == One * TileW
  <2> HIDE DEF w
  <2>3. w \in Nat \ {0}
    BY <2>1 DEF w
  <2>4. pos \div w \in Int
    BY <2>3
  <2> QED BY <2>2, <2>4 DEF w
<1> HIDE DEF tile
<1>2. at \in Int
  BY <1>1, Constants
<1>3. sub \in Nat /\ TileW \div div \in Nat
  BY Constants
<1> HIDE DEF at, sub
<1>4. sub \div div \in Nat /\ n \in Int
  BY <1>3
<1>5. ram[At(MapBase + at)] \in Nat
  BY <1>2, AtInt, Constants
<1>6. entry \in Nat
  BY <1>3, <1>5
<1> HIDE DEF entry, n
<1>7. a \in Nat
  BY <1>4, <1>6, Constants
<1>8. ram[At(a)] \in Nat
  BY <1>7, AtIn
<1>9. Affine(P, pos, ram) = [P EXCEPT ![1] = [@ EXCEPT !.addr = a, !.data = ram[At(a)], !.nib = n]]
  BY DEF Affine, tile, at, sub, entry, n
<1> HIDE DEF a
<1>10. [P[1] EXCEPT !.addr = a, !.data = ram[At(a)], !.nib = n] \in PortRec
  BY <1>4, <1>7, <1>8 DEF PortRec, Ports
<1> QED BY <1>7, <1>8, <1>9, <1>10 DEF Shows, Ports, PortRec

-----------------------------------------------------------------------------
(* The actions.                                                            *)

\* What all accesses of a data port and of its address come down to: P moves
\* port q, whose byte is then fetched from the memory as it is now.
LEMMA FetchKeeps ==
  ASSUME IInv, NEW q \in Ports, NEW P, Touches(port, P, q), NEW cells,
         vram' \in [Memory -> Nat], \A c \in Memory \ cells : vram'[c] = vram[c],
         port' = Fetched(P, q, vram'),
         \A r \in Ports \ {q} : r \in stale \/ At(port'[r].addr) \in cells => r \in stale'
  PROVE  port' \in [Ports -> PortRec] /\ PrefetchCurrent'
<1>1. P \in [Ports -> PortRec]
  BY DEF Touches
<1>2. /\ port' \in [Ports -> PortRec]
      /\ \A r \in Ports \ {q} : port'[r] = P[r]
      /\ Shows(port', q, vram')
  BY <1>1, FetchedShows
<1>3. ASSUME NEW r \in Ports \ {q}, r \notin stale' PROVE Shows(port', r, vram')
  <2>1. port'[r] = port[r]
    BY <1>2 DEF Touches
  <2>2. r \notin stale /\ At(port[r].addr) \notin cells
    BY <1>3, <2>1
  <2>3. At(port[r].addr) \in Memory
    BY AtIn DEF IInv, Types, PortRec
  <2>4. port[r].data = vram[At(port[r].addr)]
    BY <2>2 DEF IInv, PrefetchCurrent
  <2> QED BY <2>1, <2>2, <2>3, <2>4 DEF Shows
<1>4. \A r \in Ports \ stale' : port'[r].data = vram'[At(port'[r].addr)]
  BY <1>2, <1>3 DEF Shows
<1> QED BY <1>2, <1>4 DEF PrefetchCurrent, At

LEMMA Halves ==
  ASSUME NEW v \in Nat, NEW w \in Nat PROVE Hi(v) \in Nat /\ Lo(v) \in Nat /\ Mix(v, w) \in Nat
<1>1. Hi(v) \in Nat /\ Lo(v) \in Nat /\ Lo(w) \in Nat
  BY Constants DEF Hi, Lo
<1>2. Nib * Hi(v) \in Nat
  BY <1>1, Constants
<1> QED BY <1>1, <1>2 DEF Mix

LEMMA FilledIn ==
  ASSUME Types, NEW v \in Nat, NEW nib, NEW i \in InGroup
  PROVE  Filled(v, nib) \in [InGroup -> Nat] /\ FilledAt(i) \in InGroup
<1> DEFINE half == IF nib = 1 THEN Lo(v) ELSE Hi(v)
<1>1. half \in Nat /\ cache[cidx] \in Nat
  BY Halves DEF Types
<1>2. Hi(cache[cidx]) \in Nat /\ Lo(cache[cidx]) \in Nat
  BY <1>1, Halves
<1> HIDE DEF half
<1>3. Nib * Hi(cache[cidx]) + half \in Nat /\ Nib * half + Lo(cache[cidx]) \in Nat
  <2>1. Nib * Hi(cache[cidx]) \in Nat /\ Nib * half \in Nat
    BY <1>1, <1>2, Constants
  <2> QED BY <1>1, <1>2, <2>1
<1>4. Filled(v, nib) \in [InGroup -> Nat]
  BY <1>3 DEF Filled, Types, half
<1>5. (i + 1) % Group \in InGroup
  BY Constants DEF InGroup
<1>6. (i \div 2) * 2 + ((i + 1) % 2) \in InGroup
  BY Constants DEF InGroup
<1> QED BY <1>4, <1>5, <1>6 DEF FilledAt

LEMMA ReadDataKeeps == ASSUME IInv, NEW q \in Ports, ReadData(q) PROVE IInv'
<1> DEFINE r == Accessed(q, FALSE)
<1>1. Moves(port, r.port, q) /\ r.x \in Int /\ r.cidx \in InGroup
  BY AccessedMoves DEF IInv
<1>2. r.port \in [Ports -> PortRec] /\ vram \in [Memory -> Nat] /\ port[q].data \in Nat
  BY <1>1 DEF Moves, IInv, Types, PortRec
<1>3. /\ port' = IF q = 1 /\ fx.mode = 3 THEN Affine(r.port, r.x, vram) ELSE Fetched(r.port, q, vram)
      /\ x' = r.x /\ stale' = stale \ {q}
      /\ IF fx.fill THEN cache' = Filled(port[q].data, port[q].nib) /\ cidx' = FilledAt(r.cidx)
                    ELSE cidx' = r.cidx /\ cache' = cache
      /\ vram' = vram /\ sel' = sel /\ xinc' = xinc /\ guest' = guest
  BY DEF ReadData
<1> HIDE DEF r
<1>4. cache' \in [InGroup -> Nat] /\ cidx' \in InGroup
  BY <1>1, <1>2, <1>3, FilledIn DEF IInv, Types
<1>5. port' \in [Ports -> PortRec] /\ PrefetchCurrent'
  <2>1. CASE q = 1 /\ fx.mode = 3
    <3>1. port' = Affine(r.port, r.x, vram)
      BY <1>3, <2>1
    <3>2. /\ port' \in [Ports -> PortRec]
          /\ port'[0] = r.port[0]
          /\ Shows(port', 1, vram')
      BY <1>1, <1>2, <1>3, <3>1, AffineShows
    <3>3. port'[0] = port[0]
      BY <1>1, <2>1, <3>2 DEF Moves, Ports
    <3>4. \A p \in Ports \ stale' : port'[p].data = vram'[At(port'[p].addr)]
      BY <1>3, <2>1, <3>2, <3>3 DEF IInv, PrefetchCurrent, Shows, Ports
    <3> QED BY <3>2, <3>4 DEF PrefetchCurrent, At
  <2>2. CASE ~(q = 1 /\ fx.mode = 3)
    <3>1. port' = Fetched(r.port, q, vram')
      BY <1>3, <2>2
    <3> DEFINE none == {}
    <3>2. \A c \in Memory \ none : vram'[c] = vram[c]
      BY <1>3
    <3>3. \A p \in Ports \ {q} : p \in stale \/ At(port'[p].addr) \in none => p \in stale'
      BY <1>3
    <3> HIDE DEF none
    <3> QED BY <1>1, <1>2, <1>3, <3>1, <3>2, <3>3, FetchKeeps, Moved
  <2> QED BY <2>1, <2>2
<1> QED BY <1>1, <1>3, <1>4, <1>5 DEF IInv, Types

LEMMA PlainIn == ASSUME NEW old \in Nat, NEW v \in Nat, NEW nib PROVE Plain(old, v, nib) \in Nat
BY Halves DEF Plain

LEMMA WriteByteKeeps ==
  ASSUME IInv, NEW q \in Ports, NEW v \in Nat, WriteByte(q, v)
  PROVE  vram' \in [Memory -> Nat] /\ port' \in [Ports -> PortRec] /\ x' \in Int /\ PrefetchCurrent'
<1> DEFINE r == Accessed(q, TRUE)
           a == port[q].addr
           b == IF fx.cycling THEN cache[cidx] ELSE v
           new == Plain(vram[At(a)], b, port[q].nib)
<1>1. Moves(port, r.port, q) /\ r.x \in Int
  BY AccessedMoves DEF IInv
<1>2. At(a) \in Memory /\ vram[At(a)] \in Nat /\ b \in Nat
  BY AtIn DEF IInv, Types, PortRec
<1>3. new \in Nat
  BY <1>2, PlainIn
<1>4. /\ vram' = [vram EXCEPT ![At(a)] = new]
      /\ port' = Fetched(r.port, q, vram')
      /\ x' = r.x
      /\ stale' = (stale \ {q}) \cup {p \in Ports \ {q} : At(port'[p].addr) \in {At(a)}}
  BY DEF WriteByte, Overwrote
<1> HIDE DEF r, a, new
<1>5. vram' \in [Memory -> Nat] /\ \A c \in Memory \ {At(a)} : vram'[c] = vram[c]
  BY <1>2, <1>3, <1>4 DEF IInv, Types
<1> QED BY <1>1, <1>4, <1>5, FetchKeeps, Moved

LEMMA WriteGroupKeeps ==
  ASSUME IInv, NEW q \in Ports, NEW mask, WriteGroup(q, mask)
  PROVE  vram' \in [Memory -> Nat] /\ port' \in [Ports -> PortRec] /\ x' \in Int /\ PrefetchCurrent'
<1> DEFINE r == Accessed(q, TRUE)
           base == Base(At(port[q].addr), Group)
           src(i) == IF fx.cycling THEN cache[cidx] ELSE cache[i]
           keeps(i, half) ==
             IF fx.trans THEN (IF fx.fourbit THEN (IF half = "hi" THEN Hi(src(i)) ELSE Lo(src(i))) = 0
                                             ELSE src(i) = 0)
                         ELSE <<i, half>> \in mask
           cells == {base + i : i \in InGroup}
           written(c) == LET i == c - base
                         IN  Mix(IF keeps(i, "hi") THEN vram[c] ELSE src(i),
                                 IF keeps(i, "lo") THEN vram[c] ELSE src(i))
<1>1. Moves(port, r.port, q) /\ r.x \in Int
  BY AccessedMoves DEF IInv
<1>2. base \in Int
  <2>1. At(port[q].addr) \in Nat
    <3>1. port[q].addr \in Nat
      BY DEF IInv, Types, PortRec
    <3> QED BY <3>1, AtIn, Constants DEF Memory
  <2> QED BY <2>1, Constants DEF Base
<1>3. /\ vram' = [c \in Memory |-> IF c \in cells THEN written(c) ELSE vram[c]]
      /\ port' = Fetched(r.port, q, vram')
      /\ x' = r.x
      /\ stale' = (stale \ {q}) \cup {p \in Ports \ {q} : At(port'[p].addr) \in cells}
  BY DEF WriteGroup, Overwrote
<1> HIDE DEF r, base
<1>4. ASSUME NEW c \in Memory, c \in cells PROVE written(c) \in Nat
  <2>1. c - base \in InGroup
    BY <1>2, <1>4 DEF InGroup
  <2>2. src(c - base) \in Nat /\ vram[c] \in Nat
    BY <2>1 DEF IInv, Types
  <2> DEFINE hi == IF keeps(c - base, "hi") THEN vram[c] ELSE src(c - base)
             lo == IF keeps(c - base, "lo") THEN vram[c] ELSE src(c - base)
  <2>3. hi \in Nat /\ lo \in Nat
    BY <2>2
  <2>4. written(c) = Mix(hi, lo)
    OBVIOUS
  <2> HIDE DEF hi, lo
  <2>5. Mix(hi, lo) \in Nat
    BY <2>3, Halves
  <2> HIDE DEF written
  <2> QED BY <2>4, <2>5
<1> HIDE DEF written, cells
<1>5. vram' \in [Memory -> Nat] /\ \A c \in Memory \ cells : vram'[c] = vram[c]
  BY <1>3, <1>4 DEF IInv, Types
<1> QED BY <1>1, <1>3, <1>5, FetchKeeps, Moved

LEMMA PokeKeeps ==
  ASSUME IInv, NEW field, PokeField(field)
  PROVE  vram' \in [Memory -> Nat] /\ PrefetchCurrent'
<1> DEFINE c == At(port[1].addr)
           new == IF field = 0 THEN Mix(cache[cidx], port[1].data) ELSE Mix(port[1].data, cache[cidx])
<1>1. cache[cidx] \in Nat /\ port[1].data \in Nat /\ port[1].addr \in Nat
  BY DEF IInv, Types, Ports, PortRec
<1>2. new \in Nat /\ c \in Memory
  BY <1>1, Halves, AtIn
<1>3. /\ vram' = [vram EXCEPT ![c] = new]
      /\ stale' = stale \cup {q \in Ports : At(port[q].addr) = c}
      /\ port' = port
  BY DEF PokeField
<1> HIDE DEF c, new
<1>4. vram' \in [Memory -> Nat]
  BY <1>2, <1>3 DEF IInv, Types
<1>5. ASSUME NEW q \in Ports \ stale' PROVE port[q].data = vram'[At(port[q].addr)]
  <2>1. At(port[q].addr) # c /\ At(port[q].addr) \in Memory
    BY <1>3, AtIn DEF IInv, Types, PortRec
  <2>2. port[q].data = vram[At(port[q].addr)]
    BY <1>3 DEF IInv, PrefetchCurrent
  <2> QED BY <1>2, <1>3, <2>1, <2>2 DEF IInv, Types
<1>6. \A q \in Ports \ stale' : port'[q].data = vram'[At(port'[q].addr)]
  BY <1>3, <1>5
<1> QED BY <1>4, <1>6 DEF PrefetchCurrent, At

LEMMA WriteDataKeeps == ASSUME IInv, NEW q \in Ports, WriteData(q) PROVE IInv'
<1>1. UNCHANGED <<sel, cache, cidx, xinc, guest>>
  BY DEF WriteData
<1>2. ASSUME NEW field, PokeField(field) PROVE IInv'
  <2>1. port' = port /\ x' = x
    BY <1>2 DEF PokeField
  <2> QED BY <1>1, <1>2, <2>1, PokeKeeps DEF IInv, Types
<1>3. ASSUME NEW v \in Bytes, WriteByte(q, v) PROVE IInv'
  <2>1. v \in Nat
    BY Constants, VeraAssumption DEF Byte
  <2> QED BY <1>1, <1>3, <2>1, WriteByteKeeps DEF IInv, Types
<1>4. ASSUME NEW mask, WriteGroup(q, mask) PROVE IInv'
  BY <1>1, <1>4, WriteGroupKeeps DEF IInv, Types
<1> QED BY <1>2, <1>3, <1>4 DEF WriteData

LEMMA BaseIn == ASSUME NEW a \in Nat, NEW size \in Nat \ {0} PROVE Base(a, size) \in Nat
<1>1. a % size <= a /\ a % size \in Nat
  OBVIOUS
<1> QED BY <1>1 DEF Base

\* The address registers.
LEMMA ReaddressedKeeps ==
  ASSUME IInv, NEW P, Touches(port, P, sel), Readdressed(P) PROVE IInv'
<1>1. /\ sel \in Ports /\ port' = Fetched(P, sel, vram') /\ vram' = vram /\ stale' = stale \ {sel}
      /\ UNCHANGED <<sel, cache, cidx, x, xinc, guest>>
  BY DEF Readdressed, IInv, Types
<1> DEFINE none == {}
<1>2. vram' \in [Memory -> Nat] /\ \A c \in Memory \ none : vram'[c] = vram[c]
  BY <1>1 DEF IInv, Types
<1>3. \A p \in Ports \ {sel} : p \in stale \/ At(port'[p].addr) \in none => p \in stale'
  BY <1>1
<1> HIDE DEF none
<1>4. port' \in [Ports -> PortRec] /\ PrefetchCurrent'
  BY <1>1, <1>2, <1>3, FetchKeeps
<1> QED BY <1>1, <1>2, <1>4 DEF IInv, Types

LEMMA AddressKeeps == ASSUME IInv, Address PROVE IInv'
<1>1. sel \in Ports /\ port \in [Ports -> PortRec] /\ port[sel].addr \in Nat
  BY DEF IInv, Types, PortRec
<1>2. ASSUME NEW v \in 0 .. LowPart - 1, WriteAddrL(v) PROVE IInv'
  <2> DEFINE a == Base(At(port[1].addr), Group) + (v % Group)
             b == Base(At(port[sel].addr), LowPart) + v
  <2>1. 1 \in Ports /\ port[1].addr \in Nat /\ v \in Nat
    BY <1>1, Constants DEF Ports, PortRec
  <2>2. a \in Nat /\ b \in Nat
    <3>1. At(port[1].addr) \in Nat /\ At(port[sel].addr) \in Nat
      BY <1>1, <2>1, AtIn, Constants DEF Memory
    <3>2. Base(At(port[1].addr), Group) \in Nat /\ Base(At(port[sel].addr), LowPart) \in Nat
      BY <3>1, BaseIn, Constants
    <3>3. v % Group \in Nat
      BY <2>1, Constants
    <3> QED BY <2>1, <3>2, <3>3
  <2> HIDE DEF a, b
  <2>3. Moves(port, [port EXCEPT ![1].addr = a], 1) /\ Moves(port, [port EXCEPT ![sel].addr = b], sel)
    BY <1>1, <2>1, <2>2, AddrMoves
  <2>4. \/ sel = 1 /\ Readdressed([port EXCEPT ![1].addr = a])
        \/ Readdressed([port EXCEPT ![sel].addr = b])
    BY <1>2 DEF WriteAddrL, a, b
  <2> QED BY <2>3, <2>4, ReaddressedKeeps, Moved
<1>3. ASSUME NEW v \in 0 .. MidPart - 1, WriteAddrM(v) PROVE IInv'
  <2> DEFINE w == LowPart * MidPart
             a == (At(port[sel].addr) \div w) * LowPart * MidPart + v * LowPart + (port[sel].addr % LowPart)
  <2>1. w \in Nat \ {0}
    BY Constants
  <2>2. a \in Nat
    <3>1. At(port[sel].addr) \in Nat
      BY <1>1, AtIn, Constants DEF Memory
    <3> HIDE DEF w
    <3>2. At(port[sel].addr) \div w \in Nat /\ v * LowPart \in Nat /\ port[sel].addr % LowPart \in Nat
      BY <1>1, <2>1, <3>1, Constants
    <3>3. (At(port[sel].addr) \div w) * LowPart \in Nat
      BY <3>2, Constants
    <3>4. (At(port[sel].addr) \div w) * LowPart * MidPart \in Nat
      BY <3>3, Constants
    <3> QED BY <3>2, <3>4
  <2>3. Readdressed([port EXCEPT ![sel].addr = a])
    BY <1>3 DEF WriteAddrM
  <2> HIDE DEF a
  <2>4. Moves(port, [port EXCEPT ![sel].addr = a], sel)
    BY <1>1, <2>2, AddrMoves
  <2> QED BY <2>3, <2>4, ReaddressedKeeps, Moved
<1>4. ASSUME NEW v \in 0 .. Cells \div (LowPart * MidPart) - 1, NEW step \in guest.steps,
             NEW down \in BOOLEAN, NEW nibinc \in BOOLEAN, NEW nib \in {0, 1},
             WriteAddrH(v, step, down, nib, nibinc)
      PROVE  IInv'
  <2> DEFINE w == LowPart * MidPart
             a == v * LowPart * MidPart + (port[sel].addr % (LowPart * MidPart))
             R == [addr |-> a, data |-> port[sel].data,
                   step |-> step, down |-> down, nib |-> nib, nibinc |-> nibinc]
  <2>1. w \in Nat \ {0} /\ step \in Int
    BY Constants, VeraAssumption DEF IInv, Types
  <2>2. a \in Nat
    <3>1. v \in Nat
      BY Constants
    <3>2. v * LowPart \in Nat
      BY <3>1, Constants
    <3>3. v * LowPart * MidPart \in Nat
      BY <3>2, Constants
    <3>4. port[sel].addr % w \in Nat
      <4> HIDE DEF w
      <4> QED BY <1>1, <2>1
    <3> QED BY <3>3, <3>4
  <2>3. Readdressed([port EXCEPT ![sel] = R])
    BY <1>4 DEF WriteAddrH
  <2> HIDE DEF a
  <2>4. R \in PortRec /\ R.data = port[sel].data
    BY <1>1, <2>1, <2>2 DEF PortRec
  <2> HIDE DEF R
  <2>5. Touches(port, [port EXCEPT ![sel] = R], sel)
    BY <1>1, <2>4 DEF Touches
  <2> QED BY <2>3, <2>5, ReaddressedKeeps
<1> QED BY <1>2, <1>3, <1>4 DEF Address

LEMMA EffectsKeep == ASSUME IInv, Effects PROVE IInv'
<1>1. CASE /\ UNCHANGED <<vram, port, stale>>
           /\ sel' = sel /\ guest' = guest
           /\ cache' \in [InGroup -> Nat] /\ cidx' \in InGroup
           /\ x' \in Int /\ xinc' \in Int
  BY <1>1 DEF IInv, Types, PrefetchCurrent, At
<1>2. ASSUME NEW c, WriteFxCtrl(c) PROVE IInv'
  BY <1>1, <1>2 DEF WriteFxCtrl, FxOnly, IInv, Types
<1>3. ASSUME NEW poly2, NEW clip, WriteFxTile(poly2, clip) PROVE IInv'
  BY <1>1, <1>3 DEF WriteFxTile, FxOnly, IInv, Types
<1>4. ASSUME NEW pairs, NEW n, NEW i \in InGroup, WriteFxMult(pairs, n, i) PROVE IInv'
  BY <1>1, <1>4 DEF WriteFxMult, FxOnly, IInv, Types
<1>5. ASSUME NEW v \in Slopes, WriteXInc(v) PROVE IInv'
  <2>1. v \in Int /\ (x \div One) * One + One \div 2 \in Int /\ x \in Int
    BY Constants, VeraAssumption DEF IInv, Types
  <2>2. xinc' = v /\ x' \in Int
    BY <1>5, <2>1 DEF WriteXInc
  <2> QED BY <1>1, <1>5, <2>1, <2>2 DEF WriteXInc, FxOnly, IInv, Types
<1>6. ASSUME NEW i \in InGroup, NEW v \in Bytes, WriteCache(i, v) PROVE IInv'
  <2>1. v \in Nat
    BY Constants, VeraAssumption DEF Byte
  <2>2. cache' \in [InGroup -> Nat]
    BY <1>6, <2>1 DEF WriteCache, IInv, Types
  <2> QED BY <1>1, <1>6, <2>2 DEF WriteCache, FxOnly, IInv, Types
<1>7. ASSUME NEW v \in Positions, WriteXPosition(v) PROVE IInv'
  <2>1. v \in Int
    BY Constants, VeraAssumption
  <2>2. /\ x' = v /\ UNCHANGED <<vram, sel, cache, cidx, xinc, guest>>
        /\ port' = IF fx.mode = 3 THEN Affine(port, v, vram) ELSE port
        /\ stale' = IF fx.mode = 3 THEN stale \ {1} ELSE stale
    BY <1>7 DEF WriteXPosition, FxOnly
  <2>3. CASE fx.mode # 3
    BY <1>1, <2>1, <2>2, <2>3 DEF IInv, Types
  <2>4. CASE fx.mode = 3
    <3>1. port' \in [Ports -> PortRec] /\ port'[0] = port[0] /\ Shows(port', 1, vram')
      BY <2>1, <2>2, <2>4, AffineShows DEF IInv, Types
    <3>2. \A p \in Ports \ stale' : port'[p].data = vram'[At(port'[p].addr)]
      BY <2>2, <2>4, <3>1 DEF IInv, PrefetchCurrent, Shows, Ports
    <3> QED BY <2>1, <2>2, <3>1, <3>2 DEF IInv, Types, PrefetchCurrent, At
  <2> QED BY <2>3, <2>4
<1> QED BY <1>2, <1>3, <1>4, <1>5, <1>6, <1>7 DEF Effects

LEMMA ResetKeeps == ASSUME IInv, NEW q \in Ports, Reset(q) PROVE IInv'
<1>1. \A ram \in Noise : ram \in [Memory -> Nat]
  BY Constants, VeraAssumption DEF Byte, Memory
<1>2. port' \in [Ports -> PortRec]
  BY DEF Reset, PortRec
<1>3. One \div 2 \in Int /\ 0 \in InGroup
  BY Constants DEF InGroup
<1>4. PrefetchCurrent'
  BY DEF Reset, PrefetchCurrent
<1> QED BY <1>1, <1>2, <1>3, <1>4 DEF Reset, IInv, Types

LEMMA InitHolds == Init => IInv
<1> SUFFICES ASSUME Init PROVE IInv
  OBVIOUS
<1>1. \A ram \in Noise : ram \in [Memory -> Nat]
  BY Constants, VeraAssumption DEF Byte, Memory
<1>2. port \in [Ports -> PortRec]
  BY DEF Init, PortRec
<1>3. One \div 2 \in Int /\ 0 \in InGroup /\ 0 \in Ports
  BY Constants DEF InGroup, Ports
<1>4. PrefetchCurrent
  BY DEF Init, PrefetchCurrent
<1> QED BY <1>1, <1>2, <1>3, <1>4 DEF Init, IInv, Types

LEMMA StepKeeps == IInv /\ [Next]_vars => IInv'
<1> SUFFICES ASSUME IInv, [Next]_vars PROVE IInv'
  OBVIOUS
<1>1. CASE UNCHANGED <<vram, port, stale, cache, cidx, x, xinc, guest>> /\ sel' \in Ports
  BY <1>1 DEF IInv, Types, PrefetchCurrent, At
<1>2. CASE Data
  BY <1>2, ReadDataKeeps, WriteDataKeeps DEF Data
<1>3. CASE Setup
  <2>1. CASE Screen
    BY <2>1, <1>1 DEF Screen, WriteLayer, WriteVideo, RenderLine, Beside, fxSide, IInv, Types
  <2>2. ASSUME NEW q \in Ports, SelectPort(q) PROVE IInv'
    BY <2>2, <1>1 DEF SelectPort, Beside, fxSide
  <2> QED BY <1>3, <2>1, <2>2, AddressKeeps, EffectsKeep DEF Setup
<1>4. ASSUME NEW q \in Ports, Reset(q) PROVE IInv'
  BY <1>4, ResetKeeps
<1>5. CASE UNCHANGED vars
  BY <1>5, <1>1 DEF vars, fxSide, IInv, Types
<1> QED BY <1>2, <1>3, <1>4, <1>5 DEF Next

THEOREM Invariant == Spec => []IInv
<1> QED BY InitHolds, StepKeeps, PTL DEF Spec

\* What a port will return is what is at its address, through every way the FX
\* unit moves addresses and writes cells, but for the listed exceptions.
THEOREM PortsAreCurrent == Spec => []PrefetchCurrent
<1>1. IInv => PrefetchCurrent
  BY DEF IInv
<1> QED BY <1>1, Invariant, PTL

-----------------------------------------------------------------------------
(* The copies.                                                             *)

CopiesInv ==
  /\ mirror \in [Mirrored -> Nat]
  /\ derived \in [Sprites -> Nat]
  /\ CopiesFollow

Copied == <<vram, mirrors, video, torn, orphans>>

LEMMA CellsMirrored == Palette \subseteq Memory /\ Sprites \subseteq Memory /\ Palette \cap Sprites = {}
BY VeraAssumption DEF Memory, Mirrored

\* An address in video memory is its own cell.
LEMMA AtSelf == ASSUME NEW a \in Nat, a < Cells PROVE At(a) = a /\ a \in Memory
BY Constants DEF At, Memory

LEMMA ByteCopied ==
  ASSUME IInv, CopiesInv, NEW q \in Ports, NEW v \in Nat, WriteByte(q, v), UNCHANGED video
  PROVE  CopiesInv'
<1> DEFINE a == port[q].addr
           b == IF fx.cycling THEN cache[cidx] ELSE v
<1>1. a \in Nat /\ b \in Nat /\ At(a) \in Memory
  BY AtIn DEF IInv, Types, PortRec
<1>2. /\ vram' = [vram EXCEPT ![At(a)] = Plain(vram[At(a)], b, port[q].nib)]
      /\ mirror' = IF a \in Mirrored THEN [mirror EXCEPT ![a] = b] ELSE mirror
      /\ dirty' = (dirty \/ a \in Palette)
      /\ derived' = IF a \in Sprites THEN [derived EXCEPT ![a] = b] ELSE derived
      /\ orphans' = orphans \ {a}
      /\ torn' = IF fx.fourbit \/ fx.trans \/ a >= Cells THEN torn \cup {At(a)} ELSE torn \ {a}
  BY DEF WriteByte, Mirror
<1>3. a < Cells => At(a) = a
  BY <1>1, AtSelf
<1>4. ~fx.fourbit /\ ~fx.trans => Plain(vram[At(a)], b, port[q].nib) = b
  BY DEF Plain
<1>5. vram \in [Memory -> Nat] /\ mirror \in [Mirrored -> Nat] /\ derived \in [Sprites -> Nat]
  BY DEF IInv, Types, CopiesInv
<1>6. UNCHANGED <<layer, layer_props, colours, out>>
  BY DEF video
<1> HIDE DEF a, b
<1>7. mirror' \in [Mirrored -> Nat] /\ derived' \in [Sprites -> Nat]
  BY <1>1, <1>2, <1>5
<1>8. ASSUME NEW c \in Mirrored \ torn' PROVE mirror'[c] = vram'[c]
  <2>1. c \in Memory /\ c < Cells
    BY CellsMirrored, Constants DEF Mirrored, Memory
  <2>2. CASE c = At(a)
    <3>1. ~fx.fourbit /\ ~fx.trans /\ ~(a >= Cells)
      BY <1>2, <1>8, <2>2
    <3>2. At(a) = a
      BY <1>1, <1>3, <3>1, Constants
    <3>3. vram'[c] = b
      BY <1>1, <1>2, <1>4, <1>5, <2>2, <3>1
    <3>4. mirror'[c] = b
      BY <1>2, <1>5, <2>2, <3>2
    <3> QED BY <3>3, <3>4
  <2>3. CASE c # At(a)
    <3>1. c # a
      BY <1>3, <2>1, <2>3
    <3>2. c \notin torn
      BY <1>2, <1>8, <2>3, <3>1
    <3>3. vram'[c] = vram[c] /\ mirror'[c] = mirror[c]
      BY <1>2, <1>5, <2>1, <2>3, <3>1
    <3> QED BY <3>2, <3>3 DEF CopiesInv, CopiesFollow
  <2> QED BY <2>2, <2>3
<1>9. ASSUME NEW c \in Sprites \ orphans' PROVE derived'[c] = mirror'[c]
  <2>1. c \in Mirrored
    BY DEF Mirrored
  <2>2. CASE c = a
    BY <1>2, <1>5, <2>1, <2>2
  <2>3. CASE c # a
    <3>1. c \notin orphans /\ derived'[c] = derived[c] /\ mirror'[c] = mirror[c]
      BY <1>2, <1>5, <1>9, <2>1, <2>3
    <3> QED BY <3>1 DEF CopiesInv, CopiesFollow
  <2> QED BY <2>2, <2>3
<1>10. Layer \notin orphans' => layer_props' = layer'
  <2>1. Layer # a
    BY <1>1 DEF Layer
  <2> QED BY <1>2, <1>6, <2>1 DEF CopiesInv, CopiesFollow
<1>11. ~dirty' => colours' = Colours(mirror', out')
  <2> SUFFICES ASSUME ~dirty' PROVE colours' = Colours(mirror', out')
    OBVIOUS
  <2>1. ~dirty /\ a \notin Palette
    BY <1>2
  <2>2. \A c \in Palette : mirror'[c] = mirror[c]
    BY <1>2, <1>5, <2>1 DEF Mirrored
  <2>3. Colours(mirror', out) = Colours(mirror, out)
    BY <2>2 DEF Colours
  <2> QED BY <1>6, <2>1, <2>3 DEF CopiesInv, CopiesFollow
<1> QED BY <1>7, <1>8, <1>9, <1>10, <1>11 DEF CopiesInv, CopiesFollow

\* A step that leaves the copies alone tears whatever mirrored cell it changes.
LEMMA TornCopied ==
  ASSUME CopiesInv, UNCHANGED <<mirrors, video, orphans>>, torn \subseteq torn',
         \A c \in Mirrored : vram'[c] # vram[c] => c \in torn'
  PROVE  CopiesInv'
BY DEF CopiesInv, CopiesFollow, mirrors, video, Colours

LEMMA WriteDataCopied ==
  ASSUME IInv, CopiesInv, NEW q \in Ports, WriteData(q) PROVE CopiesInv'
<1>1. ASSUME NEW field, PokeField(field) PROVE CopiesInv'
  <2> DEFINE c == At(port[1].addr)
             new == IF field = 0 THEN Mix(cache[cidx], port[1].data) ELSE Mix(port[1].data, cache[cidx])
  <2>1. /\ vram' = [vram EXCEPT ![c] = new]
        /\ torn' = torn \cup ({c} \cap Mirrored)
        /\ UNCHANGED <<mirrors, orphans>>
    BY <1>1 DEF PokeField
  <2> HIDE DEF c, new
  <2>2. \A d \in Mirrored : vram'[d] # vram[d] => d = c
    BY <2>1, CellsMirrored DEF IInv, Types, Mirrored
  <2> QED BY <2>1, <2>2, TornCopied DEF WriteData
<1>2. ASSUME NEW v \in Bytes, WriteByte(q, v) PROVE CopiesInv'
  <2>1. v \in Nat
    BY Constants, VeraAssumption DEF Byte
  <2> QED BY <1>2, <2>1, ByteCopied DEF WriteData
<1>3. ASSUME NEW mask, WriteGroup(q, mask) PROVE CopiesInv'
  <2> DEFINE base == Base(At(port[q].addr), Group)
             cells == {base + i : i \in InGroup}
  <2>1. /\ \A c \in Memory \ cells : vram'[c] = vram[c]
        /\ torn' = torn \cup (cells \cap Mirrored)
        /\ UNCHANGED <<mirrors, orphans>>
    BY <1>3 DEF WriteGroup
  <2> HIDE DEF cells
  <2>2. \A c \in Mirrored : vram'[c] # vram[c] => c \in torn'
    BY <2>1, CellsMirrored DEF Mirrored
  <2> QED BY <2>1, <2>2, TornCopied DEF WriteData
<1> QED BY <1>1, <1>2, <1>3 DEF WriteData

LEMMA UnchangedCopied == CopiesInv /\ UNCHANGED Copied => CopiesInv'
BY DEF Copied, CopiesInv, CopiesFollow, mirrors, video, Colours

LEMMA ScreenCopied == ASSUME CopiesInv, Screen PROVE CopiesInv'
<1>1. ASSUME NEW v, WriteLayer(v) PROVE CopiesInv'
  <2>1. Layer \notin Sprites
    BY CellsMirrored, Constants DEF Layer, Memory
  <2> QED BY <1>1, <2>1 DEF WriteLayer, Beside, mirrors, CopiesInv, CopiesFollow, Colours
<1>2. ASSUME NEW v, WriteVideo(v) PROVE CopiesInv'
  BY <1>2 DEF WriteVideo, Beside, CopiesInv, CopiesFollow, Colours
<1>3. CASE RenderLine
  BY <1>3 DEF RenderLine, Beside, CopiesInv, CopiesFollow, Colours
<1> QED BY <1>1, <1>2, <1>3 DEF Screen

LEMMA ResetCopied == ASSUME CopiesInv, NEW q, Reset(q) PROVE CopiesInv'
<1>1. mirror' \in [Mirrored -> Nat] /\ derived' \in [Sprites -> Nat]
  BY DEF Reset, CopiesInv
<1>2. colours' = Colours(mirror', out')
  BY DEF Reset
<1>3. torn' = Mirrored /\ orphans' = Sprites \cup {Layer}
  BY DEF Reset
<1> QED BY <1>1, <1>2, <1>3 DEF CopiesInv, CopiesFollow

LEMMA StepCopied == ASSUME IInv, CopiesInv, [Next]_vars PROVE CopiesInv'
<1>1. ASSUME NEW q, ReadData(q) PROVE CopiesInv'
  BY <1>1, UnchangedCopied DEF ReadData, Copied
<1>2. CASE Data
  BY <1>1, <1>2, WriteDataCopied DEF Data
<1>3. CASE Address
  BY <1>3, UnchangedCopied DEF Address, WriteAddrL, WriteAddrM, WriteAddrH, Readdressed, Copied
<1>4. CASE Effects
  BY <1>4, UnchangedCopied
     DEF Effects, WriteFxCtrl, WriteFxTile, WriteFxMult, WriteXInc, WriteXPosition, WriteCache,
         FxOnly, Copied
<1>5. ASSUME NEW q, SelectPort(q) PROVE CopiesInv'
  BY <1>5, UnchangedCopied DEF SelectPort, Beside, Copied
<1>6. CASE UNCHANGED vars
  BY <1>6, UnchangedCopied DEF vars, Copied
<1> QED BY <1>2, <1>3, <1>4, <1>5, <1>6, ScreenCopied, ResetCopied DEF Next, Setup

\* Every copy of video memory and of the registers follows them, whatever the
\* guest does, but for the writes and resets that are known to tear them.
THEOREM CopiesAreCurrent == Spec => []CopiesFollow
<1>1. Init => CopiesInv
  BY DEF Init, CopiesInv, CopiesFollow
<1>2. CopiesInv => CopiesFollow
  BY DEF CopiesInv
<1> QED BY <1>1, <1>2, Invariant, StepCopied, PTL DEF Spec

-----------------------------------------------------------------------------
(* Lines.  Arithmetic first: division with remainder, for any divisor.     *)

LEMMA Quotient ==
  ASSUME NEW m \in Nat \ {0}, NEW a \in Int
  PROVE  a = m * (a \div m) + (a % m) /\ a % m \in 0 .. m - 1 /\ a \div m \in Int
OBVIOUS

LEMMA QuotientUnique ==
  ASSUME NEW m \in Nat \ {0}, NEW q \in Int, NEW r \in 0 .. m - 1
  PROVE  (m * q + r) % m = r /\ (m * q + r) \div m = q
OBVIOUS

\* A remainder may be taken at once or later.
LEMMA ModPlus ==
  ASSUME NEW m \in Nat \ {0}, NEW a \in Int, NEW b \in Int
  PROVE  ((a % m) + b) % m = (a + b) % m
<1> DEFINE c == (a % m) + b
<1>1. a = m * (a \div m) + (a % m) /\ a % m \in 0 .. m - 1 /\ a \div m \in Int
  BY Quotient
<1>2. c \in Int /\ a + b = c + m * (a \div m)
  BY <1>1
<1> HIDE DEF c
<1>3. c = m * (c \div m) + (c % m) /\ c % m \in 0 .. m - 1 /\ c \div m \in Int
  BY <1>2, Quotient
<1> DEFINE k == (c \div m) + (a \div m)
<1>4. k \in Int /\ a + b = m * k + (c % m)
  BY <1>1, <1>2, <1>3
<1> HIDE DEF k
<1>5. (m * k + (c % m)) % m = c % m
  BY <1>3, <1>4, QuotientUnique
<1> QED BY <1>4, <1>5 DEF c

LEMMA ModSame ==
  ASSUME NEW m \in Nat \ {0}, NEW a \in Int, NEW b \in Int, NEW c \in Int, a % m = b % m
  PROVE  (a + c) % m = (b + c) % m
<1>1. ((a % m) + c) % m = (a + c) % m
  BY ModPlus
<1>2. ((b % m) + c) % m = (b + c) % m
  BY ModPlus
<1> QED BY <1>1, <1>2

\* The position with s units behind it, one increment later.
LEMMA Carry ==
  ASSUME NEW s \in Nat, NEW i \in 0 .. One
  PROVE  /\ (s % One) + i >= One => /\ (s + i) % One = (s % One) + i - One
                                    /\ (s + i) \div One = (s \div One) + 1
         /\ (s % One) + i < One => /\ (s + i) % One = (s % One) + i
                                   /\ (s + i) \div One = s \div One
<1> DEFINE q == s \div One
           r == s % One
<1>1. One \in Nat \ {0} /\ s = One * q + r /\ r \in 0 .. One - 1 /\ q \in Int
  BY Constants, Quotient
<1> HIDE DEF q, r
<1>2. CASE r + i >= One
  <2>1. r + i - One \in 0 .. One - 1 /\ q + 1 \in Int
    BY <1>1, <1>2
  <2>2. s + i = One * (q + 1) + (r + i - One)
    BY <1>1
  <2>3. /\ (One * (q + 1) + (r + i - One)) % One = r + i - One
        /\ (One * (q + 1) + (r + i - One)) \div One = q + 1
    BY <1>1, <2>1, QuotientUnique
  <2>4. (s + i) % One = r + i - One /\ (s + i) \div One = q + 1
    BY <2>2, <2>3
  <2> QED BY <1>1, <1>2, <2>4 DEF q, r
<1>3. CASE r + i < One
  <2>1. r + i \in 0 .. One - 1 /\ s + i = One * q + (r + i)
    BY <1>1, <1>3
  <2>2. (One * q + (r + i)) % One = r + i /\ (One * q + (r + i)) \div One = q
    BY <1>1, <2>1, QuotientUnique
  <2>3. (s + i) % One = r + i /\ (s + i) \div One = q
    BY <2>1, <2>2
  <2> QED BY <1>1, <1>3, <2>3 DEF q, r
<1> QED BY <1>1, <1>2, <1>3 DEF q, r

-----------------------------------------------------------------------------
\* The line's units so far, and where port 1 then belongs.
Units == One \div 2 + course.count * xinc
Target == course.from + course.count * Step(port[1]) + (Units \div One) * Step(port[0])

FxRec == [mode : 0 .. 3, fourbit : BOOLEAN, hop : BOOLEAN, cycling : BOOLEAN, fill : BOOLEAN,
          cwrite : BOOLEAN, trans : BOOLEAN, poly2 : BOOLEAN, clip : BOOLEAN, pairs : BOOLEAN]

CourseInv ==
  /\ fx \in FxRec
  /\ course \in [on : BOOLEAN, from : Int, count : Nat]
  /\ course.on => /\ fx.mode = 1 /\ ~fx.fourbit /\ ~fx.hop
                  /\ xinc \in 0 .. One
                  /\ x = Units % One
                  /\ port[1].addr % Span = Target % Span

\* Port 1 after an access in line mode, with one pixel as the unit of address.
LEMMA LineStep ==
  ASSUME Types, CourseInv, course.on, NEW writing \in BOOLEAN
  PROVE  LET r == Accessed(1, writing)
             a == (port[1].addr + Step(port[1])) % Span
         IN  IF x + xinc >= One
               THEN r.port[1].addr = (a + Step(port[0])) % Span /\ r.x = x + xinc - One
               ELSE r.port[1].addr = a /\ r.x = x + xinc
<1> DEFINE pos == (x + xinc) % XSpan
           crosses == (pos \div One) % 2 = 1
           a == (port[1].addr + Step(port[1])) % Span
           r == Accessed(1, writing)
<1>1. x \in 0 .. One - 1 /\ xinc \in 0 .. One /\ x + xinc \in 0 .. 2 * One - 1
  <2>1. Units \in Nat
    <3>1. course.count \in Nat /\ xinc \in Nat
      BY Constants DEF CourseInv
    <3>2. course.count * xinc \in Nat
      BY <3>1
    <3> QED BY <3>2, Constants DEF Units
  <2>2. x = Units % One
    BY DEF CourseInv
  <2> QED BY <2>1, <2>2, Constants DEF CourseInv
<1>2. pos = x + xinc
  BY <1>1, Constants
<1>3. crosses <=> x + xinc >= One
  <2>1. CASE x + xinc >= One
    <3>1. x + xinc = One * 1 + (x + xinc - One) /\ x + xinc - One \in 0 .. One - 1
      BY <1>1, <2>1, Constants
    <3>2. pos \div One = 1
      <4>1. (One * 1 + (x + xinc - One)) \div One = 1
        BY <3>1, Constants, QuotientUnique
      <4> QED BY <1>2, <3>1, <4>1
    <3> QED BY <2>1, <3>2
  <2>2. CASE ~(x + xinc >= One)
    <3>1. x + xinc = One * 0 + (x + xinc) /\ x + xinc \in 0 .. One - 1
      BY <1>1, <2>2, Constants
    <3>2. pos \div One = 0
      <4>1. (One * 0 + (x + xinc)) \div One = 0
        BY <3>1, Constants, QuotientUnique
      <4> QED BY <1>2, <3>1, <4>1
    <3> QED BY <2>2, <3>2
  <2> QED BY <2>1, <2>2
<1>4. Stepped(1) = [port EXCEPT ![1].addr = a]
  <2>1. Hopped(1, Step(port[1])) = Step(port[1]) /\ ~fx.fourbit
    BY DEF CourseInv, Hopped
  <2> QED BY <2>1 DEF Stepped
<1>5. /\ r.port = Drawn(Stepped(1), crosses)
      /\ r.x = IF crosses THEN pos - One ELSE pos
  BY DEF Accessed, CourseInv
<1>6. Stepped(1)[1].addr = a /\ Stepped(1)[0] = port[0] /\ 1 \in DOMAIN Stepped(1)
  BY <1>4 DEF Types, Ports, PortRec
<1>7. Stepped(1) \in [Ports -> PortRec] /\ ~fx.fourbit
  BY SteppedMoves DEF Moves, Ports, CourseInv
<1> HIDE DEF a, pos, crosses, r
<1>8. crosses => Drawn(Stepped(1), crosses)[1].addr = (a + Step(port[0])) % Span
  BY <1>6, <1>7 DEF Drawn, Ports, PortRec
<1>9. ~crosses => Drawn(Stepped(1), crosses)[1].addr = a
  BY <1>6 DEF Drawn
<1>10. /\ x + xinc >= One => r.port[1].addr = (a + Step(port[0])) % Span /\ r.x = x + xinc - One
       /\ ~(x + xinc >= One) => r.port[1].addr = a /\ r.x = x + xinc
  <2>1. crosses => r.port[1].addr = (a + Step(port[0])) % Span /\ r.x = pos - One
    BY <1>5, <1>8
  <2>2. ~crosses => r.port[1].addr = a /\ r.x = pos
    BY <1>5, <1>9
  <2>3. pos - One = x + xinc - One
    BY <1>1, <1>2, Constants
  <2> QED BY <1>2, <1>3, <2>1, <2>2, <2>3
<1> QED BY <1>10 DEF a, r

\* So the line stays on its course.
LEMMA LineAdvances ==
  ASSUME Types, CourseInv, course.on, NEW writing \in BOOLEAN,
         port'[1].addr = Accessed(1, writing).port[1].addr, x' = Accessed(1, writing).x,
         \A q \in Ports : port'[q].step = port[q].step /\ port'[q].down = port[q].down,
         course' = [course EXCEPT !.count = @ + 1], xinc' = xinc, fx' = fx
  PROVE  CourseInv'
<1> DEFINE s == Units
           a == port[1].addr
           s1 == Step(port[1])
           s0 == Step(port[0])
           n == course.count
           f == course.from
           d == s \div One
<1>1. n \in Nat /\ f \in Int /\ xinc \in 0 .. One /\ fx \in FxRec
  BY DEF CourseInv
<1>2. s1 \in Int /\ s0 \in Int /\ a \in Int /\ One \in Nat \ {0} /\ Span \in Nat \ {0}
  BY Constants DEF Types, PortRec, Step, Ports
<1>3. Step(port'[1]) = s1 /\ Step(port'[0]) = s0
  BY DEF Step, Ports
<1>4. /\ course'.count = n + 1 /\ course'.from = f /\ course'.on
      /\ course' \in [on : BOOLEAN, from : Int, count : Nat]
  BY DEF CourseInv
<1>5. x = s % One /\ a % Span = (f + n * s1 + d * s0) % Span
  BY DEF CourseInv, Target
<1>6. s \in Nat /\ n * s1 \in Int /\ d \in Int
  <2>1. n * xinc \in Nat /\ n * s1 \in Int
    BY <1>1, <1>2
  <2>2. s \in Nat
    BY <1>2, <2>1 DEF Units
  <2> QED BY <1>2, <2>1, <2>2
<1>7. Units' = s + xinc
  <2>1. (n + 1) * xinc = n * xinc + xinc
    BY <1>1
  <2>2. n * xinc \in Nat /\ One \div 2 \in Nat
    BY <1>1, <1>2
  <2> QED BY <1>1, <1>4, <2>1, <2>2 DEF Units
<1>8. /\ x' = Units' % One
      /\ IF x + xinc >= One
           THEN /\ port'[1].addr = (((a + s1) % Span) + s0) % Span
                /\ Units' \div One = d + 1
           ELSE /\ port'[1].addr = (a + s1) % Span
                /\ Units' \div One = d
  <2>1. x + xinc >= One => x' = x + xinc - One /\ port'[1].addr = (((a + s1) % Span) + s0) % Span
    BY LineStep
  <2>2. ~(x + xinc >= One) => x' = x + xinc /\ port'[1].addr = (a + s1) % Span
    BY LineStep
  <2> HIDE DEF s, d
  <2>3. /\ x + xinc >= One => (s + xinc) % One = x + xinc - One /\ (s + xinc) \div One = (s \div One) + 1
        /\ x + xinc < One => (s + xinc) % One = x + xinc /\ (s + xinc) \div One = s \div One
    BY <1>1, <1>5, <1>6, Carry
  <2>4. x + xinc >= One \/ x + xinc < One
    BY <1>1, <1>2 DEF Types
  <2> QED BY <1>7, <2>1, <2>2, <2>3, <2>4, <1>1, <1>2 DEF Types, d
<1> DEFINE t == f + n * s1 + d * s0
<1>9. t \in Int /\ d * s0 \in Int
  BY <1>1, <1>2, <1>6
<1>10. (a + s1) % Span = (t + s1) % Span
  BY <1>2, <1>5, <1>9, ModSame
<1>11. Target' = f + (n + 1) * s1 + (Units' \div One) * s0
  BY <1>3, <1>4 DEF Target
<1>12. (n + 1) * s1 = n * s1 + s1 /\ (d + 1) * s0 = d * s0 + s0
  BY <1>1, <1>2, <1>6
<1>13. port'[1].addr % Span = Target' % Span
  <2> HIDE DEF s, a, s1, s0, d, n, f
  <2>1. (((a + s1) % Span) % Span) = (a + s1) % Span
    BY <1>2
  <2>2. CASE x + xinc >= One
    <3>1. port'[1].addr = (((t + s1) % Span) + s0) % Span
      BY <1>8, <1>10, <2>2
    <3>2. t + s1 \in Int
      BY <1>2, <1>9
    <3>3. (((t + s1) % Span) + s0) % Span = (t + s1 + s0) % Span
      BY <1>2, <3>2, ModPlus
    <3>4. Target' = t + s1 + s0
      BY <1>1, <1>2, <1>6, <1>8, <1>9, <1>11, <1>12, <2>2
    <3>5. (t + s1 + s0) % Span \in 0 .. Span - 1
      BY <1>2, <1>9
    <3> QED BY <1>2, <3>1, <3>3, <3>4, <3>5
  <2>3. CASE ~(x + xinc >= One)
    <3>1. port'[1].addr = (t + s1) % Span
      BY <1>8, <1>10, <2>3
    <3>2. Target' = t + s1
      BY <1>1, <1>2, <1>6, <1>8, <1>9, <1>11, <1>12, <2>3
    <3>3. (t + s1) % Span \in 0 .. Span - 1
      BY <1>2, <1>9
    <3> QED BY <1>2, <3>1, <3>2, <3>3
  <2> QED BY <2>2, <2>3
<1> QED BY <1>1, <1>4, <1>8, <1>13 DEF CourseInv

LEMMA SameCourse ==
  ASSUME CourseInv, course' = course, xinc' = xinc, x' = x, fx' \in FxRec,
         fx'.mode = fx.mode /\ fx'.fourbit = fx.fourbit /\ fx'.hop = fx.hop,
         port'[1] = port[1], port'[0].step = port[0].step, port'[0].down = port[0].down
  PROVE  CourseInv'
<1>1. Units' = Units /\ Target' = Target
  BY DEF Units, Target, Step
<1> QED BY <1>1 DEF CourseInv

LEMMA NewCourse == ASSUME course' = NoCourse, fx' \in FxRec PROVE CourseInv'
BY DEF CourseInv, NoCourse

\* All data accesses but a poke.
LEMMA AccessOnCourse ==
  ASSUME Types, CourseInv, NEW q \in Ports, NEW writing \in BOOLEAN, NEW ram \in [Memory -> Nat],
         course.on => port' = Fetched(Accessed(q, writing).port, q, ram),
         x' = Accessed(q, writing).x, Coursed(q), xinc' = xinc, fx' = fx
  PROVE  CourseInv'
<1> DEFINE P == Accessed(q, writing).port
<1>1. CASE ~course.on
  <2>1. course' = course
    BY <1>1 DEF Coursed
  <2> QED BY <1>1, <2>1 DEF CourseInv
<1>2. CASE course.on
  <2>1. Moves(port, P, q) /\ P \in [Ports -> PortRec]
    BY AccessedMoves DEF Moves
  <2>2. port' = Fetched(P, q, ram)
    BY <1>2
  <2> HIDE DEF P
  <2>3. /\ \A r \in Ports \ {q} : port'[r] = port[r]
        /\ \A r \in Ports : /\ port'[r].addr = P[r].addr
                            /\ port'[r].step = port[r].step
                            /\ port'[r].down = port[r].down
    BY <2>1, <2>2, FetchedShows DEF Moves
  <2>4. CASE q = 1
    <3>1. course' = [course EXCEPT !.count = @ + 1]
      BY <1>2, <2>4 DEF Coursed
    <3>2. port'[1].addr = Accessed(1, writing).port[1].addr
      BY <2>3, <2>4 DEF P, Ports
    <3> QED BY <1>2, <2>3, <2>4, <3>1, <3>2, LineAdvances
  <2>5. CASE q = 0
    <3>1. course' = course
      BY <2>5 DEF Coursed
    <3>2. x' = x
      BY <1>2, <2>5 DEF Accessed, CourseInv
    <3>3. port'[1] = port[1] /\ port'[0].step = port[0].step /\ port'[0].down = port[0].down
      BY <2>3, <2>5 DEF Ports
    <3> QED BY <3>1, <3>2, <3>3, SameCourse DEF CourseInv
  <2> QED BY <2>4, <2>5 DEF Ports
<1> QED BY <1>1, <1>2

LEMMA DataOnCourse ==
  ASSUME IInv, CourseInv, NEW q \in Ports, ReadData(q) \/ WriteData(q) PROVE CourseInv'
<1>1. vram \in [Memory -> Nat]
  BY DEF IInv, Types
<1>2. CASE ReadData(q)
  <2>1. x' = Accessed(q, FALSE).x /\ Coursed(q) /\ xinc' = xinc /\ fx' = fx
    BY <1>2 DEF ReadData
  <2>2. course.on => port' = Fetched(Accessed(q, FALSE).port, q, vram)
    <3> DEFINE r == Accessed(q, FALSE)
    <3>1. port' = IF q = 1 /\ fx.mode = 3 THEN Affine(r.port, r.x, vram) ELSE Fetched(r.port, q, vram)
      BY <1>2 DEF ReadData
    <3>2. course.on => fx.mode # 3
      BY DEF CourseInv
    <3> HIDE DEF r
    <3>3. course.on => port' = Fetched(r.port, q, vram)
      BY <3>1, <3>2
    <3> QED BY <3>3 DEF r
  <2> QED BY <1>1, <2>1, <2>2, AccessOnCourse DEF IInv
<1>3. ASSUME NEW field, PokeField(field), WriteData(q) PROVE CourseInv'
  <2>1. UNCHANGED <<port, x, course, fx, xinc>>
    BY <1>3 DEF PokeField, WriteData
  <2> QED BY <2>1, SameCourse DEF CourseInv
<1>4. ASSUME NEW v \in Bytes, WriteByte(q, v), WriteData(q) PROVE CourseInv'
  <2>1. v \in Nat
    BY Constants, VeraAssumption DEF Byte
  <2>2. vram' \in [Memory -> Nat]
    BY <1>4, <2>1, WriteByteKeeps
  <2>3. /\ x' = Accessed(q, TRUE).x /\ Coursed(q) /\ xinc' = xinc /\ fx' = fx
        /\ port' = Fetched(Accessed(q, TRUE).port, q, vram')
    BY <1>4 DEF WriteByte, WriteData
  <2> QED BY <2>2, <2>3, AccessOnCourse DEF IInv
<1>5. ASSUME NEW mask, WriteGroup(q, mask), WriteData(q) PROVE CourseInv'
  <2>1. vram' \in [Memory -> Nat]
    BY <1>5, WriteGroupKeeps
  <2>2. /\ x' = Accessed(q, TRUE).x /\ Coursed(q) /\ xinc' = xinc /\ fx' = fx
        /\ port' = Fetched(Accessed(q, TRUE).port, q, vram')
    BY <1>5 DEF WriteGroup, WriteData
  <2> QED BY <2>1, <2>2, AccessOnCourse DEF IInv
<1> QED BY <1>2, <1>3, <1>4, <1>5 DEF WriteData

\* Where a line begins.
LEMMA XIncOnCourse == ASSUME IInv, CourseInv, NEW v \in Slopes, WriteXInc(v) PROVE CourseInv'
<1>1. fx' \in FxRec /\ fx' = fx /\ port' = port
  BY DEF WriteXInc, FxOnly, CourseInv
<1>2. CASE course' = NoCourse
  BY <1>1, <1>2, NewCourse
<1>3. CASE /\ fx.mode = 1 /\ x' = One \div 2 /\ ~fx.fourbit /\ ~fx.hop /\ v <= One
           /\ course' = [on |-> TRUE, from |-> port[1].addr, count |-> 0]
  <2>1. xinc' = v /\ v \in 0 .. One
    BY <1>3, Constants, VeraAssumption DEF WriteXInc
  <2>2. port[1].addr \in Int /\ Step(port[1]) \in Int /\ Step(port[0]) \in Int
    BY DEF IInv, Types, PortRec, Ports, Step
  <2>3. Units' = One \div 2
    BY <1>3, <2>1, Constants DEF Units
  <2>4. (One \div 2) % One = One \div 2 /\ (One \div 2) \div One = 0
    <3>1. One * 0 + (One \div 2) = One \div 2 /\ One \div 2 \in 0 .. One - 1
      BY Constants
    <3>2. (One * 0 + (One \div 2)) % One = One \div 2 /\ (One * 0 + (One \div 2)) \div One = 0
      BY <3>1, Constants, QuotientUnique
    <3> QED BY <3>1, <3>2
  <2>5. Target' = port[1].addr
    <3>1. Target' = port[1].addr + 0 * Step(port[1]) + 0 * Step(port[0])
      BY <1>1, <1>3, <2>3, <2>4 DEF Target
    <3> QED BY <2>2, <3>1
  <2>6. course' \in [on : BOOLEAN, from : Int, count : Nat]
    BY <1>3, <2>2
  <2> QED BY <1>1, <1>3, <2>1, <2>3, <2>4, <2>5, <2>6 DEF CourseInv
<1> QED BY <1>2, <1>3 DEF WriteXInc

LEMMA EffectsOnCourse == ASSUME IInv, CourseInv, Effects PROVE CourseInv'
<1>1. ASSUME NEW c \in Offered, WriteFxCtrl(c) PROVE CourseInv'
  <2>1. fx' \in FxRec
    <3>1. c \in FxRec
      <4>1. c \in [mode : 0 .. 3, fourbit : BOOLEAN, hop : BOOLEAN, cycling : BOOLEAN,
                   fill : BOOLEAN, cwrite : BOOLEAN, trans : BOOLEAN,
                   poly2 : {FALSE}, clip : {FALSE}, pairs : {FALSE}]
        BY <1>1, Zenon DEF Offered
      <4>2. c.poly2 \in BOOLEAN /\ c.clip \in BOOLEAN /\ c.pairs \in BOOLEAN
        BY <4>1
      <4> QED BY <4>1, <4>2, SMTT(30) DEF FxRec
    <3>2. fx.poly2 \in BOOLEAN /\ fx.clip \in BOOLEAN /\ fx.pairs \in BOOLEAN
      BY DEF CourseInv, FxRec
    <3>3. fx' = [c EXCEPT !.poly2 = fx.poly2, !.clip = fx.clip, !.pairs = fx.pairs]
      BY <1>1 DEF WriteFxCtrl
    <3>4. [c EXCEPT !.poly2 = fx.poly2] \in FxRec
      BY <3>1, <3>2 DEF FxRec
    <3>5. [[c EXCEPT !.poly2 = fx.poly2] EXCEPT !.clip = fx.clip] \in FxRec
      BY <3>2, <3>4 DEF FxRec
    <3> QED BY <3>1, <3>2, <3>3, <3>4, <3>5 DEF FxRec
  <2> QED BY <1>1, <2>1, NewCourse DEF WriteFxCtrl
<1>2. ASSUME NEW poly2 \in BOOLEAN, NEW clip \in BOOLEAN, WriteFxTile(poly2, clip) PROVE CourseInv'
  <2>1. /\ fx' \in FxRec
        /\ fx'.mode = fx.mode /\ fx'.fourbit = fx.fourbit /\ fx'.hop = fx.hop
    BY <1>2 DEF WriteFxTile, FxRec, CourseInv
  <2> QED BY <1>2, <2>1, SameCourse DEF WriteFxTile
<1>3. ASSUME NEW pairs \in BOOLEAN, NEW n, NEW i, WriteFxMult(pairs, n, i) PROVE CourseInv'
  <2>1. /\ fx' \in FxRec
        /\ fx'.mode = fx.mode /\ fx'.fourbit = fx.fourbit /\ fx'.hop = fx.hop
    BY <1>3 DEF WriteFxMult, FxRec, CourseInv
  <2> QED BY <1>3, <2>1, SameCourse DEF WriteFxMult
<1>4. ASSUME NEW i, NEW v, WriteCache(i, v) PROVE CourseInv'
  BY <1>4, SameCourse DEF WriteCache, CourseInv
<1>5. ASSUME NEW v, WriteXPosition(v) PROVE CourseInv'
  BY <1>5, NewCourse DEF WriteXPosition, CourseInv
<1>6. fx.poly2 \in BOOLEAN /\ fx.clip \in BOOLEAN
  BY DEF CourseInv, FxRec
<1> QED BY <1>1, <1>2, <1>3, <1>4, <1>5, <1>6, XIncOnCourse DEF Effects

LEMMA StepOnCourse == ASSUME IInv, CourseInv, [Next]_vars PROVE CourseInv'
<1>1. CASE UNCHANGED <<port, fx, x, xinc, course>>
  BY <1>1, SameCourse DEF CourseInv
<1>2. CASE Data
  BY <1>2, DataOnCourse DEF Data
<1>3. CASE Address
  <2>1. course' = NoCourse /\ fx' = fx
    BY <1>3 DEF Address, WriteAddrL, WriteAddrM, WriteAddrH, Readdressed
  <2> QED BY <2>1, NewCourse DEF CourseInv
<1>4. CASE Screen
  BY <1>1, <1>4 DEF Screen, WriteLayer, WriteVideo, RenderLine, Beside, fxSide
<1>5. ASSUME NEW q, SelectPort(q) PROVE CourseInv'
  BY <1>1, <1>5 DEF SelectPort, Beside, fxSide
<1>6. ASSUME NEW q, Reset(q) PROVE CourseInv'
  BY <1>6, NewCourse DEF Reset, FxOff, FxRec
<1>7. CASE UNCHANGED vars
  BY <1>1, <1>7 DEF vars, fxSide
<1> QED BY <1>2, <1>3, <1>4, <1>5, <1>6, <1>7, EffectsOnCourse DEF Next, Setup

\* A line drawn by the helper goes through the pixels it should, for any slope
\* of at most one, any length and any size of the fixed-point unit.
THEOREM LinesOnCourse == Spec => []LineOnCourse
<1>1. Init => CourseInv
  BY DEF Init, CourseInv, NoCourse, FxOff, FxRec
<1>2. CourseInv => LineOnCourse
  BY DEF CourseInv, LineOnCourse, Target, Units
<1> QED BY <1>1, <1>2, Invariant, StepOnCourse, PTL DEF Spec
=============================================================================
