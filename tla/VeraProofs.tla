----------------------------- MODULE VeraProofs -----------------------------
(***************************************************************************)
(* Proofs about VERA's picture and sound.  VeraScan, for any screen, any   *)
(* sprite tables, maps, tiles and layer settings: the collisions reported  *)
(* are those that happened and every pixel shows the foremost thing, if    *)
(* the sprites of a line do not run out of clocks, and the interrupt       *)
(* output is right when a tick is over.  PcmFifo, for any size of the ring *)
(* and any width of its count: no index leaves the ring, whatever the data *)
(* race does, and until the threads collide the ring is a queue.           *)
(*                                                                         *)
(* A line is drawn by functions that are defined by recursion.  What they  *)
(* compute is proved by induction: a function that satisfies the           *)
(* recursion's equations exists, so that the one CHOOSE takes does too     *)
(* (PixelsAre, LineIs, SpentIs, AndIs, TiledIs), and what holds at 0 and   *)
(* is handed on holds up to the end (Upwards).  RasterInv says that the    *)
(* row carried from line to line is the line's own, once the mode's top    *)
(* line has set it.                                                        *)
(***************************************************************************)
EXTENDS VeraScan, PcmFifo, SequenceTheorems, WellFoundedInduction, TLAPS

-----------------------------------------------------------------------------
(* Induction, and recursive functions.                                     *)

LEMMA LeastMember ==
  ASSUME NEW T, T \subseteq Nat, T # {} PROVE \E m \in T : \A k \in T : m <= k
<1>1. PICK m \in T : \A k \in T : <<k, m>> \notin OpToRel(<, Nat)
  BY WFMin, NatLessThanWellFounded, Zenon
<1>2. \A k \in T : ~ (k < m)
  BY <1>1, Zenon DEF OpToRel
<1> QED BY <1>2

\* What holds at 0 and is handed on holds up to n.
LEMMA Upwards ==
  ASSUME NEW n \in Nat, NEW S, 0 \in S, \A i \in 0 .. n - 1 : i \in S => i + 1 \in S
  PROVE  \A i \in 0 .. n : i \in S
<1> DEFINE T == {i \in 0 .. n : i \notin S}
<1>1. SUFFICES ASSUME T # {} PROVE FALSE
  OBVIOUS
<1>2. PICK m \in T : \A k \in T : m <= k
  <2>1. T \subseteq Nat
    OBVIOUS
  <2> HIDE DEF T
  <2> QED BY <1>1, <2>1, LeastMember
<1>3. m \in 0 .. n /\ m # 0 /\ m \notin S
  BY <1>2
<1>4. m - 1 \in 0 .. n - 1 /\ m - 1 \notin T
  BY <1>2, <1>3
<1>5. m - 1 \in S
  BY <1>4
<1> QED BY <1>3, <1>4, <1>5

\* The states of a sprite's line up to column n.
PixelRun(s, y, start, n, f) ==
  /\ f = [i \in 0 .. n |-> f[i]]
  /\ f[0] = [start EXCEPT !.out = FALSE]
  /\ \A i \in 0 .. n - 1 : f[i + 1] = Pixel(s, y, i, f[i])

LEMMA PixelsAre ==
  ASSUME NEW s, NEW y, NEW start, s.w \in Nat
  PROVE  \E f : PixelRun(s, y, start, s.w, f) /\ Pixels(s, y, start) = f[s.w]
<1> DEFINE n == s.w
           a == [start EXCEPT !.out = FALSE]
           Recursive(f) == f = [i \in 0 .. n |-> IF i = 0 THEN a ELSE Pixel(s, y, i - 1, f[i - 1])]
           S == {k \in 0 .. n : \E f : PixelRun(s, y, start, k, f)}
<1>1. n \in Nat
  OBVIOUS
<1>2. Pixels(s, y, start) = (CHOOSE f : Recursive(f))[n]
  BY Zenon DEF Pixels
<1> HIDE DEF n
<1>3. 0 \in S
  <2> DEFINE f == [i \in 0 .. 0 |-> a]
  <2>1. f[0] = a /\ f = [i \in 0 .. 0 |-> f[i]]
    OBVIOUS
  <2> HIDE DEF f
  <2>2. PixelRun(s, y, start, 0, f)
    BY <2>1 DEF PixelRun
  <2> QED BY <1>1, <2>2
<1>4. ASSUME NEW k \in 0 .. n - 1, k \in S PROVE k + 1 \in S
  <2>1. PICK f : PixelRun(s, y, start, k, f)
    BY <1>4
  <2> DEFINE g == [i \in 0 .. k + 1 |-> IF i = k + 1 THEN Pixel(s, y, k, f[k]) ELSE f[i]]
  <2>2. /\ g = [i \in 0 .. k + 1 |-> g[i]] /\ g[k + 1] = Pixel(s, y, k, f[k])
        /\ \A i \in 0 .. k : g[i] = f[i]
    BY <1>1
  <2> HIDE DEF g
  <2>3. k \in 0 .. k /\ 0 \in 0 .. k /\ k + 1 \in 0 .. n
    BY <1>1
  <2>4. g[0] = a
    BY <2>1, <2>2, <2>3, Zenon DEF PixelRun
  <2>5. ASSUME NEW i \in 0 .. (k + 1) - 1 PROVE g[i + 1] = Pixel(s, y, i, g[i])
    <3>1. CASE i = k
      BY <2>2, <2>3, <3>1, Zenon
    <3>2. CASE i # k
      <4>1. i \in 0 .. k - 1 /\ i \in 0 .. k /\ i + 1 \in 0 .. k
        BY <3>2, <1>1
      <4>2. f[i + 1] = Pixel(s, y, i, f[i])
        BY <2>1, <4>1 DEF PixelRun
      <4> QED BY <2>2, <4>1, <4>2
    <3> QED BY <3>1, <3>2
  <2>6. PixelRun(s, y, start, k + 1, g)
    BY <2>2, <2>4, <2>5, Zenon DEF PixelRun
  <2> QED BY <2>3, <2>6
<1>5. n \in S
  <2>1. n \in 0 .. n
    BY <1>1
  <2> HIDE DEF S
  <2> QED BY <1>1, <1>3, <1>4, <2>1, Upwards
<1>6. PICK f : PixelRun(s, y, start, n, f)
  BY <1>5
<1>7. Recursive(f)
  <2> DEFINE g == [i \in 0 .. n |-> IF i = 0 THEN a ELSE Pixel(s, y, i - 1, f[i - 1])]
  <2>1. ASSUME NEW i \in 0 .. n PROVE f[i] = g[i]
    <3>1. CASE i = 0
      BY <1>6, <3>1 DEF PixelRun
    <3>2. CASE i # 0
      <4>1. PICK j : j = i - 1 /\ j \in 0 .. n - 1 /\ j + 1 = i
        BY <1>1, <3>2
      <4>2. f[i] = Pixel(s, y, j, f[j])
        BY <1>6, <4>1 DEF PixelRun
      <4> QED BY <3>2, <4>1, <4>2
    <3> QED BY <3>1, <3>2
  <2>2. f = [i \in 0 .. n |-> f[i]]
    BY <1>6 DEF PixelRun
  <2> HIDE DEF a
  <2> QED BY <2>1, <2>2
<1>8. PICK g : g = (CHOOSE h : Recursive(h)) /\ Recursive(g)
  BY <1>7
<1>9. PixelRun(s, y, start, n, g)
  <2>1. g = [i \in 0 .. n |-> g[i]]
    BY <1>8
  <2>2. g[0] = a
    <3>1. 0 \in 0 .. n
      BY <1>1
    <3> HIDE DEF a
    <3> QED BY <1>8, <3>1
  <2>3. ASSUME NEW i \in 0 .. n - 1 PROVE g[i + 1] = Pixel(s, y, i, g[i])
    <3>1. PICK j : j = i + 1 /\ j \in 0 .. n /\ j # 0 /\ j - 1 = i
      BY <1>1
    <3>2. g[j] = Pixel(s, y, j - 1, g[j - 1])
      BY <1>8, <3>1
    <3> QED BY <3>1, <3>2
  <2> QED BY <2>1, <2>2, <2>3, Zenon DEF PixelRun
<1> QED BY <1>2, <1>8, <1>9 DEF n

\* The states of a line up to sprite n.
LineRun(sprites, y, n, f) ==
  /\ f = [i \in 0 .. n |-> f[i]]
  /\ f[0] = Unspent
  /\ \A i \in 0 .. n - 1 : f[i + 1] = LookUp(sprites[i + 1], y, f[i])

LEMMA LineIs ==
  ASSUME NEW sprites, NEW y, Len(sprites) \in Nat
  PROVE  \E f : LineRun(sprites, y, Len(sprites), f) /\ SpriteLine(sprites, y) = f[Len(sprites)]
<1> DEFINE n == Len(sprites)
           a == Unspent
           Recursive(f) == f = [i \in 0 .. n |-> IF i = 0 THEN a ELSE LookUp(sprites[i], y, f[i - 1])]
           S == {k \in 0 .. n : \E f : LineRun(sprites, y, k, f)}
<1>1. n \in Nat
  OBVIOUS
<1>2. SpriteLine(sprites, y) = (CHOOSE f : Recursive(f))[n]
  BY Zenon DEF SpriteLine
<1> HIDE DEF n
<1>3. 0 \in S
  <2> DEFINE f == [i \in 0 .. 0 |-> a]
  <2>1. f[0] = a /\ f = [i \in 0 .. 0 |-> f[i]]
    OBVIOUS
  <2> HIDE DEF f
  <2>2. LineRun(sprites, y, 0, f)
    BY <2>1 DEF LineRun
  <2> QED BY <1>1, <2>2
<1>4. ASSUME NEW k \in 0 .. n - 1, k \in S PROVE k + 1 \in S
  <2>1. PICK f : LineRun(sprites, y, k, f)
    BY <1>4
  <2> DEFINE g == [i \in 0 .. k + 1 |-> IF i = k + 1 THEN LookUp(sprites[k + 1], y, f[k]) ELSE f[i]]
  <2>2. /\ g = [i \in 0 .. k + 1 |-> g[i]] /\ g[k + 1] = LookUp(sprites[k + 1], y, f[k])
        /\ \A i \in 0 .. k : g[i] = f[i]
    BY <1>1
  <2> HIDE DEF g
  <2>3. k \in 0 .. k /\ 0 \in 0 .. k /\ k + 1 \in 0 .. n
    BY <1>1
  <2>4. g[0] = a
    BY <2>1, <2>2, <2>3, Zenon DEF LineRun
  <2>5. ASSUME NEW i \in 0 .. (k + 1) - 1 PROVE g[i + 1] = LookUp(sprites[i + 1], y, g[i])
    <3>1. CASE i = k
      BY <2>2, <2>3, <3>1, Zenon
    <3>2. CASE i # k
      <4>1. i \in 0 .. k - 1 /\ i \in 0 .. k /\ i + 1 \in 0 .. k
        BY <3>2, <1>1
      <4>2. f[i + 1] = LookUp(sprites[i + 1], y, f[i])
        BY <2>1, <4>1 DEF LineRun
      <4> QED BY <2>2, <4>1, <4>2
    <3> QED BY <3>1, <3>2
  <2>6. LineRun(sprites, y, k + 1, g)
    BY <2>2, <2>4, <2>5, Zenon DEF LineRun
  <2> QED BY <2>3, <2>6
<1>5. n \in S
  <2>1. n \in 0 .. n
    BY <1>1
  <2> HIDE DEF S
  <2> QED BY <1>1, <1>3, <1>4, <2>1, Upwards
<1>6. PICK f : LineRun(sprites, y, n, f)
  BY <1>5
<1>7. Recursive(f)
  <2> DEFINE g == [i \in 0 .. n |-> IF i = 0 THEN a ELSE LookUp(sprites[i], y, f[i - 1])]
  <2>1. ASSUME NEW i \in 0 .. n PROVE f[i] = g[i]
    <3>1. CASE i = 0
      BY <1>6, <3>1 DEF LineRun
    <3>2. CASE i # 0
      <4>1. PICK j : j = i - 1 /\ j \in 0 .. n - 1 /\ j + 1 = i
        BY <1>1, <3>2
      <4>2. f[i] = LookUp(sprites[i], y, f[j])
        BY <1>6, <4>1 DEF LineRun
      <4> QED BY <3>2, <4>1, <4>2
    <3> QED BY <3>1, <3>2
  <2>2. f = [i \in 0 .. n |-> f[i]]
    BY <1>6 DEF LineRun
  <2> HIDE DEF a
  <2> QED BY <2>1, <2>2
<1>8. PICK g : g = (CHOOSE h : Recursive(h)) /\ Recursive(g)
  BY <1>7
<1>9. LineRun(sprites, y, n, g)
  <2>1. g = [i \in 0 .. n |-> g[i]]
    BY <1>8
  <2>2. g[0] = a
    <3>1. 0 \in 0 .. n
      BY <1>1
    <3> HIDE DEF a
    <3> QED BY <1>8, <3>1
  <2>3. ASSUME NEW i \in 0 .. n - 1 PROVE g[i + 1] = LookUp(sprites[i + 1], y, g[i])
    <3>1. PICK j : j = i + 1 /\ j \in 0 .. n /\ j # 0 /\ j - 1 = i
      BY <1>1
    <3>2. g[j] = LookUp(sprites[j], y, g[j - 1])
      BY <1>8, <3>1
    <3> QED BY <3>1, <3>2
  <2> QED BY <2>1, <2>2, <2>3, Zenon DEF LineRun
<1> QED BY <1>2, <1>8, <1>9 DEF n

\* The clocks of a line up to sprite n.
SpentRun(sprites, y, n, f) ==
  /\ f = [i \in 0 .. n |-> f[i]]
  /\ f[0] = 0
  /\ \A i \in 0 .. n - 1 : f[i + 1] = f[i] + Clocks(sprites[i + 1], y)

LEMMA SpentIs ==
  ASSUME NEW sprites, NEW y, Len(sprites) \in Nat
  PROVE  SpentRun(sprites, y, Len(sprites), Spent(sprites, y))
<1> DEFINE n == Len(sprites)
           a == 0
           Recursive(f) == f = [i \in 0 .. n |-> IF i = 0 THEN a ELSE f[i - 1] + Clocks(sprites[i], y)]
           S == {k \in 0 .. n : \E f : SpentRun(sprites, y, k, f)}
<1>1. n \in Nat
  OBVIOUS
<1>2. Spent(sprites, y) = CHOOSE f : Recursive(f)
  BY Zenon DEF Spent
<1> HIDE DEF n
<1>3. 0 \in S
  <2> DEFINE f == [i \in 0 .. 0 |-> a]
  <2>1. f[0] = a /\ f = [i \in 0 .. 0 |-> f[i]]
    OBVIOUS
  <2> HIDE DEF f
  <2>2. SpentRun(sprites, y, 0, f)
    BY <2>1 DEF SpentRun
  <2> QED BY <1>1, <2>2
<1>4. ASSUME NEW k \in 0 .. n - 1, k \in S PROVE k + 1 \in S
  <2>1. PICK f : SpentRun(sprites, y, k, f)
    BY <1>4
  <2> DEFINE g == [i \in 0 .. k + 1 |-> IF i = k + 1 THEN f[k] + Clocks(sprites[k + 1], y) ELSE f[i]]
  <2>2. /\ g = [i \in 0 .. k + 1 |-> g[i]] /\ g[k + 1] = f[k] + Clocks(sprites[k + 1], y)
        /\ \A i \in 0 .. k : g[i] = f[i]
    BY <1>1
  <2> HIDE DEF g
  <2>3. k \in 0 .. k /\ 0 \in 0 .. k /\ k + 1 \in 0 .. n
    BY <1>1
  <2>4. g[0] = a
    BY <2>1, <2>2, <2>3, Zenon DEF SpentRun
  <2>5. ASSUME NEW i \in 0 .. (k + 1) - 1 PROVE g[i + 1] = g[i] + Clocks(sprites[i + 1], y)
    <3>1. CASE i = k
      BY <2>2, <2>3, <3>1, Zenon
    <3>2. CASE i # k
      <4>1. i \in 0 .. k - 1 /\ i \in 0 .. k /\ i + 1 \in 0 .. k
        BY <3>2, <1>1
      <4>2. f[i + 1] = f[i] + Clocks(sprites[i + 1], y)
        BY <2>1, <4>1 DEF SpentRun
      <4> QED BY <2>2, <4>1, <4>2
    <3> QED BY <3>1, <3>2
  <2>6. SpentRun(sprites, y, k + 1, g)
    BY <2>2, <2>4, <2>5, Zenon DEF SpentRun
  <2> QED BY <2>3, <2>6
<1>5. n \in S
  <2>1. n \in 0 .. n
    BY <1>1
  <2> HIDE DEF S
  <2> QED BY <1>1, <1>3, <1>4, <2>1, Upwards
<1>6. PICK f : SpentRun(sprites, y, n, f)
  BY <1>5
<1>7. Recursive(f)
  <2> DEFINE g == [i \in 0 .. n |-> IF i = 0 THEN a ELSE f[i - 1] + Clocks(sprites[i], y)]
  <2>1. ASSUME NEW i \in 0 .. n PROVE f[i] = g[i]
    <3>1. CASE i = 0
      BY <1>6, <3>1 DEF SpentRun
    <3>2. CASE i # 0
      <4>1. PICK j : j = i - 1 /\ j \in 0 .. n - 1 /\ j + 1 = i
        BY <1>1, <3>2
      <4>2. f[i] = f[j] + Clocks(sprites[i], y)
        BY <1>6, <4>1 DEF SpentRun
      <4> QED BY <3>2, <4>1, <4>2
    <3> QED BY <3>1, <3>2
  <2>2. f = [i \in 0 .. n |-> f[i]]
    BY <1>6 DEF SpentRun
  <2> HIDE DEF a
  <2> QED BY <2>1, <2>2
<1>8. PICK g : g = (CHOOSE h : Recursive(h)) /\ Recursive(g)
  BY <1>7
<1>9. SpentRun(sprites, y, n, g)
  <2>1. g = [i \in 0 .. n |-> g[i]]
    BY <1>8
  <2>2. g[0] = a
    <3>1. 0 \in 0 .. n
      BY <1>1
    <3> HIDE DEF a
    <3> QED BY <1>8, <3>1
  <2>3. ASSUME NEW i \in 0 .. n - 1 PROVE g[i + 1] = g[i] + Clocks(sprites[i + 1], y)
    <3>1. PICK j : j = i + 1 /\ j \in 0 .. n /\ j # 0 /\ j - 1 = i
      BY <1>1
    <3>2. g[j] = g[j - 1] + Clocks(sprites[j], y)
      BY <1>8, <3>1
    <3> QED BY <3>1, <3>2
  <2> QED BY <2>1, <2>2, <2>3, Zenon DEF SpentRun
<1> QED BY <1>2, <1>8, <1>9 DEF n

-----------------------------------------------------------------------------
(* The line of one sprite.                                                 *)

LEMMA Screen ==
  /\ Width \in Nat \ {0} /\ Wrap \in Nat /\ Budget \in 1 .. Wrap - 1
BY SpriteAssumption

\* The fetches of k columns, d to a fetch.
Fetches(d, k) == (k + d - 1) \div d

LEMMA Quotient ==
  ASSUME NEW d \in Nat \ {0}, NEW a \in Int
  PROVE  a = d * (a \div d) + (a % d) /\ a % d \in 0 .. d - 1 /\ a \div d \in Int
OBVIOUS

LEMMA QuotientUnique ==
  ASSUME NEW d \in Nat \ {0}, NEW q \in Int, NEW r \in 0 .. d - 1
  PROVE  (d * q + r) % d = r /\ (d * q + r) \div d = q
OBVIOUS

LEMMA DivOf ==
  ASSUME NEW d \in Nat \ {0}, NEW a \in Nat
  PROVE  /\ a \div d \in Nat /\ a % d \in 0 .. d - 1 /\ a = d * (a \div d) + (a % d)
         /\ \A q \in Nat, r \in 0 .. d - 1 : a = d * q + r => a \div d = q /\ a % d = r
<1>1. a = d * (a \div d) + (a % d) /\ a % d \in 0 .. d - 1
  BY Quotient
<1>2. a \div d \in Nat
  OBVIOUS
<1>3. ASSUME NEW q \in Nat, NEW r \in 0 .. d - 1, a = d * q + r PROVE a \div d = q /\ a % d = r
  BY <1>3, QuotientUnique
<1> QED BY <1>1, <1>2, <1>3, Zenon

LEMMA DivUnique ==
  ASSUME NEW d \in Nat \ {0}, NEW a \in Nat, NEW q \in Nat, NEW r \in 0 .. d - 1, a = d * q + r
  PROVE  a \div d = q
BY QuotientUnique

LEMMA FetchesAre ==
  ASSUME NEW d \in Nat \ {0}, NEW k \in Nat
  PROVE  /\ Fetches(d, k) \in Nat /\ Fetches(d, 0) = 0
         /\ Fetches(d, k + 1) = Fetches(d, k) + (IF k % d = 0 THEN 1 ELSE 0)
<1> DEFINE q == k \div d
           r == k % d
<1>1. d \in Nat \ {0}
  OBVIOUS
<1>2. q \in Nat /\ r \in 0 .. d - 1 /\ k = d * q + r
  BY <1>1, DivOf
<1> HIDE DEF q, r
<1>3. d * q \in Nat /\ d * (q + 1) = d * q + d
  BY <1>1, <1>2
<1>4. k + 1 + d - 1 \in Nat /\ k + d - 1 \in Nat /\ d - 1 \in Nat
  BY <1>1
<1>5. (k + 1 + d - 1) \div d = q + 1
  <2>1. k + 1 + d - 1 = d * (q + 1) + r /\ q + 1 \in Nat
    BY <1>1, <1>2, <1>3
  <2> QED BY <1>1, <1>2, <1>4, <2>1, DivUnique
<1>6. (k + d - 1) \div d = IF r = 0 THEN q ELSE q + 1
  <2>1. CASE r = 0
    <3>1. k + d - 1 = d * q + (d - 1)
      BY <1>1, <1>2, <1>3, <2>1
    <3>2. d - 1 \in 0 .. d - 1
      BY <1>1
    <3>3. (k + d - 1) \div d = q
      BY <1>1, <1>2, <1>4, <3>1, <3>2, DivUnique
    <3> QED BY <2>1, <3>3
  <2>2. CASE r # 0
    <3>1. k + d - 1 = d * (q + 1) + (r - 1) /\ r - 1 \in 0 .. d - 1 /\ q + 1 \in Nat
      BY <1>1, <1>2, <1>3, <2>2
    <3>2. (k + d - 1) \div d = q + 1
      BY <1>1, <1>4, <3>1, DivUnique
    <3> QED BY <2>2, <3>2
  <2> QED BY <2>1, <2>2
<1>7. (0 + d - 1) \div d = 0
  <2>1. d - 1 = d * 0 + (d - 1) /\ d - 1 \in 0 .. d - 1 /\ 0 + d - 1 = d - 1
    BY <1>1
  <2> QED BY <1>1, <1>4, <2>1, DivOf
<1> QED BY <1>2, <1>5, <1>6, <1>7 DEF Fetches, r

\* The clocks of the columns up to k are not more than those of all of them.
LEMMA ClocksGrow ==
  ASSUME NEW d \in Nat \ {0}, NEW n \in Nat
  PROVE  \A k \in 0 .. n : Fetches(d, k) \in Nat /\ Fetches(d, k) <= Fetches(d, n)
<1> DEFINE S == {j \in 0 .. n : Fetches(d, n - j) \in Nat /\ Fetches(d, n - j) <= Fetches(d, n)}
<1>1. 0 \in S
  <2>1. n - 0 = n
    OBVIOUS
  <2> QED BY <2>1, FetchesAre
<1>2. ASSUME NEW j \in 0 .. n - 1, j \in S PROVE j + 1 \in S
  <2>1. PICK k : k = n - (j + 1) /\ k \in Nat /\ k + 1 = n - j /\ j + 1 \in 0 .. n
    OBVIOUS
  <2>2. Fetches(d, k) \in Nat /\ Fetches(d, k + 1) >= Fetches(d, k) /\ Fetches(d, n) \in Nat
    <3>1. /\ Fetches(d, k) \in Nat /\ Fetches(d, n) \in Nat
          /\ Fetches(d, k + 1) = Fetches(d, k) + (IF k % d = 0 THEN 1 ELSE 0)
      BY <2>1, FetchesAre
    <3> HIDE DEF Fetches
    <3> QED BY <3>1
  <2> QED BY <1>2, <2>1, <2>2
<1>3. \A j \in 0 .. n : j \in S
  <2> HIDE DEF S
  <2> QED BY <1>1, <1>2, Upwards
<1>4. ASSUME NEW k \in 0 .. n PROVE Fetches(d, k) \in Nat /\ Fetches(d, k) <= Fetches(d, n)
  <2>1. PICK j : j = n - k /\ j \in 0 .. n /\ n - j = k
    OBVIOUS
  <2> QED BY <1>3, <2>1
<1> QED BY <1>4

\* A state with clocks left.
State(b, v, o, line, groups) == [budget |-> b, over |-> v, out |-> o, line |-> line, hits |-> groups]
No == FALSE
Going(b, line, groups) == State(b, No, No, line, groups)
Dots  == [col : Nat, z : Nat, mask : SUBSET Nat]
Lines == [0 .. Width - 1 -> Dots]

\* Column x of the screen shows an opaque pixel of the sprite's first n columns.
Shown(s, y, n, x) == x - s.x \in 0 .. n - 1 /\ <<Row(s, y), Column(s, x - s.x)>> \in s.opaque

LEMMA SpriteFields ==
  ASSUME NEW s \in Sprites
  PROVE  /\ s.x \in Int /\ s.y \in Int /\ s.w \in Nat /\ s.h \in Nat /\ s.z \in Nat
         /\ s.mask \in SUBSET Nat /\ s.col \in Nat /\ s.fetch \in Nat \ {0}
BY DEF Sprites

LEMMA Plotted ==
  ASSUME NEW s \in Sprites, NEW line \in Lines, NEW x \in 0 .. Width - 1
  PROVE  /\ Plot(line, s, x) \in Lines
         /\ \A c \in 0 .. Width - 1 : Plot(line, s, x)[c] = IF c = x THEN Over(s, line[c]) ELSE line[c]
<1>1. \A p \in Dots : Over(s, p) \in Dots
  BY SpriteFields DEF Over, Dots
<1>2. line[x] \in Dots
  BY DEF Lines
<1>3. Over(s, line[x]) \in Dots
  BY <1>1, <1>2
<1> HIDE DEF Dots
<1> QED BY <1>3 DEF Plot, Lines

LEMMA Spending == ASSUME NEW b \in 1 .. Wrap - 1 PROVE Spend(b) = b - 1
<1>1. b - 1 \in 0 .. Wrap - 1 /\ Wrap \in Nat \ {0}
  BY Screen
<1>2. (b - 1) % Wrap = b - 1
  BY <1>1
<1> QED BY <1>2 DEF Spend

LEMMA StateSpends ==
  ASSUME NEW b, NEW v, NEW o, NEW line, NEW groups, NEW d
  PROVE  [State(b, v, o, line, groups) EXCEPT !.budget = d] = State(d, v, o, line, groups)
BY DEF State

LEMMA StateDraws ==
  ASSUME NEW b, NEW v, NEW o, NEW line, NEW groups, NEW d, NEW l, NEW h
  PROVE  /\ [State(b, v, o, line, groups) EXCEPT !.line = l] = State(b, v, o, l, groups)
         /\ [State(b, v, o, line, groups) EXCEPT !.hits = h] = State(b, v, o, line, h)
BY DEF State

LEMMA StateStays ==
  ASSUME NEW b, NEW v, NEW o, NEW line, NEW groups
  PROVE  [State(b, v, o, line, groups) EXCEPT !.out = o] = State(b, v, o, line, groups)
BY DEF State

LEMMA GoingSpends ==
  ASSUME NEW b, NEW line, NEW groups, NEW d
  PROVE  [Going(b, line, groups) EXCEPT !.budget = d] = Going(d, line, groups)
BY StateSpends DEF Going

LEMMA GoingDraws ==
  ASSUME NEW b, NEW line, NEW groups, NEW l, NEW h
  PROVE  /\ [Going(b, line, groups) EXCEPT !.line = l] = Going(b, l, groups)
         /\ [Going(b, line, groups) EXCEPT !.hits = h] = Going(b, line, h)
BY StateDraws DEF Going

LEMMA GoingStays ==
  ASSUME NEW b, NEW line, NEW groups
  PROVE  [Going(b, line, groups) EXCEPT !.out = FALSE] = Going(b, line, groups)
<1>1. [Going(b, line, groups) EXCEPT !.out = No] = Going(b, line, groups)
  BY StateStays DEF Going
<1> QED BY <1>1, Zenon DEF No

LEMMA GoingIs ==
  ASSUME NEW b, NEW line, NEW groups
  PROVE  LET st == Going(b, line, groups)
         IN  st.budget = b /\ st.line = line /\ st.hits = groups /\ ~st.out /\ ~st.over
BY Zenon DEF Going, State, No

\* A column that the clocks allow, c of them.
ColumnAfter(s, y, k, line, groups, b, c) ==
  IF ~Visible(s.x + k) THEN Going(b, line, groups)
  ELSE IF <<Row(s, y), Column(s, k)>> \in s.opaque
    THEN Going(b - c, Plot(line, s, s.x + k), groups \cup (line[s.x + k].mask \cap s.mask))
    ELSE Going(b - c, line, groups)

LEMMA PixelIs ==
  ASSUME NEW s, NEW y, NEW k \in Nat, NEW line, NEW groups, NEW b \in 1 .. Wrap - 1,
         NEW c \in {1, 2}, c = 2 <=> k % s.fetch = 0, b > c
  PROVE  Pixel(s, y, k, Going(b, line, groups)) = ColumnAfter(s, y, k, line, groups, b, c)
<1>1. PICK st : st = Going(b, line, groups)
  OBVIOUS
<1>2. st.budget = b /\ st.line = line /\ st.hits = groups /\ ~st.out
  BY <1>1, GoingIs
<1> DEFINE b1 == IF k % s.fetch = 0 THEN Spend(b) ELSE b
           b2 == IF b1 = 0 THEN 0 ELSE Spend(b1)
<1>3. b1 \in 1 .. Wrap - 1 /\ b1 = b - c + 1
  BY <1>1, Screen, Spending
<1> HIDE DEF b1
<1>4. b2 = b - c /\ b2 # 0
  BY <1>3, Screen, Spending
<1> USE DEF b1
<1>5. Pixel(s, y, k, st) =
        IF st.out \/ ~Visible(s.x + k) THEN st
        ELSE IF b2 = 0 THEN [st EXCEPT !.budget = 0, !.out = TRUE]
        ELSE IF <<Row(s, y), Column(s, k)>> \in s.opaque
          THEN [st EXCEPT !.budget = b2, !.line = Plot(st.line, s, s.x + k),
                          !.hits = st.hits \cup (st.line[s.x + k].mask \cap s.mask)]
          ELSE [st EXCEPT !.budget = b2]
  BY <1>2 DEF Pixel
<1> HIDE DEF b2
<1>6. /\ [st EXCEPT !.budget = b2, !.line = Plot(st.line, s, s.x + k),
                    !.hits = st.hits \cup (st.line[s.x + k].mask \cap s.mask)]
         = Going(b2, Plot(line, s, s.x + k), groups \cup (line[s.x + k].mask \cap s.mask))
      /\ [st EXCEPT !.budget = b2] = Going(b2, line, groups)
  <2>1. [st EXCEPT !.budget = b2] = Going(b2, line, groups)
    BY <1>1, GoingSpends
  <2>2. PICK l, h : /\ l = Plot(st.line, s, s.x + k) /\ h = st.hits \cup (st.line[s.x + k].mask \cap s.mask)
    OBVIOUS
  <2>3. [st EXCEPT !.budget = b2, !.line = l, !.hits = h] = Going(b2, l, h)
    <3>1. [st EXCEPT !.budget = b2, !.line = l, !.hits = h]
            = [[[st EXCEPT !.budget = b2] EXCEPT !.line = l] EXCEPT !.hits = h]
      OBVIOUS
    <3>2. [Going(b2, line, groups) EXCEPT !.line = l] = Going(b2, l, groups)
      BY GoingDraws
    <3>3. [Going(b2, l, groups) EXCEPT !.hits = h] = Going(b2, l, h)
      BY GoingDraws
    <3> QED BY <2>1, <3>1, <3>2, <3>3
  <2> QED BY <1>2, <2>1, <2>2, <2>3
<1> QED BY <1>1, <1>2, <1>4, <1>5, <1>6, Zenon DEF ColumnAfter


\* What a sprite's first n columns make of a line, and of the collisions.
Drawn(s, y, n, line, after) ==
  \A x \in 0 .. Width - 1 : after[x] = IF Shown(s, y, n, x) THEN Over(s, line[x]) ELSE line[x]
Struck(s, y, n, line, groups, after) ==
  \A g : g \in after <=> \/ g \in groups
                         \/ \E x \in 0 .. Width - 1 :
                              Shown(s, y, n, x) /\ g \in line[x].mask /\ g \in s.mask

\* A column more.
LEMMA ShownNext ==
  ASSUME NEW s \in Sprites, NEW y, NEW k \in Nat, NEW x \in 0 .. Width - 1
  PROVE  /\ Shown(s, y, k + 1, x) <=> \/ Shown(s, y, k, x)
                                      \/ x = s.x + k /\ <<Row(s, y), Column(s, k)>> \in s.opaque
         /\ x = s.x + k => ~Shown(s, y, k, x)
         /\ ~Shown(s, y, 0, x)
<1>1. s.x \in Int /\ x \in Int
  BY SpriteFields, Screen
<1>2. x - s.x \in 0 .. (k + 1) - 1 <=> x - s.x \in 0 .. k - 1 \/ x = s.x + k
  BY <1>1
<1>3. x = s.x + k => x - s.x = k /\ x - s.x \notin 0 .. k - 1
  BY <1>1
<1>4. x - s.x \notin 0 .. 0 - 1
  BY <1>1
<1> QED BY <1>2, <1>3, <1>4, Zenon DEF Shown

LEMMA ColumnDrawn ==
  ASSUME NEW s \in Sprites, NEW y, NEW k \in Nat, NEW line \in Lines, NEW groups \in SUBSET Nat,
         NEW line1 \in Lines, NEW hits1 \in SUBSET Nat, Visible(s.x + k),
         Drawn(s, y, k, line, line1), Struck(s, y, k, line, groups, hits1),
         <<Row(s, y), Column(s, k)>> \in s.opaque
  PROVE  /\ Plot(line1, s, s.x + k) \in Lines
         /\ Drawn(s, y, k + 1, line, Plot(line1, s, s.x + k))
         /\ Struck(s, y, k + 1, line, groups, hits1 \cup (line1[s.x + k].mask \cap s.mask))
         /\ hits1 \cup (line1[s.x + k].mask \cap s.mask) \in SUBSET Nat
<1>1. PICK c : c = s.x + k /\ c \in 0 .. Width - 1
  BY DEF Visible
<1>2. /\ Plot(line1, s, c) \in Lines
      /\ \A x \in 0 .. Width - 1 : Plot(line1, s, c)[x] = IF x = c THEN Over(s, line1[x]) ELSE line1[x]
  BY <1>1, Plotted
<1>3. line1[c] = line[c]
  BY <1>1, ShownNext DEF Drawn
<1>4. Drawn(s, y, k + 1, line, Plot(line1, s, c))
  <2> SUFFICES ASSUME NEW x \in 0 .. Width - 1
               PROVE  Plot(line1, s, c)[x] = IF Shown(s, y, k + 1, x) THEN Over(s, line[x]) ELSE line[x]
    BY DEF Drawn
  <2>1. Shown(s, y, k + 1, x) <=> Shown(s, y, k, x) \/ x = c
    BY <1>1, ShownNext
  <2>2. line1[x] = IF Shown(s, y, k, x) THEN Over(s, line[x]) ELSE line[x]
    BY DEF Drawn
  <2> QED BY <1>2, <1>3, <2>1, <2>2
<1>5. Struck(s, y, k + 1, line, groups, hits1 \cup (line1[c].mask \cap s.mask))
  <2>1. \A x \in 0 .. Width - 1 : Shown(s, y, k + 1, x) <=> Shown(s, y, k, x) \/ x = c
    BY <1>1, ShownNext
  <2> QED BY <1>1, <1>3, <2>1, Zenon DEF Struck
<1>6. hits1 \cup (line1[c].mask \cap s.mask) \in SUBSET Nat
  BY SpriteFields
<1> QED BY <1>1, <1>2, <1>4, <1>5, <1>6

LEMMA ColumnLeft ==
  ASSUME NEW s \in Sprites, NEW y, NEW k \in Nat, NEW line \in Lines, NEW groups \in SUBSET Nat,
         NEW line1, NEW hits1, ~Visible(s.x + k) \/ <<Row(s, y), Column(s, k)>> \notin s.opaque,
         Drawn(s, y, k, line, line1), Struck(s, y, k, line, groups, hits1)
  PROVE  Drawn(s, y, k + 1, line, line1) /\ Struck(s, y, k + 1, line, groups, hits1)
<1>1. \A x \in 0 .. Width - 1 : Shown(s, y, k + 1, x) <=> Shown(s, y, k, x)
  BY ShownNext DEF Visible
<1> QED BY <1>1, Zenon DEF Drawn, Struck

LEMMA PixelsDraw ==
  ASSUME NEW s \in Sprites, NEW y, NEW line \in Lines, NEW groups \in SUBSET Nat,
         NEW b \in 1 .. Wrap - 1, b > s.w + Fetches(s.fetch, s.w)
  PROVE  \E b1 \in 1 .. Wrap - 1, line1 \in Lines, hits1 \in SUBSET Nat :
           /\ Pixels(s, y, Going(b, line, groups)) = Going(b1, line1, hits1)
           /\ b1 >= b - (s.w + Fetches(s.fetch, s.w))
           /\ Drawn(s, y, s.w, line, line1)
           /\ Struck(s, y, s.w, line, groups, hits1)
<1>1. s.w \in Nat
  BY SpriteFields
<1>2. PICK f : PixelRun(s, y, Going(b, line, groups), s.w, f)
               /\ Pixels(s, y, Going(b, line, groups)) = f[s.w]
  BY <1>1, PixelsAre
<1> DEFINE Is(k) ==
      \E b1 \in 1 .. Wrap - 1, line1 \in Lines, hits1 \in SUBSET Nat :
        /\ f[k] = Going(b1, line1, hits1)
        /\ b1 >= b - (k + Fetches(s.fetch, k))
        /\ Drawn(s, y, k, line, line1)
        /\ Struck(s, y, k, line, groups, hits1)
      S == {k \in 0 .. s.w : Is(k)}
<1>3. 0 \in S
  <2>1. f[0] = Going(b, line, groups)
    <3>1. f[0] = [Going(b, line, groups) EXCEPT !.out = FALSE]
      BY <1>2, Zenon DEF PixelRun
    <3> QED BY <3>1, GoingStays, Zenon
  <2>2. b >= b - (0 + Fetches(s.fetch, 0))
    BY FetchesAre, SpriteFields, Screen
  <2>3. Drawn(s, y, 0, line, line)
    BY ShownNext DEF Drawn
  <2>4. Struck(s, y, 0, line, groups, groups)
    BY ShownNext DEF Struck
  <2>5. Is(0)
    BY <2>1, <2>2, <2>3, <2>4
  <2> QED BY <1>1, <2>5
<1>4. ASSUME NEW k \in 0 .. s.w - 1, k \in S PROVE k + 1 \in S
  <2>1. PICK b1 \in 1 .. Wrap - 1, line1 \in Lines, hits1 \in SUBSET Nat :
          /\ f[k] = Going(b1, line1, hits1)
          /\ b1 >= b - (k + Fetches(s.fetch, k))
          /\ Drawn(s, y, k, line, line1)
          /\ Struck(s, y, k, line, groups, hits1)
    BY <1>4
  <2>2. k \in Nat /\ k + 1 \in 0 .. s.w
    BY <1>1
  <2>3. PICK c : c = IF k % s.fetch = 0 THEN 2 ELSE 1
    OBVIOUS
  <2>4. /\ Fetches(s.fetch, k) \in Nat /\ Fetches(s.fetch, k + 1) \in Nat
        /\ k + 1 + Fetches(s.fetch, k + 1) = k + Fetches(s.fetch, k) + c
        /\ Fetches(s.fetch, k + 1) <= Fetches(s.fetch, s.w) /\ Fetches(s.fetch, s.w) \in Nat
    <3>1. /\ Fetches(s.fetch, k) \in Nat
          /\ Fetches(s.fetch, k + 1) = Fetches(s.fetch, k) + (IF k % s.fetch = 0 THEN 1 ELSE 0)
      BY <2>2, FetchesAre, SpriteFields
    <3>2. /\ Fetches(s.fetch, k + 1) <= Fetches(s.fetch, s.w)
          /\ Fetches(s.fetch, s.w) \in Nat /\ Fetches(s.fetch, k + 1) \in Nat
      <4>1. s.fetch \in Nat \ {0}
        BY SpriteFields
      <4>2. \A j \in 0 .. s.w : Fetches(s.fetch, j) \in Nat /\ Fetches(s.fetch, j) <= Fetches(s.fetch, s.w)
        BY <1>1, <4>1, ClocksGrow
      <4>3. s.w \in 0 .. s.w
        BY <1>1
      <4> QED BY <2>2, <4>2, <4>3, Zenon
    <3> HIDE DEF Fetches
    <3>3. k + 1 + Fetches(s.fetch, k + 1) = k + Fetches(s.fetch, k) + c
      <4>1. CASE k % s.fetch = 0
        BY <2>2, <2>3, <3>1, <4>1
      <4>2. CASE k % s.fetch # 0
        BY <2>2, <2>3, <3>1, <4>2
      <4> QED BY <4>1, <4>2
    <3> QED BY <3>1, <3>2, <3>3
  <2>c. c \in {1, 2} /\ (c = 2 <=> k % s.fetch = 0)
    BY <2>3
  <2>5. b1 - c >= b - (k + 1 + Fetches(s.fetch, k + 1)) /\ b1 - c \in 1 .. Wrap - 1 /\ b1 > c
    <3>1. b1 \in Nat /\ b \in Nat /\ Wrap \in Nat /\ b1 <= Wrap - 1
      BY Screen
    <3>2. k + 1 <= s.w /\ k \in Nat /\ s.w \in Nat
      BY <1>1, <2>2
    <3> QED BY <2>1, <2>4, <2>c, <3>1, <3>2
  <2>6. b1 >= b - (k + 1 + Fetches(s.fetch, k + 1))
    <3>1. b1 \in Nat /\ b \in Nat
      BY Screen
    <3> QED BY <2>4, <2>2, <2>c, <2>5, <3>1
  <2>7. f[k + 1] = Pixel(s, y, k, Going(b1, line1, hits1))
    BY <1>2, <2>1 DEF PixelRun
  <2>8. f[k + 1] = ColumnAfter(s, y, k, line1, hits1, b1, c)
    <3>1. Pixel(s, y, k, Going(b1, line1, hits1)) = ColumnAfter(s, y, k, line1, hits1, b1, c)
      BY <2>2, <2>c, <2>5, PixelIs, Zenon
    <3> QED BY <2>7, <3>1, Zenon
  <2>9. CASE ~Visible(s.x + k)
    <3>1. Drawn(s, y, k + 1, line, line1) /\ Struck(s, y, k + 1, line, groups, hits1)
      BY <2>1, <2>2, <2>9, ColumnLeft
    <3>2. Is(k + 1)
      BY <2>6, <2>8, <2>9, <3>1 DEF ColumnAfter
    <3> QED BY <2>2, <3>2
  <2>10. CASE Visible(s.x + k) /\ <<Row(s, y), Column(s, k)>> \notin s.opaque
    <3>1. Drawn(s, y, k + 1, line, line1) /\ Struck(s, y, k + 1, line, groups, hits1)
      BY <2>1, <2>2, <2>10, ColumnLeft
    <3>2. Is(k + 1)
      BY <2>5, <2>8, <2>10, <3>1 DEF ColumnAfter
    <3> QED BY <2>2, <3>2
  <2>11. CASE Visible(s.x + k) /\ <<Row(s, y), Column(s, k)>> \in s.opaque
    <3> DEFINE line2 == Plot(line1, s, s.x + k)
               hits2 == hits1 \cup (line1[s.x + k].mask \cap s.mask)
    <3>1. line2 \in Lines /\ hits2 \in SUBSET Nat /\ Drawn(s, y, k + 1, line, line2) /\ Struck(s, y, k + 1, line, groups, hits2)
      BY <2>1, <2>2, <2>11, ColumnDrawn
    <3>2. f[k + 1] = Going(b1 - c, line2, hits2)
      BY <2>8, <2>11 DEF ColumnAfter
    <3> HIDE DEF line2, hits2
    <3>3. Is(k + 1)
      BY <2>5, <3>1, <3>2
    <3> QED BY <2>2, <3>3
  <2> QED BY <2>9, <2>10, <2>11
<1>5. s.w \in S
  <2>1. s.w \in 0 .. s.w
    BY <1>1
  <2> HIDE DEF S
  <2> QED BY <1>1, <1>3, <1>4, <2>1, Upwards
<1> QED BY <1>2, <1>5

-----------------------------------------------------------------------------
(* The line of all sprites.                                                *)

\* The first n sprites' pixels at x, what they make of the line, and the
\* groups of which two of them meet.
Here(sprites, x, y, n) == {i \in OpaqueAt(sprites, x, y) : i <= n}
Masked(sprites, y, n, line) ==
  \A x \in 0 .. Width - 1 : \A g :
    g \in line[x].mask <=> \E j \in Here(sprites, x, y, n) : g \in sprites[j].mask
Foremost(sprites, t, here) ==
  \A j \in here : sprites[j].z < sprites[t].z \/ (sprites[j].z = sprites[t].z /\ t <= j)
Fronted(sprites, x, y, n, dot) ==
  \/ Here(sprites, x, y, n) = {} /\ dot.z = 0 /\ dot.col = 0
  \/ \E t \in Here(sprites, x, y, n) :
       dot.z = sprites[t].z /\ dot.col = sprites[t].col /\ Foremost(sprites, t, Here(sprites, x, y, n))
Gathered(sprites, y, n, groups) ==
  \A g : g \in groups <=>
    \E x \in 0 .. Width - 1 : \E j, k \in Here(sprites, x, y, n) :
      j < k /\ g \in sprites[j].mask /\ g \in sprites[k].mask

LEMMA HereNext ==
  ASSUME NEW sprites \in Seq(Sprites), NEW y, NEW n \in 0 .. Len(sprites) - 1, NEW x
  PROVE  /\ \A j : j \in Here(sprites, x, y, n + 1) <=>
                     \/ j \in Here(sprites, x, y, n)
                     \/ /\ j = n + 1 /\ Covers(sprites[n + 1], y)
                        /\ Shown(sprites[n + 1], y, sprites[n + 1].w, x)
         /\ \A j \in Here(sprites, x, y, n) : j \in 1 .. n /\ j < n + 1 /\ j # n + 1 /\ sprites[j] \in Sprites
         /\ Here(sprites, x, y, 0) = {}
<1>1. \A j : j \in OpaqueAt(sprites, x, y) <=>
        /\ j \in 1 .. Len(sprites)
        /\ Covers(sprites[j], y) /\ Shown(sprites[j], y, sprites[j].w, x)
  BY Zenon DEF OpaqueAt, Shown
<1>2. PICK m : m = Len(sprites) /\ m \in Nat
  OBVIOUS
<1>3. n \in Nat /\ n + 1 \in 1 .. m
  BY <1>2
<1>4. \A j \in 1 .. m : sprites[j] \in Sprites
  BY <1>2
<1>5. \A j \in 1 .. m : j <= n + 1 <=> j <= n \/ j = n + 1
  BY <1>3
<1>6. \A j : j \in Here(sprites, x, y, n + 1) <=> j \in OpaqueAt(sprites, x, y) /\ j <= n + 1
  BY DEF Here
<1>7. \A k : \A j : j \in Here(sprites, x, y, k) <=> j \in OpaqueAt(sprites, x, y) /\ j <= k
  BY DEF Here
<1>8. \A j : j \in OpaqueAt(sprites, x, y) => j \in 1 .. m
  BY <1>1, <1>2
<1>9. \A j : j \in Here(sprites, x, y, n + 1) <=>
                     \/ j \in Here(sprites, x, y, n)
                     \/ /\ j = n + 1 /\ Covers(sprites[n + 1], y)
                        /\ Shown(sprites[n + 1], y, sprites[n + 1].w, x)
  <2>1. n + 1 <= n + 1
    BY <1>3
  <2> QED BY <1>1, <1>2, <1>3, <1>5, <1>7, <1>8, <2>1, Zenon
<1>10. \A j \in 1 .. m : j <= n => j \in 1 .. n /\ j < n + 1 /\ j # n + 1
  BY <1>3
<1>11. \A j \in Here(sprites, x, y, n) : j \in 1 .. n /\ j < n + 1 /\ j # n + 1 /\ sprites[j] \in Sprites
  BY <1>4, <1>7, <1>8, <1>10, Zenon
<1>12. Here(sprites, x, y, 0) = {}
  <2>1. \A j \in 1 .. m : ~(j <= 0)
    BY <1>2
  <2> QED BY <1>7, <1>8, <2>1
<1> QED BY <1>9, <1>11, <1>12, Zenon

\* The first n sprites left the line as it should be.
Right(sprites, y, n, line, groups) ==
  /\ Masked(sprites, y, n, line)
  /\ \A x \in 0 .. Width - 1 : Fronted(sprites, x, y, n, line[x])
  /\ Gathered(sprites, y, n, groups)

LEMMA OverIs ==
  ASSUME NEW s, NEW there
  PROVE  /\ Over(s, there).mask = there.mask \cup s.mask
         /\ Over(s, there).z = IF s.z > there.z THEN s.z ELSE there.z
         /\ Over(s, there).col = IF s.z > there.z THEN s.col ELSE there.col
BY DEF Over

\* A sprite that does not reach the line changes nothing.
LEMMA PastSprite ==
  ASSUME NEW sprites \in Seq(Sprites), NEW y, NEW n \in 0 .. Len(sprites) - 1, NEW line, NEW groups,
         ~Covers(sprites[n + 1], y), Right(sprites, y, n, line, groups)
  PROVE  Right(sprites, y, n + 1, line, groups)
<1>1. ASSUME NEW x PROVE Here(sprites, x, y, n + 1) = Here(sprites, x, y, n)
  <2>1. \A j : j \in Here(sprites, x, y, n + 1) <=> j \in Here(sprites, x, y, n)
    BY HereNext, Zenon
  <2> QED BY <2>1 DEF Here
<1>2. Masked(sprites, y, n + 1, line)
  BY <1>1, Zenon DEF Right, Masked
<1>3. ASSUME NEW x \in 0 .. Width - 1 PROVE Fronted(sprites, x, y, n + 1, line[x])
  <2>1. Fronted(sprites, x, y, n, line[x])
    BY DEF Right
  <2> QED BY <1>1, <2>1, Zenon DEF Fronted
<1>4. Gathered(sprites, y, n + 1, groups)
  BY <1>1, Zenon DEF Right, Gathered
<1> QED BY <1>2, <1>3, <1>4, Zenon DEF Right

\* One that does is drawn in the right places.
LEMMA NextSprite ==
  ASSUME NEW sprites \in Seq(Sprites), NEW y, NEW n \in 0 .. Len(sprites) - 1,
         NEW line \in Lines, NEW groups \in SUBSET Nat, NEW line1 \in Lines, NEW hits1,
         NEW s, s = sprites[n + 1], Covers(s, y),
         Right(sprites, y, n, line, groups),
         Drawn(s, y, s.w, line, line1), Struck(s, y, s.w, line, groups, hits1)
  PROVE  Right(sprites, y, n + 1, line1, hits1)
<1>1. s \in Sprites
  <2>1. Len(sprites) \in Nat /\ n + 1 \in 1 .. Len(sprites)
    OBVIOUS
  <2> QED BY <2>1
<1>2. ASSUME NEW x
      PROVE  /\ \A j : j \in Here(sprites, x, y, n + 1) <=>
                         j \in Here(sprites, x, y, n) \/ (j = n + 1 /\ Shown(s, y, s.w, x))
             /\ \A j \in Here(sprites, x, y, n) :
                  j \in 1 .. n /\ j < n + 1 /\ j # n + 1 /\ sprites[j] \in Sprites
  <2>1. \A j : j \in Here(sprites, x, y, n + 1) <=>
                 \/ j \in Here(sprites, x, y, n)
                 \/ /\ j = n + 1 /\ Covers(sprites[n + 1], y)
                    /\ Shown(sprites[n + 1], y, sprites[n + 1].w, x)
    BY HereNext, Zenon
  <2>2. \A j \in Here(sprites, x, y, n) :
                  j \in 1 .. n /\ j < n + 1 /\ j # n + 1 /\ sprites[j] \in Sprites
    BY HereNext, Zenon
  <2> QED BY <2>1, <2>2, Zenon
<1>3. Masked(sprites, y, n + 1, line1)
  <2> SUFFICES ASSUME NEW x \in 0 .. Width - 1, NEW g
               PROVE  g \in line1[x].mask <=>
                        \E j \in Here(sprites, x, y, n + 1) : g \in sprites[j].mask
    BY DEF Masked
  <2>1. line1[x].mask = IF Shown(s, y, s.w, x) THEN line[x].mask \cup s.mask ELSE line[x].mask
    <3>1. line1[x] = IF Shown(s, y, s.w, x) THEN Over(s, line[x]) ELSE line[x]
      BY DEF Drawn
    <3> QED BY <3>1, OverIs, Zenon
  <2>2. g \in line[x].mask <=> \E j \in Here(sprites, x, y, n) : g \in sprites[j].mask
    BY DEF Right, Masked
  <2> QED BY <1>2, <2>1, <2>2
<1>4. ASSUME NEW x \in 0 .. Width - 1 PROVE Fronted(sprites, x, y, n + 1, line1[x])
  <2>1. Fronted(sprites, x, y, n, line[x])
    BY DEF Right
  <2>2. CASE ~Shown(s, y, s.w, x)
    <3>1. line1[x] = line[x]
      BY <2>2 DEF Drawn
    <3>2. Here(sprites, x, y, n + 1) = Here(sprites, x, y, n)
      BY <1>2, <2>2
    <3> QED BY <2>1, <3>1, <3>2, Zenon DEF Fronted
  <2>3. CASE Shown(s, y, s.w, x)
    <3>1. line1[x] = Over(s, line[x])
      BY <2>3 DEF Drawn
    <3>2. PICK z, c, here, here1 :
            /\ z = line[x].z /\ c = line[x].col
            /\ here = Here(sprites, x, y, n) /\ here1 = Here(sprites, x, y, n + 1)
      OBVIOUS
    <3>3. z \in Nat
      BY <3>2 DEF Lines, Dots
    <3>4. s.z \in Nat /\ s.z > 0
      BY <1>1, SpriteFields DEF Covers
    <3>5. here1 = here \cup {n + 1} /\ \A j \in here : j \in 1 .. n /\ sprites[j] \in Sprites
      BY <1>2, <2>3, <3>2
    <3>6. \A j \in here : sprites[j].z \in Nat /\ j < n + 1 /\ j \in Nat
      BY <3>5, SpriteFields
    <3>7. \/ here = {} /\ z = 0 /\ c = 0
          \/ \E t \in here : z = sprites[t].z /\ c = sprites[t].col /\ Foremost(sprites, t, here)
      BY <2>1, <3>2 DEF Fronted
    <3>8. \A j \in here : sprites[j].z <= z
      BY <3>6, <3>7 DEF Foremost
    <3>9. CASE s.z > z
      <4>1. line1[x].z = s.z /\ line1[x].col = s.col
        BY <3>1, <3>2, <3>9, OverIs
      <4>2. Foremost(sprites, n + 1, here1)
        <5>1. \A j \in here : sprites[j].z < s.z
          BY <3>3, <3>4, <3>6, <3>8, <3>9
        <5>2. n + 1 <= n + 1
          OBVIOUS
        <5> QED BY <3>5, <5>1, <5>2 DEF Foremost
      <4> QED BY <3>2, <3>5, <4>1, <4>2 DEF Fronted
    <3>10. CASE ~(s.z > z)
      <4>1. line1[x].z = z /\ line1[x].col = c
        BY <3>1, <3>2, <3>10, OverIs
      <4>2. PICK t \in here : z = sprites[t].z /\ c = sprites[t].col /\ Foremost(sprites, t, here)
        BY <3>4, <3>7, <3>10
      <4>3. Foremost(sprites, t, here1)
        BY <3>3, <3>4, <3>5, <3>6, <3>10, <4>2 DEF Foremost
      <4> QED BY <3>2, <3>5, <4>1, <4>2, <4>3 DEF Fronted
    <3> QED BY <3>9, <3>10
  <2> QED BY <2>2, <2>3
<1>5. Gathered(sprites, y, n + 1, hits1)
  <2> SUFFICES ASSUME NEW g
               PROVE  g \in hits1 <=>
                        \E x \in 0 .. Width - 1 : \E j, k \in Here(sprites, x, y, n + 1) :
                          j < k /\ g \in sprites[j].mask /\ g \in sprites[k].mask
    BY DEF Gathered
  <2>1. g \in groups <=> \E x \in 0 .. Width - 1 : \E j, k \in Here(sprites, x, y, n) :
                          j < k /\ g \in sprites[j].mask /\ g \in sprites[k].mask
    BY DEF Right, Gathered
  <2>2. g \in hits1 <=> \/ g \in groups
                        \/ \E x \in 0 .. Width - 1 :
                             Shown(s, y, s.w, x) /\ g \in line[x].mask /\ g \in s.mask
    BY DEF Struck
  <2>3. \A x \in 0 .. Width - 1 : g \in line[x].mask <=>
                         \E j \in Here(sprites, x, y, n) : g \in sprites[j].mask
    BY DEF Right, Masked
  <2>4. ASSUME NEW x, NEW j \in Here(sprites, x, y, n + 1), NEW k \in Here(sprites, x, y, n + 1), j < k
        PROVE  j \in Here(sprites, x, y, n)
    <3>1. n \in Nat
      OBVIOUS
    <3> QED BY <1>2, <2>4, <3>1
  <2>5. \A x : \A j \in Here(sprites, x, y, n) : j < n + 1
    BY <1>2
  <2>6. ASSUME g \in hits1
        PROVE  \E x \in 0 .. Width - 1 : \E j, k \in Here(sprites, x, y, n + 1) :
                          j < k /\ g \in sprites[j].mask /\ g \in sprites[k].mask
    <3>1. CASE g \in groups
      BY <1>2, <2>1, <3>1, Zenon
    <3>2. CASE g \notin groups
      <4>1. PICK x \in 0 .. Width - 1 : Shown(s, y, s.w, x) /\ g \in line[x].mask /\ g \in s.mask
        BY <2>2, <2>6, <3>2, Zenon
      <4>2. PICK j \in Here(sprites, x, y, n) : g \in sprites[j].mask
        BY <2>3, <4>1, Zenon
      <4>3. j < n + 1 /\ j \in Here(sprites, x, y, n + 1) /\ n + 1 \in Here(sprites, x, y, n + 1)
        BY <1>2, <2>5, <4>1, Zenon
      <4> QED BY <4>1, <4>2, <4>3, Zenon
    <3> QED BY <3>1, <3>2
  <2>7. ASSUME NEW x \in 0 .. Width - 1, NEW j \in Here(sprites, x, y, n + 1),
               NEW k \in Here(sprites, x, y, n + 1),
               j < k /\ g \in sprites[j].mask /\ g \in sprites[k].mask
        PROVE  g \in hits1
    <3>1. j \in Here(sprites, x, y, n)
      BY <2>4, <2>7, Zenon
    <3>2. CASE k \in Here(sprites, x, y, n)
      BY <2>1, <2>2, <2>7, <3>1, <3>2, Zenon
    <3>3. CASE k \notin Here(sprites, x, y, n)
      <4>1. k = n + 1 /\ Shown(s, y, s.w, x)
        BY <1>2, <3>3
      <4>2. g \in line[x].mask
        BY <2>3, <2>7, <3>1
      <4>3. g \in s.mask
        BY <2>7, <4>1
      <4> QED BY <2>2, <4>1, <4>2, <4>3
    <3> QED BY <3>2, <3>3
  <2> QED BY <2>6, <2>7, Zenon
<1> QED BY <1>3, <1>4, <1>5 DEF Right

\* Each sprite with its clocks: the line goes on.
LEMMA LookUpIs ==
  ASSUME NEW s \in Sprites, NEW y, NEW b \in 1 .. Wrap - 1, NEW line \in Lines, NEW groups \in SUBSET Nat,
         b > Clocks(s, y)
  PROVE  \E b1 \in 1 .. Wrap - 1, line1 \in Lines, hits1 \in SUBSET Nat :
           /\ LookUp(s, y, Going(b, line, groups)) = Going(b1, line1, hits1)
           /\ b1 >= b - Clocks(s, y)
           /\ IF Covers(s, y)
                THEN Drawn(s, y, s.w, line, line1) /\ Struck(s, y, s.w, line, groups, hits1)
                ELSE line1 = line /\ hits1 = groups
<1>1. s.w \in Nat /\ Fetches(s.fetch, s.w) \in Nat
  BY SpriteFields, FetchesAre
<1>2. Clocks(s, y) = IF Covers(s, y) THEN 1 + s.w + Fetches(s.fetch, s.w) ELSE 1
  BY Zenon DEF Clocks, Fetches
<1>3. Wrap \in Nat /\ b \in Nat /\ b > 1
  <2>1. Wrap \in Nat /\ b \in Nat
    BY Screen
  <2>2. CASE Covers(s, y)
    BY <1>1, <1>2, <2>1, <2>2
  <2>3. CASE ~Covers(s, y)
    BY <1>2, <2>1, <2>3
  <2> QED BY <2>1, <2>2, <2>3
<1>4. Spend(b) = b - 1 /\ b - 1 \in 1 .. Wrap - 1 /\ b - 1 # 0
  BY <1>3, Spending
<1>5. PICK st : st = Going(b, line, groups)
  OBVIOUS
<1>6. st.budget = b /\ ~st.over /\ [st EXCEPT !.budget = b - 1] = Going(b - 1, line, groups)
  <2>1. [Going(b, line, groups) EXCEPT !.budget = b - 1] = Going(b - 1, line, groups)
    BY GoingSpends
  <2>2. Going(b, line, groups).budget = b /\ ~Going(b, line, groups).over
    BY GoingIs
  <2> QED BY <1>5, <2>1, <2>2, Zenon
<1>7. LookUp(s, y, st) = IF Covers(s, y) THEN Pixels(s, y, Going(b - 1, line, groups))
                         ELSE Going(b - 1, line, groups)
  BY <1>4, <1>6, Zenon DEF LookUp
<1>8. CASE ~Covers(s, y)
  <2>1. b - 1 >= b - Clocks(s, y)
    BY <1>2, <1>3, <1>8
  <2> QED BY <1>4, <1>5, <1>7, <1>8, <2>1, Zenon
<1>9. CASE Covers(s, y)
  <2>1. b - 1 > s.w + Fetches(s.fetch, s.w)
    <3> HIDE DEF Fetches
    <3> QED BY <1>1, <1>2, <1>3, <1>9
  <2>2. PICK b1 \in 1 .. Wrap - 1, line1 \in Lines, hits1 \in SUBSET Nat :
           /\ Pixels(s, y, Going(b - 1, line, groups)) = Going(b1, line1, hits1)
           /\ b1 >= b - 1 - (s.w + Fetches(s.fetch, s.w))
           /\ Drawn(s, y, s.w, line, line1)
           /\ Struck(s, y, s.w, line, groups, hits1)
    BY <1>4, <2>1, PixelsDraw
  <2>3. b1 >= b - Clocks(s, y)
    <3>1. b1 \in Nat
      BY Screen
    <3> QED BY <1>1, <1>2, <1>3, <1>9, <2>2, <3>1
  <2> QED BY <1>5, <1>7, <1>9, <2>2, <2>3, Zenon
<1> QED BY <1>8, <1>9

LEMMA ClocksAre ==
  ASSUME NEW s \in Sprites, NEW y PROVE Clocks(s, y) \in Nat
<1>1. s.w \in Nat /\ Fetches(s.fetch, s.w) \in Nat
  BY SpriteFields, FetchesAre
<1>2. Clocks(s, y) = IF Covers(s, y) THEN 1 + s.w + Fetches(s.fetch, s.w) ELSE 1
  BY Zenon DEF Clocks, Fetches
<1> QED BY <1>1, <1>2

LEMMA BlankRight ==
  ASSUME NEW sprites \in Seq(Sprites), NEW y
  PROVE  Blank \in Lines /\ Right(sprites, y, 0, Blank, {})
<1>1. Blank \in Lines
  BY DEF Blank, Lines, Dots
<1>2. ASSUME NEW x PROVE Here(sprites, x, y, 0) = {}
  <2>1. \A j \in 1 .. Len(sprites) : ~(j <= 0)
    OBVIOUS
  <2> QED BY <2>1 DEF Here, OpaqueAt
<1>3. \A x \in 0 .. Width - 1 : Blank[x].mask = {} /\ Blank[x].z = 0 /\ Blank[x].col = 0
  BY DEF Blank
<1>4. Masked(sprites, y, 0, Blank)
  BY <1>2, <1>3 DEF Masked
<1>5. ASSUME NEW x \in 0 .. Width - 1 PROVE Fronted(sprites, x, y, 0, Blank[x])
  BY <1>2, <1>3, Zenon DEF Fronted
<1>6. Gathered(sprites, y, 0, {})
  BY <1>2 DEF Gathered
<1> QED BY <1>1, <1>4, <1>5, <1>6 DEF Right

LEMMA LineDraws ==
  ASSUME NEW sprites \in Seq(Sprites), NEW y, ClocksSuffice(sprites, y)
  PROVE  \E b \in 1 .. Wrap - 1, line \in Lines, groups \in SUBSET Nat :
           SpriteLine(sprites, y) = Going(b, line, groups) /\ Right(sprites, y, Len(sprites), line, groups)
<1> DEFINE n == Len(sprites)
           r == Spent(sprites, y)
<1>1. n \in Nat
  OBVIOUS
<1>2. PICK f : LineRun(sprites, y, n, f) /\ SpriteLine(sprites, y) = f[n]
  BY <1>1, LineIs
<1>3. SpentRun(sprites, y, n, r)
  BY <1>1, SpentIs
<1>4. \A i \in 0 .. n : r[i] < Budget
  BY DEF ClocksSuffice
<1>5. \A i \in 1 .. n : sprites[i] \in Sprites
  OBVIOUS
<1> HIDE DEF n, r
<1> DEFINE Is(i) ==
      \E b \in 1 .. Wrap - 1, line \in Lines, groups \in SUBSET Nat :
        /\ f[i] = Going(b, line, groups)
        /\ r[i] \in Nat /\ b >= Budget - r[i]
        /\ Right(sprites, y, i, line, groups)
      S == {i \in 0 .. n : Is(i)}
<1>6. 0 \in S
  <2>1. r[0] = 0
    BY <1>3 DEF SpentRun
  <2>2. f[0] = Going(Budget, Blank, {})
    BY <1>2, Zenon DEF LineRun, Unspent, Going, State, No
  <2>3. Budget \in 1 .. Wrap - 1 /\ 0 \in Nat /\ Budget >= Budget - 0 /\ 0 \in 0 .. n
    BY <1>1, Screen
  <2>4. Is(0)
    BY <2>1, <2>2, <2>3, BlankRight, Zenon
  <2> QED BY <2>3, <2>4
<1>7. ASSUME NEW i \in 0 .. n - 1, i \in S PROVE i + 1 \in S
  <2>1. PICK b \in 1 .. Wrap - 1, line \in Lines, groups \in SUBSET Nat :
        /\ f[i] = Going(b, line, groups)
        /\ r[i] \in Nat /\ b >= Budget - r[i]
        /\ Right(sprites, y, i, line, groups)
    BY <1>7
  <2>2. PICK s : s = sprites[i + 1]
    OBVIOUS
  <2>3. i + 1 \in 1 .. n /\ i + 1 \in 0 .. n /\ s \in Sprites /\ i \in Nat
    BY <1>1, <1>5, <2>2
  <2>4. f[i + 1] = LookUp(s, y, Going(b, line, groups))
    BY <1>2, <2>1, <2>2, Zenon DEF LineRun
  <2>5. r[i + 1] = r[i] + Clocks(s, y)
    BY <1>3, <2>2, Zenon DEF SpentRun
  <2>6. Clocks(s, y) \in Nat
    BY <2>3, ClocksAre
  <2>7. r[i + 1] \in Nat /\ b \in Nat /\ b > Clocks(s, y)
    <3>1. r[i + 1] < Budget /\ Budget \in Nat /\ b \in Nat
      BY <1>4, <2>3, Screen
    <3> QED BY <2>1, <2>5, <2>6, <3>1
  <2>8. PICK b1 \in 1 .. Wrap - 1, line1 \in Lines, hits1 \in SUBSET Nat :
           /\ LookUp(s, y, Going(b, line, groups)) = Going(b1, line1, hits1)
           /\ b1 >= b - Clocks(s, y)
           /\ IF Covers(s, y)
                THEN Drawn(s, y, s.w, line, line1) /\ Struck(s, y, s.w, line, groups, hits1)
                ELSE line1 = line /\ hits1 = groups
    BY <2>3, <2>7, LookUpIs
  <2>9. b1 >= Budget - r[i + 1]
    <3>1. Budget \in Nat /\ b1 \in Nat
      BY Screen
    <3> QED BY <2>1, <2>5, <2>6, <2>7, <2>8, <3>1
  <2>10. Right(sprites, y, i + 1, line1, hits1)
    <3>1. i \in 0 .. Len(sprites) - 1
      BY DEF n
    <3>2. CASE Covers(s, y)
      BY <2>1, <2>2, <2>8, <3>1, <3>2, NextSprite
    <3>3. CASE ~Covers(s, y)
      BY <2>1, <2>2, <2>8, <3>1, <3>3, PastSprite
    <3> QED BY <3>2, <3>3
  <2>11. Is(i + 1)
    BY <2>4, <2>7, <2>8, <2>9, <2>10
  <2> QED BY <2>3, <2>11
<1>8. n \in S
  <2>1. n \in 0 .. n
    BY <1>1
  <2> HIDE DEF S
  <2> QED BY <1>1, <1>6, <1>7, <2>1, Upwards
<1>9. Is(n)
  BY <1>8
<1>10. PICK b \in 1 .. Wrap - 1, line \in Lines, groups \in SUBSET Nat :
         f[n] = Going(b, line, groups) /\ Right(sprites, y, n, line, groups)
  BY <1>9
<1>11. SpriteLine(sprites, y) = Going(b, line, groups) /\ Right(sprites, y, Len(sprites), line, groups)
  BY <1>2, <1>10, Zenon DEF n
<1> QED BY <1>11

LEMMA AllHere ==
  ASSUME NEW sprites \in Seq(Sprites), NEW y, NEW x
  PROVE  Here(sprites, x, y, Len(sprites)) = OpaqueAt(sprites, x, y)
<1>1. \A j \in 1 .. Len(sprites) : j <= Len(sprites)
  OBVIOUS
<1> QED BY <1>1 DEF Here, OpaqueAt

LEMMA MeetingsAre ==
  ASSUME NEW sprites, NEW y, NEW g
  PROVE  g \in Meetings(sprites, y) <=>
           \E x \in 0 .. Width - 1 : \E j, k \in OpaqueAt(sprites, x, y) :
             j < k /\ g \in sprites[j].mask /\ g \in sprites[k].mask
<1> DEFINE Two(x) == {q \in OpaqueAt(sprites, x, y) \X OpaqueAt(sprites, x, y) : q[1] < q[2]}
<1>1. g \in Meetings(sprites, y) <=>
        \E x \in 0 .. Width - 1 : \E p \in Two(x) : g \in sprites[p[1]].mask /\ g \in sprites[p[2]].mask
  BY DEF Meetings
<1>2. ASSUME NEW x, NEW p \in Two(x)
      PROVE  p[1] \in OpaqueAt(sprites, x, y) /\ p[2] \in OpaqueAt(sprites, x, y) /\ p[1] < p[2]
  OBVIOUS
<1>3. ASSUME NEW x, NEW j \in OpaqueAt(sprites, x, y), NEW k \in OpaqueAt(sprites, x, y), j < k
      PROVE  \E p \in Two(x) : p[1] = j /\ p[2] = k
  <2>1. <<j, k>> \in Two(x) /\ <<j, k>>[1] = j /\ <<j, k>>[2] = k
    BY <1>3
  <2> QED BY <2>1, Zenon
<1> HIDE DEF Two
<1>4. ASSUME g \in Meetings(sprites, y)
      PROVE  \E x \in 0 .. Width - 1 : \E j, k \in OpaqueAt(sprites, x, y) :
               j < k /\ g \in sprites[j].mask /\ g \in sprites[k].mask
  BY <1>1, <1>2, <1>4, Zenon
<1>5. ASSUME NEW x \in 0 .. Width - 1, NEW j \in OpaqueAt(sprites, x, y),
             NEW k \in OpaqueAt(sprites, x, y), j < k,
             g \in sprites[j].mask /\ g \in sprites[k].mask
      PROVE  g \in Meetings(sprites, y)
  <2>1. PICK p \in Two(x) : p[1] = j /\ p[2] = k
    BY <1>3, <1>5
  <2> QED BY <1>1, <1>5, <2>1
<1> QED BY <1>4, <1>5, Zenon

\* Where the clocks suffice, the collisions are the meetings, and each column
\* holds the foremost of its sprites.
LEMMA SpritesRight ==
  ASSUME NEW sprites \in Seq(Sprites), NEW y, ClocksSuffice(sprites, y)
  PROVE  /\ SpriteLine(sprites, y).hits = Meetings(sprites, y)
         /\ \A x \in 0 .. Width - 1 : Fronted(sprites, x, y, Len(sprites), SpriteLine(sprites, y).line[x])
<1>1. PICK b \in 1 .. Wrap - 1, line \in Lines, groups \in SUBSET Nat :
           SpriteLine(sprites, y) = Going(b, line, groups) /\ Right(sprites, y, Len(sprites), line, groups)
  BY LineDraws
<1>2. SpriteLine(sprites, y).hits = groups /\ SpriteLine(sprites, y).line = line
  BY <1>1, GoingIs
<1>3. ASSUME NEW g PROVE g \in groups <=> g \in Meetings(sprites, y)
  <2>1. g \in groups <=> \E x \in 0 .. Width - 1 : \E j, k \in OpaqueAt(sprites, x, y) :
                          j < k /\ g \in sprites[j].mask /\ g \in sprites[k].mask
    <3>1. \A x : Here(sprites, x, y, Len(sprites)) = OpaqueAt(sprites, x, y)
      BY AllHere, Zenon
    <3>2. Gathered(sprites, y, Len(sprites), groups)
      BY <1>1 DEF Right
    <3> QED BY <3>1, <3>2, Zenon DEF Gathered
  <2> QED BY <2>1, MeetingsAre, Zenon
<1>4. groups = Meetings(sprites, y)
  BY <1>3
<1> QED BY <1>1, <1>2, <1>4 DEF Right

-----------------------------------------------------------------------------
(* The layers.                                                             *)

\* The states of a tiled layer's line up to column n.
LayerRun(p, ey, n, f) ==
  /\ f = [i \in 0 .. n |-> f[i]]
  /\ f[0] = Fetched(p, EffX(p, 0), ey, Begun(p, ey))
  /\ \A i \in 0 .. n - 1 : f[i + 1] = Fetched(p, EffX(p, i + 1), ey, Moved(p, f[i]))

\* The colours such states give.
Dotted(p, f) ==
  [x \in 0 .. Width - 1 |-> Colour(p, f[x].entry, Field(p, f[x].byte, f[x].f))]

LEMMA TiledIs ==
  ASSUME NEW now, NEW p, NEW y
  PROVE  \E f : LayerRun(p, EffY(now, y), Width - 1, f) /\ TiledLine(now, p, y) = Dotted(p, f)
<1> DEFINE n == Width - 1
           ey == EffY(now, y)
           a == Fetched(p, EffX(p, 0), ey, Begun(p, ey))
           Recursive(f) == f = [i \in 0 .. n |-> Fetched(p, EffX(p, i), ey, IF i = 0 THEN Begun(p, ey) ELSE Moved(p, f[i - 1]))]
           S == {k \in 0 .. n : \E f : LayerRun(p, ey, k, f)}
<1>1. n \in Nat
  BY Screen
<1>2. TiledLine(now, p, y) = Dotted(p, CHOOSE f : Recursive(f))
  BY Zenon DEF TiledLine, Dotted
<1> HIDE DEF n, ey
<1>3. 0 \in S
  <2> DEFINE f == [i \in 0 .. 0 |-> a]
  <2>1. f[0] = a /\ f = [i \in 0 .. 0 |-> f[i]]
    OBVIOUS
  <2> HIDE DEF f
  <2>2. LayerRun(p, ey, 0, f)
    BY <2>1 DEF LayerRun
  <2> QED BY <1>1, <2>2
<1>4. ASSUME NEW k \in 0 .. n - 1, k \in S PROVE k + 1 \in S
  <2>1. PICK f : LayerRun(p, ey, k, f)
    BY <1>4
  <2> DEFINE g == [i \in 0 .. k + 1 |-> IF i = k + 1 THEN Fetched(p, EffX(p, k + 1), ey, Moved(p, f[k])) ELSE f[i]]
  <2>2. /\ g = [i \in 0 .. k + 1 |-> g[i]] /\ g[k + 1] = Fetched(p, EffX(p, k + 1), ey, Moved(p, f[k]))
        /\ \A i \in 0 .. k : g[i] = f[i]
    BY <1>1
  <2> HIDE DEF g
  <2>3. k \in 0 .. k /\ 0 \in 0 .. k /\ k + 1 \in 0 .. n
    BY <1>1
  <2>4. g[0] = a
    BY <2>1, <2>2, <2>3, Zenon DEF LayerRun
  <2>5. ASSUME NEW i \in 0 .. (k + 1) - 1 PROVE g[i + 1] = Fetched(p, EffX(p, i + 1), ey, Moved(p, g[i]))
    <3>1. CASE i = k
      BY <2>2, <2>3, <3>1, Zenon
    <3>2. CASE i # k
      <4>1. i \in 0 .. k - 1 /\ i \in 0 .. k /\ i + 1 \in 0 .. k
        BY <3>2, <1>1
      <4>2. f[i + 1] = Fetched(p, EffX(p, i + 1), ey, Moved(p, f[i]))
        BY <2>1, <4>1 DEF LayerRun
      <4> QED BY <2>2, <4>1, <4>2
    <3> QED BY <3>1, <3>2
  <2>6. LayerRun(p, ey, k + 1, g)
    BY <2>2, <2>4, <2>5, Zenon DEF LayerRun
  <2> QED BY <2>3, <2>6
<1>5. n \in S
  <2>1. n \in 0 .. n
    BY <1>1
  <2> HIDE DEF S
  <2> QED BY <1>1, <1>3, <1>4, <2>1, Upwards
<1>6. PICK f : LayerRun(p, ey, n, f)
  BY <1>5
<1>7. Recursive(f)
  <2> DEFINE g == [i \in 0 .. n |-> Fetched(p, EffX(p, i), ey, IF i = 0 THEN Begun(p, ey) ELSE Moved(p, f[i - 1]))]
  <2>1. ASSUME NEW i \in 0 .. n PROVE f[i] = g[i]
    <3>1. CASE i = 0
      BY <1>6, <3>1 DEF LayerRun
    <3>2. CASE i # 0
      <4>1. PICK j : j = i - 1 /\ j \in 0 .. n - 1 /\ j + 1 = i
        BY <1>1, <3>2
      <4>2. f[i] = Fetched(p, EffX(p, i), ey, Moved(p, f[j]))
        BY <1>6, <4>1 DEF LayerRun
      <4> QED BY <3>2, <4>1, <4>2
    <3> QED BY <3>1, <3>2
  <2>2. f = [i \in 0 .. n |-> f[i]]
    BY <1>6 DEF LayerRun
  <2> HIDE DEF a
  <2> QED BY <2>1, <2>2
<1>8. PICK g : g = (CHOOSE h : Recursive(h)) /\ Recursive(g)
  BY <1>7
<1>9. LayerRun(p, ey, n, g)
  <2>1. g = [i \in 0 .. n |-> g[i]]
    BY <1>8
  <2>2. g[0] = a
    <3>1. 0 \in 0 .. n
      BY <1>1
    <3>2. g[0] = Fetched(p, EffX(p, 0), ey, IF 0 = 0 THEN Begun(p, ey) ELSE Moved(p, g[0 - 1]))
      BY <1>8, <3>1
    <3> QED BY <3>2, Zenon
  <2>3. ASSUME NEW i \in 0 .. n - 1 PROVE g[i + 1] = Fetched(p, EffX(p, i + 1), ey, Moved(p, g[i]))
    <3>1. PICK j : j = i + 1 /\ j \in 0 .. n /\ j # 0 /\ j - 1 = i
      BY <1>1
    <3>2. g[j] = Fetched(p, EffX(p, j), ey, Moved(p, g[j - 1]))
      BY <1>8, <3>1
    <3> QED BY <3>1, <3>2
  <2> QED BY <2>1, <2>2, <2>3, Zenon DEF LayerRun
<1> QED BY <1>2, <1>8, <1>9 DEF n, ey

\* Numbers of pixels and of bytes.
LEMMA Unique ==
  ASSUME NEW d \in Nat \ {0}, NEW a \in Int, NEW q \in Int, NEW r \in 0 .. d - 1, a = d * q + r
  PROVE  a \div d = q /\ a % d = r
BY QuotientUnique

LEMMA Division ==
  ASSUME NEW d \in Nat \ {0}, NEW a \in Int
  PROVE  \E q \in Int, r \in 0 .. d - 1 : q = a \div d /\ r = a % d /\ a = d * q + r
BY Quotient

LEMMA Whole ==
  ASSUME NEW d \in Nat \ {0}, NEW q \in Int, NEW b \in Int
  PROVE  (d * q + b) \div d = q + b \div d /\ (d * q + b) % d = b % d
<1>1. PICK k \in Int, r \in 0 .. d - 1 : k = b \div d /\ r = b % d /\ b = d * k + r
  BY Quotient
<1>2. d * q \in Int /\ d * k \in Int /\ d * (q + k) = d * q + d * k /\ q + k \in Int
  BY <1>1
<1>3. PICK a \in Int : a = d * q + b
  BY <1>2
<1>4. a = d * (q + k) + r
  BY <1>1, <1>2, <1>3
<1>5. a \div d = q + k /\ a % d = r
  BY <1>1, <1>2, <1>4, Unique
<1> QED BY <1>1, <1>3, <1>5

LEMMA Exact ==
  ASSUME NEW d \in Nat \ {0}, NEW q \in Int
  PROVE  (d * q) \div d = q /\ (d * q) % d = 0
<1>1. PICK a \in Int : a = d * q
  OBVIOUS
<1>2. a = d * q + 0 /\ 0 \in 0 .. d - 1
  BY <1>1
<1>3. a \div d = q /\ a % d = 0
  BY <1>2, Unique
<1> QED BY <1>1, <1>3

LEMMA NextOf ==
  ASSUME NEW d \in Nat \ {0}, NEW a \in Nat, (a + 1) % d # 0
  PROVE  (a + 1) % d = (a % d) + 1 /\ (a + 1) \div d = a \div d
<1>1. PICK q \in Int, r \in 0 .. d - 1 : q = a \div d /\ r = a % d /\ a = d * q + r
  BY Quotient
<1>2. d * q \in Int /\ d * (q + 1) = d * q + d
  BY <1>1
<1>3. CASE r = d - 1
  <2>1. PICK b \in Int : b = a + 1
    OBVIOUS
  <2>2. b = d * (q + 1) + 0 /\ q + 1 \in Int /\ 0 \in 0 .. d - 1
    BY <1>1, <1>2, <1>3, <2>1
  <2>3. b % d = 0
    BY <2>2, Unique
  <2> QED BY <2>1, <2>3
<1>4. CASE r # d - 1
  <2>1. PICK b \in Int : b = a + 1
    OBVIOUS
  <2>2. PICK r1 \in 0 .. d - 1 : r1 = r + 1
    BY <1>1, <1>4
  <2>3. b = d * q + r1
    BY <1>1, <1>2, <2>1, <2>2
  <2>4. b \div d = q /\ b % d = r1
    BY <2>3, Unique
  <2> QED BY <1>1, <2>1, <2>2, <2>4
<1> QED BY <1>3, <1>4

LEMMA Product ==
  ASSUME NEW a \in Int, NEW b \in Int, NEW c \in Int
  PROVE  /\ a * b \in Int /\ a * b = b * a
         /\ (a * b) * c = a * (b * c)
         /\ (a + b) * c = a * c + b * c
OBVIOUS

LEMMA Positive == ASSUME NEW a \in Nat \ {0}, NEW b \in Nat \ {0} PROVE a * b \in Nat \ {0}
OBVIOUS

LEMMA ModMod ==
  ASSUME NEW d \in Nat \ {0}, NEW m \in Nat \ {0}, NEW a \in Nat
  PROVE  (a % (d * m)) % d = a % d
<1>1. PICK e \in Nat \ {0} : e = d * m
  BY Positive
<1>2. PICK q \in Int, r \in 0 .. e - 1 : q = a \div e /\ r = a % e /\ a = e * q + r
  BY Division
<1>3. (d * m) * q = d * (m * q) /\ m * q \in Int
  BY Product
<1>4. PICK n \in Int : n = m * q
  BY <1>3
<1>5. e * q = d * n
  BY <1>1, <1>3, <1>4, Zenon
<1>6. r \in Int
  OBVIOUS
<1>7. a = d * n + r
  BY <1>2, <1>5, Zenon
<1>8. (d * n + r) % d = r % d
  BY <1>6, Whole
<1>9. r = a % (d * m)
  BY <1>1, <1>2, Zenon
<1> QED BY <1>7, <1>8, <1>9, Zenon

\* A mask of all ones takes the remainder.
AndRow(i, f) ==
  [c \in Nat |-> IF i = 0 \/ c = 0 THEN 0 ELSE (i % 2) * (c % 2) + 2 * f[i \div 2][c \div 2]]
AndRun(n, f) ==
  /\ f = [i \in 0 .. n |-> f[i]]
  /\ \A i \in 0 .. n : f[i] = AndRow(i, f)

LEMMA RowDepends ==
  ASSUME NEW i, NEW f, NEW g, i = 0 \/ f[i \div 2] = g[i \div 2] PROVE AndRow(i, f) = AndRow(i, g)
BY DEF AndRow

LEMMA AndIs ==
  ASSUME NEW a \in Nat, NEW b PROVE \E f : AndRun(a, f) /\ And(a, b) = f[a][b]
<1> DEFINE Recursive(f) == f = [i \in 0 .. a |-> AndRow(i, f)]
           S == {k \in 0 .. a : \E f : AndRun(k, f)}
<1>1. And(a, b) = (CHOOSE f : Recursive(f))[a][b]
  BY Zenon DEF And, AndRow
<1>2. 0 \in S
  <2> DEFINE f == [i \in 0 .. 0 |-> AndRow(0, <<>>)]
  <2>1. f = [i \in 0 .. 0 |-> f[i]] /\ \A i \in 0 .. 0 : i = 0 /\ f[i] = AndRow(0, <<>>)
    OBVIOUS
  <2> HIDE DEF f
  <2>2. \A i \in 0 .. 0 : f[i] = AndRow(i, f)
    <3>1. AndRow(0, f) = AndRow(0, <<>>)
      BY RowDepends
    <3> QED BY <2>1, <3>1, Zenon
  <2> QED BY <2>1, <2>2 DEF AndRun
<1>3. ASSUME NEW k \in 0 .. a - 1, k \in S PROVE k + 1 \in S
  <2>1. PICK f : AndRun(k, f)
    BY <1>3
  <2> DEFINE g == [i \in 0 .. k + 1 |-> IF i = k + 1 THEN AndRow(k + 1, f) ELSE f[i]]
  <2>2. /\ g = [i \in 0 .. k + 1 |-> g[i]] /\ g[k + 1] = AndRow(k + 1, f)
        /\ \A i \in 0 .. k : g[i] = f[i]
    OBVIOUS
  <2> HIDE DEF g
  <2>3. ASSUME NEW i \in 0 .. k + 1 PROVE g[i] = AndRow(i, f) /\ AndRow(i, g) = AndRow(i, f)
    <3>1. g[i] = AndRow(i, f)
      <4>1. i = k + 1 \/ i \in 0 .. k
        OBVIOUS
      <4> QED BY <2>1, <2>2, <4>1, Zenon DEF AndRun
    <3>2. i = 0 \/ i \div 2 \in 0 .. k
      OBVIOUS
    <3>3. i = 0 \/ g[i \div 2] = f[i \div 2]
      BY <2>2, <3>2, Zenon
    <3> QED BY <3>1, <3>3, RowDepends, Zenon
  <2>4. AndRun(k + 1, g)
    BY <2>2, <2>3, Zenon DEF AndRun
  <2> QED BY <2>4
<1>4. a \in S
  <2> HIDE DEF S
  <2>1. a \in 0 .. a
    OBVIOUS
  <2> QED BY <1>2, <1>3, <2>1, Upwards
<1>5. PICK f : AndRun(a, f)
  BY <1>4
<1>6. Recursive(f)
  <2>1. f = [i \in 0 .. a |-> f[i]] /\ \A i \in 0 .. a : f[i] = AndRow(i, f)
    BY <1>5, Zenon DEF AndRun
  <2> QED BY <2>1
<1>7. PICK g : g = (CHOOSE f1 : Recursive(f1)) /\ Recursive(g)
  BY <1>6, Zenon
<1>8. AndRun(a, g)
  <2>1. g = [i \in 0 .. a |-> AndRow(i, g)]
    BY <1>7
  <2>2. PICK h : h = [i \in 0 .. a |-> AndRow(i, g)]
    OBVIOUS
  <2>3. h = [i \in 0 .. a |-> h[i]] /\ \A i \in 0 .. a : h[i] = AndRow(i, g)
    BY <2>2
  <2> QED BY <2>1, <2>2, <2>3, Zenon DEF AndRun
<1> QED BY <1>1, <1>7, <1>8, Zenon

LEMMA Halves ==
  ASSUME NEW g \in Nat \ {0}, NEW n \in Nat
  PROVE  n % (2 * g) = (n % 2) + 2 * ((n \div 2) % g)
<1>1. PICK q \in Int, r \in 0 .. 1 : q = n \div 2 /\ r = n % 2 /\ n = 2 * q + r
  OBVIOUS
<1>2. PICK k \in Int, s \in 0 .. g - 1 : k = q \div g /\ s = q % g /\ q = g * k + s
  BY Division
<1>3. PICK e \in Nat \ {0} : e = 2 * g
  OBVIOUS
<1>4. e * k = 2 * (g * k) /\ g * k \in Int
  BY <1>3, Product
<1>5. n = e * k + (2 * s + r) /\ 2 * s + r \in 0 .. e - 1
  <2>1. PICK p \in Int : p = g * k /\ e * k = 2 * p
    BY <1>4
  <2>2. q = p + s /\ n = 2 * p + (2 * s + r)
    BY <1>1, <1>2, <2>1
  <2>3. 2 * s + r \in 0 .. e - 1
    BY <1>3
  <2> QED BY <2>1, <2>2, <2>3, Zenon
<1>6. n % e = 2 * s + r
  BY <1>5, Unique
<1>7. 2 * s + r = r + 2 * s
  OBVIOUS
<1> QED BY <1>1, <1>2, <1>3, <1>6, <1>7, Zenon

LEMMA HalfPower ==
  ASSUME NEW g \in Nat \ {0}, PowerOfTwo(2 * g) PROVE PowerOfTwo(g)
<1> SUFFICES ASSUME NEW d \in 2 .. g, g % d = 0 PROVE d % 2 = 0
  BY DEF PowerOfTwo
<1>1. PICK k \in Int : g = d * k
  <2>1. PICK k \in Int, r \in 0 .. d - 1 : r = g % d /\ g = d * k + r
    BY Division
  <2> QED BY <2>1
<1>2. d * (2 * k) = 2 * (d * k)
  BY <1>1, Product
<1>3. (2 * g) % d = 0
  <2>1. (d * (2 * k)) % d = 0
    BY Exact
  <2> QED BY <1>1, <1>2, <2>1, Zenon
<1> QED BY <1>3 DEF PowerOfTwo

LEMMA MaskIsRemainder ==
  ASSUME NEW h \in Nat \ {0}, PowerOfTwo(h), NEW a \in Nat PROVE And(a, h - 1) = a % h
<1>1. PICK f : AndRun(a, f) /\ And(a, h - 1) = f[a][h - 1]
  BY AndIs
<1> DEFINE T == {g \in Nat \ {0} : PowerOfTwo(g) /\ \E n \in 0 .. a : f[n][g - 1] # n % g}
<1>2. SUFFICES ASSUME T # {} PROVE FALSE
  <2>1. h \notin T /\ a \in 0 .. a
    BY <1>2
  <2> QED BY <1>1, <2>1
<1>3. PICK m \in T : \A k \in T : m <= k
  <2> HIDE DEF T
  <2>1. T \subseteq Nat
    BY DEF T
  <2> QED BY <1>2, <2>1, LeastMember
<1>4. PICK n \in 0 .. a : f[n][m - 1] # n % m
  BY <1>3
<1>5. f[n] = AndRow(n, f)
  BY <1>1 DEF AndRun
<1>6. m # 1
  <2>1. SUFFICES ASSUME m = 1 PROVE FALSE
    OBVIOUS
  <2>2. f[n][0] = 0 /\ m - 1 = 0 /\ n % 1 = 0
    BY <1>5, <2>1 DEF AndRow
  <2> QED BY <1>4, <2>1, <2>2
<1>7. PICK g \in Nat \ {0} : m = 2 * g /\ g < m
  <2>1. m \in 2 .. m /\ m % m = 0
    <3>1. m \in Nat /\ m > 1
      BY <1>3, <1>6
    <3>2. m = m * 1 + 0 /\ 0 \in 0 .. m - 1
      BY <3>1
    <3> QED BY <3>1, <3>2, Unique
  <2>2. m % 2 = 0
    BY <1>3, <2>1 DEF PowerOfTwo
  <2> QED BY <2>1, <2>2
<1>8. PowerOfTwo(g)
  BY <1>3, <1>7, HalfPower
<1>9. \A i \in 0 .. a : f[i][g - 1] = i % g
  <2>1. g \notin T
    BY <1>3, <1>7
  <2> QED BY <1>8, <2>1
<1>10. n # 0
  <2>1. SUFFICES ASSUME n = 0 PROVE FALSE
    OBVIOUS
  <2>2. f[n][m - 1] = 0 /\ m \in Nat \ {0}
    BY <1>3, <1>5, <2>1 DEF AndRow
  <2>3. 0 % m = 0
    <3>1. m * 0 = 0 /\ 0 \in 0 .. m - 1
      BY <2>2
    <3>2. 0 = m * 0 + 0
      BY <3>1
    <3> QED BY <2>2, <3>1, <3>2, Unique
  <2> QED BY <1>4, <2>1, <2>2, <2>3
<1>11. f[n][m - 1] = (n % 2) + 2 * f[n \div 2][g - 1]
  <2>1. PICK c \in Nat : c = m - 1 /\ c # 0 /\ c % 2 = 1 /\ c \div 2 = g - 1
    BY <1>6, <1>7
  <2>2. f[n][c] = (n % 2) * (c % 2) + 2 * f[n \div 2][c \div 2]
    BY <1>5, <1>10, <2>1 DEF AndRow
  <2>3. (n % 2) * 1 = n % 2
    OBVIOUS
  <2> QED BY <2>1, <2>2, <2>3, Zenon
<1>12. f[n \div 2][g - 1] = (n \div 2) % g
  <2>1. n \div 2 \in 0 .. a
    OBVIOUS
  <2> QED BY <1>9, <2>1
<1>13. n % m = (n % 2) + 2 * ((n \div 2) % g)
  <2>1. n \in Nat
    OBVIOUS
  <2> QED BY <1>7, <2>1, Halves
<1> QED BY <1>4, <1>11, <1>12, <1>13, Zenon

\* A column of a map of k tiles by m bytes by d pixels, and the next.
Sized(d, m, k, w, e) ==
  /\ d \in Nat \ {0} /\ m \in Nat \ {0} /\ k \in Nat \ {0}
  /\ w = d * m /\ e = k * w

LEMMA Columns ==
  ASSUME NEW d, NEW m, NEW k, NEW w, NEW e, Sized(d, m, k, w, e), NEW a \in Nat
  PROVE  /\ w \in Nat \ {0} /\ e \in Nat \ {0}
         /\ a % e \in Nat /\ (a % e) % w \in 0 .. w - 1
         /\ (a % e) % d = a % d /\ ((a % e) % w) % d = a % d /\ (a % e) % w = a % w
         /\ (a % w) % d = a % d
<1>1. w \in Nat \ {0} /\ e \in Nat \ {0}
  BY Positive DEF Sized
<1>e. e = w * k
  BY <1>1, Product DEF Sized
<1>d. d \in Nat \ {0}
  BY DEF Sized
<1>2. PICK x : x = a % e /\ x \in Nat
  <2>1. PICK r \in 0 .. e - 1 : r = a % e
    BY <1>1, Division
  <2> QED BY <1>1, <2>1
<1>3. x % w = a % w
  <2>1. (a % (w * k)) % w = a % w
    BY <1>1, ModMod DEF Sized
  <2> QED BY <1>e, <1>2, <2>1, Zenon
<1>4. \A b \in Nat : (b % w) % d = b % d
  <2>1. \A b \in Nat : (b % (d * m)) % d = b % d
    BY ModMod, Zenon DEF Sized
  <2> QED BY <2>1, Zenon DEF Sized
<1>5. (x % w) % d = x % d /\ (a % w) % d = a % d
  BY <1>2, <1>4
<1>6. x % w \in 0 .. w - 1
  <2>1. x \in Int
    BY <1>2
  <2> QED BY <1>1, <2>1, Quotient, Zenon
<1> QED BY <1>1, <1>2, <1>3, <1>5, <1>6, Zenon

LEMMA NextColumn ==
  ASSUME NEW d, NEW m, NEW k, NEW w, NEW e, Sized(d, m, k, w, e), NEW a \in Nat
  PROVE  /\ (a + 1) % w # 0 => ((a + 1) % e) \div w = (a % e) \div w
         /\ (a + 1) % d # 0 => /\ (a + 1) % w # 0
                               /\ ((a + 1) % e) % d = ((a % e) % d) + 1
                               /\ (((a + 1) % e) % w) \div d = ((a % e) % w) \div d
<1> DEFINE x == a % e
           x1 == (a + 1) % e
<1>d. d \in Nat \ {0}
  BY DEF Sized
<1>1. /\ w \in Nat \ {0} /\ e \in Nat \ {0}
      /\ x \in Nat /\ x % w \in 0 .. w - 1 /\ x % d = a % d /\ (x % w) % d = a % d /\ x % w = a % w
  BY Columns
<1>2. PICK b \in Nat : b = a + 1
  OBVIOUS
<1>3. /\ x1 \in Nat /\ x1 % w \in 0 .. w - 1 /\ x1 % d = b % d /\ (x1 % w) % d = b % d
      /\ x1 % w = b % w
  <2>1. /\ b % e \in Nat /\ (b % e) % w \in 0 .. w - 1 /\ (b % e) % d = b % d
        /\ ((b % e) % w) % d = b % d /\ (b % e) % w = b % w /\ (b % w) % d = b % d
    BY Columns
  <2> QED BY <1>2, <2>1, Zenon
<1>4. ASSUME b % w # 0 PROVE x1 = x + 1 /\ x1 \div w = x \div w /\ x1 % w = (x % w) + 1
  <2>1. x1 # 0
    <3>1. 0 % w = 0
      BY <1>1
    <3> QED BY <1>3, <1>4, <3>1, Zenon
  <2>2. x1 = x + 1
    <3>1. (a + 1) % e # 0 => (a + 1) % e = (a % e) + 1
      BY <1>1, NextOf, Zenon
    <3> QED BY <2>1, <3>1, Zenon
  <2>3. (x + 1) % w # 0
    BY <1>3, <1>4, <2>2, Zenon
  <2>4. (x + 1) % w = (x % w) + 1 /\ (x + 1) \div w = x \div w
    <3> HIDE DEF x
    <3> QED BY <1>1, <2>3, NextOf, Zenon
  <2> QED BY <2>2, <2>4, Zenon
<1>5. ASSUME b % d # 0
      PROVE  b % w # 0 /\ x1 % d = (x % d) + 1 /\ (x1 % w) \div d = (x % w) \div d
  <2>1. b % w # 0
    <3>1. 0 % d = 0
      BY <1>d
    <3> QED BY <1>3, <1>5, <3>1, Zenon
  <2>2. x1 = x + 1 /\ x1 % w = (x % w) + 1
    BY <1>4, <2>1, Zenon
  <2>c. x % w \in Nat
    <3> HIDE DEF x
    <3> QED BY <1>1
  <2>3. (x + 1) % d # 0 /\ ((x % w) + 1) % d # 0
    BY <1>3, <1>5, <2>2, Zenon
  <2> HIDE DEF x, x1
  <2>4. (x + 1) % d = (x % d) + 1
    BY <1>1, <1>d, <2>3, NextOf, Zenon
  <2>5. ((x % w) + 1) \div d = (x % w) \div d
    BY <1>d, <2>c, <2>3, NextOf, Zenon
  <2> QED BY <2>1, <2>2, <2>4, <2>5, Zenon
<1> QED BY <1>2, <1>4, <1>5, Zenon

\* Counted from the other end.
Wide(d, m, w) == d \in Nat \ {0} /\ m \in Nat \ {0} /\ w = d * m

LEMMA Flipped ==
  ASSUME NEW d, NEW m, NEW w, Wide(d, m, w), NEW x \in Nat
  PROVE  /\ (w - 1 - x) \div d = m - 1 - (x \div d) /\ (w - 1 - x) % d = d - 1 - (x % d)
         /\ w - 1 - x \in Int
<1>w. d \in Nat \ {0} /\ m \in Nat \ {0}
  BY DEF Wide
<1>v. w = d * m
  BY DEF Wide
<1>1. PICK q \in Int, r \in 0 .. d - 1 : q = x \div d /\ r = x % d /\ x = d * q + r
  BY <1>w, Division
<1>2. d * q \in Int /\ d * m \in Int /\ d * (m - 1 - q) = d * m - d - d * q /\ m - 1 - q \in Int
  <2>1. m - 1 - q \in Int /\ (m - 1 - q) * d = m * d - d - q * d
    <3>1. PICK n \in Int : n = m - 1 - q
      BY <1>w, <1>1
    <3>2. m = (n + 1) + q
      BY <1>w, <1>1, <3>1
    <3>3. ((n + 1) + q) * d = (n + 1) * d + q * d /\ (n + 1) * d = n * d + 1 * d
      BY <1>w, <1>1, <3>1, Product
    <3>4. n * d \in Int /\ q * d \in Int /\ m * d \in Int /\ 1 * d = d
      BY <1>w, <1>1, Product
    <3>5. m * d = (n * d + d) + q * d
      BY <3>2, <3>3, <3>4, Zenon
    <3>6. PICK nd \in Int, qd \in Int, md \in Int : nd = n * d /\ qd = q * d /\ md = m * d
      BY <3>4
    <3>7. nd = md - d - qd
      BY <1>w, <3>5, <3>6
    <3> QED BY <3>1, <3>6, <3>7, Zenon
  <2>2. (m - 1 - q) * d = d * (m - 1 - q) /\ m * d = d * m /\ q * d = d * q
    BY <1>w, <1>1, <2>1, Product
  <2> QED BY <1>w, <1>1, <2>1, <2>2, Product
<1>3. PICK n \in Int, b \in Int : n = m - 1 - q /\ b = w - 1 - x
  BY <1>w, <1>v, <1>1, <1>2
<1>4. b = d * n + (d - 1 - r) /\ d - 1 - r \in 0 .. d - 1
  BY <1>w, <1>v, <1>1, <1>2, <1>3
<1>5. b \div d = n /\ b % d = d - 1 - r
  BY <1>w, <1>4, Unique
<1> QED BY <1>1, <1>3, <1>5

\* The byte of a pixel, and the pixel in it.
BytePlaces(d, w, i, h, fy, fx) ==
  /\ ((i * h + fy) * w + fx) \div d = (i * w * h) \div d + (fy * w) \div d + fx \div d
  /\ ((i * h + fy) * w + fx) % d = fx % d
  /\ (fy * w + fx) \div d = (fy * w) \div d + fx \div d
  /\ (fy * w + fx) % d = fx % d

\* Numbers that stand in one place, for the solver to find together.
Numbers(i, h, fy, fx) == i \in Int /\ h \in Int /\ fy \in Int /\ fx \in Int

LEMMA Bytes ==
  ASSUME NEW d, NEW m, NEW w, Wide(d, m, w), NEW i, NEW h, NEW fy, NEW fx, Numbers(i, h, fy, fx)
  PROVE  BytePlaces(d, w, i, h, fy, fx)
<1> i \in Int /\ h \in Int /\ fy \in Int /\ fx \in Int
  BY DEF Numbers
<1>w. d \in Nat \ {0} /\ m \in Nat \ {0} /\ w \in Int
  BY Product DEF Wide
<1>v. w = d * m
  BY DEF Wide
<1>1. ASSUME NEW g \in Int PROVE g * w = d * (g * m) /\ g * m \in Int
  <2>1. g * (d * m) = (g * d) * m /\ g * d = d * g /\ (d * g) * m = d * (g * m) /\ g * m \in Int
    BY <1>w, Product
  <2> QED BY <1>v, <2>1, Zenon
<1>2. i * h \in Int /\ i * h + fy \in Int
  BY Product
<1>3. PICK n \in Int : n = i * h
  BY <1>2
<1>4. i * w * h = d * (n * m) /\ n * m \in Int
  <2>1. i * w * h = n * w
    <3>1. (i * w) * h = i * (w * h) /\ w * h = h * w /\ i * (h * w) = (i * h) * w
      BY <1>w, Product
    <3> QED BY <1>3, <3>1
  <2> QED BY <1>1, <2>1
<1>5. fy * w = d * (fy * m) /\ fy * m \in Int
  BY <1>1
<1>6. (n + fy) * w = d * ((n + fy) * m) /\ (n + fy) * m = n * m + fy * m
  BY <1>1, <1>w, Product
<1>7. /\ (d * ((n + fy) * m) + fx) \div d = (n + fy) * m + fx \div d
      /\ (d * ((n + fy) * m) + fx) % d = fx % d
  <2>1. PICK q \in Int : q = (n + fy) * m
    BY <1>w, <1>4, <1>5, <1>6
  <2>2. (d * q + fx) \div d = q + fx \div d /\ (d * q + fx) % d = fx % d
    BY <1>w, Whole
  <2> QED BY <2>1, <2>2
<1>8. /\ (d * (fy * m) + fx) \div d = fy * m + fx \div d
      /\ (d * (fy * m) + fx) % d = fx % d
  BY <1>w, <1>5, Whole
<1>9. (d * (n * m)) \div d = n * m /\ (d * (fy * m)) \div d = fy * m
  BY <1>w, <1>4, <1>5, Exact
<1>10. fx \div d \in Int
  BY <1>w, Quotient
<1> QED BY <1>3, <1>4, <1>5, <1>6, <1>7, <1>8, <1>9, <1>10 DEF BytePlaces

LEMMA ByteNumbers ==
  ASSUME NEW d, NEW m, NEW w, Wide(d, m, w), NEW i, NEW h, NEW fy, NEW fx, Numbers(i, h, fy, fx)
  PROVE  Numbers((i * w * h) \div d, (fy * w) \div d, fx \div d, 0)
<1> i \in Int /\ h \in Int /\ fy \in Int /\ fx \in Int
  BY DEF Numbers
<1>w. d \in Nat \ {0} /\ m \in Nat \ {0} /\ w \in Int
  BY Product DEF Wide
<1>v. w = d * m
  BY DEF Wide
<1>1. ASSUME NEW g \in Int PROVE g * w = d * (g * m) /\ g * m \in Int
  <2>1. g * (d * m) = (g * d) * m /\ g * d = d * g /\ (d * g) * m = d * (g * m) /\ g * m \in Int
    BY <1>w, Product
  <2> QED BY <1>v, <2>1, Zenon
<1>2. i * h \in Int /\ i * h + fy \in Int
  BY Product
<1>3. PICK n \in Int : n = i * h
  BY <1>2
<1>4. i * w * h = d * (n * m) /\ n * m \in Int
  <2>1. i * w * h = n * w
    <3>1. (i * w) * h = i * (w * h) /\ w * h = h * w /\ i * (h * w) = (i * h) * w
      BY <1>w, Product
    <3> QED BY <1>3, <3>1
  <2> QED BY <1>1, <2>1
<1>5. fy * w = d * (fy * m) /\ fy * m \in Int
  BY <1>1
<1>6. (d * (n * m)) \div d = n * m /\ (d * (fy * m)) \div d = fy * m
  BY <1>w, <1>4, <1>5, Exact
<1>7. fx \div d \in Int
  BY <1>w, Quotient
<1> QED BY <1>4, <1>5, <1>6, <1>7 DEF Numbers

\* What the settings of a layer are known to be.
Sound(p, m) ==
  /\ p \in Properties
  /\ Fields(p) \in Nat \ {0} /\ m \in Nat \ {0} /\ p.tilew = Fields(p) * m
Tall(s) ==
  IF s.now.kind = "tiled" THEN PowerOfTwo(s.now.maph * s.now.tileh)
  ELSE s.now.maph = 1 /\ s.now.vscroll = 0

LEMMA PictureSound ==
  ASSUME NEW pic \in Pictures, NEW l \in {1, 2}
  PROVE  pic[l] \in Settings /\ Tall(pic[l]) /\ \E m : Sound(pic[l].before, m)
<1>t. Tall(pic[l])
  BY PictureAssumption, Zenon DEF Tall
<1>1. PICK s : s = pic[l] /\ s \in Settings
  BY PictureAssumption
<1>2. PICK p : p = s.before /\ p \in Properties
  BY <1>1 DEF Settings
<1>3. Fields(p) \in Nat \ {0} /\ p.tilew % Fields(p) = 0
  BY <1>1, <1>2, PictureAssumption
<1>4. PICK w : w = p.tilew /\ w \in Nat \ {0}
  BY <1>2 DEF Properties
<1>5. PICK q \in Int, r \in 0 .. Fields(p) - 1 :
        q = w \div Fields(p) /\ r = w % Fields(p) /\ w = Fields(p) * q + r
  <2>1. w \in Int
    BY <1>4
  <2> QED BY <1>3, <2>1, Division, Zenon
<1>6. w = Fields(p) * q /\ q \in Nat \ {0}
  <2>1. PICK d \in Nat \ {0} : d = Fields(p)
    BY <1>3
  <2>2. r = 0
    BY <1>3, <1>4, <1>5
  <2>3. w = d * q
    BY <1>5, <2>1, <2>2
  <2>4. q > 0
    BY <1>4, <2>1, <2>3
  <2> QED BY <2>1, <2>3, <2>4
<1> QED BY <1>t, <1>1, <1>2, <1>3, <1>4, <1>6 DEF Sound

LEMMA PropertyTypes ==
  ASSUME NEW p \in Properties
  PROVE  /\ p.kind \in {"tiled", "bitmap"} /\ p.hscroll \in Nat /\ p.vscroll \in Nat
         /\ p.tilew \in Nat \ {0} /\ p.tileh \in Nat \ {0} /\ p.mapw \in Nat \ {0} /\ p.maph \in Nat \ {0}
         /\ p.map \in Nat /\ p.tiles \in Nat
BY DEF Properties

\* The column of the map under column x of the screen, and the next one's.
LEMMA Position ==
  ASSUME NEW p, NEW m, Sound(p, m), NEW x \in Nat
  PROVE  /\ EffX(p, x) \in Nat /\ EffX(p, x) % p.tilew \in Nat
         /\ EffX(p, x) % Fields(p) = (x + p.hscroll) % Fields(p)
         /\ (EffX(p, x) % p.tilew) % Fields(p) = EffX(p, x) % Fields(p)
         /\ EffX(p, x) % Fields(p) \in 0 .. Fields(p) - 1
         /\ EffX(p, x + 1) % p.tilew # 0 => EffX(p, x + 1) \div p.tilew = EffX(p, x) \div p.tilew
         /\ EffX(p, x + 1) % Fields(p) # 0 =>
              /\ EffX(p, x + 1) % p.tilew # 0
              /\ EffX(p, x + 1) % Fields(p) = (EffX(p, x) % Fields(p)) + 1
              /\ (EffX(p, x + 1) % p.tilew) \div Fields(p) = (EffX(p, x) % p.tilew) \div Fields(p)
<1>1. PICK d, w, k, e : d = Fields(p) /\ w = p.tilew /\ k = p.mapw /\ e = p.mapw * p.tilew
  OBVIOUS
<1>2. Sized(d, m, k, w, e)
  BY <1>1, PropertyTypes, Zenon DEF Sound, Sized
<1>3. PICK a \in Nat : a = x + p.hscroll
  BY PropertyTypes DEF Sound
<1>4. EffX(p, x) = a % e
  BY <1>1, <1>3, Zenon DEF EffX
<1>5. EffX(p, x + 1) = (a + 1) % e
  <2>1. x + 1 + p.hscroll = a + 1
    BY <1>3, PropertyTypes DEF Sound
  <2> QED BY <1>1, <2>1, Zenon DEF EffX
<1>6. /\ w \in Nat \ {0} /\ e \in Nat \ {0}
      /\ a % e \in Nat /\ (a % e) % w \in 0 .. w - 1
      /\ (a % e) % d = a % d /\ ((a % e) % w) % d = a % d /\ (a % e) % w = a % w
  BY <1>2, Columns
<1>7. ((a + 1) % e) % w = (a + 1) % w /\ ((a + 1) % e) % d = (a + 1) % d
  <2>1. PICK b \in Nat : b = a + 1
    OBVIOUS
  <2>2. (b % e) % w = b % w /\ (b % e) % d = b % d
    BY <1>2, Columns
  <2> QED BY <2>1, <2>2, Zenon
<1>8. /\ (a + 1) % w # 0 => ((a + 1) % e) \div w = (a % e) \div w
      /\ (a + 1) % d # 0 => /\ (a + 1) % w # 0
                            /\ ((a + 1) % e) % d = ((a % e) % d) + 1
                            /\ (((a + 1) % e) % w) \div d = ((a % e) % w) \div d
  BY <1>2, NextColumn
<1>9. (a % e) % w \in Nat /\ (a % e) % d \in 0 .. d - 1
  <2>1. (a % e) % w \in Nat
    BY <1>6
  <2>2. d \in Nat \ {0} /\ a % e \in Int
    BY <1>2, <1>6 DEF Sized
  <2> QED BY <2>1, <2>2, Quotient, Zenon
<1> QED BY <1>1, <1>3, <1>4, <1>5, <1>6, <1>7, <1>8, <1>9, Zenon

LEMMA EntryAt ==
  ASSUME NEW p, NEW x, NEW x1, NEW ey, x \div p.tilew = x1 \div p.tilew
  PROVE  Entry(p, x, ey) = Entry(p, x1, ey)
BY Zenon DEF Entry

LEMMA ByteIs ==
  ASSUME NEW p, NEW m, Sound(p, m), NEW e, NEW x \in Nat, NEW x1 \in Nat, NEW yy,
         x \div Fields(p) = x1 \div Fields(p)
  PROVE  ByteAt(p, e, x, yy) = ByteAt(p, e, x1, yy)
<1>1. CASE ~HFlip(p, e)
  BY <1>1, Zenon DEF ByteAt
<1>2. CASE HFlip(p, e)
  <2>1. Wide(Fields(p), m, p.tilew)
    BY DEF Sound, Wide
  <2>2. /\ (p.tilew - 1 - x) \div Fields(p) = m - 1 - (x \div Fields(p))
        /\ (p.tilew - 1 - x1) \div Fields(p) = m - 1 - (x1 \div Fields(p))
    BY <2>1, Flipped, Zenon
  <2>4. (p.tilew - 1 - x) \div Fields(p) = (p.tilew - 1 - x1) \div Fields(p)
    BY <2>2, Zenon
  <2> QED BY <1>2, <2>4, Zenon DEF ByteAt
<1> QED BY <1>1, <1>2

\* A tiled layer's state is right: the entry, the byte, and the pixel in it,
\* which is wrong only in the first pixels of a line that begins inside a byte.
Place(e, byte, f) == [entry |-> e, byte |-> byte, f |-> f]
Placed(p, x) == Text(p) \/ p.hscroll % Fields(p) = 0 \/ x >= Fields(p) - (p.hscroll % Fields(p))
FieldAt(p, e, x) ==
  IF HFlip(p, e) THEN Fields(p) - 1 - (EffX(p, x) % Fields(p)) ELSE EffX(p, x) % Fields(p)
DotRight(p, ey, x, e, byte, f) ==
  /\ e = Entry(p, EffX(p, x), ey)
  /\ byte = ByteAt(p, e, EffX(p, x) % p.tilew, ey % p.tileh)
  /\ Placed(p, x) => f = FieldAt(p, e, x)

LEMMA Places ==
  ASSUME NEW e, NEW byte, NEW f, NEW g
  PROVE  /\ [Place(e, byte, f) EXCEPT !.f = g] = Place(e, byte, g)
         /\ Place(e, byte, f).entry = e /\ Place(e, byte, f).byte = byte /\ Place(e, byte, f).f = f
BY DEF Place

LEMMA MovedIs ==
  ASSUME NEW p, NEW e, NEW byte, NEW f
  PROVE  Moved(p, Place(e, byte, f)) = Place(e, byte, IF HFlip(p, e) THEN f - 1 ELSE f + 1)
<1>1. PICK st : st = Place(e, byte, f)
  OBVIOUS
<1>2. st.entry = e /\ st.f = f
  BY <1>1, Places
<1>3. Moved(p, st) = [st EXCEPT !.f = IF HFlip(p, e) THEN f - 1 ELSE f + 1]
  BY <1>2, Zenon DEF Moved
<1>4. PICK g : g = IF HFlip(p, e) THEN f - 1 ELSE f + 1
  OBVIOUS
<1>5. [Place(e, byte, f) EXCEPT !.f = g] = Place(e, byte, g)
  BY Places
<1> QED BY <1>1, <1>3, <1>4, <1>5, Zenon

LEMMA TextPlain == ASSUME NEW p, NEW e, Text(p) PROVE ~HFlip(p, e)
BY Zenon DEF HFlip

\* Where a byte begins.
LEMMA LoadedRight ==
  ASSUME NEW p, NEW m, Sound(p, m), NEW x \in Nat, NEW ey, NEW e,
         e = Entry(p, EffX(p, x), ey), EffX(p, x) % Fields(p) = 0
  PROVE  \E byte, f : /\ Loaded(p, e, EffX(p, x), ey) = Place(e, byte, f)
                      /\ DotRight(p, ey, x, e, byte, f)
<1> DEFINE byte == ByteAt(p, e, EffX(p, x) % p.tilew, ey % p.tileh)
           f == IF HFlip(p, e) THEN Fields(p) - 1 ELSE 0
<1>1. Loaded(p, e, EffX(p, x), ey) = Place(e, byte, f)
  BY Zenon DEF Loaded, Place
<1>2. f = FieldAt(p, e, x)
  BY DEF FieldAt, Sound
<1>3. DotRight(p, ey, x, e, byte, f)
  BY <1>2, Zenon DEF DotRight
<1> QED BY <1>1, <1>3, Zenon

LEMMA FirstDot ==
  ASSUME NEW p, NEW m, Sound(p, m), NEW ey
  PROVE  \E e, byte, f : /\ Fetched(p, EffX(p, 0), ey, Begun(p, ey)) = Place(e, byte, f)
                         /\ DotRight(p, ey, 0, e, byte, f)
<1>1. PICK ex, e, d : ex = EffX(p, 0) /\ e = Entry(p, ex, ey) /\ d = Fields(p)
  OBVIOUS
<1>2. PICK b : b = ByteAt(p, e, ex % p.tilew, ey % p.tileh)
  OBVIOUS
<1>3. PICK f0 : f0 = IF HFlip(p, e) THEN d - 1 ELSE 0
  OBVIOUS
<1>4. Loaded(p, e, ex, ey) = Place(e, b, f0)
  BY <1>1, <1>2, <1>3, Zenon DEF Loaded, Place
<1>5. Begun(p, ey) = Place(e, b, IF Text(p) THEN ex % d ELSE f0)
  <2>1. PICK g : g = ex % d
    OBVIOUS
  <2>2. [Place(e, b, f0) EXCEPT !.f = g] = Place(e, b, g)
    BY Places
  <2>3. Begun(p, ey) = IF Text(p) THEN [Place(e, b, f0) EXCEPT !.f = g] ELSE Place(e, b, f0)
    BY <1>1, <1>4, <2>1, Zenon DEF Begun
  <2> QED BY <2>1, <2>2, <2>3, Zenon
<1>6. CASE ex % d = 0
  <2>1. Begun(p, ey).entry = e
    BY <1>5, Places
  <2>2. Fetched(p, ex, ey, Begun(p, ey)) = Loaded(p, e, ex, ey)
    BY <1>1, <1>6, <2>1, Zenon DEF Fetched
  <2> QED BY <1>1, <1>6, <2>2, LoadedRight
<1>7. CASE ex % d # 0
  <2>1. Fetched(p, ex, ey, Begun(p, ey)) = Begun(p, ey)
    BY <1>1, <1>7, Zenon DEF Fetched
  <2>2. Placed(p, 0) => Text(p)
    <3>1. ex % d = (0 + p.hscroll) % d /\ 0 + p.hscroll = p.hscroll /\ p.hscroll \in Nat
      <4>1. Sound(p, m) /\ 0 \in Nat /\ p \in Properties
        BY DEF Sound
      <4> QED BY <1>1, <4>1, Position, PropertyTypes
    <3>2. d \in Nat \ {0} /\ p.hscroll % d \in 0 .. d - 1
      <4>1. d \in Nat \ {0} /\ p.hscroll \in Int
        BY <1>1, <3>1 DEF Sound
      <4> QED BY <4>1, Quotient
    <3>3. p.hscroll % d # 0 /\ ~(0 >= d - (p.hscroll % d))
      BY <1>7, <3>1, <3>2
    <3> QED BY <1>1, <3>3 DEF Placed
  <2>3. Text(p) => ex % d = FieldAt(p, e, 0)
    BY <1>1, TextPlain, Zenon DEF FieldAt
  <2>4. DotRight(p, ey, 0, e, b, IF Text(p) THEN ex % d ELSE f0)
    BY <1>1, <1>2, <2>2, <2>3, Zenon DEF DotRight
  <2> QED BY <1>1, <1>5, <2>1, <2>4, Zenon
<1> QED BY <1>6, <1>7

LEMMA NextDot ==
  ASSUME NEW p, NEW m, Sound(p, m), NEW ey, NEW x \in Nat, NEW e, NEW byte, NEW f,
         DotRight(p, ey, x, e, byte, f)
  PROVE  \E e1, byte1, f1 :
           /\ Fetched(p, EffX(p, x + 1), ey, Moved(p, Place(e, byte, f))) = Place(e1, byte1, f1)
           /\ DotRight(p, ey, x + 1, e1, byte1, f1)
<1>1. PICK ex, ex1, d, w : ex = EffX(p, x) /\ ex1 = EffX(p, x + 1) /\ d = Fields(p) /\ w = p.tilew
  OBVIOUS
<1>2. /\ ex1 % w # 0 => ex1 \div w = ex \div w
      /\ ex1 % d # 0 => ex1 % w # 0 /\ ex1 % d = (ex % d) + 1 /\ (ex1 % w) \div d = (ex % w) \div d
      /\ ex % w \in Nat
  BY <1>1, Position, Zenon
<1>3. ex1 % w \in Nat /\ ex1 % d = (x + 1 + p.hscroll) % d
  <2>1. x + 1 \in Nat
    OBVIOUS
  <2> QED BY <1>1, <2>1, Position, Zenon
<1>4. d \in Nat \ {0} /\ ex % d \in 0 .. d - 1 /\ p.hscroll \in Nat /\ p.hscroll % d \in 0 .. d - 1
  <2>1. d \in Nat \ {0} /\ p \in Properties
    BY <1>1 DEF Sound
  <2>2. p.hscroll \in Nat
    BY <2>1, PropertyTypes
  <2>3. p.hscroll % d \in 0 .. d - 1
    <3>1. p.hscroll \in Int
      BY <2>2
    <3> QED BY <2>1, <3>1, Quotient, Zenon
  <2> QED BY <1>1, <2>1, <2>2, <2>3, Position, Zenon
<1>5. PICK g : g = IF HFlip(p, e) THEN f - 1 ELSE f + 1
  OBVIOUS
<1>6. Moved(p, Place(e, byte, f)) = Place(e, byte, g) /\ Place(e, byte, g).entry = e
  BY <1>5, MovedIs, Places
<1>7. /\ e = Entry(p, ex, ey) /\ byte = ByteAt(p, e, ex % w, ey % p.tileh)
      /\ Placed(p, x) => f = IF HFlip(p, e) THEN d - 1 - (ex % d) ELSE ex % d
  BY <1>1, Zenon DEF DotRight, FieldAt
<1>8. ex1 % w # 0 => Entry(p, ex1, ey) = e
  BY <1>1, <1>2, <1>7, EntryAt, Zenon
<1>9. CASE ex1 % d = 0
  <2>1. Fetched(p, ex1, ey, Place(e, byte, g)) = Loaded(p, Entry(p, ex1, ey), ex1, ey)
    BY <1>1, <1>6, <1>8, <1>9, Zenon DEF Fetched
  <2>2. x + 1 \in Nat
    OBVIOUS
  <2>3. \E byte1, f1 : /\ Loaded(p, Entry(p, ex1, ey), ex1, ey) = Place(Entry(p, ex1, ey), byte1, f1)
                       /\ DotRight(p, ey, x + 1, Entry(p, ex1, ey), byte1, f1)
    BY <1>1, <1>9, <2>2, LoadedRight, Zenon
  <2> QED BY <1>1, <1>6, <2>1, <2>3, Zenon
<1>10. CASE ex1 % d # 0
  <2>1. Fetched(p, ex1, ey, Place(e, byte, g)) = Place(e, byte, g)
    BY <1>1, <1>10, Zenon DEF Fetched
  <2>2. e = Entry(p, ex1, ey)
    BY <1>2, <1>8, <1>10, Zenon
  <2>3. byte = ByteAt(p, e, ex1 % w, ey % p.tileh)
    <3>1. (ex1 % w) \div Fields(p) = (ex % w) \div Fields(p)
      BY <1>1, <1>2, <1>10, Zenon
    <3>2. PICK c \in Nat, c1 \in Nat : c = ex % w /\ c1 = ex1 % w
      BY <1>2, <1>3
    <3>3. ByteAt(p, e, c1, ey % p.tileh) = ByteAt(p, e, c, ey % p.tileh)
      <4>1. c1 \div Fields(p) = c \div Fields(p)
        BY <3>1, <3>2, Zenon
      <4> QED BY <4>1, ByteIs
    <3> QED BY <1>7, <3>2, <3>3, Zenon
  <2>4. Placed(p, x + 1) => Placed(p, x)
    <3>1. ASSUME p.hscroll % d # 0, x + 1 >= d - (p.hscroll % d), ~(x >= d - (p.hscroll % d))
          PROVE  FALSE
      <4>1. x + 1 = d - (p.hscroll % d)
        BY <1>4, <3>1
      <4>2. PICK q \in Int, r \in 0 .. d - 1 : r = p.hscroll % d /\ p.hscroll = d * q + r
        <5>1. p.hscroll \in Int
          BY <1>4
        <5> QED BY <1>4, <5>1, Division, Zenon
      <4>3. x + 1 + p.hscroll = d * q + d /\ d * q \in Int
        BY <1>4, <4>1, <4>2
      <4>4. (d * q + d) % d = d % d /\ d % d = 0
        <5>1. d \in Int /\ d % d = 0
          BY <1>4
        <5> QED BY <1>4, <5>1, Whole
      <4> QED BY <1>3, <1>10, <4>3, <4>4, Zenon
    <3> QED BY <1>1, <3>1, Zenon DEF Placed
  <2>5. Placed(p, x + 1) => g = FieldAt(p, e, x + 1)
    <3>1. ASSUME Placed(p, x) PROVE g = IF HFlip(p, e) THEN d - 1 - (ex1 % d) ELSE ex1 % d
      BY <1>2, <1>4, <1>5, <1>7, <1>10, <3>1
    <3> QED BY <1>1, <2>4, <3>1, Zenon DEF FieldAt
  <2>6. DotRight(p, ey, x + 1, e, byte, g)
    BY <1>1, <2>2, <2>3, <2>5, Zenon DEF DotRight
  <2> QED BY <1>1, <1>6, <2>1, <2>6, Zenon
<1> QED BY <1>9, <1>10

\* Every state of a tiled layer's line is right.
LEMMA DotsRight ==
  ASSUME NEW p, NEW m, Sound(p, m), NEW ey, NEW run, LayerRun(p, ey, Width - 1, run),
         NEW x \in 0 .. Width - 1
  PROVE  \E e, byte, f : run[x] = Place(e, byte, f) /\ DotRight(p, ey, x, e, byte, f)
<1> DEFINE Is(i) == \E e, byte, f : run[i] = Place(e, byte, f) /\ DotRight(p, ey, i, e, byte, f)
           S == {i \in 0 .. Width - 1 : Is(i)}
<1>1. Width - 1 \in Nat /\ 0 \in 0 .. Width - 1
  BY Screen
<1>2. 0 \in S
  <2>1. Is(0)
    BY FirstDot, Zenon DEF LayerRun
  <2> QED BY <1>1, <2>1
<1>3. ASSUME NEW i \in 0 .. (Width - 1) - 1, i \in S PROVE i + 1 \in S
  <2>1. i \in Nat /\ i + 1 \in 0 .. Width - 1
    BY <1>1
  <2>2. run[i + 1] = Fetched(p, EffX(p, i + 1), ey, Moved(p, run[i]))
    BY Zenon DEF LayerRun
  <2>3. Is(i)
    BY <1>3
  <2>4. Is(i + 1)
    <3>1. PICK e, byte, f : run[i] = Place(e, byte, f) /\ DotRight(p, ey, i, e, byte, f)
      BY <2>3
    <3>2. \E e1, byte1, f1 :
           /\ Fetched(p, EffX(p, i + 1), ey, Moved(p, Place(e, byte, f))) = Place(e1, byte1, f1)
           /\ DotRight(p, ey, i + 1, e1, byte1, f1)
      BY <2>1, <3>1, NextDot
    <3> QED BY <2>2, <3>1, <3>2, Zenon
  <2> QED BY <2>1, <2>4
<1>4. x \in S
  <2> HIDE DEF S
  <2> QED BY <1>1, <1>2, <1>3, Upwards
<1> QED BY <1>4

LEMMA EntryTypes ==
  ASSUME NEW p \in Properties, NEW ex \in Int, NEW ey \in Int
  PROVE  Index(p, Entry(p, ex, ey)) \in Int
<1>1. PICK n \in Nat \ {0} : n = Cardinality(DOMAIN Map) /\ Map \in [0 .. n - 1 -> Entries]
  BY PictureAssumption
<1>2. PICK i \in Int : i = p.map + (ey \div p.tileh) * p.mapw + ex \div p.tilew
  <2>1. p.tileh \in Nat \ {0} /\ p.tilew \in Nat \ {0} /\ p.mapw \in Int /\ p.map \in Int
    BY PropertyTypes
  <2>2. ey \div p.tileh \in Int /\ ex \div p.tilew \in Int
    BY <2>1, Quotient
  <2>3. (ey \div p.tileh) * p.mapw \in Int
    BY <2>1, <2>2, Product
  <2> QED BY <2>1, <2>2, <2>3
<1>3. i % n \in 0 .. n - 1
  BY Quotient
<1>4. Entry(p, ex, ey) = Map[i % n]
  BY <1>1, <1>2, Zenon DEF Entry
<1>5. PICK e \in Entries : e = Entry(p, ex, ey)
  BY <1>1, <1>3, <1>4
<1>6. e.tile \in Nat /\ e.lo \in Nat
  BY DEF Entries
<1>7. e.lo % 4 \in Int
  BY <1>6, Quotient
<1>8. Index(p, e) \in Int
  BY <1>6, <1>7 DEF Index
<1> QED BY <1>5, <1>8

\* The row the mask gives is the one a layer that is drawn as tiles is due.
LEMMA EffYIs ==
  ASSUME NEW s \in Settings, Tall(s), NEW y \in Nat, s.on, s.before.kind = "tiled", ~MaskedOut(s, y)
  PROVE  EffY(s.now, y) = Scrolled(s.now, y) /\ EffY(s.now, y) \in Int
<1>1. PICK now \in Properties : now = s.now
  BY DEF Settings
<1>2. PICK h \in Nat \ {0}, a \in Nat : h = now.maph * now.tileh /\ a = y + now.vscroll
  <2>1. now.maph * now.tileh \in Nat \ {0}
    BY PropertyTypes, Positive
  <2> QED BY <2>1, PropertyTypes
<1>3. CASE now.kind = "tiled"
  <2>1. And(a, h - 1) = a % h
    BY <1>1, <1>2, <1>3, MaskIsRemainder DEF Tall
  <2>2. a % h \in Int
    BY <1>2, Quotient
  <2>3. now.kind # "bitmap"
    BY <1>3
  <2> QED BY <1>1, <1>2, <2>1, <2>2, <2>3, Zenon DEF EffY, Scrolled
<1>4. CASE now.kind = "bitmap"
  <2>1. now.maph = 1 /\ now.vscroll = 0
    BY <1>1, <1>4 DEF Tall
  <2>2. And(y, now.tileh - 1) = y
    BY <1>1, <1>4, Zenon DEF MaskedOut
  <2>3. y + 0 = y /\ 1 * now.tileh = now.tileh /\ y \in Int
    BY PropertyTypes
  <2>4. EffY(now, y) = y
    BY <2>1, <2>2, <2>3, Zenon DEF EffY
  <2> QED BY <1>1, <1>4, <2>3, <2>4, Zenon DEF Scrolled
<1> QED BY <1>1, <1>3, <1>4, PropertyTypes

LEMMA TiledRight ==
  ASSUME NEW s \in Settings, NEW m, Sound(s.before, m), NEW y \in Nat, NEW x \in 0 .. Width - 1,
         s.on, s.before.kind = "tiled", Tall(s), ~Misplaced(s, x), ~MaskedOut(s, y)
  PROVE  TiledLine(s.now, s.before, y)[x] = LayerPixel(s, x, y)
<1>1. PICK p, now : p = s.before /\ now = s.now /\ p \in Properties /\ now \in Properties
  BY DEF Settings
<1>2. PICK ey \in Int : ey = EffY(now, y) /\ ey = Scrolled(now, y)
  BY <1>1, EffYIs
<1>3. Sound(p, m)
  BY <1>1
<1>4. PICK run : LayerRun(p, ey, Width - 1, run) /\ TiledLine(now, p, y) = Dotted(p, run)
  BY <1>2, TiledIs, Zenon
<1>5. PICK e, byte, f : run[x] = Place(e, byte, f) /\ DotRight(p, ey, x, e, byte, f)
  BY <1>3, <1>4, DotsRight, Zenon
<1>6. TiledLine(now, p, y)[x] = Colour(p, e, Field(p, byte, f))
  <2>1. Dotted(p, run)[x] = Colour(p, run[x].entry, Field(p, run[x].byte, run[x].f))
    BY DEF Dotted
  <2>2. run[x].entry = e /\ run[x].byte = byte /\ run[x].f = f
    BY <1>5, Places
  <2> QED BY <1>4, <2>1, <2>2, Zenon
<1>7. Placed(p, x)
  <2>1. PICK into, d : into = p.hscroll % Fields(p) /\ d = Fields(p)
    OBVIOUS
  <2>2. Text(p) \/ into = 0 \/ ~(x < d - into)
    BY <1>1, <2>1, Zenon DEF Misplaced
  <2>3. d \in Int /\ into \in Int /\ x \in Int
    <3>1. d \in Nat \ {0} /\ p.hscroll \in Int
      BY <1>1, <1>3, <2>1, PropertyTypes DEF Sound
    <3> QED BY <2>1, <3>1, Quotient, Screen
  <2>4. Text(p) \/ into = 0 \/ x >= d - into
    BY <2>2, <2>3
  <2> QED BY <2>1, <2>4, Zenon DEF Placed
<1>8. PICK ex, d, w : ex = EffX(p, x) /\ d = Fields(p) /\ w = p.tilew
  OBVIOUS
<1>9. x \in Nat
  BY Screen
<1>10. ex \in Nat /\ ex % w \in Nat /\ (ex % w) % d = ex % d /\ ex % d \in 0 .. d - 1
  BY <1>3, <1>8, <1>9, Position, Zenon
<1>11. /\ e = Entry(p, ex, ey) /\ byte = ByteAt(p, e, ex % w, ey % p.tileh)
       /\ f = IF HFlip(p, e) THEN d - 1 - (ex % d) ELSE ex % d
  BY <1>5, <1>7, <1>8, Zenon DEF DotRight, FieldAt
<1>12. PICK i, h, yy : i = Index(p, e) /\ h = p.tileh /\ yy = ey % h /\ i \in Int /\ h \in Nat \ {0} /\ yy \in Int
  <2>1. p.tileh \in Nat \ {0} /\ ex \in Int
    BY <1>1, <1>10, PropertyTypes
  <2>2. ey % p.tileh \in Int
    BY <2>1, Quotient
  <2>3. Index(p, e) \in Int
    BY <1>1, <1>11, <2>1, EntryTypes
  <2> QED BY <2>1, <2>2, <2>3
<1>13. PICK fx, fy : /\ fx = (IF HFlip(p, e) THEN w - 1 - (ex % w) ELSE ex % w)
                     /\ fy = (IF VFlip(p, e) THEN h - 1 - yy ELSE yy)
  OBVIOUS
<1>14. Wide(d, m, w)
  BY <1>3, <1>8 DEF Sound, Wide
<1>15. fx \in Int /\ fx % d = f
  <2>1. /\ (w - 1 - (ex % w)) % d = d - 1 - ((ex % w) % d)
        /\ w - 1 - (ex % w) \in Int
    BY <1>10, <1>14, Flipped, Zenon
  <2>2. ex % w \in Int
    BY <1>10
  <2> QED BY <1>10, <1>11, <1>13, <2>1, <2>2, Zenon
<1>16. fy \in Int
  <2>1. h - 1 - yy \in Int
    BY <1>12
  <2> QED BY <1>12, <1>13, <2>1, Zenon
<1>17. byte = p.tiles + (i * w * h) \div d + (fy * w) \div d + fx \div d
  <2>1. ByteAt(p, e, ex % w, yy) = p.tiles + (i * w * h) \div d + (fy * w) \div d + fx \div d
    BY <1>8, <1>12, <1>13, Zenon DEF ByteAt
  <2> QED BY <1>11, <1>12, <2>1, Zenon
<1>18. PICK n : n = (i * h + fy) * w + fx
  OBVIOUS
<1>19. /\ n \div d = (i * w * h) \div d + (fy * w) \div d + fx \div d /\ n % d = fx % d
       /\ (i * w * h) \div d \in Int /\ (fy * w) \div d \in Int /\ fx \div d \in Int
  <2>1. Numbers(i, h, fy, fx)
    BY <1>12, <1>15, <1>16 DEF Numbers
  <2>2. BytePlaces(d, w, i, h, fy, fx)
    BY <1>14, <2>1, Bytes, Zenon
  <2>5. /\ ((i * h + fy) * w + fx) \div d = (i * w * h) \div d + (fy * w) \div d + fx \div d
        /\ ((i * h + fy) * w + fx) % d = fx % d
    BY <2>2, Zenon DEF BytePlaces
  <2>3. Numbers((i * w * h) \div d, (fy * w) \div d, fx \div d, 0)
    BY <1>14, <2>1, ByteNumbers, Zenon
  <2>4. (i * w * h) \div d \in Int /\ (fy * w) \div d \in Int /\ fx \div d \in Int
    BY <2>3, Zenon DEF Numbers
  <2> QED BY <1>18, <2>4, <2>5, Zenon
<1>20. byte = p.tiles + n \div d /\ n % d = f
  <2>1. p.tiles \in Int
    BY <1>1, PropertyTypes
  <2>2. PICK a \in Int, b \in Int, c \in Int :
          a = (i * w * h) \div d /\ b = (fy * w) \div d /\ c = fx \div d
    BY <1>19
  <2>3. byte = p.tiles + a + b + c /\ n \div d = a + b + c
    BY <1>17, <1>19, <2>2, Zenon
  <2>4. byte = p.tiles + n \div d
    BY <2>1, <2>3
  <2> QED BY <1>15, <1>19, <2>4, Zenon
<1>21. LayerPixel(s, x, y) = Colour(p, e, Field(p, p.tiles + n \div d, n % d))
  <2>1. "tiled" # "bitmap"
    OBVIOUS
  <2> QED BY <1>1, <1>2, <1>8, <1>11, <1>12, <1>13, <1>18, <2>1, Zenon DEF LayerPixel
<1> QED BY <1>1, <1>6, <1>20, <1>21, Zenon


LEMMA BitmapRight ==
  ASSUME NEW s \in Settings, NEW m, Sound(s.before, m), NEW y \in Nat, NEW x \in 0 .. Width - 1,
         s.on, s.before.kind = "bitmap"
  PROVE  BitmapLine(s.now, s.before, y)[x] = LayerPixel(s, x, y)
<1>1. PICK p, now : p = s.before /\ now = s.now /\ p \in Properties
  BY DEF Settings
<1>2. PICK d, w : d = Fields(p) /\ w = p.tilew
  OBVIOUS
<1>3. Wide(d, m, w) /\ p.tilew \in Nat \ {0} /\ p.tileh \in Nat \ {0} /\ p.tiles \in Int
  BY <1>1, <1>2, PropertyTypes DEF Sound, Wide
<1>4. PICK fx, fy : fx = x % w /\ fy = y % p.tileh
  OBVIOUS
<1>5. fx \in Int /\ fy \in Int
  BY <1>2, <1>3, <1>4, Screen, Quotient
<1>6. Numbers(0, 0, fy, fx)
  BY <1>5 DEF Numbers
<1>7. BytePlaces(d, w, 0, 0, fy, fx)
  BY <1>3, <1>6, Bytes, Zenon
<1>8. Numbers((0 * w * 0) \div d, (fy * w) \div d, fx \div d, 0)
  BY <1>3, <1>6, ByteNumbers, Zenon
<1>9. PICK n : n = fy * w + fx
  OBVIOUS
<1>10. p.tiles + n \div d = p.tiles + (fy * w) \div d + fx \div d /\ n % d = fx % d
  <2>1. n \div d = (fy * w) \div d + fx \div d /\ n % d = fx % d
    BY <1>7, <1>9, Zenon DEF BytePlaces
  <2>2. PICK a \in Int, b \in Int : a = (fy * w) \div d /\ b = fx \div d
    BY <1>8, Zenon DEF Numbers
  <2>3. p.tiles + (a + b) = p.tiles + a + b
    BY <1>3, <2>2
  <2> QED BY <2>1, <2>2, <2>3, Zenon
<1>11. BitmapLine(now, p, y)[x] =
         Offset(p, Field(p, p.tiles + (fy * w) \div d + fx \div d, fx % d), now.offset)
  BY <1>2, <1>4, Zenon DEF BitmapLine
<1>12. LayerPixel(s, x, y) = Offset(p, Field(p, p.tiles + n \div d, n % d), now.offset)
  <2>1. "bitmap" # "tiled"
    OBVIOUS
  <2> QED BY <1>1, <1>2, <1>4, <1>9, <2>1, Zenon DEF LayerPixel
<1> QED BY <1>1, <1>10, <1>11, <1>12, Zenon

\* A layer's line is what each of its pixels should be.
LEMMA LayerRight ==
  ASSUME NEW s \in Settings, NEW m, Sound(s.before, m), NEW y \in Nat, NEW x \in 0 .. Width - 1,
         Tall(s), ~Misplaced(s, x), ~MaskedOut(s, y)
  PROVE  LayerLine(s, y)[x] = LayerPixel(s, x, y)
<1>1. CASE ~s.on
  <2>1. LayerLine(s, y) = [c \in 0 .. Width - 1 |-> 0] /\ LayerPixel(s, x, y) = 0
    BY <1>1 DEF LayerLine, LayerPixel
  <2> QED BY <2>1
<1>2. CASE s.on /\ s.before.kind = "bitmap"
  <2>1. LayerLine(s, y) = BitmapLine(s.now, s.before, y)
    BY <1>2 DEF LayerLine
  <2> QED BY <1>2, <2>1, BitmapRight, Zenon
<1>3. CASE s.on /\ s.before.kind = "tiled"
  <2>1. LayerLine(s, y) = TiledLine(s.now, s.before, y)
    BY <1>3 DEF LayerLine
  <2> QED BY <1>3, <2>1, TiledRight, Zenon
<1> QED BY <1>1, <1>2, <1>3, PropertyTypes DEF Sound

\* The first colour that is not transparent.
LEMMA FirstOfTwo ==
  ASSUME NEW a, NEW b
  PROVE  FirstOpaque(<<a, b>>) = IF a # 0 THEN a ELSE IF b # 0 THEN b ELSE 0
<1> DEFINE c == <<a, b>>
           opaque == {i \in DOMAIN c : c[i] # 0}
           first == CHOOSE i \in opaque : \A j \in opaque : i <= j
<1>1. DOMAIN c = {1, 2} /\ c[1] = a /\ c[2] = b
  OBVIOUS
<1>2. FirstOpaque(c) = IF opaque = {} THEN 0 ELSE c[first]
  BY DEF FirstOpaque
<1>3. \A i : i \in opaque <=> (i = 1 /\ a # 0) \/ (i = 2 /\ b # 0)
  BY <1>1
<1> HIDE DEF opaque, c
<1>4. CASE a # 0
  <2>1. \E i \in opaque : \A j \in opaque : i <= j
    BY <1>3, <1>4
  <2>2. first \in opaque /\ \A j \in opaque : first <= j
    BY <2>1
  <2>3. first = 1
    BY <1>3, <1>4, <2>2
  <2> QED BY <1>1, <1>2, <1>4, <2>2, <2>3 DEF c
<1>5. CASE a = 0 /\ b # 0
  <2>1. opaque = {2}
    BY <1>3, <1>5
  <2>2. first = 2
    BY <2>1
  <2> QED BY <1>1, <1>2, <1>5, <2>1, <2>2 DEF c
<1>6. CASE a = 0 /\ b = 0
  <2>1. opaque = {}
    BY <1>3, <1>6
  <2> QED BY <1>2, <1>6, <2>1 DEF c
<1> QED BY <1>4, <1>5, <1>6

LEMMA FirstOfThree ==
  ASSUME NEW a, NEW b, NEW e
  PROVE  FirstOpaque(<<a, b, e>>) = IF a # 0 THEN a ELSE IF b # 0 THEN b ELSE IF e # 0 THEN e ELSE 0
<1> DEFINE c == <<a, b, e>>
           opaque == {i \in DOMAIN c : c[i] # 0}
           first == CHOOSE i \in opaque : \A j \in opaque : i <= j
<1>1. DOMAIN c = {1, 2, 3} /\ c[1] = a /\ c[2] = b /\ c[3] = e
  OBVIOUS
<1>2. FirstOpaque(c) = IF opaque = {} THEN 0 ELSE c[first]
  BY DEF FirstOpaque
<1>3. \A i : i \in opaque <=> (i = 1 /\ a # 0) \/ (i = 2 /\ b # 0) \/ (i = 3 /\ e # 0)
  BY <1>1
<1> HIDE DEF opaque, c
<1>4. CASE a # 0
  <2>1. \E i \in opaque : \A j \in opaque : i <= j
    BY <1>3, <1>4
  <2>2. first \in opaque /\ \A j \in opaque : first <= j
    BY <2>1
  <2>3. first = 1
    BY <1>3, <1>4, <2>2
  <2> QED BY <1>1, <1>2, <1>4, <2>2, <2>3 DEF c
<1>5. CASE a = 0 /\ b # 0
  <2>1. \E i \in opaque : \A j \in opaque : i <= j
    BY <1>3, <1>5
  <2>2. first \in opaque /\ \A j \in opaque : first <= j
    BY <2>1
  <2>3. first = 2
    BY <1>3, <1>5, <2>2
  <2> QED BY <1>1, <1>2, <1>5, <2>2, <2>3 DEF c
<1>6. CASE a = 0 /\ b = 0 /\ e # 0
  <2>1. opaque = {3}
    BY <1>3, <1>6
  <2>2. first = 3
    BY <2>1
  <2> QED BY <1>1, <1>2, <1>6, <2>1, <2>2 DEF c
<1>7. CASE a = 0 /\ b = 0 /\ e = 0
  <2>1. opaque = {}
    BY <1>3, <1>7
  <2> QED BY <1>2, <1>7, <2>1 DEF c
<1> QED BY <1>4, <1>5, <1>6, <1>7

\* The colour v at depth d is the foremost of a sprite's pixel of depth z and
\* colour c and of the layers' colours a and b.
Seen(z, c, a, b, d, v) ==
  /\ \/ d = 0 /\ v = 0
     \/ d = 2 /\ a # 0 /\ v = a
     \/ d = 4 /\ b # 0 /\ v = b
     \/ d = 2 * z - 1 /\ z # 0 /\ v = c
  /\ a # 0 => 2 <= d
  /\ b # 0 => 4 <= d
  /\ z # 0 => 2 * z - 1 <= d

LEMMA ComposedRight ==
  ASSUME NEW z \in 0 .. 3, NEW c, NEW a, NEW b, z = 0 \/ c # 0
  PROVE  \E d \in 0 .. 5 : Seen(z, c, a, b, d, Composed(z, c, a, b))
<1>1. CASE z = 0
  <2>1. Composed(z, c, a, b) = IF b # 0 THEN b ELSE IF a # 0 THEN a ELSE 0
    BY <1>1, FirstOfTwo DEF Composed
  <2>2. PICK d \in 0 .. 5 : d = IF b # 0 THEN 4 ELSE IF a # 0 THEN 2 ELSE 0
    OBVIOUS
  <2> QED BY <1>1, <2>1, <2>2 DEF Seen
<1>2. CASE z = 1
  <2>1. Composed(z, c, a, b) = IF b # 0 THEN b ELSE IF a # 0 THEN a ELSE IF c # 0 THEN c ELSE 0
    BY <1>2, FirstOfThree DEF Composed
  <2>2. PICK d \in 0 .. 5 : d = IF b # 0 THEN 4 ELSE IF a # 0 THEN 2 ELSE 1
    OBVIOUS
  <2> QED BY <1>2, <2>1, <2>2 DEF Seen
<1>3. CASE z = 2
  <2>1. Composed(z, c, a, b) = IF b # 0 THEN b ELSE IF c # 0 THEN c ELSE IF a # 0 THEN a ELSE 0
    BY <1>3, FirstOfThree DEF Composed
  <2>2. PICK d \in 0 .. 5 : d = IF b # 0 THEN 4 ELSE 3
    OBVIOUS
  <2> QED BY <1>3, <2>1, <2>2 DEF Seen
<1>4. CASE z = 3
  <2>1. Composed(z, c, a, b) = IF c # 0 THEN c ELSE IF b # 0 THEN b ELSE IF a # 0 THEN a ELSE 0
    BY <1>4, FirstOfThree DEF Composed
  <2> QED BY <1>4, <2>1 DEF Seen
<1> QED BY <1>1, <1>2, <1>3, <1>4

\* What can be seen at a pixel, one by one.
Thing(d, v) == [depth |-> d, col |-> v]

LEMMA ThingIs ==
  \A d, v : Thing(d, v).depth = d /\ Thing(d, v).col = v
BY DEF Thing

LEMMA ThingsAre ==
  ASSUME NEW pic, NEW sprites, NEW x, NEW y, NEW a, NEW b,
         a = LayerPixel(pic[1], x, y), b = LayerPixel(pic[2], x, y), NEW u
  PROVE  u \in Things(pic, sprites, x, y) <=>
           \/ u = Thing(0, 0)
           \/ a # 0 /\ u = Thing(2, a)
           \/ b # 0 /\ u = Thing(4, b)
           \/ \E i \in OnTop(sprites, x, y) : u = Thing(2 * sprites[i].z - 1, sprites[i].col)
<1> DEFINE Layered == {Thing(2 * i, LayerPixel(pic[i], x, y)) : i \in {l \in {1, 2} : LayerPixel(pic[l], x, y) # 0}}
<1>1. Things(pic, sprites, x, y) =
        {Thing(0, 0)} \cup Layered
          \cup {Thing(2 * sprites[i].z - 1, sprites[i].col) : i \in OnTop(sprites, x, y)}
  BY Zenon DEF Things, Thing
<1>2. u \in Layered <=> \E i \in {1, 2} : LayerPixel(pic[i], x, y) # 0 /\ u = Thing(2 * i, LayerPixel(pic[i], x, y))
  BY Zenon
<1>3. u \in Layered <=> (a # 0 /\ u = Thing(2, a)) \/ (b # 0 /\ u = Thing(4, b))
  <2>1. 2 * 1 = 2 /\ 2 * 2 = 4
    OBVIOUS
  <2> QED BY <1>2, <2>1, Zenon
<1> HIDE DEF Layered
<1> QED BY <1>1, <1>3, Zenon

LEMMA SpriteSeen ==
  ASSUME NEW s \in Sprites PROVE s.z \in 0 .. 3 /\ s.col \in Nat \ {0}
BY DEF Sprites

\* Of the sprites at a pixel only the foremost can be seen.
LEMMA OnTopIs ==
  ASSUME NEW sprites \in Seq(Sprites), NEW x, NEW y, NEW t \in OpaqueAt(sprites, x, y),
         Foremost(sprites, t, OpaqueAt(sprites, x, y))
  PROVE  t \in OnTop(sprites, x, y) /\ \A i \in OnTop(sprites, x, y) : i = t
<1>1. \A i \in OpaqueAt(sprites, x, y) : i \in 1 .. Len(sprites) /\ sprites[i].z \in 0 .. 3
  <2>1. \A i \in OpaqueAt(sprites, x, y) : i \in 1 .. Len(sprites)
    BY DEF OpaqueAt
  <2>2. \A i \in 1 .. Len(sprites) : sprites[i] \in Sprites
    OBVIOUS
  <2> QED BY <2>1, <2>2, SpriteSeen, Zenon
<1>2. \A i : i \in OnTop(sprites, x, y) <=>
        i \in OpaqueAt(sprites, x, y) /\ \A j \in OpaqueAt(sprites, x, y) :
          sprites[j].z < sprites[i].z \/ (sprites[j].z = sprites[i].z /\ i <= j)
  BY DEF OnTop
<1>3. t \in OnTop(sprites, x, y)
  BY <1>2 DEF Foremost
<1>4. ASSUME NEW i \in OnTop(sprites, x, y) PROVE i = t
  <2>1. i \in OpaqueAt(sprites, x, y)
    BY <1>2
  <2>2. sprites[t].z < sprites[i].z \/ (sprites[t].z = sprites[i].z /\ i <= t)
    BY <1>2
  <2>3. sprites[i].z < sprites[t].z \/ (sprites[i].z = sprites[t].z /\ t <= i)
    BY <2>1 DEF Foremost
  <2>4. i \in Int /\ t \in Int /\ sprites[i].z \in Int /\ sprites[t].z \in Int
    BY <1>1, <2>1
  <2> QED BY <2>2, <2>3, <2>4
<1> QED BY <1>3, <1>4

\* A line of a picture shows the foremost thing in each column.
LEMMA PictureRight ==
  ASSUME NEW pic \in Pictures, NEW sprites \in Seq(Sprites), NEW y \in Nat, ClocksSuffice(sprites, y)
  PROVE  LineRight(pic, sprites, y)
<1> SUFFICES ASSUME NEW x \in 0 .. Width - 1, ~Misplaced(pic[1], x), ~Misplaced(pic[2], x),
                    ~MaskedOut(pic[1], y), ~MaskedOut(pic[2], y)
             PROVE  \E t \in Things(pic, sprites, x, y) :
                      /\ PictureLine(pic, sprites, y)[x] = t.col
                      /\ \A u \in Things(pic, sprites, x, y) : u.depth <= t.depth
  BY DEF LineRight
<1>1. PICK a, b : a = LayerPixel(pic[1], x, y) /\ b = LayerPixel(pic[2], x, y)
  OBVIOUS
<1>2. LayerLine(pic[1], y)[x] = a /\ LayerLine(pic[2], y)[x] = b
  <2>1. pic[1] \in Settings /\ Tall(pic[1]) /\ \E m : Sound(pic[1].before, m)
    BY PictureSound
  <2>2. pic[2] \in Settings /\ Tall(pic[2]) /\ \E m : Sound(pic[2].before, m)
    BY PictureSound
  <2> QED BY <1>1, <2>1, <2>2, LayerRight, Zenon
<1>3. PICK dot, c : dot = SpriteLine(sprites, y).line[x] /\ c = dot.col
  OBVIOUS
<1>4. PICK v : v = PictureLine(pic, sprites, y)[x] /\ v = Composed(dot.z, dot.col, a, b)
  BY <1>2, <1>3, Zenon DEF PictureLine
<1>5. Fronted(sprites, x, y, Len(sprites), dot) /\ Here(sprites, x, y, Len(sprites)) = OpaqueAt(sprites, x, y)
  BY <1>3, SpritesRight, AllHere, Zenon
<1>6. PICK z \in 0 .. 3 :
        /\ z = dot.z /\ (z = 0 \/ c # 0)
        /\ (z # 0 => \E t \in OnTop(sprites, x, y) : z = sprites[t].z /\ c = sprites[t].col)
        /\ \A i \in OnTop(sprites, x, y) : z # 0 /\ z = sprites[i].z
  <2>1. CASE OpaqueAt(sprites, x, y) = {} /\ dot.z = 0 /\ dot.col = 0
    <3>1. \A i \in OnTop(sprites, x, y) : FALSE
      BY <2>1 DEF OnTop
    <3> QED BY <1>3, <2>1, <3>1
  <2>2. ASSUME NEW t \in OpaqueAt(sprites, x, y), dot.z = sprites[t].z, dot.col = sprites[t].col,
               Foremost(sprites, t, OpaqueAt(sprites, x, y))
        PROVE  /\ dot.z \in 1 .. 3 /\ dot.col # 0 /\ t \in OnTop(sprites, x, y)
               /\ \A i \in OnTop(sprites, x, y) : i = t
    <3>1. t \in 1 .. Len(sprites) /\ sprites[t].z # 0
      BY DEF OpaqueAt, Covers
    <3>2. sprites[t] \in Sprites
      BY <3>1
    <3>3. sprites[t].z \in 1 .. 3 /\ sprites[t].col # 0
      <4>1. sprites[t].z \in 0 .. 3 /\ sprites[t].col \in Nat \ {0}
        BY <3>2, SpriteSeen, Zenon
      <4> QED BY <3>1, <4>1
    <3>4. t \in OnTop(sprites, x, y) /\ \A i \in OnTop(sprites, x, y) : i = t
      BY <2>2, OnTopIs
    <3> QED BY <2>2, <3>3, <3>4
  <2>3. CASE \E t \in OpaqueAt(sprites, x, y) :
               dot.z = sprites[t].z /\ dot.col = sprites[t].col /\ Foremost(sprites, t, OpaqueAt(sprites, x, y))
    <3>1. PICK t \in OpaqueAt(sprites, x, y) :
            dot.z = sprites[t].z /\ dot.col = sprites[t].col /\ Foremost(sprites, t, OpaqueAt(sprites, x, y))
      BY <2>3
    <3>2. /\ dot.z \in 1 .. 3 /\ dot.col # 0 /\ t \in OnTop(sprites, x, y)
          /\ \A i \in OnTop(sprites, x, y) : i = t
      BY <2>2, <3>1
    <3>3. dot.z \in 0 .. 3 /\ dot.z # 0
      BY <3>2
    <3> QED BY <1>3, <3>1, <3>2, <3>3, Zenon
  <2> QED BY <1>5, <2>1, <2>3 DEF Fronted
<1>7. PICK d \in 0 .. 5 : Seen(z, c, a, b, d, v)
  BY <1>3, <1>4, <1>6, ComposedRight
<1>8. \A u : u \in Things(pic, sprites, x, y) <=>
           \/ u = Thing(0, 0)
           \/ a # 0 /\ u = Thing(2, a)
           \/ b # 0 /\ u = Thing(4, b)
           \/ \E i \in OnTop(sprites, x, y) : u = Thing(2 * sprites[i].z - 1, sprites[i].col)
  BY <1>1, ThingsAre
<1>9. Thing(d, v) \in Things(pic, sprites, x, y)
  <2>1. \/ d = 0 /\ v = 0
        \/ d = 2 /\ a # 0 /\ v = a
        \/ d = 4 /\ b # 0 /\ v = b
        \/ \E t \in OnTop(sprites, x, y) : d = 2 * sprites[t].z - 1 /\ v = sprites[t].col
    BY <1>6, <1>7, Zenon DEF Seen
  <2> QED BY <1>8, <2>1, Zenon
<1>10. ASSUME NEW u \in Things(pic, sprites, x, y) PROVE u.depth <= d
  <2>1. \/ u = Thing(0, 0)
        \/ a # 0 /\ u = Thing(2, a)
        \/ b # 0 /\ u = Thing(4, b)
        \/ \E i \in OnTop(sprites, x, y) : u = Thing(2 * sprites[i].z - 1, sprites[i].col)
    BY <1>8, Zenon
  <2>2. CASE u = Thing(0, 0)
    BY <1>7, <2>2, ThingIs DEF Seen
  <2>3. CASE a # 0 /\ u = Thing(2, a)
    BY <1>7, <2>3, ThingIs DEF Seen
  <2>4. CASE b # 0 /\ u = Thing(4, b)
    BY <1>7, <2>4, ThingIs DEF Seen
  <2>5. CASE \E i \in OnTop(sprites, x, y) : u = Thing(2 * sprites[i].z - 1, sprites[i].col)
    <3>1. z # 0 /\ u.depth = 2 * z - 1
      <4>1. PICK i \in OnTop(sprites, x, y) : u = Thing(2 * sprites[i].z - 1, sprites[i].col)
        BY <2>5
      <4>2. z # 0 /\ z = sprites[i].z
        BY <1>6
      <4>3. u.depth = 2 * sprites[i].z - 1
        BY <4>1, ThingIs
      <4> QED BY <4>2, <4>3
    <3> QED BY <1>7, <3>1 DEF Seen
  <2> QED BY <2>1, <2>2, <2>3, <2>4, <2>5
<1>11. Thing(d, v).depth = d /\ Thing(d, v).col = v
  BY ThingIs
<1> QED BY <1>4, <1>9, <1>10, <1>11, Zenon

-----------------------------------------------------------------------------
(* The beam: the scene on the screen, and what its lines come to.          *)

SceneOK == scene \in Scenes \cup {<<>>}

LEMMA ScreenConstants ==
  /\ ScreenHeight \in Nat /\ ScreenHeight >= 2 /\ ScreenHeight % 2 = 0
  /\ ScanHeight \in Nat /\ ScreenHeight < ScanHeight
  /\ Rows \in Nat /\ Rows > ScreenHeight
  /\ NtscLow \in Nat \ {0} /\ NtscHigh \in Nat /\ NtscHigh >= ScanHeight
BY ScanAssumption

LEMMA SceneSound ==
  ASSUME LinesInBudget, NEW s \in Scenes \cup {<<>>}, NEW y \in 0 .. ScreenHeight
  PROVE  s \in Seq(Sprites) /\ ClocksSuffice(s, y)
<1>1. CASE s \in Scenes
  BY <1>1, ScanAssumption DEF LinesInBudget
<1>2. CASE s = <<>>
  <2>1. s \in Seq(Sprites) /\ Len(s) = 0
    BY <1>2
  <2>2. SpentRun(s, y, Len(s), Spent(s, y))
    BY <2>1, SpentIs
  <2>3. Spent(s, y)[0] = 0
    BY <2>1, <2>2 DEF SpentRun
  <2>4. 0 < Budget
    BY Screen
  <2> QED BY <2>1, <2>3, <2>4 DEF ClocksSuffice
<1> QED BY <1>1, <1>2

LEMMA HitsAreMeetings ==
  ASSUME LinesInBudget, SceneOK, NEW row \in 0 .. ScreenHeight
  PROVE  LineHits[scene][row] = LineMeetings[scene][row]
<1>1. PICK s \in Scenes \cup {<<>>} : s = scene
  BY DEF SceneOK
<1>2. s \in Seq(Sprites) /\ ClocksSuffice(s, row)
  BY SceneSound
<1>3. SpriteLine(s, row).hits = Meetings(s, row)
  BY <1>2, SpritesRight, Zenon
<1>4. LineHits[s][row] = SpriteLine(s, row).hits /\ LineMeetings[s][row] = Meetings(s, row)
  BY DEF LineHits, LineMeetings, Known
<1> QED BY <1>1, <1>3, <1>4, Zenon

\* The scene changes only to one of the guest's.
LEMMA SceneKept ==
  ASSUME SceneOK, [Next]_vars PROVE SceneOK'
<1>1. ASSUME Ticks PROVE scene' = scene
  BY <1>1, Zenon DEF Ticks, BeginTick, VgaLine, NtscLine, regs
<1>2. ASSUME Guest PROVE scene' = scene \/ scene' \in Scenes
  BY <1>2, Zenon DEF Guest, WriteIsr, WriteIen, WriteIrqLine, Aflow, WriteVideo, WriteSprites, Reset, regs
<1>3. ASSUME UNCHANGED vars PROVE scene' = scene
  BY <1>3 DEF vars, regs
<1> QED BY <1>1, <1>2, <1>3 DEF Next, SceneOK

THEOREM ScenesKnown == Spec => []SceneOK
<1>1. Init => SceneOK
  BY DEF Init, SceneOK
<1>2. SceneOK /\ [Next]_vars => SceneOK'
  BY SceneKept
<1> QED BY <1>1, <1>2, PTL DEF Spec

-----------------------------------------------------------------------------
(* The row that is rendered.  Once the mode's own top line has set it, the *)
(* line before was the last one of this mode's, and its own row, so that   *)
(* this line's is its own as well.                                         *)

RasterOK ==
  /\ vga \in 0 .. ScanHeight - 1 /\ ntsc \in 0 .. 2 * ScanHeight - 1
  /\ y_prev \in Int /\ eff_y \in Nat /\ scale \in {0, 1}

\* The line an NTSC beam has shown last, at a position within a field.
NtscLast(pos) ==
  (NtscY(pos) - 1) - ((NtscY(pos) - 1) % 2) + (IF pos < ScanHeight THEN 0 ELSE 1)

VgaFollows == vga \in 1 .. ScreenHeight - 1 => y_prev = vga - 1
NtscFollows == NtscY(ntsc) \in 1 .. ScreenHeight => y_prev = NtscLast(ntsc)
OwnRow == scale = 1 /\ (OnScreen(y_prev) => eff_y = y_prev)
Straight == OwnRow /\ (ntsc_mode => NtscFollows) /\ (~ntsc_mode => VgaFollows)
RasterInv == RasterOK /\ (~skewed => Straight)

\* Line y is rendered with its own row.
OnTime(y) == OnScreen(y) => Accumulated(y) = y

LEMMA OnTimeTop ==
  ASSUME RasterOK, OwnRow, NEW y \in {0, 1}, Top(y) PROVE OnTime(y)
<1>1. y * scale = y
  BY DEF OwnRow
<1>2. CASE y = y_prev
  BY <1>2, Zenon DEF OwnRow, OnTime, Accumulated
<1>3. CASE y # y_prev
  BY <1>1, <1>3, Zenon DEF OnTime, Accumulated
<1> QED BY <1>2, <1>3

LEMMA OnTimeNext ==
  ASSUME RasterOK, OwnRow, NEW y \in Int, OnScreen(y_prev), y = y_prev + Step, ~Top(y) PROVE OnTime(y)
<1> SUFFICES ASSUME OnScreen(y) PROVE Accumulated(y) = y
  BY Zenon DEF OnTime
<1>1. Step \in {1, 2}
  <2>1. Step = 2 * scale \/ Step = scale
    BY Zenon DEF Step
  <2> QED BY <2>1 DEF OwnRow
<1>2. eff_y + Step = y
  BY Zenon DEF OwnRow
<1>3. y % Rows = y /\ y # y_prev
  BY <1>1, ScreenConstants DEF OnScreen, RasterOK
<1> QED BY <1>2, <1>3, Zenon DEF Accumulated

LEMMA VgaOnTime ==
  ASSUME RasterInv, ~skewed, ~ntsc_mode PROVE OnTime(vga)
<1>1. RasterOK /\ OwnRow /\ VgaFollows
  BY Zenon DEF RasterInv, Straight
<1>2. CASE vga = 0
  BY <1>1, <1>2, OnTimeTop DEF Top
<1>3. CASE vga # 0 /\ OnScreen(vga)
  <2>1. y_prev = vga - 1 /\ OnScreen(y_prev)
    BY <1>1, <1>3, ScreenConstants DEF VgaFollows, OnScreen, RasterOK
  <2>2. Step = 1
    BY <1>1, Zenon DEF Step, OwnRow
  <2>3. vga = y_prev + 1 /\ vga \in Int
    BY <1>1, <2>1 DEF RasterOK
  <2>4. ~Top(vga)
    BY <1>3, Zenon DEF Top
  <2> QED BY <1>1, <2>1, <2>2, <2>3, <2>4, OnTimeNext, Zenon
<1>4. CASE ~OnScreen(vga)
  BY <1>4, Zenon DEF OnTime
<1> QED BY <1>2, <1>3, <1>4

\* Where the fields are, and what they show.
LEMMA NtscPlaces ==
  ASSUME NEW pos \in 0 .. 2 * ScanHeight - 1
  PROVE  /\ NtscY(pos) \in Int /\ NtscRow(pos) \in Int
         /\ NtscShows(pos) <=> NtscY(pos) % 2 = 0
         /\ pos < ScanHeight => NtscRow(pos) = NtscY(pos)
         /\ pos >= ScanHeight => NtscRow(pos) = NtscY(pos) + 1
BY ScreenConstants DEF NtscY, NtscRow, NtscShows

LEMMA NtscNext ==
  ASSUME NEW pos \in 0 .. 2 * ScanHeight - 1, NEW next, next = (pos + 1) % (2 * ScanHeight)
  PROVE  /\ next \in 0 .. 2 * ScanHeight - 1
         /\ NtscY(next) \in 1 .. ScreenHeight =>
              NtscY(next) = NtscY(pos) + 1 /\ (pos < ScanHeight <=> next < ScanHeight)
<1>1. ScanHeight \in Nat \ {0} /\ NtscLow \in Nat \ {0} /\ NtscHigh \in Nat /\ NtscHigh >= ScanHeight
  BY ScreenConstants
<1>2. CASE pos = 2 * ScanHeight - 1
  <2>1. next = 0
    <3>1. pos + 1 = 2 * ScanHeight
      BY <1>1, <1>2
    <3> QED BY <1>1, <3>1
  <2> QED BY <1>1, <2>1 DEF NtscY
<1>3. CASE pos # 2 * ScanHeight - 1
  <2>1. next = pos + 1
    BY <1>1, <1>3
  <2> QED BY <1>1, <1>3, <2>1 DEF NtscY
<1> QED BY <1>2, <1>3

LEMMA NtscOnTime ==
  ASSUME RasterInv, ~skewed, ntsc_mode, NtscShows(ntsc) PROVE OnTime(NtscRow(ntsc))
<1>1. RasterOK /\ OwnRow /\ NtscFollows
  BY Zenon DEF RasterInv, Straight
<1>2. PICK y, row : y = NtscY(ntsc) /\ row = NtscRow(ntsc) /\ y \in Int /\ row \in Int
  BY <1>1, NtscPlaces DEF RasterOK
<1>3. /\ y % 2 = 0 /\ ntsc < ScanHeight => row = y
      /\ ntsc >= ScanHeight => row = y + 1
  BY <1>1, <1>2, NtscPlaces DEF RasterOK
<1>p. ntsc \in Int /\ ScanHeight \in Int /\ y % 2 = 0
  BY <1>1, <1>2, NtscPlaces, ScreenConstants DEF RasterOK
<1>4. CASE row \in {0, 1}
  <2>1. Top(row)
    BY <1>4 DEF Top
  <2> QED BY <1>1, <1>2, <1>4, <2>1, OnTimeTop
<1>5. CASE row \notin {0, 1} /\ OnScreen(row)
  <2>1. y \in 1 .. ScreenHeight
    BY <1>2, <1>3, <1>p, <1>5, ScreenConstants DEF OnScreen
  <2>2. NtscLast(ntsc) = row - 2
    <3>1. (y - 1) % 2 = 1
      BY <1>2, <1>p
    <3> QED BY <1>2, <1>3, <1>p, <3>1 DEF NtscLast
  <2>3. y_prev = row - 2 /\ OnScreen(y_prev)
    <3>1. y_prev = row - 2
      BY <1>1, <1>2, <2>1, <2>2 DEF NtscFollows
    <3>2. row >= 2
      BY <1>2, <1>5, ScreenConstants DEF OnScreen
    <3> QED BY <1>2, <1>5, <3>1, <3>2, ScreenConstants DEF OnScreen
  <2>4. Step = 2
    <3>1. Step = 2 * scale
      BY Zenon DEF Step
    <3> QED BY <1>1, <3>1 DEF OwnRow
  <2>5. row = y_prev + Step
    BY <1>2, <2>3, <2>4
  <2>6. ~Top(row)
    BY <1>5 DEF Top
  <2> QED BY <1>1, <1>2, <2>3, <2>5, <2>6, OnTimeNext, Zenon
<1>6. CASE ~OnScreen(row)
  BY <1>2, <1>6, Zenon DEF OnTime
<1> QED BY <1>2, <1>4, <1>5, <1>6

LEMMA AccumulatedIn ==
  ASSUME RasterOK, NEW y \in Int PROVE Accumulated(y) \in Nat
<1>1. eff_y \in Nat /\ scale \in {0, 1} /\ Rows \in Nat \ {0}
  BY ScreenConstants DEF RasterOK
<1>2. Step \in 0 .. 2
  <2>1. Step = 2 * scale \/ Step = scale
    BY Zenon DEF Step
  <2> QED BY <1>1, <2>1
<1>3. (eff_y + Step) % Rows \in Nat
  BY <1>1, <1>2
<1>4. OnScreen(y) => y * scale \in Nat
  BY <1>1, ScreenConstants DEF OnScreen
<1> QED BY <1>1, <1>3, <1>4, Zenon DEF Accumulated

\* What rendering a line leaves.
LEMMA Rendered ==
  ASSUME RasterInv, NEW y \in Int, RenderLine(y), ~skewed => OnTime(y)
  PROVE  /\ y_prev' = y /\ eff_y' \in Nat /\ scale' \in {0, 1}
         /\ ~skewed' => OwnRow'
<1>1. RasterOK
  BY Zenon DEF RasterInv
<1>2. y_prev' = y /\ eff_y' = Accumulated(y) /\ scale' \in {0, 1}
  BY <1>1, Zenon DEF RenderLine, RasterOK
<1>3. ASSUME ~skewed' PROVE OwnRow'
  <2>1. ~skewed \/ (Top(y) /\ y # y_prev /\ y = y * scale)
    BY <1>3, Zenon DEF RenderLine
  <2>2. CASE ~skewed
    <3>1. scale = 1
      BY <2>2, Zenon DEF RasterInv, Straight, OwnRow
    <3>2. scale' = 1
      BY <3>1, Zenon DEF RenderLine
    <3> QED BY <1>2, <2>2, <3>2, Zenon DEF OwnRow, OnTime, OnScreen
  <2>3. CASE Top(y) /\ y # y_prev /\ y = y * scale
    <3>1. scale' = 1
      BY <2>3, Zenon DEF RenderLine
    <3>2. OnScreen(y)
      BY <2>3, ScreenConstants DEF Top, OnScreen
    <3>3. Accumulated(y) = y
      BY <2>3, <3>2, Zenon DEF Accumulated
    <3> QED BY <1>2, <3>1, <3>3, Zenon DEF OwnRow
  <2> QED BY <2>1, <2>2, <2>3
<1>4. Accumulated(y) \in Nat
  BY <1>1, AccumulatedIn
<1> QED BY <1>2, <1>3, <1>4

\* A line of either beam keeps what is known of the row.
LEMMA VgaKeepsRow ==
  ASSUME RasterInv, VgaLine PROVE RasterInv'
<1>1. RasterOK /\ ntsc' = ntsc /\ (ntsc_mode' <=> ntsc_mode)
  BY Zenon DEF RasterInv, VgaLine, regs
<1>2. vga' \in 0 .. ScanHeight - 1 /\ (vga' # 0 => vga' = vga + 1) /\ vga \in Int
  <2>1. vga' = (vga + 1) % ScanHeight
    BY Zenon DEF VgaLine
  <2>2. vga \in 0 .. ScanHeight - 1 /\ ScanHeight \in Nat \ {0}
    BY <1>1, ScreenConstants DEF RasterOK
  <2> QED BY <2>1, <2>2
<1>3. CASE ntsc_mode
  <2>1. y_prev' = y_prev /\ eff_y' = eff_y /\ scale' = scale /\ (skewed' <=> skewed)
    BY <1>3, Zenon DEF VgaLine, HiddenLine, raster
  <2>2. RasterOK'
    BY <1>1, <1>2, <2>1 DEF RasterOK
  <2>3. ~skewed' => Straight'
    BY <1>1, <1>3, <2>1, Zenon DEF RasterInv, Straight, OwnRow, NtscFollows, NtscLast, NtscY, OnScreen
  <2> QED BY <2>2, <2>3, Zenon DEF RasterInv
<1>4. CASE ~ntsc_mode
  <2>1. RenderLine(vga) /\ (~skewed => OnTime(vga))
    BY <1>4, VgaOnTime, Zenon DEF VgaLine
  <2>2. /\ y_prev' = vga /\ eff_y' \in Nat /\ scale' \in {0, 1}
        /\ ~skewed' => OwnRow'
    BY <1>2, <2>1, Rendered, Zenon
  <2>3. RasterOK'
    BY <1>1, <1>2, <2>2 DEF RasterOK
  <2>4. VgaFollows'
    <3> SUFFICES ASSUME vga' \in 1 .. ScreenHeight - 1 PROVE y_prev' = vga' - 1
      BY Zenon DEF VgaFollows
    <3>1. vga' = vga + 1
      BY <1>2, ScreenConstants
    <3>2. y_prev' = vga
      BY <2>2
    <3> QED BY <1>2, <3>1, <3>2
  <2> QED BY <1>1, <1>4, <2>2, <2>3, <2>4, Zenon DEF RasterInv, Straight
<1> QED BY <1>3, <1>4

LEMMA NtscKeepsRow ==
  ASSUME RasterInv, NtscLine PROVE RasterInv'
<1>1. RasterOK /\ vga' = vga /\ (ntsc_mode' <=> ntsc_mode)
  BY Zenon DEF RasterInv, NtscLine, regs
<1>2. /\ ntsc \in 0 .. 2 * ScanHeight - 1 /\ ntsc' \in 0 .. 2 * ScanHeight - 1
      /\ NtscY(ntsc') \in 1 .. ScreenHeight =>
           NtscY(ntsc') = NtscY(ntsc) + 1 /\ (ntsc < ScanHeight <=> ntsc' < ScanHeight)
  <2>1. ntsc' = (ntsc + 1) % (2 * ScanHeight)
    BY Zenon DEF NtscLine
  <2>2. ntsc \in 0 .. 2 * ScanHeight - 1
    BY <1>1 DEF RasterOK
  <2>3. PICK next : next = ntsc'
    OBVIOUS
  <2> QED BY <2>1, <2>2, <2>3, NtscNext
<1>3. CASE ~ntsc_mode
  <2>1. y_prev' = y_prev /\ eff_y' = eff_y /\ scale' = scale /\ (skewed' <=> skewed)
    BY <1>3, Zenon DEF NtscLine, HiddenLine, raster
  <2>2. RasterOK'
    BY <1>1, <1>2, <2>1 DEF RasterOK
  <2>3. ~skewed' => Straight'
    BY <1>1, <1>3, <2>1, Zenon DEF RasterInv, Straight, OwnRow, VgaFollows, OnScreen
  <2> QED BY <2>2, <2>3, Zenon DEF RasterInv
<1>4. CASE ntsc_mode /\ ~NtscShows(ntsc)
  <2>1. y_prev' = y_prev /\ eff_y' = eff_y /\ scale' = scale /\ (skewed' <=> skewed)
    BY <1>4, Zenon DEF NtscLine, raster
  <2>2. RasterOK'
    BY <1>1, <1>2, <2>1 DEF RasterOK
  <2>3. NtscFollows => NtscFollows'
    <3> SUFFICES ASSUME NtscFollows, NtscY(ntsc') \in 1 .. ScreenHeight PROVE y_prev' = NtscLast(ntsc')
      BY Zenon DEF NtscFollows, NtscY, NtscLast
    <3>1. PICK y, next : y = NtscY(ntsc) /\ next = NtscY(ntsc') /\ y \in Int /\ next = y + 1
                         /\ next \in 1 .. ScreenHeight
      BY <1>2, NtscPlaces
    <3>2. y % 2 = 1
      BY <1>2, <1>4, <3>1, NtscPlaces
    <3>3. y \in 1 .. ScreenHeight
      BY <3>1, <3>2, ScreenConstants
    <3>4. (y - 1) - ((y - 1) % 2) = (next - 1) - ((next - 1) % 2)
      BY <3>1, <3>2
    <3>5. NtscLast(ntsc) = NtscLast(ntsc')
      BY <1>2, <3>1, <3>4, Zenon DEF NtscLast
    <3> QED BY <2>1, <3>1, <3>3, <3>5, Zenon DEF NtscFollows
  <2>4. ~skewed' => Straight'
    BY <1>1, <1>4, <2>1, <2>3, Zenon DEF RasterInv, Straight, OwnRow, OnScreen
  <2> QED BY <2>2, <2>4, Zenon DEF RasterInv
<1>5. CASE ntsc_mode /\ NtscShows(ntsc)
  <2>1. RenderLine(NtscRow(ntsc)) /\ (~skewed => OnTime(NtscRow(ntsc)))
    BY <1>5, NtscOnTime, Zenon DEF NtscLine
  <2>2. PICK row \in Int : row = NtscRow(ntsc)
    BY <1>2, NtscPlaces
  <2>3. /\ y_prev' = row /\ eff_y' \in Nat /\ scale' \in {0, 1}
        /\ ~skewed' => OwnRow'
    BY <2>1, <2>2, Rendered, Zenon
  <2>4. RasterOK'
    BY <1>1, <1>2, <2>3 DEF RasterOK
  <2>5. NtscFollows'
    <3> SUFFICES ASSUME NtscY(ntsc') \in 1 .. ScreenHeight PROVE y_prev' = NtscLast(ntsc')
      BY Zenon DEF NtscFollows, NtscY, NtscLast
    <3>1. PICK y, next : y = NtscY(ntsc) /\ next = NtscY(ntsc') /\ y \in Int /\ next = y + 1
                         /\ next \in 1 .. ScreenHeight
      BY <1>2, NtscPlaces
    <3>2. y % 2 = 0 /\ (next - 1) - ((next - 1) % 2) = y
      BY <1>2, <1>5, <3>1, NtscPlaces
    <3>3. row = IF ntsc < ScanHeight THEN y ELSE y + 1
      BY <1>2, <2>2, <3>1, NtscPlaces, ScreenConstants
    <3>4. NtscLast(ntsc') = y + (IF ntsc < ScanHeight THEN 0 ELSE 1)
      BY <1>2, <3>1, <3>2, Zenon DEF NtscLast
    <3> QED BY <2>3, <3>1, <3>3, <3>4
  <2> QED BY <1>1, <1>5, <2>3, <2>4, <2>5, Zenon DEF RasterInv, Straight
<1> QED BY <1>3, <1>4, <1>5

\* The guest moves neither beam; a change of mode and a reset skew the row.
LEMMA GuestKeepsRow ==
  ASSUME RasterInv, Guest PROVE RasterInv'
<1> DEFINE Still == vga' = vga /\ ntsc' = ntsc /\ y_prev' = y_prev /\ eff_y' = eff_y /\ scale' = scale
<1>1. ASSUME Reset PROVE RasterInv'
  <2>1. vga' = 0 /\ ntsc' = 0 /\ y_prev' = y_prev /\ eff_y' = eff_y /\ scale' = scale /\ skewed'
    BY <1>1, Zenon DEF Reset, raster
  <2>2. RasterOK'
    BY <2>1, ScreenConstants DEF RasterInv, RasterOK
  <2> QED BY <2>1, <2>2, Zenon DEF RasterInv
<1>2. ASSUME Between PROVE Still
  BY <1>2, Zenon DEF Between, beam, raster
<1>3. ASSUME Still PROVE RasterOK'
  BY <1>3 DEF RasterInv, RasterOK
<1>4. ASSUME Still, skewed' \/ ((skewed' <=> skewed) /\ (ntsc_mode' <=> ntsc_mode)) PROVE RasterInv'
  <2>1. RasterOK'
    BY <1>3, <1>4
  <2>2. ~skewed' => Straight'
    BY <1>4, Zenon DEF RasterInv, Straight, OwnRow, VgaFollows, NtscFollows, NtscLast, NtscY, OnScreen
  <2> QED BY <2>1, <2>2, Zenon DEF RasterInv
<1> HIDE DEF Still
<1>5. ASSUME NEW n, NEW s, WriteVideo(n, s) PROVE RasterInv'
  <2>1. Between /\ (skewed' <=> skewed \/ n # ntsc_mode) /\ ntsc_mode' = n
    BY <1>5, Zenon DEF WriteVideo
  <2>2. skewed' \/ ((skewed' <=> skewed) /\ (ntsc_mode' <=> ntsc_mode))
    <3>1. CASE n = ntsc_mode
      BY <2>1, <3>1, Zenon
    <3>2. CASE n # ntsc_mode
      BY <2>1, <3>2, Zenon
    <3> QED BY <3>1, <3>2
  <2> QED BY <1>2, <1>4, <2>1, <2>2, Zenon
<1>6. ASSUME Between, skewed' = skewed, ntsc_mode' = ntsc_mode PROVE RasterInv'
  BY <1>2, <1>4, <1>6, Zenon
<1>7. ASSUME NEW flags, NEW groups, WriteIsr(flags, groups) PROVE RasterInv'
  BY <1>6, <1>7, Zenon DEF WriteIsr, Touch, regs
<1>8. ASSUME NEW flags, WriteIen(flags) PROVE RasterInv'
  BY <1>6, <1>8, Zenon DEF WriteIen, Touch
<1>9. ASSUME NEW y, WriteIrqLine(y) PROVE RasterInv'
  BY <1>6, <1>9, Zenon DEF WriteIrqLine
<1>10. ASSUME NEW low, Aflow(low) PROVE RasterInv'
  BY <1>6, <1>10, Zenon DEF Aflow, Touch, regs
<1>11. ASSUME NEW s, WriteSprites(s) PROVE RasterInv'
  BY <1>6, <1>11, Zenon DEF WriteSprites
<1> QED BY <1>1, <1>5, <1>7, <1>8, <1>9, <1>10, <1>11, Zenon DEF Guest

LEMMA RowKept ==
  ASSUME RasterInv, [Next]_vars PROVE RasterInv'
<1>1. ASSUME UNCHANGED <<beam, raster, skewed, ntsc_mode>> PROVE RasterInv'
  BY <1>1, Zenon DEF beam, raster, RasterInv, RasterOK, Straight, OwnRow, VgaFollows, NtscFollows,
                     NtscLast, NtscY, OnScreen
<1>2. ASSUME NEW n, NEW m, BeginTick(n, m) PROVE RasterInv'
  BY <1>1, <1>2, Zenon DEF BeginTick, regs
<1>3. ASSUME Ticks PROVE RasterInv'
  BY <1>2, <1>3, VgaKeepsRow, NtscKeepsRow, Zenon DEF Ticks
<1>4. ASSUME UNCHANGED vars PROVE RasterInv'
  BY <1>1, <1>4, Zenon DEF vars, regs
<1> QED BY <1>3, <1>4, GuestKeepsRow, Zenon DEF Next

\* A line adds the groups that met on it.
LEMMA HitIsMet ==
  ASSUME LinesInBudget, SceneOK, RasterOK, NEW y \in Int, ~skewed => OnTime(y) PROVE Hit(y) = Met(y)
<1> SUFFICES ASSUME OnScreen(y)
             PROVE  LineHits[scene][Clamped(y, Accumulated(y))]
                      = LineMeetings[scene][IF skewed THEN Clamped(y, Accumulated(y)) ELSE y]
  BY Zenon DEF Hit, Met
<1>1. Clamped(y, Accumulated(y)) \in 0 .. ScreenHeight
  <2>1. PICK row \in Nat : row = Accumulated(y)
    BY AccumulatedIn
  <2> QED BY <2>1, ScreenConstants DEF Clamped, OnScreen
<1>2. ~skewed => Clamped(y, Accumulated(y)) = y
  <2>1. SUFFICES ASSUME ~skewed PROVE Clamped(y, y) = y
    BY Zenon DEF OnTime
  <2> QED BY ScreenConstants DEF Clamped, OnScreen
<1>3. LineHits[scene][Clamped(y, Accumulated(y))] = LineMeetings[scene][Clamped(y, Accumulated(y))]
  BY <1>1, HitsAreMeetings
<1> QED BY <1>2, <1>3, Zenon

THEOREM RowsKnown == Spec => []RasterInv
<1>1. Init => RasterInv
  BY ScreenConstants DEF Init, RasterInv, RasterOK
<1>2. RasterInv /\ [Next]_vars => RasterInv'
  BY RowKept
<1> QED BY <1>1, <1>2, PTL DEF Spec

\* Whatever the guest changes in the middle of a frame, the mode included, no
\* group that met is missing from the collisions and no other is in them, at
\* its frame's end as on its way, if the sprites of no line run out of clocks.
THEOREM GroupsReported == LinesInBudget => (Spec => []CollisionsReported)
<1> SUFFICES ASSUME LinesInBudget PROVE Spec => []CollisionsReported
  OBVIOUS
<1> DEFINE Kept == hits' = hits /\ met' = met /\ coll' = coll /\ reported' = reported
<1>1. Init => CollisionsReported
  BY DEF Init, CollisionsReported
<1>2. ASSUME SceneOK, RasterInv, CollisionsReported, [Next]_vars PROVE CollisionsReported'
  <2>1. ASSUME NEW hit, NEW y, NEW compare, ShownLine(hit, hit, y, compare) PROVE CollisionsReported'
    BY <1>2, <2>1 DEF ShownLine, CollisionsReported
  <2>2. ASSUME Kept PROVE CollisionsReported'
    BY <1>2, <2>2 DEF CollisionsReported
  <2>3. ASSUME Ticks PROVE CollisionsReported'
    <3>r. RasterOK
      BY <1>2, Zenon DEF RasterInv
    <3>1. ASSUME HiddenLine PROVE CollisionsReported'
      BY <2>2, <3>1 DEF HiddenLine
    <3>2. ASSUME NEW n, NEW m, BeginTick(n, m) PROVE CollisionsReported'
      BY <2>2, <3>2 DEF BeginTick
    <3>3. ASSUME VgaLine PROVE CollisionsReported'
      <4>1. CASE ntsc_mode
        BY <3>1, <3>3, <4>1, Zenon DEF VgaLine
      <4>2. CASE ~ntsc_mode
        <5>1. vga \in Int
          BY <3>r, ScreenConstants DEF RasterOK
        <5>2. Hit(vga) = Met(vga)
          BY <1>2, <3>r, <4>2, <5>1, VgaOnTime, HitIsMet
        <5> QED BY <2>1, <3>3, <4>2, <5>2, Zenon DEF VgaLine
      <4> QED BY <4>1, <4>2
    <3>4. ASSUME NtscLine PROVE CollisionsReported'
      <4>1. CASE ~ntsc_mode
        BY <3>1, <3>4, <4>1, Zenon DEF NtscLine
      <4>2. CASE ntsc_mode /\ NtscShows(ntsc)
        <5>1. NtscRow(ntsc) \in Int
          BY <3>r, NtscPlaces DEF RasterOK
        <5>2. Hit(NtscRow(ntsc)) = Met(NtscRow(ntsc))
          BY <1>2, <3>r, <4>2, <5>1, NtscOnTime, HitIsMet
        <5> QED BY <2>1, <3>4, <4>2, <5>2, Zenon DEF NtscLine
      <4>3. CASE ntsc_mode /\ ~NtscShows(ntsc)
        BY <2>1, <3>4, <4>3, Zenon DEF NtscLine
      <4> QED BY <4>1, <4>2, <4>3
    <3> QED BY <2>3, <3>2, <3>3, <3>4, Zenon DEF Ticks
  <2>4. ASSUME Guest PROVE CollisionsReported'
    <3>1. ASSUME NEW flags, NEW groups, WriteIsr(flags, groups) PROVE CollisionsReported'
      BY <1>2, <3>1 DEF WriteIsr, Touch, Between, CollisionsReported
    <3>2. ASSUME Reset PROVE CollisionsReported'
      BY <3>2 DEF Reset, CollisionsReported
    <3>3. ASSUME NEW flags, WriteIen(flags) PROVE Kept
      BY <3>3 DEF WriteIen, Touch, Between
    <3>4. ASSUME NEW y, WriteIrqLine(y) PROVE Kept
      BY <3>4 DEF WriteIrqLine, Between
    <3>5. ASSUME NEW low, Aflow(low) PROVE Kept
      BY <3>5 DEF Aflow, Touch, Between
    <3>6. ASSUME NEW n, NEW s, WriteVideo(n, s) PROVE Kept
      BY <3>6 DEF WriteVideo, Between
    <3>7. ASSUME NEW s, WriteSprites(s) PROVE Kept
      BY <3>7 DEF WriteSprites, Between
    <3> HIDE DEF Kept
    <3> QED BY <2>2, <2>4, <3>1, <3>2, <3>3, <3>4, <3>5, <3>6, <3>7, Zenon DEF Guest
  <2>5. ASSUME UNCHANGED vars PROVE CollisionsReported'
    BY <2>2, <2>5 DEF vars
  <2> QED BY <1>2, <2>3, <2>4, <2>5 DEF Next
<1> QED BY <1>1, <1>2, ScenesKnown, RowsKnown, PTL DEF Spec

\* On every row of every scene, and whatever the settings of the layers, each
\* pixel shows the foremost thing there, if the sprites of no line run out of
\* clocks; but for the start of a tile layer scrolled by part of a byte, and
\* for a layer that has become a bitmap and is still drawn as tiles, on the
\* rows that the mask of a bitmap's height changes.
THEOREM PixelsForemost == LinesInBudget => (Spec => []ForemostShown)
<1> SUFFICES ASSUME LinesInBudget PROVE Spec => []ForemostShown
  OBVIOUS
<1>1. ASSUME SceneOK PROVE ForemostShown
  <2> SUFFICES ASSUME NEW y \in 0 .. ScreenHeight PROVE LinesRight[scene][y]
    BY DEF ForemostShown
  <2>1. PICK s \in Scenes \cup {<<>>} : s = scene
    BY <1>1 DEF SceneOK
  <2>2. s \in Seq(Sprites) /\ ClocksSuffice(s, y) /\ y \in Nat
    BY SceneSound
  <2>3. \A pic \in Pictures : LineRight(pic, s, y)
    BY <2>2, PictureRight, Zenon
  <2>4. LinesRight[s][y] = \A pic \in Pictures : LineRight(pic, s, y)
    BY DEF LinesRight, Known
  <2> QED BY <2>1, <2>3, <2>4, Zenon
<1> QED BY <1>1, ScenesKnown, PTL

\* A tick under way ends with an NTSC half line, and that computes the output.
TickInv ==
  /\ ahead \in [vga : Nat, ntsc : Nat]
  /\ ahead = Done \/ ahead.ntsc > 0
  /\ OutputAtTick

\* After every tick, of any number of lines and in either mode, the interrupt
\* output is that of the flags and enables.
THEOREM OutputFollows == Spec => []OutputAtTick
<1>1. Init => TickInv
  <2>1. Init => ahead = Done /\ irq_out = FALSE /\ ien = {}
    BY Zenon DEF Init
  <2>2. Done \in [vga : Nat, ntsc : Nat]
    BY DEF Done
  <2>3. Init => (irq_out = Active)
    <3>1. ien = {} => (Active = FALSE)
      BY DEF Active
    <3> QED BY <2>1, <3>1, Zenon
  <2> QED BY <2>1, <2>2, <2>3, Zenon DEF TickInv, OutputAtTick
<1>2. ASSUME TickInv, [Next]_vars PROVE TickInv'
  <2>1. ASSUME NEW n \in 1 .. MaxLines, NEW m \in 1 .. MaxLines, BeginTick(n, m) PROVE TickInv'
    <3>1. n \in Nat /\ m \in Nat /\ n > 0 /\ m > 0
      BY ScanAssumption
    <3>2. ahead' = [vga |-> n, ntsc |-> m]
      BY <2>1 DEF BeginTick
    <3>3. ahead' \in [vga : Nat, ntsc : Nat] /\ ahead'.ntsc > 0 /\ ahead' # Done
      BY <3>1, <3>2 DEF Done
    <3> QED BY <3>3 DEF TickInv, OutputAtTick, Done
  <2>2. ASSUME VgaLine PROVE TickInv'
    <3>1. ahead.vga > 0 /\ ahead' = [ahead EXCEPT !.vga = @ - 1]
      BY <2>2 DEF VgaLine
    <3>2. ahead # Done
      BY <3>1 DEF Done
    <3>3. ahead' \in [vga : Nat, ntsc : Nat] /\ ahead'.ntsc > 0 /\ ahead' # Done
      BY <1>2, <3>1, <3>2 DEF TickInv, Done
    <3> QED BY <3>3 DEF TickInv, OutputAtTick, Done
  <2>3. ASSUME NtscLine PROVE TickInv'
    <3>1. ahead.ntsc > 0 /\ ahead' = [ahead EXCEPT !.ntsc = @ - 1]
      BY <2>3, Zenon DEF NtscLine
    <3>2. ahead' \in [vga : Nat, ntsc : Nat] /\ ahead'.ntsc = ahead.ntsc - 1 /\ ahead.ntsc \in Nat
      BY <1>2, <3>1 DEF TickInv
    <3>3. CASE ahead.ntsc = 1
      <4>1. irq_out' = Active' /\ ahead.vga = 0
        BY <2>3, <3>3, Zenon DEF NtscLine, TickOutput
      <4>2. ahead' = Done
        BY <1>2, <3>1, <3>3, <4>1 DEF TickInv, Done
      <4> QED BY <3>2, <4>1, <4>2, Zenon DEF TickInv, OutputAtTick, Done
    <3>4. CASE ahead.ntsc # 1
      <4>1. ahead'.ntsc > 0 /\ ahead' # Done
        BY <3>1, <3>2, <3>4 DEF Done
      <4> QED BY <3>2, <4>1 DEF TickInv, OutputAtTick, Done
    <3> QED BY <3>3, <3>4
  <2>4. ASSUME Guest PROVE TickInv'
    <3>1. ASSUME ahead' = ahead, touched' \/ UNCHANGED <<touched, irq_out, isr, aflow, ien>> PROVE TickInv'
      <4>1. (ahead \in [vga : Nat, ntsc : Nat])' /\ (ahead = Done \/ ahead.ntsc > 0)'
        BY <1>2, <3>1, Zenon DEF TickInv, Done
      <4>2. CASE touched'
        BY <4>1, <4>2, Zenon DEF TickInv, OutputAtTick
      <4>3. CASE UNCHANGED <<touched, irq_out, isr, aflow, ien>>
        <5>1. Active' = Active
          BY <4>3, Zenon DEF Active
        <5>2. OutputAtTick'
          BY <1>2, <3>1, <4>3, <5>1, Zenon DEF TickInv, OutputAtTick, Done
        <5> QED BY <4>1, <5>2, Zenon DEF TickInv
      <4> QED BY <3>1, <4>2, <4>3
    <3>2. ASSUME Touch \/ Reset PROVE ahead' = ahead /\ touched'
      BY <3>2, Zenon DEF Touch, Between, Reset
    <3>3. ASSUME NEW y, WriteIrqLine(y) PROVE ahead' = ahead /\ UNCHANGED <<touched, irq_out, isr, aflow, ien>>
      BY <3>3, Zenon DEF WriteIrqLine, Between
    <3>4. ASSUME NEW n, NEW s, WriteVideo(n, s)
          PROVE  ahead' = ahead /\ UNCHANGED <<touched, irq_out, isr, aflow, ien>>
      BY <3>4, Zenon DEF WriteVideo, Between
    <3>5. ASSUME NEW s, WriteSprites(s) PROVE ahead' = ahead /\ UNCHANGED <<touched, irq_out, isr, aflow, ien>>
      BY <3>5, Zenon DEF WriteSprites, Between
    <3>6. ASSUME Touch \/ Reset PROVE TickInv'
      BY <3>1, <3>2, <3>6, Zenon
    <3> QED BY <2>4, <3>1, <3>3, <3>4, <3>5, <3>6, Zenon DEF Guest, WriteIsr, WriteIen, Aflow
  <2>5. ASSUME UNCHANGED vars PROVE TickInv'
    BY <1>2, <2>5, Zenon DEF vars, regs, beam, TickInv, OutputAtTick, Done, Active
  <2> QED BY <1>2, <2>1, <2>2, <2>3, <2>4, <2>5, Zenon DEF Next, Ticks
<1>3. TickInv => OutputAtTick
  BY DEF TickInv
<1> QED BY <1>1, <1>2, <1>3, PTL DEF Spec

-----------------------------------------------------------------------------
(* The PCM FIFO.  RingInv says what the ring holds at every step inside    *)
(* the calls: where its oldest byte is once the read index has moved and   *)
(* the count not yet, and what each thread has loaded.                     *)

LEMMA PcmConstants ==
  /\ Size \in Nat \ {0, 1} /\ Modulus \in Nat \ {0} /\ Modulus > Size
  /\ \A n \in Frames : n \in Nat \ {0}
BY PcmAssumption

Stored == Values \cup {0}

\* What a restart makes of the ring are bytes.
LEMMA RewoundIn == ASSUME TypeOK PROVE Rewound \in Seq(Stored)
<1>1. \A i \in 1 .. wr : i - 1 \in Slots
  BY PcmConstants DEF TypeOK, Slots
<1>2. \A i \in 1 .. wr : buf[i - 1] \in Stored
  BY <1>1 DEF TypeOK, Stored
<1>3. wr \in Nat
  BY PcmConstants DEF TypeOK, Slots
<1> QED BY <1>2, <1>3 DEF Rewound

LEMMA Wraps ==
  /\ \A i \in Slots : (i + 1) % Size \in Slots
  /\ \A i \in Int : i % Modulus \in Counts
  /\ 0 \in Slots /\ 0 \in Counts
  /\ \A i \in Slots : i \in Counts
BY PcmConstants DEF Slots, Counts

LEMMA ExpectedIn ==
  ASSUME NEW items \in Seq(Stored), Expect(items) PROVE waiting' \in Seq(Stored)
BY DEF Expect

LEMMA GuestKeeps == ASSUME TypeOK, PcmGuest PROVE TypeOK'
<1>1. waiting \in Seq(Stored) /\ <<>> \in Seq(Stored) /\ Rewound \in Seq(Stored)
  BY RewoundIn DEF TypeOK, Stored
<1>2. ASSUME NEW b \in Values, WriteFifo(b) PROVE TypeOK'
  <2>1. Append(waiting, b) \in Seq(Stored)
    BY <1>1 DEF Stored
  <2>2. waiting' \in Seq(Stored)
    BY <1>2, <2>1, ExpectedIn DEF WriteFifo
  <2>3. wr' \in Slots /\ buf' \in [Slots -> Stored]
    BY <1>2, Wraps DEF WriteFifo, TypeOK, Stored
  <2>4. raced' \in BOOLEAN
    BY <1>2 DEF WriteFifo, Collide
  <2> QED BY <1>2, <2>2, <2>3, <2>4 DEF WriteFifo, TypeOK, Stored, pcm_regs, audioSide
<1>3. ASSUME BeginReset PROVE waiting' \in Seq(Stored) /\ wr' \in Slots /\ raced' \in BOOLEAN
  BY <1>1, <1>3, Wraps, ExpectedIn DEF BeginReset
<1>4. ASSUME BeginRestart PROVE waiting' \in Seq(Stored) /\ rd' \in Slots /\ raced' \in BOOLEAN
  BY <1>1, <1>4, Wraps, ExpectedIn DEF BeginRestart
<1>5. ASSUME NEW bit7 \in BOOLEAN, NEW bit6 \in BOOLEAN, NEW n \in Frames, WriteCtrl(bit7, bit6, n)
      PROVE  TypeOK'
  <2>1. /\ wr' \in Slots /\ rd' \in Slots /\ waiting' \in Seq(Stored) /\ raced' \in BOOLEAN
        /\ cpu' \in {"ready", "load", "store", "reset_rd", "reset_cnt", "restart_cnt"}
    BY <1>1, <1>3, <1>4, <1>5 DEF WriteCtrl, BeginReset, BeginRestart, TypeOK
  <2> QED BY <1>5, <2>1 DEF WriteCtrl, TypeOK, Stored, audioSide
<1>6. ASSUME NEW on \in BOOLEAN, WriteRate(on) PROVE TypeOK'
  BY <1>6 DEF WriteRate, TypeOK, shared, cpuSide, audioSide
<1>7. CASE PcmReset
  <2>1. /\ wr' \in Slots /\ rd' = rd /\ waiting' \in Seq(Stored) /\ raced' \in BOOLEAN
        /\ cpu' = "reset_rd"
    BY <1>3, <1>7 DEF PcmReset, BeginReset
  <2> QED BY <1>7, <2>1 DEF PcmReset, TypeOK, Stored, audioSide
<1> QED BY <1>2, <1>5, <1>6, <1>7 DEF PcmGuest

LEMMA CpuStepKeeps == ASSUME TypeOK, CpuStep PROVE TypeOK'
<1>1. CASE LoadCount
  BY <1>1 DEF LoadCount, TypeOK, shared, pcm_regs, audioSide
<1>2. CASE StoreCount
  <2>1. waiting' \in Seq(Stored) /\ raced' \in BOOLEAN
    BY <1>2, ExpectedIn DEF StoreCount, Collide, TypeOK, Stored
  <2>2. cnt' \in Counts /\ cpu_reg' \in Counts
    <3>1. cpu_reg + 1 \in Int
      BY PcmConstants DEF TypeOK, Counts
    <3> QED BY <1>2, <3>1, Wraps DEF StoreCount
  <2> QED BY <1>2, <2>1, <2>2 DEF StoreCount, TypeOK, Stored, pcm_regs, audioSide
<1>3. CASE StoreReset
  BY <1>3, Wraps DEF StoreReset, TypeOK, pcm_regs, audioSide
<1> QED BY <1>1, <1>2, <1>3 DEF CpuStep

LEMMA TickKeeps == ASSUME TypeOK, TickConsume PROVE TypeOK'
<1> DEFINE n == Least(frame, cnt)
<1>1. n \in 0 .. cnt /\ cnt \in Nat /\ rd \in Nat
  BY PcmConstants DEF Least, TypeOK, Counts, Slots
<1>2. (rd + n) % Size \in Slots /\ cnt - n \in Counts
  BY <1>1, PcmConstants DEF TypeOK, Counts, Slots
<1>3. SubSeq(waiting, n + 1, Len(waiting)) \in Seq(Stored)
  BY <1>1 DEF TypeOK, Stored
<1> HIDE DEF n
<1>4. /\ rd' \in Slots /\ cnt' \in Counts /\ waiting' \in Seq(Stored)
      /\ UNCHANGED <<silent, buf, wr, pcm_regs, cpuSide, audioSide, raced>>
  BY <1>2, <1>3, RewoundIn, Wraps DEF TickConsume, TypeOK, n
<1> QED BY <1>4 DEF TypeOK, Stored, pcm_regs, cpuSide, audioSide

LEMMA AudioKeeps == ASSUME TypeOK, AudioStep PROVE TypeOK'
<1>1. waiting \in Seq(Stored) /\ Rewound \in Seq(Stored) /\ frame \in Nat \ {0}
  BY RewoundIn, PcmConstants DEF TypeOK, Stored
<1>2. CASE AudioStart
  <2>1. waiting' \in Seq(Stored) /\ raced' \in BOOLEAN
    BY <1>1, <1>2, ExpectedIn DEF AudioStart, Collide
  <2>2. rd' \in Slots /\ audio_reg' \in Counts /\ left' \in Nat \ {0} /\ audio' \in {"load_rd", "restart"}
    BY <1>1, <1>2, Wraps DEF AudioStart, TypeOK
  <2> QED BY <1>2, <2>1, <2>2 DEF AudioStart, TypeOK, Stored, pcm_regs, cpuSide
<1>3. CASE AudioRestart
  <2>1. waiting' \in Seq(Stored) /\ raced' \in BOOLEAN
    BY <1>1, <1>3, ExpectedIn DEF AudioRestart, Collide
  <2> QED BY <1>3, <2>1, Wraps DEF AudioRestart, TypeOK, Stored, pcm_regs, cpuSide
<1>4. CASE AudioLoad
  BY <1>4, Wraps DEF AudioLoad, TypeOK, shared, pcm_regs, cpuSide
<1>5. CASE AudioStoreRd
  <2>1. rd' \in Slots
    BY <1>5, PcmConstants DEF AudioStoreRd, TypeOK, Counts, Slots
  <2> QED BY <1>5, <2>1, Wraps DEF AudioStoreRd, TypeOK, pcm_regs, cpuSide
<1>6. CASE AudioStoreCount
  <2>1. IF waiting = <<>> THEN <<>> \in Seq(Stored) ELSE Tail(waiting) \in Seq(Stored)
    BY <1>1
  <2>2. waiting' \in Seq(Stored) /\ raced' \in BOOLEAN
    BY <1>6, <2>1, ExpectedIn DEF AudioStoreCount, Collide
  <2>3. cnt' \in Counts /\ audio_reg' \in Counts
    <3>1. audio_reg - 1 \in Int
      BY PcmConstants DEF TypeOK, Counts
    <3> QED BY <1>6, <3>1, Wraps DEF AudioStoreCount
  <2>4. left' \in Nat /\ audio' \in {"load_rd", "idle"} /\ (left' = 0 <=> audio' = "idle")
    <3>1. left \in Nat /\ left # 0
      BY <1>6 DEF AudioStoreCount, TypeOK
    <3> QED BY <1>6, <3>1 DEF AudioStoreCount
  <2> QED BY <1>6, <2>2, <2>3, <2>4 DEF AudioStoreCount, TypeOK, Stored, pcm_regs, cpuSide
<1> QED BY <1>2, <1>3, <1>4, <1>5, <1>6 DEF AudioStep

\* Whatever the two threads do to each other, the indices stay in the ring and
\* the count in its width.
THEOREM IndicesStay == PcmSpec => []TypeOK
<1>1. PcmInit => TypeOK
  BY Wraps DEF PcmInit, TypeOK
<1>2. TypeOK /\ [PcmNext]_pcm_vars => TypeOK'
  <2> SUFFICES ASSUME TypeOK, [PcmNext]_pcm_vars PROVE TypeOK'
    OBVIOUS
  <2>1. CASE UNCHANGED pcm_vars
    BY <2>1 DEF pcm_vars, TypeOK, shared, pcm_regs, cpuSide, audioSide
  <2> QED BY <2>1, GuestKeeps, CpuStepKeeps, TickKeeps, AudioKeeps DEF PcmNext
<1> QED BY <1>1, <1>2, PTL DEF PcmSpec
-----------------------------------------------------------------------------
(* What the ring holds while the threads have not collided.                *)

\* The slot of the oldest waiting byte: the audio thread moves the read index
\* before it takes the byte off the count.
Oldest ==
  IF audio \in {"load", "store"}
    THEN IF rd = 0 THEN Size - 1 ELSE rd - 1
    ELSE rd

\* i slots after h, for two numbers whose sum goes round the ring once at most.
After(h, i) == IF h + i < Size THEN h + i ELSE h + i - Size

\* The items stand in the ring from slot h to the write index.
Stands(ring, index, h, items) ==
  /\ Len(items) < Size
  /\ index = After(h, Len(items))
  /\ \A i \in 1 .. Len(items) : items[i] = ring[After(h, i - 1)]

\* Each thread counts, writes or plays a byte: the count lacks the byte just
\* written, and what a thread has loaded is still there.
Running ==
  /\ cpu \in {"ready", "load", "store"}
  /\ audio # "restart"
  /\ Stands(buf, wr, Oldest, waiting)
  /\ cnt = IF cpu = "ready" THEN Len(waiting) ELSE Len(waiting) - 1
  /\ audio # "idle" => cnt > 0
  /\ cpu = "store" => cpu_reg = cnt
  /\ audio = "store_rd" => audio_reg = rd
  /\ audio = "store" => audio_reg = cnt

\* The guest resets or restarts the ring and the audio thread keeps out of it,
\* or the audio thread restarts it between two calls of the guest.
Restarting ==
  \/ cpu = "reset_rd" /\ audio = "idle" /\ waiting = <<>> /\ wr = 0
  \/ cpu = "reset_cnt" /\ audio = "idle" /\ waiting = <<>> /\ wr = 0 /\ rd = 0
  \/ cpu = "restart_cnt" /\ audio = "idle" /\ waiting = Rewound /\ rd = 0
  \/ cpu = "ready" /\ audio = "restart" /\ waiting = Rewound /\ rd = 0 /\ audio_reg = wr

RingInv ==
  /\ silent => audio = "idle" /\ ~raced
  /\ ~raced => Running \/ Restarting

PcmIInv == TypeOK /\ RingInv

-----------------------------------------------------------------------------
(* The ring, whatever the threads.                                         *)

LEMMA WrapIsAfter ==
  ASSUME NEW h \in Slots, NEW i \in 0 .. Size - 1
  PROVE  (h + i) % Size = After(h, i) /\ After(h, i) \in Slots
<1> DEFINE x == h + i
<1>1. x \in 0 .. 2 * Size - 1
  BY PcmConstants DEF Slots
<1>2. \A y \in 0 .. 2 * Size - 1 : y % Size = IF y < Size THEN y ELSE y - Size
  BY PcmConstants
<1>3. x % Size = IF x < Size THEN x ELSE x - Size
  BY <1>1, <1>2
<1> QED BY <1>1, <1>3, PcmConstants DEF After, Slots

\* A byte stored at the write index is the last of the items.
LEMMA PutStands ==
  ASSUME NEW S, NEW ring \in [Slots -> S], NEW w \in Slots, NEW h \in Slots,
         NEW items \in Seq(S), NEW b \in S,
         Stands(ring, w, h, items), Len(items) < Size - 1
  PROVE  Stands([ring EXCEPT ![w] = b], (w + 1) % Size, h, Append(items, b))
<1> DEFINE n == Len(items)
           t == Append(items, b)
<1>1. n \in Nat /\ n < Size - 1 /\ w = After(h, n)
  BY DEF Stands
<1>2. Len(t) = n + 1 /\ (\A i \in 1 .. n : t[i] = items[i]) /\ t[n + 1] = b
  OBVIOUS
<1>3. \A i \in 1 .. n : items[i] = ring[After(h, i - 1)]
  BY DEF Stands
<1> HIDE DEF n, t
<1>4. (w + 1) % Size = After(h, n + 1)
  <2>1. (w + 1) % Size = After(w, 1)
    BY WrapIsAfter, PcmConstants
  <2> QED BY <1>1, <2>1, PcmConstants DEF After, Slots
<1>5. \A i \in 1 .. n : After(h, i - 1) \in Slots /\ After(h, i - 1) # w
  BY <1>1, PcmConstants DEF After, Slots
<1>6. \A i \in 1 .. n + 1 : t[i] = [ring EXCEPT ![w] = b][After(h, i - 1)]
  <2> SUFFICES ASSUME NEW i \in 1 .. n + 1
               PROVE  t[i] = [ring EXCEPT ![w] = b][After(h, i - 1)]
    OBVIOUS
  <2>1. CASE i = n + 1
    <3>1. i - 1 = n /\ After(h, n) = w
      BY <1>1, <2>1
    <3> QED BY <1>2, <2>1, <3>1
  <2>2. CASE i \in 1 .. n
    BY <1>2, <1>3, <1>5, <2>2
  <2> QED BY <1>1, <2>1, <2>2
<1>7. Len(t) < Size
  BY <1>1, <1>2, PcmConstants
<1> QED BY <1>2, <1>4, <1>6, <1>7 DEF Stands, t

\* Without their first n, the items stand n slots further.
LEMMA RestStands ==
  ASSUME NEW S, NEW ring, NEW w, NEW h \in Slots,
         NEW items \in Seq(S), NEW rest \in Seq(S), NEW n \in 0 .. Len(items),
         Stands(ring, w, h, items),
         Len(rest) = Len(items) - n, \A i \in 1 .. Len(rest) : rest[i] = items[i + n]
  PROVE  Stands(ring, w, After(h, n), rest)
<1> DEFINE k == Len(items)
           m == Len(rest)
<1>1. k \in Nat /\ k < Size /\ w = After(h, k) /\ n \in 0 .. k /\ m = k - n
  BY DEF Stands
<1>2. \A i \in 1 .. k : items[i] = ring[After(h, i - 1)]
  BY DEF Stands
<1>3. \A i \in 1 .. m : rest[i] = items[i + n]
  OBVIOUS
<1> HIDE DEF k, m
<1>4. After(After(h, n), m) = After(h, k)
  BY <1>1, PcmConstants DEF After, Slots
<1>5. \A i \in 1 .. m : /\ i + n \in 1 .. k
                        /\ After(After(h, n), i - 1) = After(h, (i + n) - 1)
  BY <1>1, PcmConstants DEF After, Slots
<1>6. \A i \in 1 .. m : rest[i] = ring[After(After(h, n), i - 1)]
  BY <1>2, <1>3, <1>5
<1>7. m < Size
  BY <1>1, PcmConstants
<1> QED BY <1>1, <1>4, <1>6, <1>7 DEF Stands, m

\* A restart leaves everything up to the write index in the ring.
LEMMA RewoundStands ==
  ASSUME TypeOK PROVE Stands(buf, wr, 0, Rewound) /\ Len(Rewound) = wr
<1>1. wr \in 0 .. Size - 1 /\ Size \in Nat
  BY PcmConstants DEF TypeOK, Slots
<1>2. Rewound \in Seq(Stored) /\ DOMAIN Rewound = 1 .. wr
  BY RewoundIn DEF Rewound
<1>3. Len(Rewound) = wr
  BY <1>1, <1>2
<1>4. \A i \in 1 .. wr : Rewound[i] = buf[i - 1]
  BY DEF Rewound
<1>5. After(0, wr) = wr /\ \A i \in 1 .. wr : After(0, i - 1) = i - 1
  BY <1>1 DEF After
<1> QED BY <1>1, <1>3, <1>4, <1>5 DEF Stands

-----------------------------------------------------------------------------
(* The steps.  Oldest and the items are named by constants, so that a fact *)
(* of the ring is the same before and after the step.                      *)

\* The numbers a running ring is made of.
LEMMA RunningFields ==
  ASSUME TypeOK, Running
  PROVE  /\ Oldest \in Slots /\ waiting \in Seq(Stored)
         /\ cnt \in 0 .. Size - 1 /\ Len(waiting) \in cnt .. cnt + 1
         /\ buf \in [Slots -> Stored] /\ wr \in Slots /\ rd \in Slots
<1>1. rd \in 0 .. Size - 1 /\ cnt \in Nat /\ waiting \in Seq(Stored)
  BY PcmConstants DEF TypeOK, Slots, Counts, Stored
<1>2. Oldest \in Slots
  BY <1>1, PcmConstants DEF Oldest, Slots
<1> DEFINE n == Len(waiting)
<1>3. n \in Nat
  BY <1>1
<1>4. n < Size /\ cnt = IF cpu = "ready" THEN n ELSE n - 1
  BY DEF Running, Stands
<1> HIDE DEF n
<1>5. cnt \in 0 .. Size - 1 /\ n \in cnt .. cnt + 1
  BY <1>1, <1>3, <1>4, PcmConstants
<1> QED BY <1>1, <1>2, <1>5 DEF TypeOK, Stored, n

\* What Expect makes of the items when nobody is in the way.
LEMMA Expected == ASSUME NEW items, Expect(items), ~raced' PROVE waiting' = items
BY DEF Expect

LEMMA WriteFifoKeeps ==
  ASSUME PcmIInv, NEW b \in Values, WriteFifo(b) PROVE RingInv'
<1>1. silent' = silent /\ audio' = audio /\ cpu = "ready" /\ cpu' = "load" /\ rd' = rd /\ cnt' = cnt
      /\ raced' = (raced \/ audio = "restart") /\ audio_reg' = audio_reg
      /\ buf' = [buf EXCEPT ![wr] = b] /\ wr' = (wr + 1) % Size /\ cnt < Size - 1
  BY PcmConstants DEF WriteFifo, Collide, audioSide, Full, PcmIInv, TypeOK, Counts
<1>2. ASSUME silent PROVE (audio = "idle" /\ ~raced)'
  BY <1>1, <1>2 DEF PcmIInv, RingInv
<1>3. ASSUME ~raced' PROVE Running'
  <2>1. ~raced /\ audio # "restart" /\ Running
    BY <1>1, <1>3 DEF PcmIInv, RingInv, Restarting
  <2>2. waiting' = Append(waiting, b)
    BY <1>3, Expected DEF WriteFifo
  <2>3. PICK h : h = Oldest
    OBVIOUS
  <2>4. Oldest' = h
    BY <1>1, <2>3 DEF Oldest
  <2>5. h \in Slots /\ waiting \in Seq(Stored) /\ buf \in [Slots -> Stored] /\ wr \in Slots /\ b \in Stored
    BY <2>1, <2>3, RunningFields DEF PcmIInv, Stored
  <2>6. Stands(buf, wr, h, waiting) /\ Len(waiting) = cnt
    BY <1>1, <2>1, <2>3 DEF Running
  <2>7. Stands(buf', wr', h, Append(waiting, b))
    BY <1>1, <2>5, <2>6, PutStands
  <2>8. Stands(buf, wr, Oldest, waiting)'
    BY <2>2, <2>4, <2>7
  <2>9. Len(Append(waiting, b)) = cnt + 1
    BY <2>5, <2>6
  <2> QED BY <1>1, <2>1, <2>2, <2>8, <2>9, RunningFields DEF Running, PcmIInv
<1> QED BY <1>1, <1>2, <1>3 DEF RingInv

\* A reset or restart that finds the audio thread out of the ring.
LEMMA BeginsKeep ==
  ASSUME PcmIInv, UNCHANGED <<silent, buf, cnt, audio, audio_reg>>, BeginReset \/ BeginRestart
  PROVE  RingInv'
<1>1. raced' = (audio # "idle") /\ audio' = audio
  BY DEF BeginReset, BeginRestart
<1>2. ASSUME silent PROVE (audio = "idle" /\ ~raced)'
  BY <1>1, <1>2 DEF PcmIInv, RingInv
<1>3. ASSUME ~raced', BeginReset PROVE Restarting'
  <2>1. waiting' = <<>>
    BY <1>3, Expected DEF BeginReset
  <2> QED BY <1>1, <1>3, <2>1 DEF BeginReset, Restarting
<1>4. ASSUME ~raced', BeginRestart PROVE Restarting'
  <2>1. waiting' = Rewound
    BY <1>4, Expected DEF BeginRestart
  <2>2. Rewound' = Rewound
    BY <1>4 DEF BeginRestart, Rewound
  <2> QED BY <1>1, <1>4, <2>1, <2>2 DEF BeginRestart, Restarting
<1> QED BY <1>1, <1>2, <1>3, <1>4 DEF RingInv

\* A step that moves nothing but the registers.
LEMMA RegistersKeep ==
  ASSUME RingInv, UNCHANGED <<silent, buf, wr, rd, cnt, cpu, cpu_reg, audio, audio_reg, waiting, raced>>
  PROVE  RingInv'
<1>1. Oldest' = Oldest /\ Rewound' = Rewound
  BY DEF Oldest, Rewound
<1>2. Running => Running'
  BY <1>1 DEF Running
<1>3. Restarting => Restarting'
  BY <1>1 DEF Restarting
<1> QED BY <1>2, <1>3 DEF RingInv

LEMMA GuestHolds == ASSUME PcmIInv, PcmGuest PROVE RingInv'
<1>1. ASSUME NEW bit7 \in BOOLEAN, NEW bit6 \in BOOLEAN, NEW n \in Frames, WriteCtrl(bit7, bit6, n)
      PROVE  RingInv'
  <2>1. UNCHANGED <<silent, buf, cnt, cpu_reg, audio, audio_reg>>
    BY <1>1 DEF WriteCtrl, audioSide
  <2>2. CASE BeginReset \/ BeginRestart
    BY <2>1, <2>2, BeginsKeep
  <2>3. CASE UNCHANGED <<wr, rd, cpu, waiting, raced>>
    BY <2>1, <2>3, RegistersKeep DEF PcmIInv
  <2> QED BY <1>1, <2>2, <2>3 DEF WriteCtrl
<1>2. ASSUME NEW on \in BOOLEAN, WriteRate(on) PROVE RingInv'
  BY <1>2, RegistersKeep DEF WriteRate, shared, cpuSide, audioSide, PcmIInv
<1>3. CASE PcmReset
  BY <1>3, BeginsKeep DEF PcmReset, audioSide
<1> QED BY <1>1, <1>2, <1>3, WriteFifoKeeps DEF PcmGuest

LEMMA CpuStepHolds == ASSUME PcmIInv, CpuStep PROVE RingInv'
<1>1. CASE LoadCount
  <2>1. /\ cpu = "load" /\ cpu_reg' = cnt /\ cpu' = "store"
        /\ UNCHANGED <<silent, buf, wr, rd, cnt, audio, audio_reg, waiting, raced>>
    BY <1>1 DEF LoadCount, shared, audioSide
  <2>2. Oldest' = Oldest
    BY <2>1 DEF Oldest
  <2>3. ASSUME Running PROVE Running'
    BY <2>1, <2>2, <2>3 DEF Running
  <2> QED BY <2>1, <2>3 DEF PcmIInv, RingInv, Restarting
<1>2. CASE StoreCount
  <2>1. /\ cpu = "store" /\ cnt' = (cpu_reg + 1) % Modulus /\ cpu' = "ready"
        /\ raced' = (raced \/ audio = "store") /\ Expect(waiting)
        /\ UNCHANGED <<silent, buf, wr, rd, audio, audio_reg>>
    BY <1>2 DEF StoreCount, Collide, audioSide
  <2>2. Oldest' = Oldest
    BY <2>1 DEF Oldest
  <2>3. ASSUME ~raced' PROVE Running'
    <3>1. ~raced /\ audio # "store" /\ Running /\ waiting' = waiting
      BY <2>1, <2>3, Expected DEF PcmIInv, RingInv, Restarting
    <3>2. cpu_reg = cnt /\ cnt = Len(waiting) - 1 /\ cnt \in 0 .. Size - 1
      BY <2>1, <3>1, RunningFields DEF Running, PcmIInv
    <3> DEFINE n == Len(waiting)
    <3>3. n < Size /\ n \in Nat
      BY <3>1, RunningFields DEF Running, Stands, PcmIInv
    <3>4. cpu_reg = cnt /\ cnt = n - 1
      BY <3>2
    <3> HIDE DEF n
    <3>5. cnt' = n
      <4>1. cpu_reg + 1 = n /\ n \in 0 .. Modulus - 1
        BY <3>3, <3>4, PcmConstants
      <4>2. n % Modulus = n
        BY <4>1, PcmConstants
      <4> QED BY <2>1, <4>1, <4>2
    <3>6. n' = n
      BY <3>1 DEF n
    <3>7. audio' # "idle" => cnt' > 0
      BY <2>1, <3>1, <3>4, <3>5, <3>3, PcmConstants DEF Running
    <3>8. Stands(buf, wr, Oldest, waiting)'
      BY <2>1, <2>2, <3>1 DEF Running
    <3>9. audio' # "restart" /\ (audio' = "store_rd" => audio_reg' = rd') /\ audio' # "store"
      BY <2>1, <3>1 DEF Running
    <3> QED BY <2>1, <3>5, <3>6, <3>7, <3>8, <3>9 DEF Running, n
  <2> QED BY <2>1, <2>3 DEF PcmIInv, RingInv
<1>3. CASE StoreReset
  <2>1. UNCHANGED <<silent, buf, wr, cpu_reg, audio, audio_reg, waiting, raced>> /\ Rewound' = Rewound
    BY <1>3 DEF StoreReset, audioSide, Rewound
  <2>2. ASSUME ~raced PROVE Restarting /\ cpu \in {"reset_rd", "reset_cnt", "restart_cnt"}
    BY <1>3, <2>2 DEF StoreReset, PcmIInv, RingInv, Running
  <2>3. ASSUME ~raced, cpu = "reset_rd" PROVE Restarting'
    BY <1>3, <2>1, <2>2, <2>3 DEF StoreReset, Restarting
  <2>4. ASSUME ~raced, cpu = "reset_cnt" PROVE Running'
    <3>1. /\ waiting = <<>> /\ wr = 0 /\ rd = 0 /\ audio = "idle"
          /\ cnt' = 0 /\ rd' = rd /\ cpu' = "ready"
      BY <1>3, <2>2, <2>4 DEF StoreReset, Restarting
    <3>2. Oldest' = 0 /\ waiting' = <<>> /\ wr' = 0 /\ audio' = "idle"
      BY <2>1, <3>1 DEF Oldest
    <3>3. Stands(buf', 0, 0, <<>>)
      BY PcmConstants DEF Stands, After
    <3> QED BY <2>1, <3>1, <3>2, <3>3 DEF Running
  <2>5. ASSUME ~raced, cpu = "restart_cnt" PROVE Running'
    <3>1. waiting = Rewound /\ rd = 0 /\ audio = "idle" /\ cnt' = wr /\ rd' = rd /\ cpu' = "ready"
      BY <1>3, <2>2, <2>5 DEF StoreReset, Restarting
    <3>2. Oldest' = 0 /\ waiting' = Rewound /\ audio' = "idle"
      BY <2>1, <3>1 DEF Oldest
    <3>3. Stands(buf', wr', 0, Rewound) /\ Len(Rewound) = wr
      BY <2>1, RewoundStands DEF PcmIInv
    <3> QED BY <3>1, <3>2, <3>3 DEF Running
  <2> QED BY <2>1, <2>2, <2>3, <2>4, <2>5 DEF PcmIInv, RingInv
<1> QED BY <1>1, <1>2, <1>3 DEF CpuStep

LEMMA TickHolds == ASSUME PcmIInv, TickConsume PROVE RingInv'
<1> DEFINE n == Least(frame, cnt)
<1>1. /\ silent /\ cpu = "ready" /\ audio = "idle" /\ ~raced
      /\ UNCHANGED <<silent, buf, wr, cpu, cpu_reg, audio, audio_reg, raced>>
  BY DEF TickConsume, PcmIInv, RingInv, cpuSide, audioSide
<1>2. Running
  BY <1>1 DEF PcmIInv, RingInv, Restarting
<1>3. /\ rd \in Slots /\ waiting \in Seq(Stored) /\ Len(waiting) = cnt /\ cnt \in 0 .. Size - 1
      /\ Stands(buf, wr, rd, waiting)
  BY <1>1, <1>2, RunningFields DEF PcmIInv, Running, Oldest
<1>4. n \in 0 .. cnt
  BY <1>3, PcmConstants DEF Least, PcmIInv, TypeOK
<1> HIDE DEF n
<1>5. CASE /\ ~Empty
           /\ rd' = (rd + n) % Size
           /\ cnt' = cnt - n
           /\ waiting' = SubSeq(waiting, n + 1, Len(waiting))
  <2> DEFINE rest == SubSeq(waiting, n + 1, Len(waiting))
  <2>1. rest \in Seq(Stored) /\ Len(rest) = Len(waiting) - n /\ \A i \in 1 .. Len(rest) : rest[i] = waiting[i + n]
    BY <1>3, <1>4
  <2> HIDE DEF rest
  <2>2. Stands(buf, wr, After(rd, n), rest)
    BY <1>3, <1>4, <2>1, RestStands
  <2>3. n \in 0 .. Size - 1
    BY <1>3, <1>4, PcmConstants
  <2>4. rd' = After(rd, n)
    BY <1>3, <1>5, <2>3, WrapIsAfter
  <2>5. waiting' = rest /\ Len(rest) = cnt'
    BY <1>3, <1>5, <2>1 DEF rest
  <2> QED BY <1>1, <2>2, <2>4, <2>5 DEF RingInv, Running, Oldest
<1>6. CASE Empty /\ rd' = 0 /\ cnt' = wr /\ waiting' = Rewound
  <2>1. Stands(buf', wr', 0, Rewound) /\ Len(Rewound) = wr
    BY <1>1, RewoundStands DEF PcmIInv
  <2> QED BY <1>1, <1>6, <2>1 DEF RingInv, Running, Oldest
<1> QED BY <1>5, <1>6 DEF TickConsume, n

\* The audio thread takes its byte off the count.
LEMMA ByteTaken ==
  ASSUME PcmIInv, AudioStoreCount, ~raced' PROVE Running'
<1>1. /\ audio = "store" /\ cnt' = (audio_reg - 1) % Modulus
      /\ audio' \in {"load_rd", "idle"} /\ (audio' # "idle" => cnt' > 0)
      /\ raced' = (raced \/ cpu = "store")
      /\ UNCHANGED <<silent, buf, wr, rd, cpu, cpu_reg>>
  BY DEF AudioStoreCount, Collide, cpuSide
<1>2. ~raced /\ cpu # "store" /\ Running
  BY <1>1 DEF PcmIInv, RingInv, Restarting
<1> DEFINE n == Len(waiting)
<1>3. n \in cnt .. cnt + 1 /\ cnt \in 1 .. Size - 1 /\ audio_reg = cnt
  BY <1>1, <1>2, RunningFields DEF Running, PcmIInv
<1>4. cnt' = cnt - 1
  <2>1. cnt - 1 \in 0 .. Modulus - 1
    BY <1>3, PcmConstants
  <2>2. (cnt - 1) % Modulus = cnt - 1
    BY <2>1, PcmConstants
  <2> QED BY <1>1, <1>3, <2>2
<1>5. waiting \in Seq(Stored) /\ rd \in Slots /\ Oldest \in Slots
  BY <1>2, RunningFields DEF PcmIInv
<1>6. waiting # <<>>
  BY <1>3
<1> DEFINE rest == Tail(waiting)
<1>7. waiting' = rest
  BY <1>6, Expected DEF AudioStoreCount
<1>8. rest \in Seq(Stored) /\ Len(rest) = n - 1 /\ \A i \in 1 .. Len(rest) : rest[i] = waiting[i + 1]
  BY <1>5, <1>6
<1>9. 1 \in 0 .. n
  BY <1>3
<1>10. Stands(buf, wr, Oldest, waiting)
  BY <1>2 DEF Running
<1> HIDE DEF rest
<1>11. Stands(buf, wr, After(Oldest, 1), rest)
  BY <1>5, <1>8, <1>9, <1>10, RestStands
<1>12. After(Oldest, 1) = rd
  BY <1>1, <1>5, PcmConstants DEF Oldest, After, Slots
<1>13. Oldest' = rd
  BY <1>1 DEF Oldest
<1>14. Stands(buf, wr, Oldest, waiting)'
  BY <1>1, <1>7, <1>11, <1>12, <1>13
<1>15. n' = n - 1
  BY <1>7, <1>8
<1>16. cnt = (IF cpu = "ready" THEN n ELSE n - 1) /\ cpu \in {"ready", "load"}
  BY <1>2 DEF Running
<1> HIDE DEF n
<1>17. cnt' = IF cpu = "ready" THEN n' ELSE n' - 1
  BY <1>3, <1>4, <1>15, <1>16
<1> QED BY <1>1, <1>14, <1>16, <1>17 DEF Running, n

LEMMA AudioStepHolds == ASSUME PcmIInv, AudioStep PROVE RingInv'
<1>1. CASE AudioStart
  <2>1. /\ ~silent /\ audio = "idle" /\ UNCHANGED <<silent, buf, wr, cnt, cpu, cpu_reg>>
    BY <1>1 DEF AudioStart, cpuSide
  <2>2. CASE /\ ~Empty /\ audio' = "load_rd" /\ Collide(Resetting) /\ Expect(waiting)
             /\ UNCHANGED <<rd, audio_reg>>
    <3>1. ASSUME ~raced' PROVE Running'
      <4>1. ~raced /\ ~Resetting /\ waiting' = waiting
        BY <2>2, <3>1, Expected DEF Collide
      <4>2. Running
        BY <2>1, <4>1 DEF PcmIInv, RingInv, Restarting, Resetting
      <4>3. Oldest' = Oldest /\ Oldest = rd
        BY <2>1, <2>2 DEF Oldest
      <4>4. Stands(buf, wr, Oldest, waiting)'
        BY <2>1, <4>1, <4>2, <4>3 DEF Running
      <4>5. cnt > 0
        BY <2>2, <4>2, RunningFields DEF Empty, PcmIInv
      <4> QED BY <2>1, <2>2, <4>1, <4>2, <4>4, <4>5 DEF Running
    <3> QED BY <2>1, <3>1 DEF RingInv
  <2>3. CASE /\ Empty /\ rd' = 0 /\ audio_reg' = wr /\ audio' = "restart"
             /\ Collide(cpu # "ready") /\ Expect(Rewound)
    <3>1. ASSUME ~raced' PROVE Restarting'
      <4>1. cpu = "ready" /\ waiting' = Rewound
        BY <2>3, <3>1, Expected DEF Collide
      <4>2. Rewound' = Rewound
        BY <2>1 DEF Rewound
      <4> QED BY <2>1, <2>3, <4>1, <4>2 DEF Restarting
    <3> QED BY <2>1, <3>1 DEF RingInv
  <2> QED BY <1>1, <2>2, <2>3 DEF AudioStart
<1>2. CASE AudioRestart
  <2>1. /\ audio = "restart" /\ cnt' = audio_reg /\ audio' = "idle"
        /\ raced' = (raced \/ cpu = "store") /\ Expect(waiting)
        /\ UNCHANGED <<silent, buf, wr, rd, cpu, cpu_reg>>
    BY <1>2 DEF AudioRestart, Collide, cpuSide
  <2>2. ASSUME ~raced' PROVE Running'
    <3>1. waiting' = waiting /\ waiting = Rewound /\ rd = 0 /\ audio_reg = wr /\ cpu = "ready"
      BY <2>1, <2>2, Expected DEF PcmIInv, RingInv, Running, Restarting
    <3>2. Stands(buf', wr', 0, waiting') /\ Len(waiting') = cnt'
      BY <2>1, <3>1, RewoundStands DEF PcmIInv
    <3>3. Oldest' = 0
      BY <2>1, <3>1 DEF Oldest
    <3> QED BY <2>1, <3>1, <3>2, <3>3 DEF Running
  <2> QED BY <2>1, <2>2 DEF PcmIInv, RingInv
<1>3. CASE AudioLoad
  <2>1. /\ \/ audio = "load_rd" /\ audio_reg' = rd /\ audio' = "store_rd"
           \/ audio = "load" /\ audio_reg' = cnt /\ audio' = "store"
        /\ UNCHANGED <<silent, buf, wr, rd, cnt, cpu, cpu_reg, waiting, raced>>
    BY <1>3 DEF AudioLoad, shared, cpuSide
  <2>2. Oldest' = Oldest
    BY <2>1 DEF Oldest
  <2>3. ASSUME Running PROVE Running'
    BY <2>1, <2>2, <2>3 DEF Running
  <2> QED BY <2>1, <2>3 DEF PcmIInv, RingInv, Restarting
<1>4. CASE AudioStoreRd
  <2>1. /\ audio = "store_rd" /\ audio' = "load" /\ rd' = (audio_reg + 1) % Size
        /\ UNCHANGED <<silent, buf, wr, cnt, cpu, cpu_reg, waiting, raced>>
    BY <1>4 DEF AudioStoreRd, cpuSide
  <2>2. ASSUME ~raced PROVE Running'
    <3>1. Running /\ audio_reg = rd
      BY <2>1, <2>2 DEF PcmIInv, RingInv, Running, Restarting
    <3>2. rd \in Slots /\ rd' = After(rd, 1)
      BY <2>1, <3>1, WrapIsAfter, PcmConstants DEF PcmIInv, TypeOK
    <3>3. Oldest' = rd /\ Oldest = rd
      BY <2>1, <3>2, PcmConstants DEF Oldest, After, Slots
    <3>4. Stands(buf, wr, Oldest, waiting)'
      BY <2>1, <3>1, <3>3 DEF Running
    <3> QED BY <2>1, <3>1, <3>4 DEF Running
  <2> QED BY <2>1, <2>2 DEF PcmIInv, RingInv
<1>5. CASE AudioStoreCount
  <2>1. silent' = silent /\ audio = "store"
    BY <1>5 DEF AudioStoreCount
  <2> QED BY <1>5, <2>1, ByteTaken DEF PcmIInv, RingInv
<1> QED BY <1>1, <1>2, <1>3, <1>4, <1>5 DEF AudioStep

LEMMA RingInvHolds == PcmSpec => []PcmIInv
<1>1. PcmInit => PcmIInv
  <2> SUFFICES ASSUME PcmInit PROVE RingInv
    BY Wraps DEF PcmInit, TypeOK, PcmIInv
  <2>1. Stands(buf, 0, 0, <<>>)
    BY PcmConstants DEF Stands, After
  <2> QED BY <2>1 DEF PcmInit, RingInv, Running, Oldest
<1>2. PcmIInv /\ [PcmNext]_pcm_vars => PcmIInv'
  <2> SUFFICES ASSUME PcmIInv, [PcmNext]_pcm_vars PROVE PcmIInv'
    OBVIOUS
  <2>1. CASE PcmNext
    <3>1. TypeOK'
      BY <2>1, GuestKeeps, CpuStepKeeps, TickKeeps, AudioKeeps DEF PcmNext, PcmIInv
    <3>2. RingInv'
      BY <2>1, GuestHolds, CpuStepHolds, TickHolds, AudioStepHolds DEF PcmNext
    <3> QED BY <3>1, <3>2 DEF PcmIInv
  <2>2. CASE UNCHANGED pcm_vars
    <3>1. RingInv'
      BY <2>2, RegistersKeep DEF pcm_vars, shared, cpuSide, audioSide, PcmIInv
    <3> QED BY <2>2, <3>1 DEF pcm_vars, TypeOK, shared, pcm_regs, cpuSide, audioSide, PcmIInv
  <2> QED BY <2>1, <2>2
<1> QED BY <1>1, <1>2, PTL DEF PcmSpec

\* Between calls the ring holds, oldest first, exactly what was written and
\* not yet played, whatever was written, played, reset and restarted before;
\* with the audio thread, until the two threads collide, and again after a
\* reset or a restart that nobody disturbed.
THEOREM RingIsFifo == PcmSpec => []HoldsTheWaiting
<1>1. PcmIInv => HoldsTheWaiting
  <2> SUFFICES ASSUME PcmIInv, Idle, silent \/ ~raced
               PROVE  cnt = Len(waiting) /\ cnt < Size /\ Items = waiting
    BY DEF HoldsTheWaiting
  <2>1. Running /\ cpu = "ready" /\ audio = "idle"
    BY DEF PcmIInv, RingInv, Restarting, Idle
  <2>2. /\ rd \in Slots /\ waiting \in Seq(Stored) /\ Len(waiting) = cnt /\ cnt \in 0 .. Size - 1
        /\ Stands(buf, wr, rd, waiting)
    BY <2>1, RunningFields DEF PcmIInv, Running, Oldest
  <2>3. \A i \in 1 .. cnt : waiting[i] = buf[(rd + i - 1) % Size]
    <3> SUFFICES ASSUME NEW i \in 1 .. cnt PROVE waiting[i] = buf[(rd + i - 1) % Size]
      OBVIOUS
    <3>1. i - 1 \in 0 .. Size - 1 /\ rd + i - 1 = rd + (i - 1)
      BY <2>2, PcmConstants DEF Slots
    <3>2. (rd + i - 1) % Size = After(rd, i - 1)
      BY <2>2, <3>1, WrapIsAfter
    <3> QED BY <2>2, <3>2 DEF Stands
  <2>4. waiting = [i \in 1 .. cnt |-> waiting[i]]
    BY <2>2
  <2>5. Items = waiting
    BY <2>3, <2>4 DEF Items
  <2> QED BY <2>2, <2>5, PcmConstants
<1> QED BY <1>1, RingInvHolds, PTL
=============================================================================
