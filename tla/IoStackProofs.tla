--------------------------- MODULE IoStackProofs ---------------------------
(***************************************************************************)
(* Theorems about IoStack, for every stack of layers, number of threads,   *)
(* block size and request.                                                 *)
(***************************************************************************)
EXTENDS IoStack, FiniteSetTheorems, WellFoundedInduction, TLAPS

-----------------------------------------------------------------------------
(* Numbers.                                                                *)

\* A set of numbers has a least one: induction, for what is recursive below.
LEMMA LeastNumber ==
  ASSUME NEW T \in SUBSET Nat, T # {}
  PROVE  \E x \in T : \A y \in T : x <= y
<1> DEFINE R == {p \in Nat \X Nat : p[1] < p[2]}
<1>1. IsWellFoundedOn(R, Nat)
  BY NatLessThanWellFounded DEF OpToRel
<1> HIDE DEF R
<1>2. PICK x \in T : \A y \in T : ~ (<<y, x>> \in R)
  BY <1>1, WFMin
<1>3. ASSUME NEW y \in T PROVE x <= y
  <2>1. ~ (<<y, x>> \in R)
    BY <1>2
  <2>2. ~ (y < x)
    BY <2>1 DEF R
  <2> QED
    BY <2>2
<1> QED
  BY <1>3

\* A set of numbers that has 0 and every successor has all of them.
LEMMA SetInduction ==
  ASSUME NEW T \in SUBSET Nat, NEW m \in Nat, 0 \in T,
         \A k \in 0 .. m - 1 : k \in T => k + 1 \in T
  PROVE  0 .. m \subseteq T
<1> DEFINE Out == {k \in 0 .. m : k \notin T}
<1> SUFFICES ASSUME Out # {} PROVE FALSE
  OBVIOUS
<1>1. Out \in SUBSET Nat
  OBVIOUS
<1>2. PICK x \in Out : \A y \in Out : x <= y
  BY <1>1, LeastNumber
<1>3. x \in 1 .. m /\ x \notin T
  OBVIOUS
<1>4. x - 1 \in 0 .. m - 1 /\ ~ (x <= x - 1)
  BY <1>3
<1>5. x - 1 \in T
  BY <1>2, <1>3, <1>4
<1>6. (x - 1) + 1 \in T
  BY <1>4, <1>5
<1> QED
  BY <1>3, <1>6

Multiple(v) == \E q \in Nat : v = Block * q

\* What align_down and align_up return.
LEMMA Down ==
  ASSUME NEW v \in Nat
  PROVE  /\ AlignDown(v, Block) \in Nat /\ Multiple(AlignDown(v, Block))
         /\ AlignDown(v, Block) <= v /\ v < AlignDown(v, Block) + Block
<1> DEFINE q == v \div Block
<1>1. Block \in Nat /\ Block > 0
  BY IoAssumption
<1>2. q \in Nat
  BY <1>1
<1>3. Block * q <= v /\ v < Block * q + Block
  BY <1>1
<1> HIDE DEF q
<1>4. Block * q \in Nat
  BY <1>1, <1>2
<1>5. AlignDown(v, Block) = Block * q
  BY DEF AlignDown, q
<1> QED
  BY <1>2, <1>3, <1>4, <1>5 DEF Multiple

\* What align_up returns.
LEMMA Up ==
  ASSUME NEW v \in Nat
  PROVE  /\ AlignUp(v, Block) \in Nat /\ Multiple(AlignUp(v, Block))
         /\ v <= AlignUp(v, Block)
<1>1. Block \in Nat /\ Block > 0 /\ v + Block - 1 \in Nat
  BY IoAssumption
<1> QED
  BY <1>1, Down DEF AlignUp

\* A multiple is aligned already: what set_ctr is given is where it ends up.
LEMMA MultipleStays ==
  ASSUME NEW v \in Nat, Multiple(v)
  PROVE  AlignDown(v, Block) = v
<1> DEFINE d == AlignDown(v, Block)
<1>1. Block \in Nat /\ Block > 0
  BY IoAssumption
<1>2. PICK q \in Nat : v = Block * q
  BY DEF Multiple
<1>3. PICK p \in Nat : d = Block * p
  BY Down DEF Multiple
<1>4. d \in Nat /\ d <= v /\ v < d + Block
  BY Down
<1> HIDE DEF d
<1>5. ~ (q >= p + 1)
  <2> SUFFICES ASSUME q >= p + 1 PROVE FALSE
    OBVIOUS
  <2>1. PICK k \in Nat : q = p + 1 + k
    <3>1. q - (p + 1) \in Nat /\ q = p + 1 + (q - (p + 1))
      OBVIOUS
    <3> QED
      BY <3>1
  <2>2. Block * q = Block * p + Block + Block * k
    BY <1>1, <2>1
  <2>3. Block * k \in Nat
    BY <1>1
  <2> QED
    BY <1>1, <1>2, <1>3, <1>4, <2>2, <2>3
<1>6. ~ (p >= q + 1)
  <2> SUFFICES ASSUME p >= q + 1 PROVE FALSE
    OBVIOUS
  <2>1. PICK k \in Nat : p = q + 1 + k
    <3>1. p - (q + 1) \in Nat /\ p = q + 1 + (p - (q + 1))
      OBVIOUS
    <3> QED
      BY <3>1
  <2>2. Block * p = Block * q + Block + Block * k
    BY <1>1, <2>1
  <2>3. Block * k \in Nat
    BY <1>1
  <2> QED
    BY <1>1, <1>2, <1>3, <1>4, <2>2, <2>3
<1>7. p = q
  BY <1>5, <1>6
<1> QED
  BY <1>2, <1>3, <1>7 DEF d

\* No remainder means a multiple.
LEMMA MultipleOf ==
  ASSUME NEW v \in Nat, v % Block = 0
  PROVE  Multiple(v)
<1>1. Block \in Nat /\ Block > 0
  BY IoAssumption
<1>2. v \div Block \in Nat /\ v = Block * (v \div Block)
  BY <1>1
<1> QED
  BY <1>2 DEF Multiple

\* A block boundary of a base plus one of its section is one of the base.
LEMMA MultipleSum ==
  ASSUME NEW v \in Nat, NEW w \in Nat, Multiple(v), Multiple(w)
  PROVE  Multiple(v + w)
<1>1. PICK p \in Nat : v = Block * p
  BY DEF Multiple
<1>2. PICK q \in Nat : w = Block * q
  BY DEF Multiple
<1>3. Block \in Nat
  BY IoAssumption
<1>4. v + w = Block * (p + q) /\ p + q \in Nat
  BY <1>1, <1>2, <1>3
<1> QED
  BY <1>4 DEF Multiple

\* std::min.
LEMMA LesserOf ==
  ASSUME NEW a \in Nat, NEW b \in Nat
  PROVE  /\ Lesser(a, b) \in Nat /\ Lesser(a, b) <= a /\ Lesser(a, b) <= b
         /\ Lesser(a, b) = a \/ Lesser(a, b) = b
         /\ a <= b => Lesser(a, b) = a
         /\ b <= a => Lesser(a, b) = b
BY DEF Lesser

-----------------------------------------------------------------------------
(* Stacks of layers.                                                       *)

\* The levels of a node.
LEMMA NodeLayers ==
  ASSUME NEW n \in Nodes
  PROVE  /\ Len(Layers[n]) \in Nat /\ FileLevel(n) \in Nat \ {0} /\ FileLevel(n) <= Depth
         /\ FileLevel(n) = Len(Layers[n]) + 1 /\ 1 \in 1 .. FileLevel(n)
         /\ \A l \in 1 .. Len(Layers[n]) :
              /\ Layers[n][l] \in Layer /\ l \in 1 .. FileLevel(n) /\ l + 1 \in 1 .. FileLevel(n)
              /\ l # FileLevel(n)
<1>1. Layers[n] \in Seq(Layer)
  BY IoAssumption
<1>2. Len(Layers[n]) \in Nat /\ \A l \in 1 .. Len(Layers[n]) : Layers[n][l] \in Layer
  BY <1>1
<1> QED
  BY <1>2, IoAssumption DEF FileLevel

\* What is known of a layer.
LEMMA LayerOf ==
  ASSUME NEW n \in Nodes, NEW l \in 1 .. Len(Layers[n])
  PROVE  /\ Layers[n][l].offset \in Nat /\ Layers[n][l].size \in Nat
         /\ Layers[n][l].kind = "offset" \/ Layers[n][l].kind = "ctr"
         /\ Layers[n][l].kind = "ctr" =>
              Layers[n][l].cipher \in Ciphers /\ Multiple(Layers[n][l].offset)
         /\ SizeAt(n, l) = Layers[n][l].size
         /\ SizeAt(n, l + 1) \in Nat
         /\ Layers[n][l].offset + SizeAt(n, l) <= SizeAt(n, l + 1)
<1>1. Layers[n][l] \in Layer /\ l + 1 \in 1 .. FileLevel(n) /\ l # FileLevel(n)
  BY NodeLayers
<1>2. /\ Layers[n][l].offset \in Nat /\ Layers[n][l].size \in Nat
      /\ Layers[n][l].kind = "offset" \/ Layers[n][l].kind = "ctr"
      /\ Layers[n][l].kind = "ctr" => Layers[n][l].cipher \in Ciphers
  BY <1>1 DEF Layer
<1>3. Layers[n][l].kind = "ctr" => Multiple(Layers[n][l].offset)
  BY <1>2, MultipleOf, IoAssumption
<1>4. SizeAt(n, l) = Layers[n][l].size
  BY <1>1 DEF SizeAt
<1>5. SizeAt(n, l + 1) \in Nat
  <2>1. CASE l + 1 = FileLevel(n)
    BY <2>1, IoAssumption DEF SizeAt
  <2>2. CASE l + 1 # FileLevel(n)
    <3>1. l + 1 \in 1 .. Len(Layers[n])
      BY <2>2, NodeLayers
    <3>2. Layers[n][l + 1] \in Layer
      BY <3>1, NodeLayers
    <3>3. Layers[n][l + 1].size \in Nat
      BY <3>2 DEF Layer
    <3> QED
      BY <2>2, <3>3 DEF SizeAt
  <2> QED
    BY <2>1, <2>2
<1> QED
  BY <1>2, <1>3, <1>4, <1>5, IoAssumption

\* A level has a size.
LEMMA SizeType ==
  ASSUME NEW n \in Nodes, NEW l \in 1 .. FileLevel(n)
  PROVE  SizeAt(n, l) \in Nat
<1>1. CASE l = FileLevel(n)
  BY <1>1, IoAssumption DEF SizeAt
<1>2. CASE l # FileLevel(n)
  <2>1. l \in 1 .. Len(Layers[n])
    BY <1>2, NodeLayers
  <2> QED
    BY <2>1, LayerOf
<1> QED
  BY <1>1, <1>2

\* The recursion of parent_offset() is well founded: the File ends it.
LEMMA Places ==
  ASSUME NEW n \in Nodes
  PROVE  /\ ParentOffset(n) \in [1 .. FileLevel(n) -> Nat]
         /\ ParentOffset(n)[FileLevel(n)] = 0
         /\ \A l \in 1 .. Len(Layers[n]) :
              ParentOffset(n)[l] = Layers[n][l].offset + ParentOffset(n)[l + 1]
<1> DEFINE F == FileLevel(n)
           off(l) == Layers[n][l].offset
           Good(f, d) == /\ f \in [F - d .. F -> Nat] /\ f[F] = 0
                         /\ \A l \in F - d .. F - 1 : f[l] = off(l) + f[l + 1]
           T == {d \in 0 .. Len(Layers[n]) : \E f : Good(f, d)}
           one == [l \in {F} |-> 0]
<1>1. F = Len(Layers[n]) + 1 /\ Len(Layers[n]) \in Nat
      /\ \A l \in 1 .. Len(Layers[n]) : off(l) \in Nat
  BY NodeLayers, LayerOf
<1> HIDE DEF F, off
<1> HIDE DEF Good
<1>2. 0 \in T
  <2>1. F - 0 .. F = {F} /\ F - 0 .. F - 1 = {}
    BY <1>1
  <2>2. Good(one, 0)
    BY <2>1 DEF Good
  <2> QED
    BY <1>1, <2>2
<1>3. ASSUME NEW d \in 0 .. Len(Layers[n]) - 1, d \in T PROVE d + 1 \in T
  <2>1. PICK f : Good(f, d)
    BY <1>3
  <2> DEFINE k == F - (d + 1)
             g == [l \in k .. F |-> IF l = k THEN off(k) + f[k + 1] ELSE f[l]]
  <2>2. /\ k \in 1 .. Len(Layers[n]) /\ k + 1 = F - d /\ k + 1 \in F - d .. F
        /\ F \in k + 1 .. F /\ d + 1 \in 0 .. Len(Layers[n])
    BY <1>1
  <2>3. /\ f \in [k + 1 .. F -> Nat] /\ f[F] = 0
        /\ \A l \in k + 1 .. F - 1 : f[l] = off(l) + f[l + 1]
    BY <2>1, <2>2 DEF Good
  <2>4. k \in Nat /\ F \in Nat /\ k + 1 <= F
    BY <1>1, <2>2
  <2> HIDE DEF k
  <2>5. off(k) + f[k + 1] \in Nat
    <3>1. off(k) \in Nat /\ k + 1 \in k + 1 .. F
      BY <1>1, <2>2, <2>4
    <3>2. f[k + 1] \in Nat
      BY <2>3, <3>1
    <3> QED
      BY <3>1, <3>2
  <2>6. \A l \in k .. F : l = k \/ l \in k + 1 .. F
    BY <2>4
  <2>7. g \in [k .. F -> Nat]
    BY <2>3, <2>5, <2>6
  <2>8. g[F] = 0
    BY <2>3, <2>4
  <2>9. ASSUME NEW l \in k .. F - 1 PROVE g[l] = off(l) + g[l + 1]
    <3>1. l + 1 \in k .. F /\ l + 1 # k /\ l \in k .. F
      BY <2>4
    <3>2. g[l + 1] = f[l + 1]
      BY <3>1
    <3>3. CASE l = k
      BY <3>1, <3>2, <3>3
    <3>4. CASE l # k
      <4>1. l \in k + 1 .. F - 1
        BY <2>4, <3>4
      <4> QED
        BY <2>3, <3>1, <3>2, <3>4, <4>1
    <3> QED
      BY <3>3, <3>4
  <2>10. Good(g, d + 1)
    BY <2>7, <2>8, <2>9 DEF Good, k
  <2> HIDE DEF g
  <2> QED
    BY <2>2, <2>10
<1>4. Len(Layers[n]) \in T
  <2> HIDE DEF T
  <2>1. T \in SUBSET Nat
    BY DEF T
  <2>2. 0 .. Len(Layers[n]) \subseteq T
    BY <1>1, <1>2, <1>3, <2>1, SetInduction
  <2> QED
    BY <1>1, <2>2
<1>5. PICK f : Good(f, Len(Layers[n]))
  BY <1>4
<1>6. F - Len(Layers[n]) = 1
  BY <1>1
<1>7. /\ f \in [1 .. F -> Nat] /\ f[F] = 0
      /\ \A l \in 1 .. Len(Layers[n]) : f[l] = off(l) + f[l + 1]
  BY <1>1, <1>5, <1>6 DEF Good
<1> DEFINE Def(g) == g = [l \in 1 .. F |-> IF l = F THEN 0 ELSE off(l) + g[l + 1]]
<1>8. Def(f)
  BY <1>1, <1>7
<1>9. ParentOffset(n) = CHOOSE g : Def(g)
  BY DEF ParentOffset, F, off
<1>10. Def(ParentOffset(n))
  <2> HIDE DEF Def
  <2> QED
    BY <1>8, <1>9
<1> DEFINE P == ParentOffset(n)
<1>11. /\ P = [l \in 1 .. F |-> P[l]] /\ P[F] = 0
       /\ \A l \in 1 .. Len(Layers[n]) : P[l] = off(l) + P[l + 1]
  BY <1>1, <1>10
<1> DEFINE N == {d \in 0 .. Len(Layers[n]) : P[F - d] \in Nat}
<1>12. Len(Layers[n]) \in N /\ \A d \in 0 .. Len(Layers[n]) : d \in N
  <2> HIDE DEF P
  <2>1. 0 \in N
    BY <1>1, <1>11
  <2>2. ASSUME NEW d \in 0 .. Len(Layers[n]) - 1, d \in N PROVE d + 1 \in N
    <3>1. F - (d + 1) \in 1 .. Len(Layers[n]) /\ (F - (d + 1)) + 1 = F - d
      BY <1>1
    <3>2. P[F - (d + 1)] = off(F - (d + 1)) + P[F - d]
      BY <1>11, <3>1
    <3>3. off(F - (d + 1)) \in Nat /\ P[F - d] \in Nat
      BY <1>1, <2>2, <3>1
    <3>4. d + 1 \in 0 .. Len(Layers[n])
      BY <1>1
    <3> QED
      BY <3>2, <3>3, <3>4
  <2>3. N \in SUBSET Nat
    OBVIOUS
  <2> HIDE DEF N
  <2>4. 0 .. Len(Layers[n]) \subseteq N
    BY <1>1, <2>1, <2>2, <2>3, SetInduction
  <2> QED
    BY <1>1, <2>4
<1>13. ASSUME NEW l \in 1 .. F PROVE P[l] \in Nat
  <2>1. F - l \in 0 .. Len(Layers[n]) /\ F - (F - l) = l
    BY <1>1
  <2> HIDE DEF P
  <2> QED
    BY <1>12, <2>1
<1>14. P \in [1 .. F -> Nat]
  <2> HIDE DEF P
  <2> QED
    BY <1>11, <1>13
<1> QED
  BY <1>11, <1>14 DEF F, off

\* The ciphers on the way down from a level.
IsCtr(n, l) == Layers[n][l].kind = "ctr"
CtrFrom(n, l) == {k \in l .. Len(Layers[n]) : IsCtr(n, k)}

\* Byte i at level l of a node: Content, for every level.
ByteAt(n, l, i) == [at |-> ParentOffset(n)[l] + i, clear |-> Cardinality(CtrFrom(n, l))]

\* How many ciphers are below a level, one level at a time.
LEMMA Clear ==
  ASSUME NEW n \in Nodes
  PROVE  /\ Cardinality(CtrFrom(n, FileLevel(n))) = 0
         /\ \A l \in 1 .. FileLevel(n) : Cardinality(CtrFrom(n, l)) \in Nat
         /\ \A l \in 1 .. Len(Layers[n]) :
              Cardinality(CtrFrom(n, l)) =
                IF IsCtr(n, l) THEN Cardinality(CtrFrom(n, l + 1)) + 1
                ELSE Cardinality(CtrFrom(n, l + 1))
<1>1. Len(Layers[n]) \in Nat /\ FileLevel(n) = Len(Layers[n]) + 1
  BY NodeLayers
<1>2. ASSUME NEW l \in Nat PROVE IsFiniteSet(CtrFrom(n, l))
  <2>1. IsFiniteSet(l .. Len(Layers[n]))
    BY <1>1, FS_Interval
  <2>2. CtrFrom(n, l) \in SUBSET (l .. Len(Layers[n]))
    BY DEF CtrFrom
  <2> QED
    BY <2>1, <2>2, FS_Subset
<1>3. CtrFrom(n, FileLevel(n)) = {}
  BY <1>1 DEF CtrFrom
<1>4. Cardinality(CtrFrom(n, FileLevel(n))) = 0
  BY <1>3, FS_EmptySet
<1>5. \A l \in 1 .. FileLevel(n) : Cardinality(CtrFrom(n, l)) \in Nat
  <2> TAKE l \in 1 .. FileLevel(n)
  <2>1. IsFiniteSet(CtrFrom(n, l))
    BY <1>2
  <2> QED
    BY <2>1, FS_CardinalityType
<1>6. ASSUME NEW l \in 1 .. Len(Layers[n])
      PROVE  Cardinality(CtrFrom(n, l)) =
               IF IsCtr(n, l) THEN Cardinality(CtrFrom(n, l + 1)) + 1
               ELSE Cardinality(CtrFrom(n, l + 1))
  <2>1. l .. Len(Layers[n]) = {l} \cup (l + 1 .. Len(Layers[n])) /\ l \notin l + 1 .. Len(Layers[n])
    BY <1>1
  <2>2. CASE IsCtr(n, l)
    <3>1. CtrFrom(n, l) = CtrFrom(n, l + 1) \cup {l} /\ l \notin CtrFrom(n, l + 1)
      BY <2>1, <2>2 DEF CtrFrom
    <3>2. IsFiniteSet(CtrFrom(n, l + 1))
      BY <1>2
    <3> QED
      BY <2>2, <3>1, <3>2, FS_AddElement
  <2>3. CASE ~ IsCtr(n, l)
    <3>1. CtrFrom(n, l) = CtrFrom(n, l + 1)
      BY <2>1, <2>3 DEF CtrFrom
    <3> QED
      BY <2>3, <3>1
  <2> QED
    BY <2>2, <2>3
<1> QED
  BY <1>4, <1>5, <1>6

-----------------------------------------------------------------------------
(* Requests.  What a level is asked for, with the position it is sought to *)
(* first, follows from what the level above was asked for.                 *)

Request == [at : Nat, want : Nat]

\* The locals of CtrFile::read.
FrameFor(n, l, r) ==
  LET start == AlignDown(Lesser(r.at, SizeAt(n, l)), Block)
      skip == r.at - start
  IN  [size |-> r.want, start |-> start, skip |-> skip,
       span |-> AlignUp(Lesser(r.want + skip, SizeAt(n, l) - start), Block)]

Below(n, l, r) ==
  LET at == Lesser(r.at, SizeAt(n, l))
  IN  IF IsCtr(n, l)
        THEN [at |-> FrameFor(n, l, r).start + Layers[n][l].offset,
              want |-> FrameFor(n, l, r).span]
        ELSE [at |-> at + Layers[n][l].offset, want |-> Lesser(r.want, SizeAt(n, l) - at)]

\* Requests that begin in the level, on a block or without going past its end.
Fit(n, l, r) ==
  /\ r \in Request
  /\ r.at <= SizeAt(n, l)
  /\ Multiple(r.at) \/ r.at + r.want <= SizeAt(n, l)

\* The blocks CtrFile::read asks for begin at or before the position and reach
\* as far as the request does, or to the end of the section.
LEMMA FrameOK ==
  ASSUME NEW n \in Nodes, NEW l \in 1 .. FileLevel(n), NEW r, Fit(n, l, r)
  PROVE  /\ FrameFor(n, l, r).size = r.want
         /\ FrameFor(n, l, r).start \in Nat /\ Multiple(FrameFor(n, l, r).start)
         /\ FrameFor(n, l, r).skip \in Nat /\ FrameFor(n, l, r).span \in Nat
         /\ FrameFor(n, l, r).start + FrameFor(n, l, r).skip = r.at
         /\ r.at + r.want <= SizeAt(n, l) =>
              r.want + FrameFor(n, l, r).skip <= FrameFor(n, l, r).span
         /\ r.at + r.want > SizeAt(n, l) =>
              /\ SizeAt(n, l) - FrameFor(n, l, r).start <= FrameFor(n, l, r).span
              /\ FrameFor(n, l, r).skip = 0
<1> DEFINE size == SizeAt(n, l)
           start == AlignDown(Lesser(r.at, size), Block)
           skip == r.at - start
           span == AlignUp(Lesser(r.want + skip, size - start), Block)
<1>1. r.at \in Nat /\ r.want \in Nat /\ size \in Nat /\ r.at <= size
  BY SizeType DEF Fit, Request
<1>2. Lesser(r.at, size) = r.at
  BY <1>1, LesserOf
<1>3. start \in Nat /\ Multiple(start) /\ start <= r.at
  BY <1>1, <1>2, Down
<1>4. Multiple(r.at) => start = r.at
  BY <1>1, <1>2, MultipleStays
<1> HIDE DEF start, size
<1>5. skip \in Nat /\ start + skip = r.at /\ r.want + skip \in Nat /\ size - start \in Nat
  BY <1>1, <1>3
<1> HIDE DEF skip
<1>6. /\ Lesser(r.want + skip, size - start) \in Nat
      /\ r.want + skip <= size - start => Lesser(r.want + skip, size - start) = r.want + skip
      /\ size - start <= r.want + skip => Lesser(r.want + skip, size - start) = size - start
  BY <1>5, LesserOf
<1>7. span \in Nat /\ Lesser(r.want + skip, size - start) <= span
  BY <1>6, Up
<1> HIDE DEF span
<1>8. r.at + r.want <= size => r.want + skip <= span
  BY <1>1, <1>3, <1>5, <1>6, <1>7
<1>9. r.at + r.want > size => size - start <= span
  BY <1>1, <1>3, <1>5, <1>6, <1>7
<1>10. r.at + r.want > size => skip = 0
  <2>1. r.at + r.want > size => Multiple(r.at)
    BY <1>1 DEF Fit, size
  <2> QED
    BY <1>1, <1>3, <1>4, <1>5, <2>1
<1>11. FrameFor(n, l, r) = [size |-> r.want, start |-> start, skip |-> skip, span |-> span]
  BY DEF FrameFor, start, skip, span, size
<1> QED
  BY <1>3, <1>5, <1>7, <1>8, <1>9, <1>10, <1>11 DEF size

\* A layer turns a request that fits it into one that fits its base.
LEMMA BelowFits ==
  ASSUME NEW n \in Nodes, NEW l \in 1 .. Len(Layers[n]), NEW r, Fit(n, l, r)
  PROVE  Fit(n, l + 1, Below(n, l, r))
<1> DEFINE f == FrameFor(n, l, r)
           size == SizeAt(n, l)
           off == Layers[n][l].offset
<1>1. l \in 1 .. FileLevel(n)
  BY NodeLayers
<1>2. r.at \in Nat /\ r.want \in Nat /\ size \in Nat /\ r.at <= size
  BY <1>1, SizeType DEF Fit, Request
<1>3. off \in Nat /\ SizeAt(n, l + 1) \in Nat /\ off + size <= SizeAt(n, l + 1)
  BY LayerOf
<1>4. CASE IsCtr(n, l)
  <2>1. f.start \in Nat /\ Multiple(f.start) /\ f.start + f.skip = r.at /\ f.skip \in Nat
        /\ f.span \in Nat
    BY <1>1, FrameOK
  <2>2. Multiple(off)
    BY <1>4, LayerOf DEF IsCtr
  <2>3. Below(n, l, r) = [at |-> f.start + off, want |-> f.span]
    BY <1>4 DEF Below
  <2> HIDE DEF f, off, size
  <2>4. Multiple(f.start + off)
    BY <1>3, <2>1, <2>2, MultipleSum
  <2>5. f.start + off \in Nat /\ f.start + off <= SizeAt(n, l + 1)
    BY <1>2, <1>3, <2>1, SMTT(30)
  <2> QED
    BY <2>1, <2>3, <2>4, <2>5 DEF Fit, Request
<1>5. CASE ~ IsCtr(n, l)
  <2> DEFINE rest == size - r.at
  <2> HIDE DEF off, size
  <2>1. Lesser(r.at, size) = r.at
    BY <1>2, LesserOf
  <2>2. rest \in Nat /\ r.want \in Nat /\ rest = size - r.at
    BY <1>2
  <2> HIDE DEF rest
  <2>3. Lesser(r.want, rest) \in Nat /\ Lesser(r.want, rest) <= rest
    BY <2>2 DEF Lesser
  <2>4. Below(n, l, r) = [at |-> r.at + off, want |-> Lesser(r.want, rest)]
    BY <1>5, <2>1, <2>2 DEF Below, off, size
  <2>5. /\ r.at + off \in Nat /\ r.at + off <= SizeAt(n, l + 1)
        /\ (r.at + off) + Lesser(r.want, rest) <= SizeAt(n, l + 1)
    BY <1>2, <1>3, <2>2, <2>3, SMTT(30)
  <2> QED
    BY <1>2, <2>3, <2>4, <2>5 DEF Fit, Request
<1> QED
  BY <1>4, <1>5

\* What each level is asked for when the outermost one is asked for r.
Chain(n, r, g) ==
  /\ g[1] = r
  /\ \A l \in 1 .. Len(Layers[n]) : g[l + 1] = Below(n, l, g[l])
  /\ \A l \in 1 .. FileLevel(n) : Fit(n, l, g[l])

Asked(n, r) == CHOOSE g : Chain(n, r, g)

\* So the requests of all the levels exist and fit: an induction down the stack.
LEMMA ChainOK ==
  ASSUME NEW n \in Nodes, NEW r, Fit(n, 1, r)
  PROVE  Chain(n, r, Asked(n, r))
<1> DEFINE Good(g, d) ==
             /\ g[1] = r
             /\ \A l \in 1 .. d : g[l + 1] = Below(n, l, g[l])
             /\ \A l \in 1 .. d + 1 : Fit(n, l, g[l])
           T == {d \in 0 .. Len(Layers[n]) : \E g : Good(g, d)}
           one == [l \in {1} |-> r]
<1>1. Len(Layers[n]) \in Nat /\ FileLevel(n) = Len(Layers[n]) + 1
  BY NodeLayers
<1> HIDE DEF Good
<1>2. 0 \in T
  <2>1. 1 .. 0 = {} /\ 1 .. 0 + 1 = {1} /\ one[1] = r
    OBVIOUS
  <2> HIDE DEF one
  <2>2. Good(one, 0)
    BY <2>1 DEF Good
  <2> QED
    BY <1>1, <2>2
<1>3. ASSUME NEW d \in 0 .. Len(Layers[n]) - 1, d \in T PROVE d + 1 \in T
  <2>1. PICK g : Good(g, d)
    BY <1>3
  <2> DEFINE m == d + 1
             b == Below(n, m, g[m])
             h == [l \in 1 .. m + 1 |-> IF l = m + 1 THEN b ELSE g[l]]
  <2>2. m \in 1 .. Len(Layers[n]) /\ m \in Nat /\ m \in 0 .. Len(Layers[n])
    BY <1>1
  <2>3. /\ g[1] = r /\ \A l \in 1 .. m : Fit(n, l, g[l])
        /\ \A l \in 1 .. d : g[l + 1] = Below(n, l, g[l])
    BY <2>1 DEF Good
  <2>4. \A l \in 1 .. m : l \in 1 .. d \/ l = m
    BY <1>1
  <2> HIDE DEF m
  <2>5. Fit(n, m + 1, b)
    <3>1. Fit(n, m, g[m])
      BY <2>2, <2>3
    <3> QED
      BY <2>2, <3>1, BelowFits
  <2> HIDE DEF b
  <2>6. h[m + 1] = b /\ \A l \in 1 .. m : h[l] = g[l]
    BY <2>2
  <2> HIDE DEF h
  <2>7. h[1] = r
    BY <2>2, <2>3, <2>6
  <2>8. ASSUME NEW l \in 1 .. m PROVE h[l + 1] = Below(n, l, h[l])
    <3>1. CASE l = m
      BY <2>2, <2>6, <3>1 DEF b
    <3>2. CASE l \in 1 .. d /\ l # m
      <4>1. l + 1 \in 1 .. m
        BY <1>1, <2>2, <3>2 DEF m
      <4> QED
        BY <2>3, <2>6, <3>2, <4>1
    <3> QED
      BY <2>4, <3>1, <3>2
  <2>9. ASSUME NEW l \in 1 .. m + 1 PROVE Fit(n, l, h[l])
    <3>1. CASE l = m + 1
      BY <2>5, <2>6, <3>1
    <3>2. CASE l \in 1 .. m
      BY <2>3, <2>6, <3>2
    <3> QED
      BY <2>2, <3>1, <3>2
  <2>10. Good(h, m)
    BY <2>7, <2>8, <2>9 DEF Good
  <2> QED
    BY <2>2, <2>10 DEF m
<1>4. Len(Layers[n]) \in T
  <2> HIDE DEF T
  <2>1. T \in SUBSET Nat
    BY DEF T
  <2>2. 0 .. Len(Layers[n]) \subseteq T
    BY <1>1, <1>2, <1>3, <2>1, SetInduction
  <2> QED
    BY <1>1, <2>2
<1>5. PICK g : Good(g, Len(Layers[n]))
  BY <1>4
<1>6. Chain(n, r, g)
  BY <1>1, <1>5 DEF Good, Chain
<1> QED
  BY <1>6 DEF Asked

-----------------------------------------------------------------------------
(* What a level delivers.                                                  *)

\* The bytes a request is owed: those that exist.
Have(n, l, r) == Lesser(r.want, SizeAt(n, l) - r.at)

Gives(n, l, r, d) ==
  /\ Len(d) >= Have(n, l, r)
  /\ \A i \in 1 .. Have(n, l, r) : d[i] = ByteAt(n, l, r.at + i - 1)

\* The bytes owed, on both sides of the end of the level.
LEMMA HaveOf ==
  ASSUME NEW n \in Nodes, NEW l \in 1 .. FileLevel(n), NEW r, Fit(n, l, r)
  PROVE  /\ r.at \in Nat /\ r.want \in Nat /\ SizeAt(n, l) \in Nat /\ r.at <= SizeAt(n, l)
         /\ Have(n, l, r) \in Nat
         /\ r.at + r.want <= SizeAt(n, l) => Have(n, l, r) = r.want
         /\ r.at + r.want > SizeAt(n, l) => Have(n, l, r) = SizeAt(n, l) - r.at
         /\ \A i \in Nat : i <= r.want /\ r.at + i <= SizeAt(n, l) => i <= Have(n, l, r)
<1>1. r.at \in Nat /\ r.want \in Nat /\ SizeAt(n, l) \in Nat /\ r.at <= SizeAt(n, l)
  BY SizeType DEF Fit, Request
<1> QED
  BY <1>1 DEF Have, Lesser

\* What the base of an OffsetFile delivers is what the OffsetFile owes.
LEMMA OffsetGives ==
  ASSUME NEW n \in Nodes, NEW l \in 1 .. Len(Layers[n]), NEW r, Fit(n, l, r), ~ IsCtr(n, l),
         NEW d, Gives(n, l + 1, Below(n, l, r), d)
  PROVE  Gives(n, l, r, d)
<1> DEFINE b == Below(n, l, r)
           off == Layers[n][l].offset
           h == Have(n, l, r)
           P == ParentOffset(n)
<1>1. l \in 1 .. FileLevel(n) /\ l + 1 \in 1 .. FileLevel(n)
  BY NodeLayers
<1>2. Fit(n, l + 1, b)
  BY BelowFits
<1>3. /\ off \in Nat /\ off + SizeAt(n, l) <= SizeAt(n, l + 1) /\ SizeAt(n, l + 1) \in Nat
  BY LayerOf
<1>4. /\ r.at \in Nat /\ SizeAt(n, l) \in Nat /\ r.at <= SizeAt(n, l) /\ r.want \in Nat
      /\ h \in Nat
  BY <1>1, HaveOf
<1>5. b.at = r.at + off /\ b.want = h
  <2>1. Lesser(r.at, SizeAt(n, l)) = r.at
    BY <1>4, LesserOf
  <2> QED
    BY <2>1 DEF Below, Have
<1>6. h <= SizeAt(n, l) - r.at
  BY <1>4 DEF Have, Lesser
<1>7. P[l] = off + P[l + 1] /\ P[l + 1] \in Nat
  BY <1>1, Places
<1>8. Cardinality(CtrFrom(n, l)) = Cardinality(CtrFrom(n, l + 1))
  BY Clear
<1> HIDE DEF b, off, h, P
<1>9. b.at + b.want <= SizeAt(n, l + 1)
  BY <1>3, <1>4, <1>5, <1>6
<1>10. Have(n, l + 1, b) = h
  BY <1>1, <1>2, <1>5, <1>9, HaveOf
<1>11. Len(d) >= h /\ \A i \in 1 .. h : d[i] = ByteAt(n, l + 1, b.at + i - 1)
  BY <1>10 DEF Gives, b
<1>12. ASSUME NEW i \in 1 .. h PROVE d[i] = ByteAt(n, l, r.at + i - 1)
  <2>1. P[l + 1] + (b.at + i - 1) = P[l] + (r.at + i - 1)
    BY <1>3, <1>4, <1>5, <1>7
  <2> QED
    BY <1>8, <1>11, <2>1 DEF ByteAt, P
<1> QED
  BY <1>11, <1>12 DEF Gives, h

\* Byte j of the blocks d, combined with a key stream that starts at s.
Plain(n, l, s, d, j) ==
  LET b == IF j < Len(d) THEN d[j + 1] ELSE Junk
      place == s + j + ParentOffset(n)[l + 1]
  IN  IF b.at = place THEN [b EXCEPT !.clear = @ + 1] ELSE Junk

\* What CtrFile::read returns when the base delivered d.
Clearing(n, l, f, s, d) ==
  LET fits == f.span <= f.size
      skip == IF fits THEN 0 ELSE f.skip
      good == IF fits THEN f.size ELSE Lesser(f.size, f.span - f.skip)
  IN  [i \in 1 .. f.size |-> IF i <= good THEN Plain(n, l, s, d, skip + i - 1) ELSE Junk]

\* With the key stream at the first block, a CtrFile delivers what it owes.
LEMMA CtrGives ==
  ASSUME NEW n \in Nodes, NEW l \in 1 .. Len(Layers[n]), NEW r, Fit(n, l, r), IsCtr(n, l),
         NEW d, Len(d) \in Nat, Gives(n, l + 1, Below(n, l, r), d)
  PROVE  Gives(n, l, r, Clearing(n, l, FrameFor(n, l, r), Below(n, l, r).at, d))
<1> DEFINE b == Below(n, l, r)
           f == FrameFor(n, l, r)
           off == Layers[n][l].offset
           h == Have(n, l, r)
           P == ParentOffset(n)
           size == SizeAt(n, l)
           new == Clearing(n, l, f, b.at, d)
<1>1. l \in 1 .. FileLevel(n) /\ l + 1 \in 1 .. FileLevel(n)
  BY NodeLayers
<1>2. Fit(n, l + 1, b)
  BY BelowFits
<1>3. off \in Nat /\ off + size <= SizeAt(n, l + 1) /\ SizeAt(n, l + 1) \in Nat
  BY LayerOf
<1>4. /\ r.at \in Nat /\ size \in Nat /\ r.at <= size /\ r.want \in Nat /\ h \in Nat
      /\ r.at + r.want <= size => h = r.want
      /\ r.at + r.want > size => h = size - r.at
  BY <1>1, HaveOf
<1>5. /\ f.size = r.want /\ f.start \in Nat /\ f.skip \in Nat /\ f.span \in Nat
      /\ f.start + f.skip = r.at
      /\ r.at + r.want <= size => r.want + f.skip <= f.span
      /\ r.at + r.want > size => size - f.start <= f.span /\ f.skip = 0
  BY <1>1, FrameOK
<1>6. b.at = f.start + off /\ b.want = f.span
  BY DEF Below
<1>7. /\ P[l] = off + P[l + 1] /\ P[l + 1] \in Nat
      /\ Cardinality(CtrFrom(n, l)) = Cardinality(CtrFrom(n, l + 1)) + 1
  BY <1>1, Places, Clear
<1> HIDE DEF f, b, off, h, P, size
<1> DEFINE fits == f.span <= f.size
           skip == IF fits THEN 0 ELSE f.skip
           good == IF fits THEN f.size ELSE Lesser(f.size, f.span - f.skip)
<1>8. /\ h <= f.size /\ f.skip + h <= f.span /\ f.start + (f.skip + h) <= size
      /\ f.span <= f.size => f.skip = 0
      /\ h <= Lesser(f.size, f.span - f.skip)
  <2>1. PICK at \in Nat, asked \in Nat, start \in Nat, skp \in Nat, span \in Nat :
          /\ at = r.at /\ asked = r.want /\ start = f.start /\ skp = f.skip /\ span = f.span
    BY <1>4, <1>5
  <2>2. at <= size /\ start + skp = at /\ size \in Nat /\ h \in Nat
    BY <1>4, <1>5, <2>1
  <2>3. at + asked <= size => h = asked /\ asked + skp <= span
    BY <1>4, <1>5, <2>1
  <2>4. at + asked > size => h = size - at /\ size - start <= span /\ skp = 0
    BY <1>4, <1>5, <2>1
  <2>5. /\ h <= asked /\ skp + h <= span /\ start + (skp + h) <= size
        /\ span <= asked => skp = 0
        /\ h <= Lesser(asked, span - skp)
    <3>1. h <= asked /\ skp + h <= span /\ start + (skp + h) <= size /\ (span <= asked => skp = 0)
      BY <2>2, <2>3, <2>4
    <3>2. h <= span - skp
      BY <2>2, <3>1
    <3> QED
      BY <3>1, <3>2 DEF Lesser
  <2> QED
    BY <1>5, <2>1, <2>5
<1>9. skip = f.skip /\ h <= good
  BY <1>4, <1>5, <1>8
<1>10. new = [i \in 1 .. f.size |->
               IF i <= good THEN Plain(n, l, b.at, d, skip + i - 1) ELSE Junk]
  BY DEF Clearing
<1> HIDE DEF new, fits, skip, good
<1>11. Len(new) = f.size
  BY <1>4, <1>5, <1>10
<1>12. ASSUME NEW i \in 1 .. h PROVE new[i] = ByteAt(n, l, r.at + i - 1)
  <2> DEFINE j == f.skip + i - 1
             c == Cardinality(CtrFrom(n, l + 1))
  <2>1. i \in 1 .. f.size /\ i <= good /\ i \in Nat /\ i >= 1 /\ i <= h
    <3>1. i \in Nat /\ i >= 1 /\ i <= h
      BY <1>4
    <3>2. f.size \in Nat /\ h <= f.size
      BY <1>4, <1>5, <1>8
    <3>3. good \in Int
      BY <1>4, <1>5 DEF good, Lesser
    <3> QED
      BY <1>4, <1>9, <3>1, <3>2, <3>3
  <2>2. new[i] = Plain(n, l, b.at, d, j)
    BY <1>9, <1>10, <2>1
  <2>3. PICK st \in Nat, sk \in Nat, sp \in Nat :
          st = f.start /\ sk = f.skip /\ sp = f.span /\ b.at = st + off /\ st + sk = r.at
    BY <1>5, <1>6
  <2>4. j = sk + i - 1 /\ sk + h <= sp /\ st + (sk + h) <= size
    BY <1>8, <2>3
  <2> HIDE DEF j
  <2>5. j \in Nat /\ j + 1 = sk + i /\ j + 1 <= sp
    BY <1>4, <2>1, <2>4
  <2>6. (st + off) + (j + 1) <= SizeAt(n, l + 1)
    BY <1>3, <1>4, <2>1, <2>4, <2>5
  <2>7. /\ Have(n, l + 1, b) \in Nat
         /\ \A k \in Nat : k <= b.want /\ b.at + k <= SizeAt(n, l + 1) => k <= Have(n, l + 1, b)
    BY <1>1, <1>2, HaveOf
  <2>8. j + 1 <= Have(n, l + 1, b) /\ Have(n, l + 1, b) \in Nat
    <3>1. j + 1 \in Nat /\ j + 1 <= b.want /\ b.at + (j + 1) <= SizeAt(n, l + 1)
      BY <1>6, <2>3, <2>5, <2>6
    <3> QED
      BY <2>7, <3>1
  <2>9. j + 1 \in 1 .. Have(n, l + 1, b) /\ j < Len(d)
    BY <2>5, <2>8 DEF Gives, b
  <2>10. d[j + 1] = ByteAt(n, l + 1, b.at + (j + 1) - 1)
    BY <2>9 DEF Gives, b
  <2>11. b.at + (j + 1) - 1 = b.at + j /\ b.at \in Nat
    BY <1>3, <2>3, <2>5, SMTT(30)
  <2>12. d[j + 1] = [at |-> P[l + 1] + (b.at + j), clear |-> c]
    BY <2>10, <2>11 DEF ByteAt, P
  <2>13. b.at + j + P[l + 1] = P[l + 1] + (b.at + j)
    BY <1>7, <2>5, <2>11
  <2>14. Plain(n, l, b.at, d, j) = [at |-> P[l + 1] + (b.at + j), clear |-> c + 1]
    BY <2>9, <2>12, <2>13 DEF Plain, P
  <2>15. P[l + 1] + (b.at + j) = P[l] + (r.at + i - 1)
    <3>1. PICK p \in Nat : p = P[l + 1] /\ P[l] = off + p
      BY <1>7
    <3>2. p + ((st + off) + j) = (off + p) + ((st + sk) + i - 1)
      BY <1>3, <2>1, <2>5, <3>1, SMTT(30)
    <3> QED
      BY <2>3, <3>1, <3>2
  <2> QED
    BY <1>7, <2>2, <2>14, <2>15 DEF ByteAt, P
<1> QED
  BY <1>8, <1>11, <1>12 DEF Gives, h, new, f, b

\* File::read delivers what the archive has.
LEMMA FileGives ==
  ASSUME NEW n \in Nodes, NEW r, Fit(n, FileLevel(n), r),
         NEW got, got = Have(n, FileLevel(n), r)
  PROVE  Gives(n, FileLevel(n), r, [i \in 1 .. got |-> [at |-> r.at + i - 1, clear |-> 0]])
<1>1. FileLevel(n) \in 1 .. FileLevel(n)
  BY NodeLayers
<1>2. r.at \in Nat /\ got \in Nat
  BY <1>1, HaveOf
<1>3. ParentOffset(n)[FileLevel(n)] = 0 /\ Cardinality(CtrFrom(n, FileLevel(n))) = 0
  BY Places, Clear
<1>4. ASSUME NEW i \in 1 .. got
      PROVE  [at |-> r.at + i - 1, clear |-> 0] = ByteAt(n, FileLevel(n), r.at + i - 1)
  <2>1. r.at + i - 1 = 0 + (r.at + i - 1)
    BY <1>2
  <2> QED
    BY <1>3, <2>1 DEF ByteAt
<1> QED
  BY <1>2, <1>4 DEF Gives

-----------------------------------------------------------------------------
(* Types.                                                                  *)

\* Where in the stack each step of a read is.
Control(t) ==
  LET n == ask[t].node
      l == level[t]
  IN  /\ pc[t] \in {"idle", "seek"} => l = 0
      /\ pc[t] \notin {"idle", "seek"} => l \in 1 .. FileLevel(n)
      /\ pc[t] \in {"lock", "setctr", "decrypt"} => l \in 1 .. Len(Layers[n]) /\ IsCtr(n, l)
      /\ pc[t] \in {"fseek", "fread"} => l = FileLevel(n)
      /\ pc[t] # "idle" => reads[t] < MaxReads

TypeInv == TypeOK /\ \A t \in Threads : Control(t)

\* The steps of a read that is under way, by what they do.
Reading(t) ==
  \/ Seek(t) \/ Deliver(t) \/ CallOffset(t) \/ ReturnOffset(t) \/ CallCtr(t) \/ LockCipher(t)
  \/ SetCounter(t) \/ ReturnToCtr(t) \/ Decrypt(t) \/ LockFile(t) \/ FSeek(t) \/ FRead(t)

Asking(t) ==
  \E n \in MayRead[t], offset \in 0 .. FileLen, size \in 0 .. MaxSize :
    Ask(t, n, offset, size)

\* A step is a request, a step of one read, or nothing.
LEMMA NextKinds ==
  [Next]_vars => \/ \E t \in Threads : reads[t] < MaxReads /\ Asking(t)
                 \/ \E t \in Threads : Reading(t)
                 \/ UNCHANGED vars
BY DEF Next, ThreadStep, Reading, Asking, Finished

\* What a thread has is its own.
LEMMA OthersStay ==
  ASSUME TypeOK, NEW t \in Threads, Asking(t) \/ Reading(t), NEW u \in Threads, u # t
  PROVE  /\ pc'[u] = pc[u] /\ ask'[u] = ask[u] /\ level'[u] = level[u] /\ want'[u] = want[u]
         /\ frame'[u] = frame[u] /\ data'[u] = data[u] /\ reads'[u] = reads[u]
<1>1. CASE Asking(t)
  BY <1>1 DEF Asking, Ask, Goto, TypeOK
<1>2. CASE Seek(t)
  BY <1>2 DEF Seek, Goto, TypeOK, call, CallBase
<1>3. CASE Deliver(t)
  BY <1>3 DEF Deliver, Goto, TypeOK, call
<1>4. CASE CallOffset(t)
  BY <1>4 DEF CallOffset, Goto, TypeOK, call
<1>5. CASE ReturnOffset(t)
  BY <1>5 DEF ReturnOffset, Goto, TypeOK, call
<1>6. CASE CallCtr(t)
  BY <1>6 DEF CallCtr, Goto, TypeOK, call
<1>7. CASE LockCipher(t)
  BY <1>7 DEF LockCipher, Goto, TypeOK, call
<1>8. CASE SetCounter(t)
  BY <1>8 DEF SetCounter, Goto, TypeOK, call, CallBase
<1>9. CASE ReturnToCtr(t)
  BY <1>9 DEF ReturnToCtr, Goto, TypeOK, call
<1>10. CASE Decrypt(t)
  BY <1>10 DEF Decrypt, Goto, TypeOK, call
<1>11. CASE LockFile(t)
  BY <1>11 DEF LockFile, Goto, TypeOK, call
<1>12. CASE FSeek(t)
  BY <1>12 DEF FSeek, Goto, TypeOK, call
<1>13. CASE FRead(t)
  BY <1>13 DEF FRead, Goto, TypeOK, call
<1> QED
  BY <1>1, <1>2, <1>3, <1>4, <1>5, <1>6, <1>7, <1>8, <1>9, <1>10, <1>11, <1>12, <1>13 DEF Reading

PosOK(p) == DOMAIN p = Nodes /\ \A n \in Nodes : p[n] \in [1 .. FileLevel(n) -> Nat]

\* Setting one position.
LEMMA PosSet ==
  ASSUME NEW p, PosOK(p), NEW n \in Nodes, NEW l \in 1 .. FileLevel(n), NEW v \in Nat
  PROVE  /\ PosOK([p EXCEPT ![n][l] = v])
         /\ [p EXCEPT ![n][l] = v][n][l] = v
         /\ \A m \in Nodes : m # n => [p EXCEPT ![n][l] = v][m] = p[m]
         /\ \A k \in 1 .. FileLevel(n) : k # l => [p EXCEPT ![n][l] = v][n][k] = p[n][k]
BY DEF PosOK

\* Where a thread is, in types.
LEMMA Placed ==
  ASSUME TypeInv, NEW t \in Threads
  PROVE  /\ ask[t] \in Asks /\ ask[t].node \in Nodes /\ ask[t].offset \in Nat /\ ask[t].size \in Nat
         /\ FileLevel(ask[t].node) \in Nat \ {0} /\ FileLevel(ask[t].node) <= Depth
         /\ FileLevel(ask[t].node) = Len(Layers[ask[t].node]) + 1
         /\ level[t] \in Nat /\ want[t] \in Nat /\ fpos \in Nat
         /\ PosOK(pos)
         /\ Control(t)
<1>1. ask[t] \in Asks
  BY DEF TypeInv, TypeOK
<1>2. /\ ask[t].node \in Nodes /\ ask[t].offset \in Nat /\ ask[t].size \in Nat
  BY <1>1 DEF Asks
<1>3. level[t] \in Nat /\ want[t] \in Nat /\ fpos \in Nat /\ PosOK(pos) /\ Control(t)
  BY DEF TypeInv, TypeOK, PosOK
<1> QED
  BY <1>1, <1>2, <1>3, NodeLayers

\* The locals of CtrFile::read are numbers, wherever the position is.
LEMMA CtrFrame ==
  ASSUME NEW n \in Nodes, NEW l \in 1 .. FileLevel(n), NEW at \in Nat, NEW want0 \in Nat
  PROVE  LET start == AlignDown(Lesser(at, SizeAt(n, l)), Block)
             skip == at - start
             span == AlignUp(Lesser(want0 + skip, SizeAt(n, l) - start), Block)
         IN  start \in Nat /\ skip \in Nat /\ span \in Nat
<1> DEFINE low == Lesser(at, SizeAt(n, l))
           start == AlignDown(low, Block)
           skip == at - start
           some == Lesser(want0 + skip, SizeAt(n, l) - start)
<1>1. low \in Nat /\ low <= at /\ low <= SizeAt(n, l) /\ SizeAt(n, l) \in Nat
  BY SizeType, LesserOf
<1> HIDE DEF low
<1>2. start \in Nat /\ start <= low
  BY <1>1, Down
<1> HIDE DEF start
<1>3. skip \in Nat /\ SizeAt(n, l) - start \in Nat
  BY <1>1, <1>2
<1>4. some \in Nat
  BY <1>3 DEF Lesser
<1> HIDE DEF some
<1>5. AlignUp(some, Block) \in Nat
  BY <1>4, Up
<1> QED
  BY <1>2, <1>3, <1>5 DEF some, start, low

\* A thread that is not in a read has the request of no read.
LEMMA NoAskType ==
  NoAsk \in Asks
<1>1. Nodes # {} /\ FileLen \in Nat /\ MaxSize \in Nat
  BY IoAssumption
<1>2. (CHOOSE n \in Nodes : TRUE) \in Nodes
  BY <1>1
<1> QED
  BY <1>1, <1>2 DEF NoAsk, Asks

\* Init has the types.
LEMMA TypeInit ==
  Init => TypeInv
<1> SUFFICES ASSUME Init PROVE TypeInv
  OBVIOUS
<1>1. NoAsk \in Asks
  BY NoAskType
<1>2. Depth \in Nat /\ MaxReads \in Nat
  BY IoAssumption
<1>3. TypeOK
  <2>1. \A n \in Nodes : pos[n] \in [1 .. FileLevel(n) -> Nat]
    BY DEF Init
  <2>2. frame \in [Threads -> [1 .. Depth -> [size : Nat, start : Nat, skip : Nat, span : Nat]]]
    BY DEF Init, NoFrame
  <2>3. data \in [Threads -> Seq(Byte)]
    BY DEF Init
  <2>4. /\ pc \in [Threads -> {"idle", "seek", "call", "lock", "setctr", "fseek",
                              "fread", "return", "decrypt"}]
        /\ ask \in [Threads -> Asks] /\ level \in [Threads -> 0 .. Depth]
        /\ want \in [Threads -> Nat] /\ reads \in [Threads -> 0 .. MaxReads]
    BY <1>1, <1>2 DEF Init
  <2>5. DOMAIN pos = Nodes /\ fpos \in Nat /\ flock \in Threads \cup {Nobody}
        /\ stream \in [Ciphers -> Nat] /\ cmtx \in [Ciphers -> Threads \cup {Nobody}]
    BY DEF Init
  <2> QED
    BY <2>1, <2>2, <2>3, <2>4, <2>5 DEF TypeOK
<1>4. \A t \in Threads : Control(t)
  BY DEF Init, Control
<1> QED
  BY <1>3, <1>4 DEF TypeInv

\* One lemma an action: it keeps the types and leaves its thread in place.
LEMMA AskType ==
  ASSUME TypeInv, NEW t \in Threads, reads[t] < MaxReads, Asking(t)
  PROVE  TypeOK' /\ Control(t)'
<1>1. PICK n \in MayRead[t], offset \in 0 .. FileLen, size \in 0 .. MaxSize :
        Ask(t, n, offset, size)
  BY DEF Asking
<1>2. n \in Nodes
  BY IoAssumption
<1>3. [node |-> n, offset |-> offset, size |-> size] \in Asks
  BY <1>2 DEF Asks
<1>4. TypeOK'
  BY <1>1, <1>3 DEF Ask, Goto, TypeInv, TypeOK, shared
<1>5. Control(t)'
  BY <1>1 DEF Ask, Goto, TypeInv, TypeOK, Control
<1> QED
  BY <1>4, <1>5

LEMMA SeekType ==
  ASSUME TypeInv, NEW t \in Threads, Seek(t)
  PROVE  TypeOK' /\ Control(t)'
<1> DEFINE n == ask[t].node
<1>1. /\ n \in Nodes /\ ask[t].offset \in Nat /\ ask[t].size \in Nat /\ level[t] = 0
      /\ FileLevel(n) \in Nat \ {0} /\ FileLevel(n) <= Depth /\ PosOK(pos) /\ pc[t] = "seek"
      /\ reads[t] < MaxReads /\ Depth \in Nat
  BY Placed, IoAssumption DEF Control, Seek, Goto
<1>2. pos' = [pos EXCEPT ![n][1] = ask[t].offset]
  BY <1>1 DEF Seek, CallBase
<1>3. PosOK(pos')
  <2> DEFINE v == ask[t].offset
  <2>1. v \in Nat /\ pos' = [pos EXCEPT ![n][1] = v] /\ 1 \in 1 .. FileLevel(n)
    BY <1>1, <1>2
  <2> HIDE DEF v
  <2> QED
    BY <1>1, <2>1, PosSet
<1>4. level' = [level EXCEPT ![t] = 1]
  BY <1>1 DEF Seek, CallBase, TypeInv, TypeOK
<1>5. TypeOK'
  <2>1. fpos' \in Nat /\ flock' \in Threads \cup {Nobody} /\ stream' \in [Ciphers -> Nat]
        /\ cmtx' \in [Ciphers -> Threads \cup {Nobody}]
    BY <1>1, <1>3, <1>4 DEF Seek, CallBase, shared, call, TypeInv, TypeOK
  <2>2. /\ pc' \in [Threads -> {"idle", "seek", "call", "lock", "setctr", "fseek",
                               "fread", "return", "decrypt"}]
        /\ ask' \in [Threads -> Asks]
        /\ level' \in [Threads -> 0 .. Depth]
    BY <1>1, <1>3, <1>4 DEF Seek, CallBase, Goto, call, TypeInv, TypeOK
  <2>3. want' \in [Threads -> Nat] /\ reads' \in [Threads -> 0 .. MaxReads]
    BY <1>1, <1>3, <1>4 DEF Seek, CallBase, call, TypeInv, TypeOK
  <2>4. frame' = frame
    BY DEF Seek, CallBase
  <2>5. data' \in [Threads -> Seq(Byte)]
    BY <1>1, <1>3, <1>4 DEF Seek, CallBase, TypeInv, TypeOK
  <2>6. PosOK(pos')
    BY <1>1, <1>3, <1>4 DEF Seek, CallBase
  <2> QED
    BY <2>1, <2>2, <2>3, <2>4, <2>5, <2>6 DEF TypeInv, TypeOK, PosOK
<1>6. Control(t)'
  BY <1>1, <1>4 DEF Seek, Goto, TypeInv, TypeOK, Control, call
<1> QED
  BY <1>5, <1>6

LEMMA DeliverType ==
  ASSUME TypeInv, NEW t \in Threads, Deliver(t)
  PROVE  TypeOK' /\ Control(t)'
<1>1. NoAsk \in Asks /\ reads[t] < MaxReads /\ reads[t] \in 0 .. MaxReads /\ MaxReads \in Nat
      /\ Depth \in Nat
  BY NoAskType, Placed, IoAssumption DEF Deliver, Goto, Control, TypeInv, TypeOK
<1>2. reads[t] + 1 \in 0 .. MaxReads
  BY <1>1
<1>3. TypeOK'
  <2>1. fpos' \in Nat /\ flock' \in Threads \cup {Nobody} /\ stream' \in [Ciphers -> Nat]
        /\ cmtx' \in [Ciphers -> Threads \cup {Nobody}]
    BY <1>1, <1>2 DEF Deliver, shared, call, TypeInv, TypeOK
  <2>2. /\ pc' \in [Threads -> {"idle", "seek", "call", "lock", "setctr", "fseek",
                               "fread", "return", "decrypt"}]
        /\ ask' \in [Threads -> Asks]
        /\ level' \in [Threads -> 0 .. Depth]
    BY <1>1, <1>2 DEF Deliver, Goto, call, TypeInv, TypeOK
  <2>3. want' \in [Threads -> Nat] /\ reads' \in [Threads -> 0 .. MaxReads]
    BY <1>1, <1>2 DEF Deliver, call, TypeInv, TypeOK
  <2>4. frame' = frame
    BY DEF Deliver
  <2>5. data' \in [Threads -> Seq(Byte)]
    BY <1>1, <1>2 DEF Deliver, TypeInv, TypeOK
  <2>6. PosOK(pos')
    BY Placed DEF Deliver
  <2> QED
    BY <2>1, <2>2, <2>3, <2>4, <2>5, <2>6 DEF TypeInv, TypeOK, PosOK
<1>4. Control(t)'
  BY DEF Deliver, Goto, TypeInv, TypeOK, Control
<1> QED
  BY <1>3, <1>4

LEMMA CallOffsetType ==
  ASSUME TypeInv, NEW t \in Threads, CallOffset(t)
  PROVE  TypeOK' /\ Control(t)'
<1> DEFINE n == ask[t].node
           l == level[t]
           at == Lesser(pos[n][l], SizeAt(n, l))
           there == pos[n][l] + want[t]
           below == at + Layers[n][l].offset
           less == Lesser(want[t], SizeAt(n, l) - at)
<1>1. /\ n \in Nodes /\ l \in 1 .. Len(Layers[n]) /\ FileLevel(n) <= Depth /\ PosOK(pos)
      /\ FileLevel(n) = Len(Layers[n]) + 1 /\ Len(Layers[n]) \in Nat
      /\ want[t] \in Nat /\ reads[t] < MaxReads /\ Depth \in Nat
  BY Placed, NodeLayers, IoAssumption DEF Control, CallOffset, Goto, InLayer
<1>2. l \in 1 .. FileLevel(n) /\ l + 1 \in 1 .. FileLevel(n) /\ l + 1 \in 0 .. Depth /\ l + 1 # 0
  BY <1>1
<1>3. Layers[n][l].offset \in Nat /\ SizeAt(n, l) \in Nat /\ pos[n][l] \in Nat
  BY <1>1, <1>2, LayerOf, SizeType DEF PosOK
<1>4. at \in Nat /\ at <= SizeAt(n, l)
  BY <1>3 DEF Lesser
<1> HIDE DEF at
<1>5. there \in Nat /\ below \in Nat /\ less \in Nat
  <2>1. there \in Nat /\ below \in Nat
    <3>1. PICK p \in Nat, w \in Nat, o \in Nat :
            p = pos[n][l] /\ w = want[t] /\ o = Layers[n][l].offset
      BY <1>1, <1>3
    <3>2. there = p + w /\ below = at + o
      BY <3>1
    <3> HIDE DEF there, below
    <3> QED
      BY <1>4, <3>2
  <2> DEFINE rest == SizeAt(n, l) - at
  <2>2. rest \in Nat
    BY <1>3, <1>4
  <2> HIDE DEF rest
  <2>3. Lesser(want[t], rest) \in Nat
    BY <1>1, <2>2 DEF Lesser
  <2> QED
    BY <2>1, <2>3 DEF rest
<1>6. /\ pos' = [pos EXCEPT ![n][l] = there, ![n][l + 1] = below]
      /\ level' = [level EXCEPT ![t] = l + 1]
      /\ want' = [want EXCEPT ![t] = less]
  BY DEF CallOffset, at
<1> HIDE DEF there, below, less
<1>7. PosOK(pos')
  BY <1>1, <1>2, <1>5, <1>6 DEF PosOK
<1>8. TypeOK'
  <2>1. fpos' \in Nat /\ flock' \in Threads \cup {Nobody} /\ stream' \in [Ciphers -> Nat]
        /\ cmtx' \in [Ciphers -> Threads \cup {Nobody}]
    BY <1>2, <1>5, <1>6, <1>7 DEF CallOffset, shared, call, TypeInv, TypeOK
  <2>2. /\ pc' \in [Threads -> {"idle", "seek", "call", "lock", "setctr", "fseek",
                               "fread", "return", "decrypt"}]
        /\ ask' \in [Threads -> Asks]
        /\ level' \in [Threads -> 0 .. Depth]
    BY <1>2, <1>5, <1>6, <1>7, SMTT(30) DEF CallOffset, Goto, call, TypeInv, TypeOK
  <2>3. want' \in [Threads -> Nat] /\ reads' \in [Threads -> 0 .. MaxReads]
    BY <1>2, <1>5, <1>6, <1>7 DEF CallOffset, call, TypeInv, TypeOK
  <2>4. frame' = frame
    BY DEF CallOffset
  <2>5. data' \in [Threads -> Seq(Byte)]
    BY <1>2, <1>5, <1>6, <1>7 DEF CallOffset, TypeInv, TypeOK
  <2>6. PosOK(pos')
    BY <1>2, <1>5, <1>6, <1>7 DEF CallOffset
  <2> QED
    BY <2>1, <2>2, <2>3, <2>4, <2>5, <2>6 DEF TypeInv, TypeOK, PosOK
<1>9. Control(t)'
  BY <1>1, <1>2, <1>6 DEF CallOffset, Goto, TypeInv, TypeOK, Control, call
<1> QED
  BY <1>8, <1>9

LEMMA ReturnOffsetType ==
  ASSUME TypeInv, NEW t \in Threads, ReturnOffset(t)
  PROVE  TypeOK' /\ Control(t)'
<1> DEFINE n == ask[t].node
           l == level[t]
<1>1. /\ n \in Nodes /\ l \in 1 .. FileLevel(n) /\ l > 1 /\ reads[t] < MaxReads
      /\ FileLevel(n) <= Depth /\ Depth \in Nat /\ FileLevel(n) \in Nat
  BY Placed, IoAssumption DEF Control, ReturnOffset, Goto
<1>2. l - 1 \in 1 .. FileLevel(n) /\ l - 1 \in 0 .. Depth
  BY <1>1
<1>3. level' = [level EXCEPT ![t] = l - 1]
  BY DEF ReturnOffset
<1>4. TypeOK'
  BY <1>2, <1>3 DEF ReturnOffset, Goto, TypeInv, TypeOK, shared, call
<1>5. Control(t)'
  BY <1>1, <1>2, <1>3 DEF ReturnOffset, Goto, TypeInv, TypeOK, Control, call
<1> QED
  BY <1>4, <1>5

LEMMA ReturnToCtrType ==
  ASSUME TypeInv, NEW t \in Threads, ReturnToCtr(t)
  PROVE  TypeOK' /\ Control(t)'
<1> DEFINE n == ask[t].node
           l == level[t]
<1>1. /\ n \in Nodes /\ l \in 1 .. FileLevel(n) /\ l > 1 /\ reads[t] < MaxReads
      /\ FileLevel(n) <= Depth /\ Depth \in Nat /\ FileLevel(n) = Len(Layers[n]) + 1
      /\ Len(Layers[n]) \in Nat /\ IsCtr(n, l - 1)
  BY Placed, NodeLayers, IoAssumption DEF Control, ReturnToCtr, Goto, IsCtr
<1>2. l - 1 \in 1 .. Len(Layers[n]) /\ l - 1 \in 1 .. FileLevel(n) /\ l - 1 \in 0 .. Depth
  BY <1>1
<1>3. level' = [level EXCEPT ![t] = l - 1]
  BY DEF ReturnToCtr
<1>4. TypeOK'
  BY <1>2, <1>3 DEF ReturnToCtr, Goto, TypeInv, TypeOK, shared, call
<1>5. Control(t)'
  BY <1>1, <1>2, <1>3 DEF ReturnToCtr, Goto, TypeInv, TypeOK, Control, call
<1> QED
  BY <1>4, <1>5

LEMMA CallCtrType ==
  ASSUME TypeInv, NEW t \in Threads, CallCtr(t)
  PROVE  TypeOK' /\ Control(t)'
<1> DEFINE n == ask[t].node
           l == level[t]
           start == AlignDown(Lesser(pos[n][l], SizeAt(n, l)), Block)
           skip == pos[n][l] - start
           span == AlignUp(Lesser(want[t] + skip, SizeAt(n, l) - start), Block)
<1>1. /\ n \in Nodes /\ l \in 1 .. Len(Layers[n]) /\ FileLevel(n) <= Depth /\ PosOK(pos)
      /\ FileLevel(n) = Len(Layers[n]) + 1 /\ Len(Layers[n]) \in Nat /\ IsCtr(n, l)
      /\ want[t] \in Nat /\ reads[t] < MaxReads /\ Depth \in Nat
  BY Placed, NodeLayers, IoAssumption DEF Control, CallCtr, Goto, InLayer, IsCtr
<1>2. l \in 1 .. FileLevel(n) /\ l \in 1 .. Depth /\ l # 0
  BY <1>1
<1>3. pos[n][l] \in Nat
  BY <1>1, <1>2 DEF PosOK
<1>4. start \in Nat /\ skip \in Nat /\ span \in Nat
  BY <1>1, <1>2, <1>3, CtrFrame
<1>5. frame' = [frame EXCEPT ![t][l] =
                  [size |-> want[t], start |-> start, skip |-> skip, span |-> span]]
  BY DEF CallCtr
<1> HIDE DEF start, skip, span
<1>6. [size |-> want[t], start |-> start, skip |-> skip, span |-> span]
        \in [size : Nat, start : Nat, skip : Nat, span : Nat]
  BY <1>1, <1>4
<1>7. frame' \in [Threads -> [1 .. Depth -> [size : Nat, start : Nat, skip : Nat, span : Nat]]]
  BY <1>2, <1>5, <1>6 DEF TypeInv, TypeOK
<1>8. TypeOK'
  BY <1>7 DEF CallCtr, Goto, TypeInv, TypeOK, shared, call
<1>9. Control(t)'
  BY <1>1, <1>2 DEF CallCtr, Goto, TypeInv, TypeOK, Control, call
<1> QED
  BY <1>8, <1>9

LEMMA LockCipherType ==
  ASSUME TypeInv, NEW t \in Threads, LockCipher(t)
  PROVE  TypeOK' /\ Control(t)'
<1>1. TypeOK'
  BY DEF LockCipher, Goto, TypeInv, TypeOK, call
<1>2. Control(t)'
  BY DEF LockCipher, Goto, TypeInv, TypeOK, Control, call
<1> QED
  BY <1>1, <1>2

LEMMA SetCounterType ==
  ASSUME TypeInv, NEW t \in Threads, SetCounter(t)
  PROVE  TypeOK' /\ Control(t)'
<1> DEFINE n == ask[t].node
           l == level[t]
           f == frame[t][l]
           at == f.start + Layers[n][l].offset
<1>1. /\ n \in Nodes /\ l \in 1 .. Len(Layers[n]) /\ FileLevel(n) <= Depth /\ PosOK(pos)
      /\ FileLevel(n) = Len(Layers[n]) + 1 /\ Len(Layers[n]) \in Nat /\ IsCtr(n, l)
      /\ reads[t] < MaxReads /\ Depth \in Nat
  BY Placed, NodeLayers, IoAssumption DEF Control, SetCounter, Goto
<1>2. l + 1 \in 1 .. FileLevel(n) /\ l \in 1 .. Depth /\ l + 1 \in 0 .. Depth /\ l + 1 # 0
  BY <1>1
<1>3. f \in [size : Nat, start : Nat, skip : Nat, span : Nat]
  BY <1>2 DEF TypeInv, TypeOK
<1>4. f.start \in Nat /\ f.span \in Nat /\ Layers[n][l].offset \in Nat
  BY <1>1, <1>3, LayerOf
<1>5. at \in Nat
  BY <1>4
<1>6. /\ pos' = [pos EXCEPT ![n][l + 1] = at]
      /\ level' = [level EXCEPT ![t] = l + 1]
      /\ want' = [want EXCEPT ![t] = f.span]
      /\ stream' = [stream EXCEPT ![CipherOf(t)] = AlignDown(at, Block)]
  BY DEF SetCounter, CallBase, FrameOf, TypeInv, TypeOK
<1> HIDE DEF at, f
<1>7. PosOK(pos')
  BY <1>1, <1>2, <1>5, <1>6, PosSet
<1>8. AlignDown(at, Block) \in Nat
  BY <1>5, Down
<1>9. TypeOK'
  BY <1>1, <1>2, <1>4, <1>6, <1>7, <1>8, ZenonT(30) DEF SetCounter, Goto, TypeInv, TypeOK, PosOK, call
<1>10. Control(t)'
  BY <1>1, <1>2, <1>6 DEF SetCounter, Goto, TypeInv, TypeOK, Control, call
<1> QED
  BY <1>9, <1>10

LEMMA LockFileType ==
  ASSUME TypeInv, NEW t \in Threads, LockFile(t)
  PROVE  TypeOK' /\ Control(t)'
<1>1. TypeOK'
  BY DEF LockFile, Goto, TypeInv, TypeOK, call
<1>2. Control(t)'
  BY DEF LockFile, InFile, Goto, TypeInv, TypeOK, Control, call
<1> QED
  BY <1>1, <1>2

LEMMA FSeekType ==
  ASSUME TypeInv, NEW t \in Threads, FSeek(t)
  PROVE  TypeOK' /\ Control(t)'
<1>1. pos[ask[t].node][level[t]] \in Nat
  BY Placed DEF Control, FSeek, Goto, PosOK
<1>2. TypeOK'
  BY <1>1 DEF FSeek, Goto, TypeInv, TypeOK, call
<1>3. Control(t)'
  BY DEF FSeek, Goto, TypeInv, TypeOK, Control, call
<1> QED
  BY <1>2, <1>3

LEMMA FReadType ==
  ASSUME TypeInv, NEW t \in Threads, FRead(t)
  PROVE  TypeOK' /\ Control(t)'
<1> DEFINE n == ask[t].node
           l == level[t]
           got == IF fpos < FileLen THEN Lesser(want[t], FileLen - fpos) ELSE 0
           bytes == [i \in 1 .. got |-> [at |-> fpos + i - 1, clear |-> 0]]
<1>1. /\ n \in Nodes /\ l \in 1 .. FileLevel(n) /\ PosOK(pos) /\ fpos \in Nat /\ want[t] \in Nat
      /\ FileLen \in Nat
  BY Placed, IoAssumption DEF Control, FRead, Goto
<1>2. got \in Nat /\ (got # 0 => fpos + got <= FileLen)
  BY <1>1 DEF Lesser
<1>3. /\ pos' = [pos EXCEPT ![n][l] = pos[n][l] + got]
      /\ fpos' = fpos + got
      /\ data' = [data EXCEPT ![t] = bytes]
  BY <1>1 DEF FRead, PosOK
<1> HIDE DEF got
<1>4. bytes \in Seq(Byte)
  <2>1. ASSUME NEW i \in 1 .. got PROVE [at |-> fpos + i - 1, clear |-> 0] \in Byte
    <3>1. fpos + i - 1 \in -1 .. FileLen - 1
      BY <1>1, <1>2
    <3> QED
      BY <3>1 DEF Byte
  <2>2. bytes \in [1 .. got -> Byte]
    BY <2>1
  <2> QED
    BY <1>2, <2>2
<1> HIDE DEF bytes
<1>5. pos[n][l] \in Nat
  BY <1>1 DEF PosOK
<1>6. pos[n][l] + got \in Nat
  BY <1>2, <1>5
<1>7. PosOK(pos')
  <2> DEFINE v == pos[n][l] + got
  <2> HIDE DEF v
  <2>1. v \in Nat /\ pos' = [pos EXCEPT ![n][l] = v]
    BY <1>3, <1>6 DEF v
  <2> QED
    BY <1>1, <2>1, PosSet
<1>8. data' \in [Threads -> Seq(Byte)]
  BY <1>3, <1>4 DEF TypeInv, TypeOK
<1>9. fpos' \in Nat
  BY <1>1, <1>2, <1>3
<1>10. TypeOK'
  <2>1. fpos' \in Nat /\ flock' \in Threads \cup {Nobody} /\ stream' \in [Ciphers -> Nat]
        /\ cmtx' \in [Ciphers -> Threads \cup {Nobody}]
    BY <1>9, <1>7, <1>8 DEF FRead, shared, call, TypeInv, TypeOK
  <2>2. /\ pc' \in [Threads -> {"idle", "seek", "call", "lock", "setctr", "fseek",
                               "fread", "return", "decrypt"}]
        /\ ask' \in [Threads -> Asks]
        /\ level' \in [Threads -> 0 .. Depth]
    BY <1>9, <1>7, <1>8 DEF FRead, Goto, call, TypeInv, TypeOK
  <2>3. want' \in [Threads -> Nat] /\ reads' \in [Threads -> 0 .. MaxReads]
    BY <1>9, <1>7, <1>8 DEF FRead, call, TypeInv, TypeOK
  <2>4. frame' = frame
    BY DEF FRead
  <2>5. data' \in [Threads -> Seq(Byte)]
    BY <1>9, <1>7, <1>8 DEF FRead, TypeInv, TypeOK
  <2>6. PosOK(pos')
    BY <1>9, <1>7, <1>8 DEF FRead
  <2> QED
    BY <2>1, <2>2, <2>3, <2>4, <2>5, <2>6 DEF TypeInv, TypeOK, PosOK
<1>11. Control(t)'
  BY DEF FRead, Goto, TypeInv, TypeOK, Control, call
<1> QED
  BY <1>10, <1>11

\* Decryption, by the byte.
LEMMA ClearingIs ==
  ASSUME TypeInv, NEW t \in Threads, Decrypt(t)
  PROVE  LET n == ask[t].node
             l == level[t]
             c == Layers[n][l].cipher
         IN  /\ n \in Nodes /\ l \in 1 .. Len(Layers[n]) /\ l \in 1 .. FileLevel(n)
             /\ l \in 1 .. Depth /\ IsCtr(n, l)
             /\ frame[t][l] \in [size : Nat, start : Nat, skip : Nat, span : Nat]
             /\ data' = [data EXCEPT ![t] = Clearing(n, l, frame[t][l], stream[c], data[t])]
             /\ cmtx' = [cmtx EXCEPT ![c] = Nobody]
             /\ frame' = [frame EXCEPT ![t][l] = NoFrame]
<1> DEFINE n == ask[t].node
           l == level[t]
           c == Layers[n][l].cipher
<1>1. /\ n \in Nodes /\ l \in 1 .. Len(Layers[n]) /\ FileLevel(n) <= Depth
      /\ FileLevel(n) = Len(Layers[n]) + 1 /\ Len(Layers[n]) \in Nat /\ IsCtr(n, l)
      /\ Depth \in Nat
  BY Placed, NodeLayers, IoAssumption DEF Control, Decrypt, Goto
<1>2. l \in 1 .. FileLevel(n) /\ l \in 1 .. Depth
  BY <1>1
<1>3. frame[t][l] \in [size : Nat, start : Nat, skip : Nat, span : Nat]
  BY <1>2 DEF TypeInv, TypeOK
<1>4. \A i : Decrypted(t, i) = Plain(n, l, stream[c], data[t], i)
  BY DEF Decrypted, Plain, CipherOf
<1>5. data' = [data EXCEPT ![t] = Clearing(n, l, frame[t][l], stream[c], data[t])]
  <2> DEFINE f == frame[t][l]
             fits == f.span <= f.size
             skip == IF fits THEN 0 ELSE f.skip
             good == IF fits THEN f.size ELSE Lesser(f.size, f.span - f.skip)
  <2>1. data' = [data EXCEPT ![t] =
                   [i \in 1 .. f.size |->
                      IF i <= good THEN Decrypted(t, skip + i - 1) ELSE Junk]]
    BY DEF Decrypt, FrameOf
  <2> DEFINE one == [i \in 1 .. f.size |->
                       IF i <= good THEN Decrypted(t, skip + i - 1) ELSE Junk]
             two == [i \in 1 .. f.size |->
                       IF i <= good THEN Plain(n, l, stream[c], data[t], skip + i - 1) ELSE Junk]
  <2> HIDE DEF f, skip, good, fits
  <2>2. one = two
    BY <1>4
  <2> HIDE DEF one, two
  <2>3. Clearing(n, l, f, stream[c], data[t]) = two
    BY DEF Clearing, two, good, skip, fits
  <2> QED
    BY <2>1, <2>2, <2>3 DEF one, f
<1> QED
  BY <1>1, <1>2, <1>3, <1>5 DEF Decrypt, CipherOf

\* Decrypted bytes are bytes.
LEMMA ClearingType ==
  ASSUME NEW n, NEW l, NEW f \in [size : Nat, start : Nat, skip : Nat, span : Nat],
         NEW s, NEW d \in Seq(Byte)
  PROVE  Clearing(n, l, f, s, d) \in Seq(Byte)
<1> DEFINE fits == f.span <= f.size
           skip == IF fits THEN 0 ELSE f.skip
           good == IF fits THEN f.size ELSE Lesser(f.size, f.span - f.skip)
<1>1. f.size \in Nat /\ skip \in Nat
  OBVIOUS
<1>2. Junk \in Byte
  <2>1. -1 \in -1 .. FileLen - 1
    BY IoAssumption
  <2> QED
    BY <2>1 DEF Junk, Byte
<1>3. ASSUME NEW j \in Nat PROVE Plain(n, l, s, d, j) \in Byte
  <2> DEFINE b == IF j < Len(d) THEN d[j + 1] ELSE Junk
  <2>1. b \in Byte
    <3>1. CASE j < Len(d)
      <4>1. j + 1 \in 1 .. Len(d)
        BY <3>1
      <4> QED
        BY <3>1, <4>1
    <3>2. CASE ~ (j < Len(d))
      BY <1>2, <3>2
    <3> QED
      BY <3>1, <3>2
  <2> HIDE DEF b
  <2>2. [b EXCEPT !.clear = @ + 1] \in Byte
    BY <2>1 DEF Byte
  <2> QED
    BY <1>2, <2>2 DEF Plain, b
<1> DEFINE e(i) == IF i <= good THEN Plain(n, l, s, d, skip + i - 1) ELSE Junk
<1>4. Clearing(n, l, f, s, d) = [i \in 1 .. f.size |-> e(i)]
  BY DEF Clearing
<1> HIDE DEF skip, good
<1>5. ASSUME NEW i \in 1 .. f.size PROVE e(i) \in Byte
  <2>1. skip + i - 1 \in Nat
    BY <1>1
  <2>2. Plain(n, l, s, d, skip + i - 1) \in Byte
    BY <1>3, <2>1
  <2> QED
    BY <1>2, <2>2
<1> HIDE DEF e
<1>6. [i \in 1 .. f.size |-> e(i)] \in [1 .. f.size -> Byte]
  BY <1>5
<1> QED
  BY <1>1, <1>4, <1>6

LEMMA DecryptType ==
  ASSUME TypeInv, NEW t \in Threads, Decrypt(t)
  PROVE  TypeOK' /\ Control(t)'
<1> DEFINE n == ask[t].node
           l == level[t]
           c == Layers[n][l].cipher
           f == frame[t][l]
           more == IF f.span <= f.size THEN f.size ELSE f.span
<1>1. /\ n \in Nodes /\ l \in 1 .. Len(Layers[n]) /\ l \in 1 .. FileLevel(n)
      /\ l \in 1 .. Depth /\ IsCtr(n, l)
      /\ f \in [size : Nat, start : Nat, skip : Nat, span : Nat]
      /\ data' = [data EXCEPT ![t] = Clearing(n, l, f, stream[c], data[t])]
      /\ cmtx' = [cmtx EXCEPT ![c] = Nobody]
      /\ frame' = [frame EXCEPT ![t][l] = NoFrame]
  BY ClearingIs
<1>2. PosOK(pos) /\ reads[t] < MaxReads
  BY Placed DEF Control, Decrypt, Goto
<1>3. c \in Ciphers
  BY <1>1, LayerOf DEF IsCtr
<1>4. data[t] \in Seq(Byte) /\ stream[c] \in Nat
  BY <1>3 DEF TypeInv, TypeOK
<1>5. Clearing(n, l, f, stream[c], data[t]) \in Seq(Byte)
  BY <1>1, <1>4, ClearingType
<1>6. data' \in [Threads -> Seq(Byte)]
  BY <1>1, <1>5 DEF TypeInv, TypeOK
<1>7. /\ pos' = [pos EXCEPT ![n][l] = pos[n][l] + f.size]
      /\ stream' = [stream EXCEPT ![c] = stream[c] + more]
  BY <1>1, <1>2, <1>3 DEF Decrypt, FrameOf, CipherOf, PosOK, TypeInv, TypeOK
<1>8. pos[n][l] \in Nat /\ f.size \in Nat /\ more \in Nat
  BY <1>1, <1>2 DEF PosOK
<1>9. PosOK(pos')
  <2> DEFINE v == pos[n][l] + f.size
  <2>1. v \in Nat
    BY <1>8
  <2> HIDE DEF v
  <2>2. pos' = [pos EXCEPT ![n][l] = v]
    BY <1>7 DEF v
  <2> QED
    BY <1>1, <1>2, <2>1, <2>2, PosSet
<1> HIDE DEF more, f
<1>10. NoFrame \in [size : Nat, start : Nat, skip : Nat, span : Nat]
  BY DEF NoFrame
<1>11. frame' \in [Threads -> [1 .. Depth -> [size : Nat, start : Nat, skip : Nat, span : Nat]]]
  BY <1>1, <1>10 DEF TypeInv, TypeOK
<1>12. stream' \in [Ciphers -> Nat]
  BY <1>3, <1>4, <1>7, <1>8 DEF TypeInv, TypeOK
<1>13. TypeOK'
  BY <1>1, <1>6, <1>9, <1>11, <1>12 DEF Decrypt, Goto, TypeInv, TypeOK, PosOK, call
<1>14. Control(t)'
  BY <1>1, <1>2 DEF Decrypt, Goto, TypeInv, TypeOK, Control, call
<1> QED
  BY <1>13, <1>14

\* A step keeps the types.
LEMMA TypeStep ==
  TypeInv /\ [Next]_vars => TypeInv'
<1> SUFFICES ASSUME TypeInv, [Next]_vars PROVE TypeInv'
  OBVIOUS
<1>1. ASSUME NEW t \in Threads, Asking(t) \/ Reading(t), TypeOK' /\ Control(t)'
      PROVE  TypeInv'
  <2>1. ASSUME NEW u \in Threads, u # t PROVE Control(u)'
    <3>1. /\ pc'[u] = pc[u] /\ ask'[u] = ask[u] /\ level'[u] = level[u]
          /\ reads'[u] = reads[u]
      BY <1>1, <2>1, OthersStay DEF TypeInv
    <3>2. Control(u)
      BY DEF TypeInv
    <3> QED
      BY <3>1, <3>2 DEF Control
  <2> QED
    BY <1>1, <2>1 DEF TypeInv
<1>2. CASE \E t \in Threads : reads[t] < MaxReads /\ Asking(t)
  BY <1>1, <1>2, AskType
<1>3. CASE \E t \in Threads : Reading(t)
  <2>1. PICK t \in Threads : Reading(t)
    BY <1>3
  <2>2. TypeOK' /\ Control(t)'
    BY <2>1, SeekType, DeliverType, CallOffsetType, ReturnOffsetType, CallCtrType,
       LockCipherType, SetCounterType, ReturnToCtrType, DecryptType, LockFileType,
       FSeekType, FReadType DEF Reading
  <2> QED
    BY <1>1, <2>1, <2>2
<1>4. CASE UNCHANGED vars
  BY <1>4 DEF vars, shared, call, TypeInv, TypeOK, Control
<1> QED
  BY <1>2, <1>3, <1>4, NextKinds

\* Every variable keeps its type, whoever reads what: the level a thread is in
\* exists in the node it reads, and no size or position becomes negative.
THEOREM TypeCorrect ==
  Spec => []TypeOK
<1>1. TypeInv => TypeOK
  BY DEF TypeInv
<1> QED
  BY <1>1, TypeInit, TypeStep, PTL DEF Spec

-----------------------------------------------------------------------------
(* What a read is doing.                                                   *)

\* No node is read by two threads.  dump copies different nodes unless a folder
\* and a file in it are asked for together, FUSE does not see to it.
Apart ==
  \A t, u \in Threads : t # u => MayRead[t] \cap MayRead[u] = {}

Req(t) == [at |-> ask[t].offset, want |-> ask[t].size]

\* What each level of the node t reads is asked for.
Goal(t) == Asked(ask[t].node, Req(t))

\* The levels whose cipher a read holds.
HeldAt(n, l, p) ==
  {k \in 1 .. Len(Layers[n]) : /\ IsCtr(n, k)
                               /\ k < l \/ (k = l /\ p \in {"setctr", "decrypt"})}

Sound(t) == ask[t].node \in MayRead[t] /\ Fit(ask[t].node, 1, Req(t))

Held(t) ==
  LET n == ask[t].node
      H == HeldAt(n, level[t], pc[t])
  IN  /\ \A k \in H : /\ cmtx[Layers[n][k].cipher] = t
                      /\ frame[t][k] = FrameFor(n, k, Goal(t)[k])
                      /\ \/ stream[Layers[n][k].cipher] = Goal(t)[k + 1].at
                         \/ k = level[t] /\ pc[t] = "setctr"
      /\ \A k, j \in H : k # j => Layers[n][k].cipher # Layers[n][j].cipher

Here(t) ==
  LET n == ask[t].node
      l == level[t]
      g == Goal(t)
  IN  /\ pc[t] \in {"call", "fseek"} => pos[n][l] = g[l].at
      /\ pc[t] \in {"call", "fseek", "fread"} => want[t] = g[l].want
      /\ pc[t] \in {"lock", "setctr"} => frame[t][l] = FrameFor(n, l, g[l])
      /\ pc[t] \in {"fseek", "fread"} => flock = t
      /\ pc[t] = "fread" => fpos = g[l].at
      /\ pc[t] = "return" => Gives(n, l, g[l], data[t])
      /\ pc[t] = "decrypt" => Gives(n, l + 1, g[l + 1], data[t])

Inside(t) == pc[t] # "idle" => Sound(t) /\ Held(t) /\ Here(t)

IInv == TypeInv /\ \A t \in Threads : Inside(t)

\* The requests of the levels fit.
LEMMA Goals ==
  ASSUME TypeInv, NEW t \in Threads, Sound(t)
  PROVE  LET n == ask[t].node
             g == Goal(t)
         IN  /\ n \in Nodes /\ g[1] = Req(t)
             /\ \A l \in 1 .. Len(Layers[n]) : g[l + 1] = Below(n, l, g[l])
             /\ \A l \in 1 .. FileLevel(n) : Fit(n, l, g[l])
<1>1. ask[t].node \in Nodes /\ Fit(ask[t].node, 1, Req(t))
  BY Placed DEF Sound
<1>2. Chain(ask[t].node, Req(t), Goal(t))
  BY <1>1, ChainOK DEF Goal
<1> QED
  BY <1>1, <1>2 DEF Chain

\* What a step of t leaves to the others.
LEMMA SharedStays ==
  ASSUME TypeInv, NEW t \in Threads, Inside(t), Asking(t) \/ Reading(t),
         NEW u \in Threads, u # t
  PROVE  /\ \A m \in Nodes : m # ask[t].node => pos'[m] = pos[m]
         /\ flock = u => flock' = u /\ fpos' = fpos
         /\ \A c \in Ciphers : cmtx[c] = u => cmtx'[c] = u /\ stream'[c] = stream[c]
<1>1. CASE Asking(t)
  BY <1>1 DEF Asking, Ask, shared
<1>2. /\ stream \in [Ciphers -> Nat] /\ cmtx \in [Ciphers -> Threads \cup {Nobody}]
      /\ DOMAIN pos = Nodes /\ ask[t].node \in Nodes
      /\ Nobody \notin Threads
  BY Placed, IoAssumption DEF TypeInv, TypeOK
<1>3. CASE Seek(t)
  BY <1>2, <1>3 DEF Seek, CallBase, shared
<1>4. CASE Deliver(t)
  BY <1>4 DEF Deliver, shared
<1>5. CASE CallOffset(t)
  BY <1>2, <1>5 DEF CallOffset, shared
<1>6. CASE ReturnOffset(t)
  BY <1>6 DEF ReturnOffset, shared
<1>7. CASE CallCtr(t)
  BY <1>7 DEF CallCtr, shared
<1>8. CASE LockCipher(t)
  BY <1>2, <1>8 DEF LockCipher
<1>9. CASE ReturnToCtr(t)
  BY <1>9 DEF ReturnToCtr, shared
<1>10. CASE LockFile(t)
  BY <1>2, <1>10 DEF LockFile
<1>11. CASE FSeek(t)
  BY <1>2, <1>11 DEF FSeek, Goto, Inside, Here
<1>12. CASE FRead(t)
  BY <1>2, <1>12 DEF FRead, Goto, Inside, Here
<1>13. ASSUME SetCounter(t) \/ Decrypt(t) PROVE cmtx[CipherOf(t)] = t
  <2>1. level[t] \in HeldAt(ask[t].node, level[t], pc[t])
    BY <1>13, Placed DEF SetCounter, Decrypt, Goto, Control, HeldAt
  <2> QED
    BY <1>13, <2>1 DEF SetCounter, Decrypt, Goto, Inside, Held, CipherOf
<1>14. CASE SetCounter(t)
  BY <1>2, <1>13, <1>14 DEF SetCounter, CallBase
<1>15. CASE Decrypt(t)
  BY <1>2, <1>13, <1>15 DEF Decrypt
<1> QED
  BY <1>1, <1>3, <1>4, <1>5, <1>6, <1>7, <1>8, <1>9, <1>10, <1>11, <1>12, <1>14, <1>15 DEF Reading

\* So a read that is under way does not notice the others.
LEMMA OthersKeep ==
  ASSUME TypeInv, Apart, NEW t \in Threads, Inside(t), Asking(t) \/ Reading(t),
         NEW u \in Threads, u # t, Inside(u), pc[t] # "idle" \/ pos' = pos
  PROVE  Inside(u)'
<1> SUFFICES ASSUME pc[u] # "idle" PROVE Sound(u)' /\ Held(u)' /\ Here(u)'
  BY OthersStay DEF TypeInv, Inside
<1> DEFINE n == ask[u].node
           l == level[u]
<1>1. /\ pc'[u] = pc[u] /\ ask'[u] = ask[u] /\ level'[u] = level[u] /\ want'[u] = want[u]
      /\ frame'[u] = frame[u] /\ data'[u] = data[u]
  BY OthersStay DEF TypeInv
<1>2. /\ \A m \in Nodes : m # ask[t].node => pos'[m] = pos[m]
      /\ flock = u => flock' = u /\ fpos' = fpos
      /\ \A c \in Ciphers : cmtx[c] = u => cmtx'[c] = u /\ stream'[c] = stream[c]
  BY SharedStays
<1>3. Sound(u) /\ Held(u) /\ Here(u) /\ n \in Nodes
  BY Placed DEF Inside
<1>4. pos'[n] = pos[n]
  <2>1. CASE pc[t] # "idle"
    <3>1. ask[t].node \in MayRead[t] /\ n \in MayRead[u]
      BY <1>3, <2>1 DEF Inside, Sound
    <3>2. n # ask[t].node
      BY <3>1 DEF Apart
    <3> QED
      BY <1>2, <1>3, <3>2
  <2>2. CASE pos' = pos
    BY <2>2
  <2> QED
    BY <2>1, <2>2
<1>5. Req(u)' = Req(u) /\ Goal(u)' = Goal(u)
  BY <1>1 DEF Goal, Req
<1>6. Sound(u)'
  BY <1>1, <1>3, <1>5 DEF Sound
<1>7. Held(u)'
  <2>1. \A k \in HeldAt(n, l, pc[u]) : Layers[n][k].cipher \in Ciphers
    BY <1>3, LayerOf DEF HeldAt, IsCtr
  <2> QED
    BY <1>1, <1>2, <1>3, <1>5, <2>1 DEF Held
<1>8. Here(u)'
  BY <1>1, <1>2, <1>3, <1>4, <1>5 DEF Here
<1> QED
  BY <1>6, <1>7, <1>8

\* One lemma an action: what the thread was in, it is still in after it.
LEMMA AskKeeps ==
  ASSUME TypeInv, NEW t \in Threads, Asking(t)
  PROVE  Inside(t)' /\ pos' = pos
<1>1. PICK n \in MayRead[t], offset \in 0 .. FileLen, size \in 0 .. MaxSize :
        Ask(t, n, offset, size)
  BY DEF Asking
<1>2. n \in Nodes /\ FileLen \in Nat /\ MaxSize \in Nat
  BY IoAssumption
<1>3. /\ ask'[t] = [node |-> n, offset |-> offset, size |-> size] /\ pc'[t] = "seek"
      /\ level'[t] = level[t] /\ pos' = pos
  BY <1>1 DEF Ask, Goto, TypeInv, TypeOK
<1>4. level[t] = 0
  BY <1>1, Placed DEF Ask, Goto, Control
<1>5. Fit(n, 1, [at |-> offset, want |-> size])
  <2>1. 1 \in 1 .. FileLevel(n) /\ offset \in Nat /\ size \in Nat
    BY <1>2, NodeLayers
  <2>2. SizeAt(n, 1) \in Nat
    BY <1>2, <2>1, SizeType
  <2>3. offset < SizeAt(n, 1) /\ (offset % Block = 0 \/ offset + size <= SizeAt(n, 1))
    BY <1>1 DEF Ask, Askable, Size
  <2>4. offset <= SizeAt(n, 1)
    BY <2>1, <2>2, <2>3
  <2>5. offset % Block = 0 => Multiple(offset)
    BY <2>1, MultipleOf
  <2> QED
    BY <2>1, <2>3, <2>4, <2>5 DEF Fit, Request
<1>6. Sound(t)'
  BY <1>3, <1>5 DEF Sound, Req
<1>7. Held(t)'
  <2>1. HeldAt(n, 0, "seek") = {}
    BY <1>2, NodeLayers DEF HeldAt
  <2> QED
    BY <1>3, <1>4, <2>1 DEF Held
<1>8. Here(t)'
  BY <1>3 DEF Here
<1> QED
  BY <1>3, <1>6, <1>7, <1>8 DEF Inside

\* A step within a read keeps what it was asked for.
LEMMA SameRead ==
  ASSUME TypeInv, NEW t \in Threads, Inside(t), Reading(t), ~ Deliver(t)
  PROVE  /\ pc[t] # "idle" /\ Sound(t) /\ Held(t) /\ Here(t) /\ Sound(t)'
         /\ ask'[t] = ask[t] /\ Goal(t)' = Goal(t) /\ Req(t)' = Req(t)
<1>1. ask' = ask /\ pc[t] # "idle"
  BY Placed DEF Reading, Seek, CallOffset, ReturnOffset, CallCtr, LockCipher, SetCounter,
     ReturnToCtr,
     Decrypt, LockFile, FSeek, FRead, Goto, call
<1>2. Sound(t) /\ Held(t) /\ Here(t)
  BY <1>1 DEF Inside
<1>3. Goal(t)' = Goal(t) /\ Req(t)' = Req(t)
  BY <1>1 DEF Goal, Req
<1> QED
  BY <1>1, <1>2, <1>3 DEF Sound

\* FileBase::read_at positions the outermost level where the request says.
LEMMA SeekKeeps ==
  ASSUME TypeInv, NEW t \in Threads, Inside(t), Seek(t)
  PROVE  Inside(t)'
<1> DEFINE n == ask[t].node
           g == Goal(t)
<1>1. /\ ask'[t] = ask[t] /\ Goal(t)' = g /\ Sound(t)' /\ Sound(t)
  BY SameRead DEF Reading, Deliver, Seek, Goto
<1>2. /\ n \in Nodes /\ g[1] = Req(t)
  BY <1>1, Goals
<1>3. /\ level[t] = 0 /\ pc'[t] = "call" /\ level'[t] = 1
      /\ want'[t] = ask[t].size
  BY Placed DEF Seek, Goto, Control, CallBase, TypeInv, TypeOK
<1>4. pos'[n][1] = ask[t].offset
  BY <1>2, <1>3, NodeLayers, Placed DEF Seek, CallBase, PosOK
<1>5. Held(t)'
  <2>1. HeldAt(n, 1, "call") = {}
    BY <1>2, NodeLayers DEF HeldAt
  <2> QED
    BY <1>1, <1>3, <2>1 DEF Held
<1>6. Here(t)'
  BY <1>1, <1>2, <1>3, <1>4 DEF Here, Req
<1> QED
  BY <1>1, <1>5, <1>6 DEF Inside

\* OffsetFile::read asks its base for the request below.
LEMMA CallOffsetKeeps ==
  ASSUME TypeInv, NEW t \in Threads, Inside(t), CallOffset(t)
  PROVE  Inside(t)'
<1> DEFINE n == ask[t].node
           l == level[t]
           g == Goal(t)
           at == Lesser(pos[n][l], SizeAt(n, l))
<1>1. /\ ask'[t] = ask[t] /\ Goal(t)' = g /\ Sound(t)' /\ Sound(t) /\ Held(t) /\ Here(t)
  BY SameRead DEF Reading, Deliver, CallOffset, Goto
<1>2. /\ n \in Nodes /\ l \in 1 .. Len(Layers[n]) /\ ~ IsCtr(n, l) /\ Len(Layers[n]) \in Nat
      /\ l + 1 \in 1 .. FileLevel(n) /\ l \in 1 .. FileLevel(n) /\ l # l + 1
      /\ g[l + 1] = Below(n, l, g[l])
  BY <1>1, Goals, NodeLayers DEF CallOffset, InLayer, IsCtr
<1>3. /\ pc[t] = "call" /\ pc'[t] = "call" /\ level'[t] = l + 1 /\ frame'[t] = frame[t]
      /\ cmtx' = cmtx /\ stream' = stream
      /\ want'[t] = Lesser(want[t], SizeAt(n, l) - at)
  BY DEF CallOffset, Goto, TypeInv, TypeOK, shared
<1>4. pos'[n][l + 1] = at + Layers[n][l].offset
  BY <1>2, Placed DEF CallOffset, PosOK
<1>5. pos[n][l] = g[l].at /\ want[t] = g[l].want
  BY <1>1, <1>3 DEF Here
<1>6. pos'[n][l + 1] = g[l + 1].at /\ want'[t] = g[l + 1].want
  BY <1>2, <1>3, <1>4, <1>5 DEF Below
<1>7. Held(t)'
  <2>1. HeldAt(n, l + 1, "call") = HeldAt(n, l, "call")
    BY <1>2 DEF HeldAt
  <2> QED
    BY <1>1, <1>3, <2>1 DEF Held
<1>8. Here(t)'
  BY <1>1, <1>3, <1>6 DEF Here
<1> QED
  BY <1>1, <1>7, <1>8 DEF Inside

\* What the base of an OffsetFile delivered is what the OffsetFile owes.
LEMMA ReturnOffsetKeeps ==
  ASSUME TypeInv, NEW t \in Threads, Inside(t), ReturnOffset(t)
  PROVE  Inside(t)'
<1> DEFINE n == ask[t].node
           l == level[t]
           g == Goal(t)
<1>1. /\ ask'[t] = ask[t] /\ Goal(t)' = g /\ Sound(t)' /\ Sound(t) /\ Held(t) /\ Here(t)
  BY SameRead DEF Reading, Deliver, ReturnOffset, Goto, TypeInv, TypeOK
<1>2. /\ n \in Nodes /\ l \in 1 .. FileLevel(n) /\ l > 1 /\ Len(Layers[n]) \in Nat
      /\ FileLevel(n) = Len(Layers[n]) + 1
  BY Placed, NodeLayers DEF ReturnOffset, Goto, Control
<1>3. /\ l - 1 \in 1 .. Len(Layers[n]) /\ ~ IsCtr(n, l - 1) /\ (l - 1) + 1 = l
      /\ l - 1 \in 1 .. FileLevel(n)
  BY <1>2 DEF ReturnOffset, IsCtr
<1>4. g[l] = Below(n, l - 1, g[l - 1]) /\ Fit(n, l - 1, g[l - 1])
  BY <1>1, <1>3, Goals
<1>5. /\ pc[t] = "return" /\ pc'[t] = "return" /\ level'[t] = l - 1 /\ frame'[t] = frame[t]
      /\ cmtx' = cmtx /\ stream' = stream /\ data'[t] = data[t]
  BY DEF ReturnOffset, Goto, TypeInv, TypeOK, shared
<1>6. Gives(n, l - 1, g[l - 1], data[t])
  <2> DEFINE k == l - 1
             r == g[k]
             d == data[t]
  <2>1. Gives(n, k + 1, Below(n, k, r), d)
    BY <1>1, <1>3, <1>4, <1>5 DEF Here
  <2>2. k \in 1 .. Len(Layers[n]) /\ ~ IsCtr(n, k) /\ Fit(n, k, r)
    BY <1>3, <1>4
  <2> HIDE DEF k, r, d
  <2>3. Gives(n, k, r, d)
    BY <1>2, <2>1, <2>2, OffsetGives
  <2> QED
    BY <2>3 DEF k, r, d
<1>7. Held(t)'
  <2>1. HeldAt(n, l - 1, "return") = HeldAt(n, l, "return")
    BY <1>2, <1>3 DEF HeldAt
  <2> QED
    BY <1>1, <1>5, <2>1 DEF Held
<1>8. Here(t)'
  BY <1>1, <1>5, <1>6 DEF Here
<1> QED
  BY <1>1, <1>7, <1>8 DEF Inside

\* CtrFile::read has the locals of its request.
LEMMA CallCtrKeeps ==
  ASSUME TypeInv, NEW t \in Threads, Inside(t), CallCtr(t)
  PROVE  Inside(t)'
<1> DEFINE n == ask[t].node
           l == level[t]
           g == Goal(t)
           start == AlignDown(Lesser(pos[n][l], SizeAt(n, l)), Block)
           skip == pos[n][l] - start
           span == AlignUp(Lesser(want[t] + skip, SizeAt(n, l) - start), Block)
           f == [size |-> want[t], start |-> start, skip |-> skip, span |-> span]
<1>1. /\ ask'[t] = ask[t] /\ Goal(t)' = g /\ Sound(t)' /\ Sound(t) /\ Held(t) /\ Here(t)
  BY SameRead DEF Reading, Deliver, CallCtr, Goto
<1>2. /\ n \in Nodes /\ l \in 1 .. Len(Layers[n]) /\ FileLevel(n) <= Depth /\ Depth \in Nat
      /\ FileLevel(n) = Len(Layers[n]) + 1 /\ Len(Layers[n]) \in Nat
  BY Placed, NodeLayers, IoAssumption DEF CallCtr, InLayer
<1>3. /\ pc[t] = "call" /\ pc'[t] = "lock" /\ level'[t] = l
      /\ cmtx' = cmtx /\ stream' = stream
  BY DEF CallCtr, Goto, TypeInv, TypeOK, shared
<1>4. frame' = [frame EXCEPT ![t][l] = f]
  BY DEF CallCtr
<1>5. f = FrameFor(n, l, g[l])
  BY <1>1, <1>3 DEF Here, FrameFor
<1> HIDE DEF f
<1>6. frame'[t][l] = f /\ \A k \in 1 .. Depth : k # l => frame'[t][k] = frame[t][k]
  BY <1>2, <1>4 DEF TypeInv, TypeOK
<1>7. Held(t)'
  <2>1. HeldAt(n, l, "lock") = HeldAt(n, l, "call")
    BY DEF HeldAt
  <2>2. \A k \in HeldAt(n, l, "call") : k \in 1 .. Depth /\ k # l
    BY <1>2 DEF HeldAt
  <2> QED
    BY <1>1, <1>3, <1>6, <2>1, <2>2 DEF Held
<1>8. Here(t)'
  BY <1>1, <1>3, <1>5, <1>6 DEF Here
<1> QED
  BY <1>1, <1>7, <1>8 DEF Inside

\* The cipher was free, so it is none of those the read holds already.
LEMMA LockCipherKeeps ==
  ASSUME TypeInv, NEW t \in Threads, Inside(t), LockCipher(t)
  PROVE  Inside(t)'
<1> DEFINE n == ask[t].node
           l == level[t]
           g == Goal(t)
           c == Layers[n][l].cipher
<1>1. /\ ask'[t] = ask[t] /\ Goal(t)' = g /\ Sound(t)' /\ Sound(t) /\ Held(t) /\ Here(t)
  BY SameRead DEF Reading, Deliver, LockCipher, Goto
<1>2. /\ n \in Nodes /\ l \in 1 .. Len(Layers[n]) /\ IsCtr(n, l) /\ Len(Layers[n]) \in Nat
  BY Placed, NodeLayers DEF LockCipher, Goto, Control
<1>3. /\ pc[t] = "lock" /\ pc'[t] = "setctr" /\ level'[t] = l /\ frame' = frame
      /\ stream' = stream
      /\ cmtx' = [cmtx EXCEPT ![c] = t] /\ cmtx[c] = Nobody /\ Nobody # t /\ c \in Ciphers
  BY <1>2, LayerOf, IoAssumption DEF LockCipher, CipherOf, Goto, TypeInv, TypeOK, IsCtr
<1>4. cmtx'[c] = t /\ \A e \in Ciphers : cmtx[e] = t => cmtx'[e] = t /\ e # c
  BY <1>3 DEF TypeInv, TypeOK
<1>5. \A k \in HeldAt(n, l, "setctr") : /\ k \in HeldAt(n, l, "lock") \/ k = l
                                        /\ Layers[n][k].cipher \in Ciphers
  <2>1. \A k \in 1 .. Len(Layers[n]) : IsCtr(n, k) => Layers[n][k].cipher \in Ciphers
    BY <1>2, LayerOf DEF IsCtr
  <2> QED
    BY <2>1 DEF HeldAt
<1>6. /\ \A k \in HeldAt(n, l, "lock") : /\ cmtx[Layers[n][k].cipher] = t
                                         /\ frame[t][k] = FrameFor(n, k, g[k])
                                         /\ stream[Layers[n][k].cipher] = g[k + 1].at
      /\ \A k, j \in HeldAt(n, l, "lock") : k # j => Layers[n][k].cipher # Layers[n][j].cipher
  BY <1>1, <1>3 DEF Held
<1>7. frame[t][l] = FrameFor(n, l, g[l])
  BY <1>1, <1>3 DEF Here
<1>8. Held(t)'
  <2>1. ASSUME NEW k \in HeldAt(n, l, "setctr")
        PROVE  /\ cmtx'[Layers[n][k].cipher] = t
               /\ frame'[t][k] = FrameFor(n, k, g[k])
               /\ stream'[Layers[n][k].cipher] = g[k + 1].at \/ k = l
    BY <1>3, <1>4, <1>5, <1>6, <1>7
  <2>2. ASSUME NEW k \in HeldAt(n, l, "setctr"), NEW j \in HeldAt(n, l, "setctr"), k # j
        PROVE  Layers[n][k].cipher # Layers[n][j].cipher
    <3>1. CASE k = l
      BY <1>4, <1>5, <1>6, <2>2, <3>1
    <3>2. CASE k # l
      BY <1>4, <1>5, <1>6, <2>2, <3>2
    <3> QED
      BY <3>1, <3>2
  <2> QED
    BY <1>1, <1>3, <2>1, <2>2 DEF Held
<1>9. Here(t)'
  BY <1>1, <1>3, <1>7 DEF Here
<1> QED
  BY <1>1, <1>8, <1>9 DEF Inside

\* set_ctr puts the key stream where the base is sought to.
LEMMA SetCounterKeeps ==
  ASSUME TypeInv, NEW t \in Threads, Inside(t), SetCounter(t)
  PROVE  Inside(t)'
<1> DEFINE n == ask[t].node
           l == level[t]
           g == Goal(t)
           c == Layers[n][l].cipher
           b == g[l + 1]
<1>1. /\ ask'[t] = ask[t] /\ Goal(t)' = g /\ Sound(t)' /\ Sound(t) /\ Held(t) /\ Here(t)
  BY SameRead DEF Reading, Deliver, SetCounter, Goto
<1>2. /\ n \in Nodes /\ l \in 1 .. Len(Layers[n]) /\ IsCtr(n, l) /\ Len(Layers[n]) \in Nat
      /\ l \in 1 .. FileLevel(n) /\ l + 1 \in 1 .. FileLevel(n)
  BY Placed, NodeLayers DEF SetCounter, Goto, Control
<1>3. b = Below(n, l, g[l]) /\ Fit(n, l, g[l]) /\ Fit(n, l + 1, b)
  BY <1>1, <1>2, Goals
<1>4. pc[t] = "setctr" /\ frame[t][l] = FrameFor(n, l, g[l])
  BY <1>1 DEF SetCounter, Goto, Here
<1>5. /\ b.at = frame[t][l].start + Layers[n][l].offset /\ b.want = frame[t][l].span
  BY <1>2, <1>3, <1>4 DEF Below
<1>6. b.at \in Nat /\ Multiple(b.at)
  <2>1. Multiple(FrameFor(n, l, g[l]).start) /\ FrameFor(n, l, g[l]).start \in Nat
    BY <1>2, <1>3, FrameOK
  <2>2. Multiple(Layers[n][l].offset) /\ Layers[n][l].offset \in Nat
    BY <1>2, LayerOf DEF IsCtr
  <2> DEFINE v == FrameFor(n, l, g[l]).start
             w == Layers[n][l].offset
  <2>3. b.at = v + w
    BY <1>4, <1>5
  <2> HIDE DEF v, w, b
  <2>4. v \in Nat /\ w \in Nat /\ Multiple(v) /\ Multiple(w)
    BY <2>1, <2>2 DEF v, w
  <2>5. Multiple(v + w) /\ v + w \in Nat
    BY <2>4, MultipleSum
  <2> QED
    BY <2>3, <2>5
<1>7. AlignDown(b.at, Block) = b.at
  <2> DEFINE v == b.at
  <2> HIDE DEF v
  <2>1. v \in Nat /\ Multiple(v)
    BY <1>6 DEF v
  <2>2. AlignDown(v, Block) = v
    BY <2>1, MultipleStays
  <2> QED
    BY <2>2 DEF v
<1>8. /\ pc'[t] = "call" /\ level'[t] = l + 1 /\ frame' = frame /\ cmtx' = cmtx
      /\ stream' = [stream EXCEPT ![c] = b.at] /\ want'[t] = b.want /\ c \in Ciphers
      /\ pos' = [pos EXCEPT ![n][l + 1] = b.at]
  BY <1>2, <1>5, <1>7, LayerOf DEF SetCounter, CallBase, CipherOf, FrameOf, Goto, TypeInv,
     TypeOK, IsCtr
<1>9. pos'[n][l + 1] = b.at
  BY <1>2, <1>8, Placed DEF PosOK
<1>10. stream'[c] = b.at /\ \A e \in Ciphers : e # c => stream'[e] = stream[e]
  BY <1>8 DEF TypeInv, TypeOK
<1>11. HeldAt(n, l + 1, "call") = HeldAt(n, l, "setctr") /\ l \in HeldAt(n, l, "setctr")
  BY <1>2 DEF HeldAt
<1>12. Held(t)'
  <2>1. ASSUME NEW k \in HeldAt(n, l, "setctr")
        PROVE  stream'[Layers[n][k].cipher] = g[k + 1].at
    <3>1. CASE k = l
      BY <1>10, <3>1
    <3>2. CASE k # l
      <4>1. Layers[n][k].cipher \in Ciphers /\ Layers[n][k].cipher # c
        BY <1>1, <1>2, <1>4, <1>11, <3>2, LayerOf DEF Held, HeldAt, IsCtr
      <4>2. stream[Layers[n][k].cipher] = g[k + 1].at
        BY <1>1, <1>4, <3>2 DEF Held
      <4> QED
        BY <1>10, <4>1, <4>2
    <3> QED
      BY <3>1, <3>2
  <2> QED
    BY <1>1, <1>4, <1>8, <1>11, <2>1, SMTT(30) DEF Held
<1>13. Here(t)'
  BY <1>1, <1>8, <1>9 DEF Here
<1> QED
  BY <1>1, <1>12, <1>13 DEF Inside

\* The base of a CtrFile delivered; the cipher is still held.
LEMMA ReturnToCtrKeeps ==
  ASSUME TypeInv, NEW t \in Threads, Inside(t), ReturnToCtr(t)
  PROVE  Inside(t)'
<1> DEFINE n == ask[t].node
           l == level[t]
           g == Goal(t)
<1>1. /\ ask'[t] = ask[t] /\ Goal(t)' = g /\ Sound(t)' /\ Sound(t) /\ Held(t) /\ Here(t)
  BY SameRead DEF Reading, Deliver, ReturnToCtr, Goto, TypeInv, TypeOK
<1>2. /\ n \in Nodes /\ l \in 1 .. FileLevel(n) /\ l > 1 /\ Len(Layers[n]) \in Nat
      /\ FileLevel(n) = Len(Layers[n]) + 1
  BY Placed, NodeLayers DEF ReturnToCtr, Goto, Control
<1>3. l - 1 \in 1 .. Len(Layers[n]) /\ (l - 1) + 1 = l
  BY <1>2
<1>4. /\ pc[t] = "return" /\ pc'[t] = "decrypt" /\ level'[t] = l - 1 /\ frame' = frame
      /\ cmtx' = cmtx /\ stream' = stream /\ data'[t] = data[t]
  BY DEF ReturnToCtr, Goto, TypeInv, TypeOK, shared
<1>5. Held(t)'
  <2>1. HeldAt(n, l - 1, "decrypt") = HeldAt(n, l, "return")
    BY <1>2, <1>3 DEF HeldAt
  <2> QED
    BY <1>1, <1>4, <2>1 DEF Held
<1>6. Here(t)'
  BY <1>1, <1>3, <1>4 DEF Here
<1> QED
  BY <1>1, <1>5, <1>6 DEF Inside

\* The key stream is where the blocks begin, so what was read comes out clear.
LEMMA DecryptKeeps ==
  ASSUME TypeInv, NEW t \in Threads, Inside(t), Decrypt(t)
  PROVE  Inside(t)'
<1> DEFINE n == ask[t].node
           l == level[t]
           g == Goal(t)
           c == Layers[n][l].cipher
<1>1. /\ ask'[t] = ask[t] /\ Goal(t)' = g /\ Sound(t)' /\ Sound(t) /\ Held(t) /\ Here(t)
  BY SameRead DEF Reading, Deliver, Decrypt, Goto
<1>2. /\ n \in Nodes /\ l \in 1 .. Len(Layers[n]) /\ l \in 1 .. FileLevel(n)
      /\ l \in 1 .. Depth /\ IsCtr(n, l)
      /\ data' = [data EXCEPT ![t] = Clearing(n, l, frame[t][l], stream[c], data[t])]
      /\ cmtx' = [cmtx EXCEPT ![c] = Nobody]
      /\ frame' = [frame EXCEPT ![t][l] = NoFrame]
  BY ClearingIs
<1>3. /\ g[l + 1] = Below(n, l, g[l]) /\ Fit(n, l, g[l]) /\ Len(Layers[n]) \in Nat
      /\ FileLevel(n) = Len(Layers[n]) + 1 /\ FileLevel(n) <= Depth /\ Depth \in Nat
  BY <1>1, <1>2, Goals, NodeLayers, IoAssumption
<1>4. /\ pc[t] = "decrypt" /\ pc'[t] = "return" /\ level'[t] = l
      /\ \A e \in Ciphers : e # c => stream'[e] = stream[e]
  BY DEF Decrypt, CipherOf, Goto, TypeInv, TypeOK
<1>5. l \in HeldAt(n, l, "decrypt")
  BY <1>2 DEF HeldAt
<1>6. /\ frame[t][l] = FrameFor(n, l, g[l]) /\ stream[c] = g[l + 1].at
      /\ Gives(n, l + 1, g[l + 1], data[t])
  BY <1>1, <1>4, <1>5 DEF Held, Here
<1>7. Gives(n, l, g[l], data'[t])
  <2> DEFINE d == data[t]
             r == g[l]
  <2>1. Len(d) \in Nat /\ Gives(n, l + 1, Below(n, l, r), d) /\ Fit(n, l, r)
    BY <1>3, <1>6 DEF TypeInv, TypeOK
  <2>2. data'[t] = Clearing(n, l, FrameFor(n, l, r), Below(n, l, r).at, d)
    BY <1>2, <1>3, <1>6 DEF TypeInv, TypeOK
  <2> HIDE DEF d, r
  <2>3. Gives(n, l, r, Clearing(n, l, FrameFor(n, l, r), Below(n, l, r).at, d))
    BY <1>2, <2>1, CtrGives
  <2> QED
    BY <2>2, <2>3 DEF r
<1>8. Held(t)'
  <2>1. ASSUME NEW k \in HeldAt(n, l, "return")
        PROVE  /\ k \in HeldAt(n, l, "decrypt") /\ k # l /\ k \in 1 .. Depth
               /\ Layers[n][k].cipher \in Ciphers
    <3>1. k \in HeldAt(n, l, "decrypt") /\ k # l /\ k \in 1 .. Depth
      BY <1>2, <1>3 DEF HeldAt
    <3> QED
      BY <1>2, <3>1, LayerOf DEF HeldAt, IsCtr
  <2>2. ASSUME NEW k \in HeldAt(n, l, "return")
        PROVE  /\ cmtx'[Layers[n][k].cipher] = t
               /\ frame'[t][k] = FrameFor(n, k, g[k])
               /\ stream'[Layers[n][k].cipher] = g[k + 1].at
    <3>1. Layers[n][k].cipher # c
      BY <1>1, <1>4, <1>5, <2>1 DEF Held
    <3>2. /\ cmtx[Layers[n][k].cipher] = t /\ frame[t][k] = FrameFor(n, k, g[k])
          /\ stream[Layers[n][k].cipher] = g[k + 1].at
      BY <1>1, <1>4, <2>1 DEF Held
    <3>3. frame'[t][k] = frame[t][k]
      BY <1>2, <2>1 DEF TypeInv, TypeOK
    <3>4. cmtx'[Layers[n][k].cipher] = cmtx[Layers[n][k].cipher]
      BY <1>2, <2>1, <3>1 DEF TypeInv, TypeOK
    <3> QED
      BY <1>4, <2>1, <3>1, <3>2, <3>3, <3>4
  <2>3. \A k, j \in HeldAt(n, l, "return") : k # j => Layers[n][k].cipher # Layers[n][j].cipher
    BY <1>1, <1>4, <2>1 DEF Held
  <2> QED
    BY <1>1, <1>4, <2>2, <2>3 DEF Held
<1>9. Here(t)'
  BY <1>1, <1>4, <1>7 DEF Here
<1> QED
  BY <1>1, <1>8, <1>9 DEF Inside

\* flockfile.
LEMMA LockFileKeeps ==
  ASSUME TypeInv, NEW t \in Threads, Inside(t), LockFile(t)
  PROVE  Inside(t)'
<1>1. /\ ask'[t] = ask[t] /\ Goal(t)' = Goal(t) /\ Sound(t)' /\ Sound(t) /\ Held(t) /\ Here(t)
  BY SameRead DEF Reading, Deliver, LockFile, Goto
<1>2. /\ pc[t] = "call" /\ pc'[t] = "fseek" /\ level' = level /\ frame' = frame /\ flock' = t
      /\ cmtx' = cmtx /\ stream' = stream /\ pos' = pos /\ want' = want
  BY DEF LockFile, Goto, TypeInv, TypeOK
<1>3. Held(t)'
  BY <1>1, <1>2 DEF Held, HeldAt
<1>4. Here(t)'
  BY <1>1, <1>2 DEF Here
<1> QED
  BY <1>1, <1>3, <1>4 DEF Inside

\* fseek, under the lock.
LEMMA FSeekKeeps ==
  ASSUME TypeInv, NEW t \in Threads, Inside(t), FSeek(t)
  PROVE  Inside(t)'
<1>1. /\ ask'[t] = ask[t] /\ Goal(t)' = Goal(t) /\ Sound(t)' /\ Sound(t) /\ Held(t) /\ Here(t)
  BY SameRead DEF Reading, Deliver, FSeek, Goto
<1>2. /\ pc[t] = "fseek" /\ pc'[t] = "fread" /\ level' = level /\ frame' = frame
      /\ flock' = flock /\ cmtx' = cmtx /\ stream' = stream /\ want' = want
      /\ fpos' = pos[ask[t].node][level[t]]
  BY DEF FSeek, Goto, TypeInv, TypeOK
<1>3. Held(t)'
  BY <1>1, <1>2 DEF Held, HeldAt
<1>4. Here(t)'
  BY <1>1, <1>2 DEF Here
<1> QED
  BY <1>1, <1>3, <1>4 DEF Inside

\* fread, from where this thread left the FILE.
LEMMA FReadKeeps ==
  ASSUME TypeInv, NEW t \in Threads, Inside(t), FRead(t)
  PROVE  Inside(t)'
<1> DEFINE n == ask[t].node
           l == level[t]
           r == Goal(t)[l]
           got == IF fpos < FileLen THEN Lesser(want[t], FileLen - fpos) ELSE 0
<1>1. /\ ask'[t] = ask[t] /\ Goal(t)' = Goal(t) /\ Sound(t)' /\ Sound(t) /\ Held(t) /\ Here(t)
  BY SameRead DEF Reading, Deliver, FRead, Goto
<1>2. /\ pc[t] = "fread" /\ pc'[t] = "return" /\ level' = level /\ frame' = frame
      /\ cmtx' = cmtx /\ stream' = stream
      /\ data'[t] = [i \in 1 .. got |-> [at |-> fpos + i - 1, clear |-> 0]]
  BY DEF FRead, Goto, TypeInv, TypeOK
<1>3. l = FileLevel(n) /\ n \in Nodes /\ l \in 1 .. FileLevel(n)
  BY <1>2, Placed DEF Control
<1>4. Fit(n, l, r) /\ fpos = r.at /\ want[t] = r.want
  BY <1>1, <1>2, <1>3, Goals DEF Here
<1>5. got = Have(n, l, r)
  <2>1. r.at \in Nat /\ r.want \in Nat /\ r.at <= SizeAt(n, l) /\ SizeAt(n, l) = FileLen
        /\ FileLen \in Nat
    BY <1>3, <1>4, HaveOf, IoAssumption DEF SizeAt
  <2> QED
    BY <1>4, <2>1 DEF Have, Lesser
<1>6. Gives(n, l, r, data'[t])
  <2> HIDE DEF r, got
  <2>1. Gives(n, FileLevel(n), r, [i \in 1 .. got |-> [at |-> r.at + i - 1, clear |-> 0]])
    BY <1>3, <1>4, <1>5, FileGives
  <2> QED
    BY <1>2, <1>3, <1>4, <2>1
<1>7. Held(t)'
  BY <1>1, <1>2 DEF Held, HeldAt
<1>8. Here(t)'
  BY <1>1, <1>2, <1>6 DEF Here
<1> QED
  BY <1>1, <1>7, <1>8 DEF Inside

\* Nothing a step does disturbs a read: its own follows the stack, the others
\* cannot reach what it uses.
LEMMA InvStep ==
  Apart => (IInv /\ [Next]_vars => IInv')
<1> SUFFICES ASSUME Apart, IInv, [Next]_vars PROVE IInv'
  OBVIOUS
<1>1. TypeInv /\ TypeInv' /\ \A t \in Threads : Inside(t)
  BY TypeStep DEF IInv
<1>2. CASE \E t \in Threads : reads[t] < MaxReads /\ Asking(t)
  <2>1. PICK t \in Threads : Asking(t)
    BY <1>2
  <2>2. Inside(t)' /\ pos' = pos
    BY <1>1, <2>1, AskKeeps
  <2>3. ASSUME NEW u \in Threads, u # t PROVE Inside(u)'
    BY <1>1, <2>1, <2>2, <2>3, OthersKeep
  <2> QED
    BY <1>1, <2>2, <2>3 DEF IInv
<1>3. CASE \E t \in Threads : Reading(t)
  <2>1. PICK t \in Threads : Reading(t)
    BY <1>3
  <2>2. Inside(t)'
    <3>1. CASE Deliver(t)
      BY <1>1, <3>1 DEF Deliver, Goto, Inside, TypeInv, TypeOK
    <3> QED
      BY <1>1, <2>1, <3>1, SeekKeeps, CallOffsetKeeps, ReturnOffsetKeeps, CallCtrKeeps,
         LockCipherKeeps, SetCounterKeeps, ReturnToCtrKeeps, DecryptKeeps, LockFileKeeps,
         FSeekKeeps, FReadKeeps DEF Reading
  <2>3. pc[t] # "idle"
    BY <2>1 DEF Reading, Seek, Deliver, CallOffset, ReturnOffset, CallCtr, LockCipher, SetCounter,
       ReturnToCtr, Decrypt, LockFile, FSeek, FRead, Goto
  <2>4. ASSUME NEW u \in Threads, u # t PROVE Inside(u)'
    BY <1>1, <2>1, <2>3, <2>4, OthersKeep
  <2> QED
    BY <1>1, <2>2, <2>4 DEF IInv
<1>4. CASE UNCHANGED vars
  BY <1>1, <1>4, SMTT(30) DEF vars, shared, call, IInv, Inside, Sound, Held, Here, Goal, Req
<1> QED
  BY <1>2, <1>3, <1>4, NextKinds

\* A read that ends with what the stack owes has what the archive holds.
LEMMA Enough ==
  IInv => ReadsCorrect
<1> SUFFICES ASSUME IInv, NEW t \in Threads, pc[t] = "return", level[t] = 1
             PROVE  LET n == ask[t].node
                        have == Lesser(ask[t].size, Size(n) - ask[t].offset)
                    IN  /\ Len(data[t]) >= have
                        /\ \A i \in 1 .. have : data[t][i] = Content(n, ask[t].offset + i - 1)
  BY DEF ReadsCorrect
<1> DEFINE n == ask[t].node
<1>1. /\ TypeInv /\ Sound(t) /\ Here(t)
  BY DEF IInv, Inside
<1>2. Goal(t)[1] = Req(t)
  BY <1>1, Goals
<1>3. Gives(n, 1, Req(t), data[t])
  BY <1>1, <1>2 DEF Here
<1>4. Have(n, 1, Req(t)) = Lesser(ask[t].size, Size(n) - ask[t].offset)
  BY DEF Have, Req, Size
<1>5. \A i : ByteAt(n, 1, i) = Content(n, i)
  BY DEF ByteAt, Content, CtrFrom, CtrLevels, IsCtr
<1> QED
  BY <1>3, <1>4, <1>5 DEF Gives, Req

\* When no node is read by two threads, every read returns what the archive
\* holds: for every stack of layers, number of threads, block size and request,
\* however the threads take turns at the FILE and at the ciphers.
THEOREM ReadsAreCorrect ==
  Apart => (Spec => []ReadsCorrect)
<1> SUFFICES ASSUME Apart PROVE Spec => []ReadsCorrect
  OBVIOUS
<1>1. Init => IInv
  BY TypeInit DEF Init, IInv, Inside
<1>2. IInv /\ [Next]_vars => IInv'
  BY InvStep
<1> QED
  BY <1>1, <1>2, Enough, PTL DEF Spec

=============================================================================
