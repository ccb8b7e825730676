------------------------------ MODULE MCRomFs ------------------------------
(* Instances of RomFs for TLC: images of one tree, with the name x at two   *)
(* places, under hash functions that collide more or less and in both       *)
(* orders of the hash chains.                                               *)
EXTENDS RomFs

CONSTANTS t1, t2

\* /, /x, /y, /x/x, /x/z with their parents; /f, /x/g, /x/h, /x/z/f.
Tree == <<<<None, "">>, <<1, "x">>, <<1, "y">>, <<2, "x">>, <<2, "z">>>>
Leaves == <<<<1, "f">>, <<2, "g">>, <<2, "h">>, <<5, "f">>>>

Buckets == 0 .. 4

Code(n) == CASE n = "x" -> 0 [] n = "y" -> 1 [] n = "z" -> 2
Keys == (1 .. 5) \X {"x", "y", "z"}

\* All names in one bucket, a bucket for each name, and a hash of name and
\* parent.
Constant == [k \in Keys |-> 3]
ByName == [k \in Keys |-> Code(k[2])]
ByBoth == [k \in Keys |-> (k[1] + Code(k[2])) % 5]

First(set) == IF set = {} THEN None ELSE CHOOSE e \in set : \A o \in set : e <= o
Final(set) == IF set = {} THEN None ELSE CHOOSE e \in set : \A o \in set : e >= o

Dirs == 2 .. Len(Tree)
BucketAt(hash, d) == hash[Tree[d][1], Tree[d][2]]

\* Chains from the first entry to the last, or, as a builder that pushes on the
\* front makes them, from the last to the first.
ImageOf(hash, forward) ==
  [dirs |-> [d \in 1 .. Len(Tree) |->
     LET chain == {c \in Dirs : d > 1 /\ BucketAt(hash, c) = BucketAt(hash, d)}
     IN  [parent  |-> Tree[d][1],
          name    |-> Tree[d][2],
          sibling |-> First({c \in Dirs : c > d /\ Tree[c][1] = Tree[d][1]}),
          child   |-> First({c \in Dirs : Tree[c][1] = d}),
          file    |-> First({f \in 1 .. Len(Leaves) : Leaves[f][1] = d}),
          next    |-> IF forward THEN First({c \in chain : c > d}) ELSE Final({c \in chain : c < d})]],
   files |-> [f \in 1 .. Len(Leaves) |->
     [parent  |-> Leaves[f][1],
      name    |-> Leaves[f][2],
      sibling |-> First({g \in 1 .. Len(Leaves) : g > f /\ Leaves[g][1] = Leaves[f][1]})]],
   heads |-> [b \in Buckets |->
     LET chain == {c \in Dirs : BucketAt(hash, c) = b}
     IN  IF forward THEN First(chain) ELSE Final(chain)],
   hash |-> hash]

MCImages ==
  {ImageOf(Constant, TRUE), ImageOf(Constant, FALSE), ImageOf(ByName, TRUE), ImageOf(ByBoth, FALSE)}
=============================================================================
