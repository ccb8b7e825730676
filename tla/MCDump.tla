------------------------------- MODULE MCDump -------------------------------
(* An instance of Walk and Dump for TLC: an archive with two containers at    *)
(* its root, one of them three levels deep, kept raw beside their folders   *)
(* as the commands do; the other one is empty, and its name has no          *)
(* extension to tell the two apart.  Files have 0 to 4 bytes and are copied *)
(* 2 at a time; the section s of a is encrypted.                            *)
EXTENDS Dump

CONSTANTS w1, w2

Entry(name, node) == [name |-> name, node |-> node]

MCFolders == {"root", "A", "S", "D", "P"}
MCFiles == {"rawA", "rawP", "text", "rawS", "leaf", "deep"}
MCKids ==
  ("root" :> <<Entry("a", "A"), Entry("p", "P")>>)
  @@ ("A" :> <<Entry("s", "S")>>)
  @@ ("S" :> <<Entry("d", "D")>>)
  @@ ("D" :> <<>>) @@ ("P" :> <<>>)
MCLeaves ==
  ("root" :> <<Entry("a.nca", "rawA"), Entry("p", "rawP"), Entry("f", "text")>>)
  @@ ("A" :> <<Entry("s.romfs", "rawS")>>)
  @@ ("S" :> <<Entry("f", "leaf")>>)
  @@ ("D" :> <<Entry("s", "deep")>>)
  @@ ("P" :> <<>>)

MCSize ==
  ("rawA" :> 4) @@ ("rawP" :> 0) @@ ("text" :> 3) @@ ("rawS" :> 3) @@ ("leaf" :> 1) @@ ("deep" :> 1)
MCCiphered == {"rawS", "leaf", "deep"}
MCBare == {"rawS"}

\* The archive is cut in the middle of a.nca, which is the last file.
MCCut ==
  ("rawA" :> 2) @@ ("rawP" :> 0) @@ ("text" :> 3) @@ ("rawS" :> 1) @@ ("leaf" :> 0) @@ ("deep" :> 0)

\* What the host and the archive are in a run.
Fine == [left |-> MCSize, refused |-> FALSE]
Refused == [left |-> MCSize, refused |-> TRUE]
Cut == [left |-> MCCut, refused |-> FALSE]

Asking(cmd, paths, depth, max, met) ==
  [cmd |-> cmd, paths |-> paths, depth |-> depth, max |-> max,
   left |-> met.left, refused |-> met.refused]

Finds(starts) ==
  {Asking("find", <<p>>, d, m, Fine) : p \in starts, d \in 0 .. MaxDepth, m \in 0 .. 4}
Lists == {Asking("list", <<Slash>>, d, 0, Fine) : d \in 0 .. MaxDepth}
Dumps(lists, met) == {Asking("dump", ps, d, 0, met) : ps \in lists, d \in 0 .. MaxDepth}

A == <<"/", "a">>
F == <<"/", "f">>
AS == <<"/", "a", "s">>
ASF == <<"/", "a", "s", "f">>
Nowhere == <<"/", "p", "x">>
Slashed == <<"/", "a", "">>

\* No two paths of one dump have a file in common.  The host refuses files and
\* bytes in dumps of few files, each of them and none.
MCRequests ==
  Finds({Slash, A, AS, F, ASF, Nowhere, Slashed}) \cup Lists
  \cup Dumps({<<>>, <<Slash>>, <<AS, F>>, <<F, ASF>>, <<Slashed, ASF>>, <<A, Nowhere>>}, Fine)
  \cup {r \in Dumps({<<AS, F>>, <<Nowhere, A>>}, Refused) : r.depth \in {2, MaxDepth}}
  \cup Dumps({<<Slash>>, <<AS, F>>, <<F, ASF>>, <<A>>}, Cut)
=============================================================================
