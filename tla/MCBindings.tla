----------------------------- MODULE MCBindings -----------------------------
(* Images for TLC, written as the formats lay them out: an Xci with a known   *)
(* partition behind another one, and a Pfs with an Hfs in it.                *)
EXTENDS Bindings

MCHeaderLen == [PFS0 |-> 1, HFS0 |-> 1, HEAD |-> 2]
MCMetaLen == [PFS0 |-> 1, HFS0 |-> 2, HEAD |-> 1]

\* An image as a file of another one.
File(name, image) == [name |-> name, image |-> image]

CellsOf(image) == image[<<>>].cells

\* The image of a node with files in it.
ImageOf(fmt, cells, files) ==
  LET below(i) == {<<files[i].name>> \o path : path \in DOMAIN files[i].image}
      file(name) == CHOOSE i \in DOMAIN files : files[i].name = name
  IN  [path \in {<<>>} \cup UNION {below(i) : i \in DOMAIN files} |->
         IF path = <<>>
         THEN [fmt |-> fmt, cells |-> cells, files |-> [i \in DOMAIN files |-> files[i].name]]
         ELSE files[file(Head(path))].image[Tail(path)]]

\* A file of n cells, all different.
Data(id, n) ==
  ImageOf("Unknown", [i \in 1 .. n |-> [Zeros EXCEPT !.is = "data", !.num = i, !.text = id]], <<>>)

Before(files, i) ==
  FoldFunctionOnSet(+, 0, [j \in DOMAIN files |-> Len(CellsOf(files[j].image))], 1 .. i - 1)

\* The names in the table stand in another order than the entries.
Writes(fmt, files) ==
  LET n == Len(files)
      metas == [i \in 1 .. n |-> [Zeros EXCEPT !.is = "meta", !.off = Before(files, i),
                                    !.size = Len(CellsOf(files[i].image)), !.index = n - i]]
      pad == [Zeros EXCEPT !.is = "hash"]
      table == IF fmt = "PFS0" THEN metas
               ELSE [i \in 1 .. 2 * n |-> IF i % 2 = 1 THEN metas[(i + 1) \div 2] ELSE pad]
      names == [i \in 1 .. n |-> [Zeros EXCEPT !.is = "name", !.text = files[n + 1 - i].name]]
  IN  <<[Zeros EXCEPT !.is = fmt, !.num = n, !.strings = n]>> \o table \o names
        \o FlattenSeq([i \in 1 .. n |-> CellsOf(files[i].image)])

Package(fmt, files) == ImageOf(fmt, Writes(fmt, files), files)

\* The root Hfs of a card starts behind its header and a cell of padding.
Card(files) ==
  ImageOf("HEAD",
          <<[Zeros EXCEPT !.is = "HEAD", !.off = 3], [Zeros EXCEPT !.is = "sig"], Zeros>>
            \o Writes("HFS0", files),
          files)

Nsp == Package("PFS0", <<File("x", Data("x", 1)), File("y", Package("HFS0", <<File("z", Data("z", 3))>>))>>)

Xci == Card(<<File("odd", Data("odd", 1)),
              File("secure", Package("HFS0", <<File("a", Data("a", 1)), File("b", Data("b", 3))>>))>>)

CONSTANTS t1, t2

\* One thread goes deep, the other one comes across it.
MCCallBound == (t1 :> 3) @@ (t2 :> 1)

MCTrees == [nsp |-> Nsp, xci |-> Xci]
=============================================================================
