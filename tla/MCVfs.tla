------------------------------- MODULE MCVfs -------------------------------
(* Instances of Vfs for TLC: an NSP with an NCA that needs the key of the   *)
(* ticket beside it; its RomFS has a directory; a second NSP inside the     *)
(* first one has an NCA and the ticket of it.                               *)
EXTENDS Vfs

CONSTANTS k1, k2, h1, h2

Tried(name, stem, inside) == [name |-> name, stem |-> stem, try |-> TRUE, inside |-> inside]
Plain(name) == [name |-> name, stem |-> name, try |-> FALSE, inside |-> NoContainer]
Holds(fs, ds, ns, ts) == [files |-> fs, folders |-> ds, needs |-> ns, tickets |-> ts]

MCContainers == {"nsp", "program", "romfs", "data", "addon", "control"}
MCArchive ==
  ("nsp" :> Holds(<<Tried("k.tik", "k", NoContainer), Tried("p.nca", "p", "program"),
                    Tried("a.nsp", "a", "addon")>>, <<>>, {}, {k1}))
  @@ ("program" :> Holds(<<Tried("s.romfs", "s", "romfs")>>, <<>>, {k1}, {}))
  @@ ("romfs" :> Holds(<<Plain("f")>>, <<[name |-> "d", inside |-> "data"]>>, {}, {}))
  @@ ("data" :> Holds(<<Plain("g")>>, <<>>, {}, {}))
  @@ ("addon" :> Holds(<<Tried("c.nca", "c", "control"), Tried("l.tik", "l", NoContainer)>>,
                       <<>>, {}, {k2}))
  @@ ("control" :> Holds(<<Plain("h")>>, <<>>, {k2}, {}))

ASSUME TicketsBefore
=============================================================================
