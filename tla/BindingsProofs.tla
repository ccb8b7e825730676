---------------------------- MODULE BindingsProofs ----------------------------
(***************************************************************************)
(* Theorems about Bindings, for all well-formed images, any number of      *)
(* threads, and any number of calls and of exceptions.                     *)
(***************************************************************************)
EXTENDS Bindings, Integers, FiniteSetTheorems, WellFoundedInduction, TLAPS

Ops == {"none", "match", "read", "new", "parse", "open", "partition"}
Stages == {"idle", "read", "sought", "construct", "valid", "collect", "fill", "use"}

\* Strings, those that the program itself makes among them.
Words == STRING \cup Formats \cup Ops \cup {NoName, "missing", "Unknown"}

\* What a buffer can hold.
Buffer == Seq(Cells \cup {Zeros})

FileTypes == [path : Seq(Words), lo : Nat, size : Nat, pos : Nat]

CallTypes ==
  [op : Ops, stage : Stages, obj : Nat, name : Words, len : Nat,
   reads : Seq(Buffer), part : Nat, failed : BOOLEAN]

AnswerTypes ==
  [op : Ops, ok : BOOLEAN, path : Seq(Words), excuse : BOOLEAN, fmt : Words,
   from : Nat, to : Nat, len : Nat, cells : Buffer]

EntryTypes == [off : Nat, size : Nat, name : Words]
PartTypes == [off : Nat, size : Nat, name : Words, header : Cells \cup {Zeros}]
DictTypes == UNION {[names -> [off : Nat, size : Nat, obj : Nat]] : names \in SUBSET Words}

ArchTypes ==
  [fmt : Formats, path : Seq(Words), lo : Nat, size : Nat, header : Cells \cup {Zeros}, data : Nat,
   entries : Seq(EntryTypes), parts : Seq(PartTypes), dict : DictTypes, parsed : BOOLEAN]

\* A thread inside a call of the C++ code on a file opened by its path holds the
\* interpreter's lock; on an object nobody does.
LockHeld ==
  IF kind = "path" THEN \A t \in Threads : call[t].stage \in {"read", "sought"} => gil = t
  ELSE gil = None

Types ==
  /\ tree \in DOMAIN Trees /\ kind \in {"path", "object"} /\ gil \in Threads \cup {None}
  /\ at \in 0 .. Len(Image)
  /\ arch \in Seq(ArchTypes)
  /\ mine \in [Threads -> FileTypes]
  /\ call \in [Threads -> CallTypes]
  /\ answer \in [Threads -> AnswerTypes]
  /\ calls \in [Threads -> Nat] /\ \A t \in Threads : calls[t] <= CallBound[t]
  /\ faults \in 0 .. FaultBound
  /\ \A t \in Threads : call[t].obj \in 0 .. Len(arch)
  /\ LockHeld

-----------------------------------------------------------------------------
(* What the image has, that archives and files should have.                *)

\* A part of the image that is the node at a path.
Fits(f) ==
  /\ f.path \in DOMAIN Trees[tree]
  /\ f.size = Len(NodeAt(f.path).cells) /\ f.lo + f.size <= Len(Image)
  /\ Covers(f)

FilesOf(a) == NodeAt(a.path).files
CellsOf(a) == NodeAt(a.path).cells
ChildCells(a, n) == NodeAt(Append(a.path, n)).cells

\* Where the Pfs or Hfs begins that an archive is or has in it, and what it is.
Base(a) == IF a.fmt = "HEAD" THEN a.header.off ELSE 0
TableFmt(a) == IF a.fmt = "HEAD" THEN "HFS0" ELSE a.fmt
RootHead(a) == CellsOf(a)[Base(a) + 1]

TablePos(a) == Base(a) + HeaderLen[TableFmt(a)]
TableLen(a) == Len(FilesOf(a)) * MetaLen[TableFmt(a)]
NamesPos(a) == TablePos(a) + TableLen(a)
DataPos(a) == NamesPos(a) + RootHead(a).strings

\* The entry table and the names, and the entries they make.
TableOf(a) == Part(CellsOf(a), TablePos(a), TablePos(a) + TableLen(a))
NamesOf(a) == Part(CellsOf(a), NamesPos(a), NamesPos(a) + RootHead(a).strings)
MetaOf(a, i) == CellsOf(a)[TablePos(a) + (i - 1) * MetaLen[TableFmt(a)] + 1]

EntriesOf(a) ==
  [i \in 1 .. Len(FilesOf(a)) |->
     [off |-> MetaOf(a, i).off, size |-> MetaOf(a, i).size, name |-> FilesOf(a)[i]]]

CardEntries(a) ==
  [i \in 1 .. Len(FilesOf(a)) |->
     [off |-> MetaOf(a, i).off + DataPos(a), size |-> MetaOf(a, i).size, name |-> FilesOf(a)[i]]]

-----------------------------------------------------------------------------
(* Archives.                                                               *)

\* The archive is one of its format: valid of hac.py.
IsValid(a) == a.header.is = a.fmt

\* The partitions that were made are entries of the card, whatever header was read.
PartsExact(a) ==
  \A j \in DOMAIN a.parts :
    /\ a.fmt = "HEAD" /\ IsValid(a)
    /\ a.parts[j].name \in Partitions
    /\ \E i \in DOMAIN FilesOf(a) :
         LET e == CardEntries(a)[i]
         IN  a.parts[j].name = e.name /\ a.parts[j].off = e.off /\ a.parts[j].size = e.size

\* The last of those with a name has the header that belongs to it.
PartMade(a, n) ==
  \E j \in DOMAIN a.parts :
    /\ a.parts[j].name = n
    /\ \A k \in DOMAIN a.parts :
         k >= j /\ a.parts[k].name = n => a.parts[k].header = HeadOf(ChildCells(a, n))

PartsMade(a) == \A n \in Names(NodeAt(a.path)) : PartMade(a, n)

ArchExact(a) ==
  /\ Fits(a) /\ a.header = HeadOf(CellsOf(a))
  /\ a.fmt = "HEAD" => a.data = 0
  /\ PartsExact(a)
  /\ a.parsed => IsValid(a) /\ (a.fmt # "HEAD" => a.data = DataPos(a))

\* A name in the dictionary leads to its cells, and in a card to its archive.
DictHas(a, n) ==
  LET pos == a.data + a.dict[n].off
  IN  /\ pos + a.dict[n].size <= a.size
      /\ Part(CellsOf(a), pos, pos + a.dict[n].size) = ChildCells(a, n)

DictLeads(a, n) ==
  a.fmt = "HEAD" =>
    a.dict[n].obj \in DOMAIN arch /\ arch[a.dict[n].obj].header = HeadOf(ChildCells(a, n))

DictExact(a) ==
  /\ DOMAIN a.dict = Names(NodeAt(a.path))
  /\ \A n \in DOMAIN a.dict : DictHas(a, n) /\ DictLeads(a, n)

\* Nobody is between emptying and filling its dictionary.
Settled(o) == \A t \in Threads : call[t].stage = "fill" => call[t].obj # o

-----------------------------------------------------------------------------
(* Calls: c on the file f, or on the archive a.                            *)

FileOps == {"match", "read", "new"}
ArchiveOps == {"parse", "open", "partition"}

\* The read of a call on a file.
FilePos(c, f) == IF c.op = "new" THEN 0 ELSE f.pos
FileLen(c, f) ==
  IF c.op = "match" THEN MatchLen ELSE IF c.op = "read" THEN Asked(f, c.len) ELSE HeaderLen[c.name]

TheRead(c, f, a) ==
  IF c.op \in FileOps
  THEN IF c.reads = <<>> THEN [pos |-> FilePos(c, f), len |-> FileLen(c, f)] ELSE None
  ELSE ArchiveRead(a, c)

TheSource(c, f, a) == IF c.op \in FileOps THEN f ELSE a
TheStart(c, f, a) == Lesser(TheRead(c, f, a).pos, TheSource(c, f, a).size)

\* What a read of a node gives.
CellsFrom(f, pos, len) ==
  Part(NodeAt(f.path).cells, pos, Lesser(pos + len, Len(NodeAt(f.path).cells)))

FileCall(c, f) ==
  c.op \in FileOps =>
    /\ c.stage \in {"construct", "read", "sought"}
    /\ c.obj = 0 /\ c.part = 0
    /\ c.op = "new" => c.name \in Formats
    /\ c.stage = "construct" => c.op = "new" /\ c.reads = <<>> /\ ~c.failed
    /\ c.reads = <<>> => ~c.failed
    /\ c.reads # <<>> =>
         /\ c.stage = "read" /\ Len(c.reads) = 1
         /\ ~c.failed => c.reads[1] = CellsFrom(f, FilePos(c, f), FileLen(c, f))

\* How many reads a call has made.
Count(c) == Len(c.reads)

\* parse of a Pfs or Hfs is at a read, or at its end.
TableReads(a, c) ==
  /\ Count(c) <= 2 /\ c.part = 0
  /\ Count(c) >= 1 => Len(c.reads[1]) = TableLen(a)
  /\ ~c.failed =>
       /\ Count(c) >= 1 => c.reads[1] = TableOf(a)
       /\ Count(c) = 2 => c.reads[2] = NamesOf(a)

\* parse of an Xci: once it has failed before its loop there are no names.
CardReads(a, c) ==
  /\ Count(c) < 3 => c.part = 0
  /\ Count(c) >= 2 =>
       Len(c.reads[2]) = TableAt(a.header.off, "HFS0", HeadOf(c.reads[1]).num).len
  /\ ~c.failed =>
       /\ Count(c) >= 1 => HeadOf(c.reads[1]) = RootHead(a)
       /\ Count(c) >= 2 => c.reads[2] = TableOf(a)
       /\ Count(c) >= 3 =>
            /\ XciEntries(a, c.reads) = CardEntries(a)
            /\ \A i \in DOMAIN FilesOf(a) :
                 i <= c.part /\ FilesOf(a)[i] \in Partitions => PartMade(a, FilesOf(a)[i])
  /\ Count(c) >= 3 =>
       \/ XciEntries(a, c.reads) = CardEntries(a)
       \/ \A i \in DOMAIN XciEntries(a, c.reads) : XciEntries(a, c.reads)[i].name = NoName

ArchiveCall(c, a) ==
  c.op \in ArchiveOps =>
    /\ c.stage \in {"valid", "read", "sought", "collect", "fill", "use"}
    /\ c.obj # 0
    /\ c.op = "open" => a.fmt # "HEAD"
    /\ c.op = "partition" => a.fmt = "HEAD"
    /\ c.stage \notin {"read", "sought"} => c.reads = <<>> /\ c.part = 0 /\ ~c.failed
    /\ c.stage \in {"read", "sought", "collect", "fill"} => IsValid(a)
    /\ c.stage \in {"read", "sought"} =>
         IF a.fmt = "HEAD" THEN CardReads(a, c) ELSE TableReads(a, c)
    /\ c.stage \in {"collect", "fill"} =>
         IF a.fmt = "HEAD" THEN PartsMade(a)
         ELSE c.stage = "collect" /\ a.entries = EntriesOf(a) /\ a.data = DataPos(a)
    /\ c.stage = "use" => a.parsed

Sought(c, f, a, where) ==
  c.stage = "sought" =>
    /\ c.op # "none" /\ ~c.failed
    /\ TheRead(c, f, a) # None /\ where = TheSource(c, f, a).lo + TheStart(c, f, a)

CallExact(c, f, a, where) ==
  /\ c.op = "none" => c = Idle
  /\ FileCall(c, f) /\ ArchiveCall(c, a) /\ Sought(c, f, a, where)

-----------------------------------------------------------------------------
(* Answers.                                                                *)

Found(a) ==
  a.op \in {"open", "partition"} /\ ~a.excuse =>
    (a.ok <=> Last(a.path) \in Names(NodeAt(Front(a.path))))

ReadRight(a) ==
  LET cells == NodeAt(a.path).cells
  IN  /\ a.op = "read" /\ a.ok =>
           /\ a.cells = Part(cells, a.from, Lesser(a.from + a.len, Len(cells)))
           /\ (kind = "path" \/ a.path # <<>>) /\ a.from <= Len(cells) =>
                a.to = a.from + Len(a.cells)
      /\ a.op = "match" /\ a.ok /\ a.from = 0 => a.fmt = NodeAt(a.path).fmt

AnswerRight(a) == Found(a) /\ ReadRight(a)

\* While no two threads met.
Undisturbed ==
  /\ \A o \in DOMAIN arch :
       ArchExact(arch[o]) /\ (arch[o].parsed /\ Settled(o) => DictExact(arch[o]))
  /\ \A t \in Threads :
       Fits(mine[t]) /\ CallExact(call[t], mine[t], arch[call[t].obj], at) /\ AnswerRight(answer[t])

Inv == Types /\ disturbed \in BOOLEAN /\ (disturbed <=> Mixed) /\ (~disturbed => Undisturbed)

-----------------------------------------------------------------------------
(* Sequences and numbers.                                                  *)

LEMMA AppendOp ==
  ASSUME NEW S, NEW s \in Seq(S), NEW e \in S
  PROVE  /\ Append(s, e) \in Seq(S)
         /\ Len(s) \in Nat /\ DOMAIN s = 1 .. Len(s)
         /\ Len(Append(s, e)) = Len(s) + 1
         /\ DOMAIN Append(s, e) = 1 .. Len(s) + 1
         /\ \A i \in 1 .. Len(s) : Append(s, e)[i] = s[i]
         /\ Append(s, e)[Len(s) + 1] = e
OBVIOUS

LEMMA WiderSeq ==
  ASSUME NEW S, NEW T, S \subseteq T, NEW s \in Seq(S)
  PROVE  s \in Seq(T)
OBVIOUS

\* A part of a sequence.
Within(s, a, b) == a \in Nat /\ b \in Nat /\ a <= b /\ b <= Len(s)

LEMMA PartOp ==
  ASSUME NEW S, NEW s, s \in Seq(S), NEW a, NEW b, Within(s, a, b)
  PROVE  /\ Part(s, a, b) \in Seq(S)
         /\ Len(Part(s, a, b)) = b - a
         /\ DOMAIN Part(s, a, b) = 1 .. b - a
         /\ \A i \in 1 .. b - a : Part(s, a, b)[i] = s[a + i]
BY DEF Part, Within

LEMMA PieceOp ==
  ASSUME NEW S, NEW s, s \in Seq(S), NEW a, NEW n, Within(s, a, a + n), n \in Nat
  PROVE  /\ Part(s, a, a + n) \in Seq(S)
         /\ Len(Part(s, a, a + n)) = n
         /\ DOMAIN Part(s, a, a + n) = 1 .. n
         /\ \A i \in 1 .. n : Part(s, a, a + n)[i] = s[a + i]
<1>1. a + n \in Nat /\ (a + n) - a = n
  BY DEF Within
<1>2. DOMAIN Part(s, a, a + n) = 1 .. ((a + n) - a)
      /\ \A i \in 1 .. ((a + n) - a) : Part(s, a, a + n)[i] = s[a + i]
  BY PartOp
<1> QED
  BY <1>1, <1>2, PartOp

LEMMA PartNone ==
  ASSUME NEW S, NEW s \in Seq(S), NEW a \in Nat, NEW b \in Nat, b <= a
  PROVE  Part(s, a, b) = <<>>
BY DEF Part

\* Sequences are equal when they have the same length and elements.
LEMMA SameSeq ==
  ASSUME NEW S, NEW s \in Seq(S), NEW r \in Seq(S), Len(s) = Len(r),
         \A i \in 1 .. Len(s) : s[i] = r[i]
  PROVE  s = r
OBVIOUS

\* A part of a part: from a to b of the size elements behind lo.
Nested(s, lo, size, a, b) ==
  /\ lo \in Nat /\ size \in Nat /\ lo + size <= Len(s)
  /\ a \in Nat /\ b \in Nat /\ a <= b /\ b <= size

LEMMA PartOfPart ==
  ASSUME NEW S, NEW s \in Seq(S), NEW lo, NEW size, NEW a, NEW b, Nested(s, lo, size, a, b)
  PROVE  Part(s, lo + a, lo + b) = Part(Part(s, lo, lo + size), a, b)
BY DEF Part, Nested

\* Entries lie behind one another in a table.
LEMMA TableRow ==
  ASSUME NEW n \in Nat, NEW w \in Nat \ {0}, NEW i \in 1 .. n
  PROVE  (i - 1) * w \in Nat /\ (i - 1) * w + 1 <= n * w /\ n * w \in Nat
<1>1. n * w = (i - 1) * w + (n - i) * w + w
  OBVIOUS
<1>2. (i - 1) * w >= 0 /\ (n - i) * w >= 0 /\ (i - 1) * w \in Int /\ (n - i) * w \in Int
  OBVIOUS
<1> QED
  BY <1>1, <1>2

-----------------------------------------------------------------------------
(* The image.                                                              *)

\* Cells, also those with nothing in them.
LEMMA CellOp ==
  /\ Zeros.is \notin Formats /\ Zeros.text = NoName
  /\ \A c \in Cells \cup {Zeros} :
       /\ c.num \in Nat /\ c.strings \in Nat /\ c.off \in Nat /\ c.size \in Nat /\ c.index \in Nat
       /\ c.text \in Words
<1>1. Zeros.is = "zero" /\ Zeros.text = NoName /\ Zeros.num = 0 /\ Zeros.strings = 0 /\ Zeros.off = 0
      /\ Zeros.size = 0 /\ Zeros.index = 0
  BY DEF Zeros
<1>2. \A c \in Cells :
       /\ c.num \in Nat /\ c.strings \in Nat /\ c.off \in Nat /\ c.size \in Nat /\ c.index \in Nat
       /\ c.text \in STRING
  BY DEF Cells
<1>3. Zeros.is \notin Formats
  BY <1>1 DEF Formats
<1>4. STRING \subseteq Words /\ NoName \in Words
  BY DEF Words
<1>5. ASSUME NEW c \in Cells \cup {Zeros}
      PROVE  /\ c.num \in Nat /\ c.strings \in Nat /\ c.off \in Nat /\ c.size \in Nat /\ c.index \in Nat
             /\ c.text \in Words
  <2>1. CASE c \in Cells
    BY <1>2, <1>4, <2>1
  <2>2. CASE c = Zeros
    <3>1. c.num = 0 /\ c.strings = 0 /\ c.off = 0 /\ c.size = 0 /\ c.index = 0 /\ c.text = NoName
      BY <1>1, <2>2
    <3> QED
      BY <1>4, <3>1
  <2> QED
    BY <2>1, <2>2
<1> QED
  BY <1>1, <1>3, <1>5

LEMMA HeadOp ==
  ASSUME NEW s \in Buffer
  PROVE  HeadOf(s) \in Cells \cup {Zeros} /\ (s # <<>> => HeadOf(s) = s[1])
BY DEF HeadOf, Buffer

\* The lengths that formats have.
LEMMA LensOp ==
  /\ \A fmt \in Formats : HeaderLen[fmt] \in Nat \ {0} /\ MetaLen[fmt] \in Nat \ {0}
  /\ MatchLen \in Nat \ {0}
  /\ "HFS0" \in Formats /\ "PFS0" \in Formats /\ "HEAD" \in Formats /\ "Unknown" \notin Formats
BY BindingsAssumption DEF Formats

\* The nodes of an image.
LEMMA NodeOp ==
  ASSUME tree \in DOMAIN Trees, NEW p \in DOMAIN Trees[tree]
  PROVE  /\ p \in Seq(Words)
         /\ NodeAt(p).cells \in Buffer /\ NodeAt(p).files \in Seq(Words)
         /\ NodeAt(p).fmt = FormatOf(NodeAt(p).cells)
         /\ NodeAt(p).fmt = "Unknown" => NodeAt(p).files = <<>>
         /\ \A i \in DOMAIN NodeAt(p).files : Append(p, NodeAt(p).files[i]) \in DOMAIN Trees[tree]
         /\ \A i, j \in DOMAIN NodeAt(p).files : NodeAt(p).files[i] = NodeAt(p).files[j] => i = j
         /\ NodeAt(p).fmt \in {"PFS0", "HFS0"} => LaidOut(Trees[tree], p, 0, NodeAt(p).fmt)
         /\ NodeAt(p).fmt = "HEAD" =>
              /\ LaidOut(Trees[tree], p, NodeAt(p).cells[1].off, "HFS0")
              /\ \A i \in DOMAIN NodeAt(p).files : NodeAt(p).files[i] \in Partitions =>
                   NodeAt(Append(p, NodeAt(p).files[i])).fmt = "HFS0"
<1>1. WellFormed(Trees[tree])
  BY BindingsAssumption
<1>2. \A i \in DOMAIN NodeAt(p).files : NodeAt(p).files[i] \in ToSet(NodeAt(p).files)
  BY DEF ToSet
<1>3. /\ p \in Seq(STRING)
      /\ NodeAt(p).cells \in Seq(Cells) /\ NodeAt(p).files \in Seq(STRING)
      /\ NodeAt(p).fmt = FormatOf(NodeAt(p).cells)
      /\ NodeAt(p).fmt = "Unknown" => NodeAt(p).files = <<>>
  BY <1>1 DEF WellFormed, NodeAt
<1>8. p \in Seq(Words) /\ NodeAt(p).cells \in Buffer /\ NodeAt(p).files \in Seq(Words)
  <2>1. STRING \subseteq Words /\ Cells \subseteq Cells \cup {Zeros}
    BY DEF Words
  <2> QED
    BY <1>3, <2>1, WiderSeq DEF Buffer
<1>4. /\ \A n \in ToSet(NodeAt(p).files) : Append(p, n) \in DOMAIN Trees[tree]
      /\ NodeAt(p).fmt \in {"PFS0", "HFS0"} => LaidOut(Trees[tree], p, 0, NodeAt(p).fmt)
  BY <1>1 DEF WellFormed, NodeAt
<1>5. NodeAt(p).fmt = "HEAD" =>
        /\ LaidOut(Trees[tree], p, NodeAt(p).cells[1].off, "HFS0")
        /\ \A n \in ToSet(NodeAt(p).files) \cap Partitions : NodeAt(Append(p, n)).fmt = "HFS0"
  BY <1>1 DEF WellFormed, NodeAt
<1>6. IsInjective(NodeAt(p).files)
  BY <1>1 DEF WellFormed, NodeAt
<1>7. \A i, j \in DOMAIN NodeAt(p).files : NodeAt(p).files[i] = NodeAt(p).files[j] => i = j
  BY <1>6 DEF IsInjective
<1> QED
  BY <1>2, <1>3, <1>4, <1>5, <1>7, <1>8

LEMMA RootOp ==
  ASSUME tree \in DOMAIN Trees
  PROVE  /\ <<>> \in DOMAIN Trees[tree] /\ NodeAt(<<>>).fmt \in Formats
         /\ Image \in Buffer /\ Len(Image) \in Nat
<1>1. WellFormed(Trees[tree])
  BY BindingsAssumption
<1>2. <<>> \in DOMAIN Trees[tree] /\ NodeAt(<<>>).fmt \in Formats
  BY <1>1 DEF WellFormed, NodeAt
<1> QED
  BY <1>2, NodeOp DEF Image, Buffer

\* A node looks like what it is.
LEMMA FormatOp ==
  ASSUME tree \in DOMAIN Trees, NEW p \in DOMAIN Trees[tree], NEW fmt \in Formats
  PROVE  (HeadOf(NodeAt(p).cells).is = fmt) <=> (NodeAt(p).fmt = fmt)
BY NodeOp, LensOp DEF FormatOf

\* The names of an archive are names of entries.
LEMMA NameOp ==
  ASSUME tree \in DOMAIN Trees, NEW p \in DOMAIN Trees[tree], NEW n
  PROVE  n \in Names(NodeAt(p)) <=>
           \E i \in DOMAIN NodeAt(p).files :
             NodeAt(p).files[i] = n /\ (NodeAt(p).fmt = "HEAD" => n \in Partitions)
BY DEF Names, ToSet

-----------------------------------------------------------------------------
(* What an archive of its format has in it.                                *)

Sound(a) ==
  /\ tree \in DOMAIN Trees
  /\ Fits(a) /\ a.fmt \in Formats /\ a.header = HeadOf(CellsOf(a)) /\ IsValid(a)

LEMMA Layout ==
  ASSUME NEW a, Sound(a)
  PROVE  /\ NodeAt(a.path).fmt = a.fmt
         /\ CellsOf(a) \in Buffer /\ CellsOf(a) # <<>> /\ FilesOf(a) \in Seq(Words)
         /\ a.header \in Cells \cup {Zeros} /\ a.header = CellsOf(a)[1]
         /\ Base(a) \in Nat /\ TableFmt(a) \in Formats \ {"HEAD"}
         /\ a.size = Len(CellsOf(a)) /\ a.size \in Nat
         /\ LaidOut(Trees[tree], a.path, Base(a), TableFmt(a))
<1>1. a.path \in DOMAIN Trees[tree] /\ tree \in DOMAIN Trees
  BY DEF Sound, Fits
<1>2. NodeAt(a.path).fmt = a.fmt
  BY <1>1, FormatOp DEF Sound, IsValid, CellsOf
<1>3. CellsOf(a) \in Buffer /\ FilesOf(a) \in Seq(Words)
  BY <1>1, NodeOp DEF CellsOf, FilesOf
<1>4. a.header \in Cells \cup {Zeros}
  BY <1>3, HeadOp DEF Sound
<1>5. CellsOf(a) # <<>>
  <2>1. HeadOf(CellsOf(a)).is \in Formats
    BY DEF Sound, IsValid
  <2> QED
    BY <2>1, CellOp DEF HeadOf
<1>6. a.header = CellsOf(a)[1]
  BY <1>3, <1>5, HeadOp DEF Sound
<1>7. Base(a) \in Nat
  BY <1>4, CellOp DEF Base
<1>8. TableFmt(a) \in Formats \ {"HEAD"}
  BY DEF Sound, TableFmt, Formats
<1>9. LaidOut(Trees[tree], a.path, Base(a), TableFmt(a))
  <2>1. CASE a.fmt = "HEAD"
    BY <1>1, <1>2, <1>6, <2>1, NodeOp DEF Base, TableFmt, CellsOf
  <2>2. CASE a.fmt # "HEAD"
    BY <1>1, <1>2, <2>2, NodeOp DEF Base, TableFmt, Sound, Formats
  <2> QED
    BY <2>1, <2>2
<1>10. a.size = Len(CellsOf(a)) /\ a.size \in Nat
  BY <1>3 DEF Sound, Fits, CellsOf, Buffer
<1> QED
  BY <1>2, <1>3, <1>4, <1>5, <1>6, <1>7, <1>8, <1>9, <1>10

\* The places of the tables, and their order.
LEMMA PlacesOp ==
  ASSUME NEW a, Sound(a)
  PROVE  /\ RootHead(a) \in Cells \cup {Zeros} /\ Base(a) + 1 \in 1 .. a.size
         /\ RootHead(a).is = TableFmt(a) /\ RootHead(a).num = Len(FilesOf(a))
         /\ HeaderLen[TableFmt(a)] \in Nat \ {0} /\ MetaLen[TableFmt(a)] \in Nat \ {0}
         /\ Len(FilesOf(a)) \in Nat /\ RootHead(a).strings \in Nat
         /\ TablePos(a) \in Nat /\ TableLen(a) \in Nat /\ NamesPos(a) \in Nat /\ DataPos(a) \in Nat
         /\ TablePos(a) = Base(a) + HeaderLen[TableFmt(a)]
         /\ NamesPos(a) = TablePos(a) + TableLen(a) /\ DataPos(a) = NamesPos(a) + RootHead(a).strings
         /\ DataPos(a) <= a.size
<1> DEFINE fmt == TableFmt(a)
           base == Base(a)
<1>1. /\ CellsOf(a) \in Buffer /\ FilesOf(a) \in Seq(Words) /\ base \in Nat /\ fmt \in Formats
      /\ a.size = Len(CellsOf(a)) /\ a.size \in Nat
  BY Layout
<1>2. HeaderLen[fmt] \in Nat \ {0} /\ MetaLen[fmt] \in Nat \ {0}
  BY <1>1, LensOp
<1>3. LaidOut(Trees[tree], a.path, base, fmt)
  BY Layout
<1>4. /\ base + HeaderLen[fmt] <= Len(CellsOf(a))
      /\ base + HeaderLen[fmt] + Len(FilesOf(a)) * MetaLen[fmt] + CellsOf(a)[base + 1].strings <= Len(CellsOf(a))
      /\ CellsOf(a)[base + 1].is = fmt /\ CellsOf(a)[base + 1].num = Len(FilesOf(a))
  BY <1>3 DEF LaidOut, CellsOf, FilesOf, NodeAt
<1> HIDE DEF fmt, base
<1>5. base + 1 \in 1 .. Len(CellsOf(a)) /\ base + HeaderLen[fmt] \in Nat
  BY <1>1, <1>2, <1>4
<1>6. CellsOf(a)[base + 1] \in Cells \cup {Zeros}
  BY <1>1, <1>5 DEF Buffer
<1>7. CellsOf(a)[base + 1].strings \in Nat
  BY <1>6, CellOp
<1>8. Len(FilesOf(a)) \in Nat
  BY <1>1
<1>9. Len(FilesOf(a)) * MetaLen[fmt] \in Nat
  BY <1>2, <1>8
<1>10. RootHead(a) = CellsOf(a)[base + 1] /\ TablePos(a) = base + HeaderLen[fmt]
       /\ TableLen(a) = Len(FilesOf(a)) * MetaLen[fmt]
  BY DEF RootHead, TablePos, TableLen, base, fmt
<1>11. NamesPos(a) = TablePos(a) + TableLen(a) /\ DataPos(a) = NamesPos(a) + RootHead(a).strings
  BY DEF NamesPos, DataPos
<1>12. TablePos(a) \in Nat /\ TableLen(a) \in Nat
  BY <1>5, <1>9, <1>10
<1>13. NamesPos(a) \in Nat /\ DataPos(a) \in Nat
  BY <1>7, <1>10, <1>11, <1>12
<1>14. DataPos(a) <= a.size
  BY <1>1, <1>4, <1>10, <1>11
<1>15. RootHead(a) \in Cells \cup {Zeros} /\ base + 1 \in 1 .. a.size
       /\ RootHead(a).is = fmt /\ RootHead(a).num = Len(FilesOf(a)) /\ RootHead(a).strings \in Nat
  BY <1>1, <1>4, <1>5, <1>6, <1>7, <1>10
<1> QED
  BY <1>2, <1>8, <1>10, <1>11, <1>12, <1>13, <1>14, <1>15 DEF base, fmt

\* The header of a Pfs or Hfs is its first cell.
LEMMA HeaderOp ==
  ASSUME NEW a, Sound(a), a.fmt # "HEAD"
  PROVE  /\ RootHead(a) = a.header /\ TableFmt(a) = a.fmt /\ Base(a) = 0
         /\ TablePos(a) = HeaderLen[a.fmt]
BY Layout, LensOp DEF RootHead, TableFmt, Base, TablePos

\* An entry of the table, and the cells it points at.
LEMMA MetaOp ==
  ASSUME NEW a, Sound(a), NEW i \in DOMAIN FilesOf(a)
  PROVE  /\ i \in 1 .. Len(FilesOf(a))
         /\ (i - 1) * MetaLen[TableFmt(a)] \in Nat
         /\ (i - 1) * MetaLen[TableFmt(a)] + 1 <= TableLen(a)
         /\ MetaOf(a, i) \in Cells \cup {Zeros}
         /\ MetaOf(a, i).off \in Nat /\ MetaOf(a, i).size \in Nat /\ MetaOf(a, i).index \in Nat
         /\ MetaOf(a, i).index < RootHead(a).strings
         /\ CellsOf(a)[NamesPos(a) + MetaOf(a, i).index + 1].text = FilesOf(a)[i]
         /\ DataPos(a) + MetaOf(a, i).off + MetaOf(a, i).size <= a.size
         /\ Part(CellsOf(a), DataPos(a) + MetaOf(a, i).off,
                   DataPos(a) + MetaOf(a, i).off + MetaOf(a, i).size) = ChildCells(a, FilesOf(a)[i])
<1> DEFINE fmt == TableFmt(a)
           base == Base(a)
<1>1. CellsOf(a) \in Buffer /\ FilesOf(a) \in Seq(Words) /\ a.size = Len(CellsOf(a)) /\ a.size \in Nat
  BY Layout
<1>2. i \in 1 .. Len(FilesOf(a)) /\ Len(FilesOf(a)) \in Nat
  BY <1>1
<1>3. LaidOut(Trees[tree], a.path, base, fmt)
  BY Layout
<1>4. LET m == CellsOf(a)[base + HeaderLen[fmt] + (i - 1) * MetaLen[fmt] + 1]
          names == base + HeaderLen[fmt] + Len(FilesOf(a)) * MetaLen[fmt]
          data == names + CellsOf(a)[base + 1].strings
      IN  /\ m.index < CellsOf(a)[base + 1].strings /\ CellsOf(a)[names + m.index + 1].text = FilesOf(a)[i]
          /\ data + m.off + m.size <= Len(CellsOf(a))
          /\ Part(CellsOf(a), data + m.off, data + m.off + m.size) = ChildCells(a, FilesOf(a)[i])
  BY <1>3 DEF LaidOut, CellsOf, FilesOf, ChildCells, NodeAt
<1>5. LET m == MetaOf(a, i)
      IN  /\ m.index < RootHead(a).strings /\ CellsOf(a)[NamesPos(a) + m.index + 1].text = FilesOf(a)[i]
          /\ DataPos(a) + m.off + m.size <= Len(CellsOf(a))
          /\ Part(CellsOf(a), DataPos(a) + m.off, DataPos(a) + m.off + m.size) = ChildCells(a, FilesOf(a)[i])
  BY <1>4 DEF MetaOf, RootHead, NamesPos, DataPos, TablePos, TableLen
<1>6. MetaLen[fmt] \in Nat \ {0} /\ TableLen(a) = Len(FilesOf(a)) * MetaLen[fmt]
  BY PlacesOp DEF TableLen
<1> HIDE DEF fmt, base
<1>7. (i - 1) * MetaLen[fmt] \in Nat /\ (i - 1) * MetaLen[fmt] + 1 <= TableLen(a) /\ TableLen(a) \in Nat
  BY <1>2, <1>6, TableRow
<1>8. TablePos(a) + (i - 1) * MetaLen[fmt] + 1 \in 1 .. a.size
  <2>1. PICK row \in Nat : row = (i - 1) * MetaLen[fmt]
    BY <1>7
  <2>2. /\ TablePos(a) \in Nat /\ NamesPos(a) = TablePos(a) + TableLen(a)
        /\ DataPos(a) = NamesPos(a) + RootHead(a).strings /\ RootHead(a).strings \in Nat
        /\ DataPos(a) <= a.size
    BY PlacesOp
  <2>3. row + 1 <= TableLen(a) /\ TableLen(a) \in Nat
    BY <1>7, <2>1
  <2>4. TablePos(a) + row + 1 \in 1 .. a.size
    BY <1>1, <2>2, <2>3
  <2> QED
    BY <2>1, <2>4
<1>9. MetaOf(a, i) = CellsOf(a)[TablePos(a) + (i - 1) * MetaLen[fmt] + 1]
  BY DEF MetaOf, fmt
<1>10. MetaOf(a, i) \in Cells \cup {Zeros}
  BY <1>1, <1>8, <1>9 DEF Buffer
<1>11. MetaOf(a, i).off \in Nat /\ MetaOf(a, i).size \in Nat /\ MetaOf(a, i).index \in Nat
  BY <1>10, CellOp
<1> QED
  BY <1>1, <1>2, <1>5, <1>7, <1>10, <1>11 DEF fmt

\* The tables parse reads, and what it makes of them.
LEMMA TablesOp ==
  ASSUME NEW a, Sound(a)
  PROVE  /\ TableOf(a) \in Buffer /\ Len(TableOf(a)) = TableLen(a)
         /\ NamesOf(a) \in Buffer /\ Len(NamesOf(a)) = RootHead(a).strings
         /\ Entries(TableFmt(a), Len(FilesOf(a)), TableOf(a), NamesOf(a)) = EntriesOf(a)
<1>1. CellsOf(a) \in Buffer /\ a.size = Len(CellsOf(a)) /\ a.size \in Nat
  BY Layout
<1>2. /\ TablePos(a) \in Nat /\ NamesPos(a) = TablePos(a) + TableLen(a) /\ TableLen(a) \in Nat
      /\ DataPos(a) = NamesPos(a) + RootHead(a).strings /\ RootHead(a).strings \in Nat
      /\ DataPos(a) <= a.size /\ NamesPos(a) \in Nat
  BY PlacesOp
<1>3. /\ NamesPos(a) <= Len(CellsOf(a)) /\ TablePos(a) <= NamesPos(a) /\ NamesPos(a) - TablePos(a) = TableLen(a)
      /\ NamesPos(a) <= DataPos(a) /\ DataPos(a) <= Len(CellsOf(a)) /\ DataPos(a) \in Nat
      /\ DataPos(a) - NamesPos(a) = RootHead(a).strings
  BY <1>1, <1>2
<1>4. /\ TableOf(a) \in Buffer /\ Len(TableOf(a)) = TableLen(a)
      /\ \A k \in 1 .. TableLen(a) : TableOf(a)[k] = CellsOf(a)[TablePos(a) + k]
  <2>1. TablePos(a) + TableLen(a) <= Len(CellsOf(a))
    BY <1>2, <1>3
  <2> QED
    BY <1>1, <1>2, <2>1, PieceOp DEF TableOf, Buffer, Within
<1>5. /\ NamesOf(a) \in Buffer /\ Len(NamesOf(a)) = RootHead(a).strings
      /\ \A k \in 1 .. RootHead(a).strings : NamesOf(a)[k] = CellsOf(a)[NamesPos(a) + k]
  <2>1. PICK n \in Nat : n = RootHead(a).strings
    BY <1>2
  <2>2. NamesPos(a) + n <= Len(CellsOf(a))
    BY <1>2, <1>3, <2>1
  <2>3. NamesOf(a) = Part(CellsOf(a), NamesPos(a), NamesPos(a) + n)
    BY <2>1 DEF NamesOf
  <2>5. CellsOf(a) \in Seq(Cells \cup {Zeros}) /\ NamesPos(a) \in Nat
    BY <1>1, <1>2 DEF Buffer
  <2>6. LET names == Part(CellsOf(a), NamesPos(a), NamesPos(a) + n)
        IN  /\ names \in Seq(Cells \cup {Zeros}) /\ Len(names) = n
            /\ \A k \in 1 .. n : names[k] = CellsOf(a)[NamesPos(a) + k]
    <3>1. PICK S : S = Cells \cup {Zeros}
      OBVIOUS
    <3>2. PICK x \in Seq(S) : x = CellsOf(a)
      BY <2>5, <3>1
    <3>3. PICK p \in Nat : p = NamesPos(a)
      BY <2>5
    <3>4. p + n \in Nat /\ p <= p + n /\ p + n <= Len(x)
      BY <2>2, <3>2, <3>3
    <3>5. Within(x, p, p + n)
      BY <3>4 DEF Within
    <3>6. /\ Part(x, p, p + n) \in Seq(S) /\ Len(Part(x, p, p + n)) = n
          /\ \A k \in 1 .. n : Part(x, p, p + n)[k] = x[p + k]
      BY <3>5 DEF Part, Within
    <3> QED
      BY <3>1, <3>2, <3>3, <3>6
  <2>4. /\ NamesOf(a) \in Buffer /\ Len(NamesOf(a)) = n
        /\ \A k \in 1 .. n : NamesOf(a)[k] = CellsOf(a)[NamesPos(a) + k]
    BY <2>3, <2>6 DEF Buffer
  <2> QED
    BY <2>1, <2>4
<1>6. Len(FilesOf(a)) \in Nat /\ DOMAIN FilesOf(a) = 1 .. Len(FilesOf(a))
  BY Layout
<1>7. ASSUME NEW i \in 1 .. Len(FilesOf(a))
      PROVE  LET m == TableOf(a)[(i - 1) * MetaLen[TableFmt(a)] + 1]
             IN  /\ m = MetaOf(a, i)
                 /\ m.index < Len(NamesOf(a)) /\ NamesOf(a)[m.index + 1].text = FilesOf(a)[i]
  <2>1. PICK row \in Nat : row = (i - 1) * MetaLen[TableFmt(a)]
    BY <1>6, MetaOp
  <2>2. row + 1 \in 1 .. TableLen(a)
    <3>1. row + 1 <= TableLen(a)
      BY <1>6, <2>1, MetaOp
    <3> QED
      BY <1>2, <3>1
  <2>3. TableOf(a)[row + 1] = CellsOf(a)[TablePos(a) + (row + 1)] /\ TablePos(a) + (row + 1) = TablePos(a) + row + 1
    BY <1>2, <1>4, <2>2
  <2>4. MetaOf(a, i) = CellsOf(a)[TablePos(a) + row + 1]
    BY <2>1 DEF MetaOf
  <2>5. TableOf(a)[row + 1] = MetaOf(a, i)
    BY <2>3, <2>4
  <2>6. /\ MetaOf(a, i).index \in Nat /\ MetaOf(a, i).index < RootHead(a).strings
        /\ CellsOf(a)[NamesPos(a) + MetaOf(a, i).index + 1].text = FilesOf(a)[i]
    BY <1>6, MetaOp
  <2>7. MetaOf(a, i).index + 1 \in 1 .. RootHead(a).strings
        /\ NamesPos(a) + (MetaOf(a, i).index + 1) = NamesPos(a) + MetaOf(a, i).index + 1
    <3>1. PICK k \in Nat : k = MetaOf(a, i).index
      BY <2>6
    <3>2. k < RootHead(a).strings
      BY <2>6, <3>1
    <3>3. k + 1 \in 1 .. RootHead(a).strings /\ NamesPos(a) + (k + 1) = NamesPos(a) + k + 1
      BY <1>2, <3>2
    <3> QED
      BY <3>1, <3>3
  <2>8. NamesOf(a)[MetaOf(a, i).index + 1].text = FilesOf(a)[i]
    BY <1>5, <2>6, <2>7
  <2> QED
    BY <1>5, <2>1, <2>5, <2>6, <2>8
<1>8. Entries(TableFmt(a), Len(FilesOf(a)), TableOf(a), NamesOf(a)) = EntriesOf(a)
  BY <1>7 DEF Entries, EntriesOf
<1> QED
  BY <1>4, <1>5, <1>8

\* What Xci::parse makes of its first three reads.
LEMMA CardOp ==
  ASSUME NEW a, Sound(a), a.fmt = "HEAD", NEW reads, HeadOf(reads[1]) = RootHead(a),
         reads[2] = TableOf(a), reads[3] = NamesOf(a)
  PROVE  XciEntries(a, reads) = CardEntries(a)
<1>1. TableFmt(a) = "HFS0" /\ Base(a) = a.header.off
  BY DEF TableFmt, Base
<1>2. /\ RootHead(a).num = Len(FilesOf(a))
      /\ TablePos(a) = Base(a) + HeaderLen[TableFmt(a)]
      /\ NamesPos(a) = TablePos(a) + TableLen(a) /\ DataPos(a) = NamesPos(a) + RootHead(a).strings
  BY PlacesOp
<1>3. NamesAt(a.header.off, "HFS0", RootHead(a)).pos + RootHead(a).strings = DataPos(a)
  BY <1>1, <1>2 DEF NamesAt, TableLen
<1>4. Entries("HFS0", RootHead(a).num, reads[2], reads[3]) = EntriesOf(a)
  BY <1>1, <1>2, TablesOp
<1>5. XciEntries(a, reads) = [i \in DOMAIN EntriesOf(a) |-> [EntriesOf(a)[i] EXCEPT !.off = @ + DataPos(a)]]
  BY <1>3, <1>4 DEF XciEntries
<1>6. DOMAIN EntriesOf(a) = 1 .. Len(FilesOf(a))
  BY DEF EntriesOf
<1>7. \A i \in 1 .. Len(FilesOf(a)) : [EntriesOf(a)[i] EXCEPT !.off = @ + DataPos(a)] = CardEntries(a)[i]
  BY DEF EntriesOf, CardEntries
<1> QED
  BY <1>5, <1>6, <1>7 DEF CardEntries

-----------------------------------------------------------------------------
(* Reads.                                                                  *)

\* A file or archive is a part of the image.
LEMMA FitsOp ==
  ASSUME tree \in DOMAIN Trees, NEW f, Fits(f), f.lo \in Nat
  PROVE  /\ NodeAt(f.path).cells \in Buffer /\ f.size = Len(NodeAt(f.path).cells) /\ f.size \in Nat
         /\ Image \in Buffer /\ Len(Image) \in Nat /\ f.lo + f.size <= Len(Image)
         /\ Part(Image, f.lo, f.lo + f.size) = NodeAt(f.path).cells
<1>1. NodeAt(f.path).cells \in Buffer
  BY NodeOp DEF Fits
<1>2. f.size = Len(NodeAt(f.path).cells) /\ f.size \in Nat
  BY <1>1 DEF Fits, Buffer
<1> QED
  BY <1>1, <1>2, RootOp DEF Fits, Covers

LEMMA LesserOp ==
  ASSUME NEW a \in Int, NEW b \in Int
  PROVE  /\ Lesser(a, b) \in Int /\ Lesser(a, b) <= a /\ Lesser(a, b) <= b
         /\ (a <= b => Lesser(a, b) = a) /\ (b <= a => Lesser(a, b) = b)
BY DEF Lesser

\* OffsetFile::read stays within the entry, and so within the image.
Clamped(lo, size, total, pos, len, from, length) ==
  /\ lo \in Nat /\ size \in Nat /\ total \in Nat /\ lo + size <= total
  /\ pos \in Nat /\ len \in Nat
  /\ from = Lesser(pos, size) /\ length = Lesser(len, size - from)

LEMMA ClampOp ==
  ASSUME NEW lo, NEW size, NEW total, NEW pos, NEW len, NEW from, NEW length,
         Clamped(lo, size, total, pos, len, from, length)
  PROVE  /\ from \in Nat /\ length \in Nat /\ from <= size /\ from + length <= size
         /\ lo + from \in 0 .. total /\ lo + (from + length) <= total
         /\ Lesser((lo + from) + length, total) = lo + (from + length)
<1> USE DEF Clamped
<1>1. from \in Nat /\ from <= size
  BY DEF Lesser
<1>2. size - from \in Nat
  BY <1>1
<1>3. length \in Nat /\ length <= size - from
  BY <1>2 DEF Lesser
<1>4. from + length <= size /\ lo + from \in 0 .. total /\ lo + (from + length) <= total
      /\ (lo + from) + length = lo + (from + length) /\ (lo + from) + length \in Nat
  BY <1>1, <1>3
<1>5. Lesser((lo + from) + length, total) = lo + (from + length)
  BY <1>4, LesserOp
<1> QED
  BY <1>1, <1>3, <1>4, <1>5

LEMMA ClampWithin ==
  ASSUME NEW lo, NEW size, NEW total, NEW pos, NEW len, NEW from, NEW length,
         Clamped(lo, size, total, pos, len, from, length), pos <= size
  PROVE  from = pos /\ from + length = Lesser(pos + len, size)
BY DEF Lesser, Clamped

LEMMA ClampBehind ==
  ASSUME NEW lo, NEW size, NEW total, NEW pos, NEW len, NEW from, NEW length,
         Clamped(lo, size, total, pos, len, from, length), size < pos
  PROVE  from = size /\ from + length = size /\ Lesser(pos + len, size) = size
BY DEF Lesser, Clamped

\* A clamped part of a part.
LEMMA PassageOp ==
  ASSUME NEW S, NEW img \in Seq(S), NEW lo, NEW size, NEW total, NEW pos, NEW len, NEW from, NEW length,
         total = Len(img), Clamped(lo, size, total, pos, len, from, length),
         NEW cells \in Seq(S), Len(cells) = size, Part(img, lo, lo + size) = cells
  PROVE  /\ lo + from \in 0 .. total
         /\ Part(img, lo + from, Lesser((lo + from) + length, total))
              = Part(cells, pos, Lesser(pos + len, size))
         /\ Part(cells, pos, Lesser(pos + len, size)) \in Seq(S)
<1>1. /\ from \in Nat /\ length \in Nat /\ from <= size /\ from + length <= size
      /\ lo + from \in 0 .. total /\ lo + (from + length) <= total
      /\ Lesser((lo + from) + length, total) = lo + (from + length)
  BY ClampOp
<1>2. lo \in Nat /\ size \in Nat /\ pos \in Nat /\ len \in Nat /\ lo + size <= total
  BY DEF Clamped
<1>3. PICK end \in Nat : end = from + length
  BY <1>1
<1>4. from \in Nat /\ from <= end /\ end <= size /\ end \in Nat
  BY <1>1, <1>3
<1>5. Part(img, lo + from, lo + end) = Part(cells, from, end)
  <2>1. Nested(img, lo, size, from, end)
    BY <1>2, <1>4 DEF Nested
  <2>2. Part(img, lo + from, lo + end) = Part(Part(img, lo, lo + size), from, end)
    BY <2>1, PartOfPart
  <2> QED
    BY <2>2
<1>6. Part(img, lo + from, Lesser((lo + from) + length, total)) = Part(cells, from, end)
  BY <1>1, <1>3, <1>5
<1>7. CASE pos <= size
  <2>1. from = pos /\ end = Lesser(pos + len, size)
    BY <1>3, <1>7, ClampWithin
  <2>2. Part(cells, from, end) \in Seq(S)
    BY <1>4, PartOp DEF Within
  <2> QED
    BY <1>1, <1>6, <2>1, <2>2
<1>8. CASE size < pos
  <2>1. from = size /\ end = size /\ Lesser(pos + len, size) = size
    BY <1>3, <1>8, ClampBehind
  <2>2. Part(cells, pos, size) = <<>> /\ Part(cells, size, size) = <<>>
    BY <1>2, <1>8, PartNone
  <2>3. <<>> \in Seq(S)
    OBVIOUS
  <2> QED
    BY <1>1, <1>6, <2>1, <2>2, <2>3
<1>9. pos <= size \/ size < pos
  BY <1>2
<1> QED
  BY <1>7, <1>8, <1>9

\* What seek and read give of the image is what the file has there.
LEMMA ReadOp ==
  ASSUME tree \in DOMAIN Trees, NEW f, Fits(f), f.lo \in Nat, NEW pos \in Nat, NEW len \in Nat,
         NEW from, from = Lesser(pos, f.size), NEW length, length = Lesser(len, f.size - from)
  PROVE  /\ f.lo + from \in 0 .. Len(Image)
         /\ Part(Image, f.lo + from, Lesser((f.lo + from) + length, Len(Image))) = CellsFrom(f, pos, len)
         /\ CellsFrom(f, pos, len) \in Buffer
<1> DEFINE cells == NodeAt(f.path).cells
<1>1. /\ cells \in Seq(Cells \cup {Zeros}) /\ f.size = Len(cells) /\ f.size \in Nat
      /\ Image \in Seq(Cells \cup {Zeros}) /\ Len(Image) \in Nat /\ f.lo + f.size <= Len(Image)
      /\ Part(Image, f.lo, f.lo + f.size) = cells
  BY FitsOp DEF Buffer
<1>2. CellsFrom(f, pos, len) = Part(cells, pos, Lesser(pos + len, f.size))
  BY <1>1 DEF CellsFrom
<1> HIDE DEF cells
<1>4. Clamped(f.lo, f.size, Len(Image), pos, len, from, length)
  BY <1>1 DEF Clamped
<1>5. PICK total : total = Len(Image)
  OBVIOUS
<1>3. /\ f.lo + from \in 0 .. total
      /\ Part(Image, f.lo + from, Lesser((f.lo + from) + length, total))
           = Part(cells, pos, Lesser(pos + len, f.size))
      /\ Part(cells, pos, Lesser(pos + len, f.size)) \in Seq(Cells \cup {Zeros})
  <2>1. /\ Image \in Seq(Cells \cup {Zeros}) /\ total = Len(Image) /\ cells \in Seq(Cells \cup {Zeros})
        /\ Len(cells) = f.size /\ Part(Image, f.lo, f.lo + f.size) = cells
        /\ Clamped(f.lo, f.size, total, pos, len, from, length)
    BY <1>1, <1>4, <1>5
  <2> QED
    BY <2>1, PassageOp
<1> QED
  BY <1>2, <1>3, <1>5 DEF Buffer

\* All of what was asked for, when it is there.
LEMMA ReadAll ==
  ASSUME tree \in DOMAIN Trees, NEW f, Fits(f), f.lo \in Nat, NEW pos \in Nat, NEW len \in Nat,
         pos + len <= f.size
  PROVE  CellsFrom(f, pos, len) = Part(NodeAt(f.path).cells, pos, pos + len)
<1>1. f.size = Len(NodeAt(f.path).cells) /\ f.size \in Nat
  BY FitsOp
<1>2. Lesser(pos + len, f.size) = pos + len
  BY <1>1 DEF Lesser
<1> QED
  BY <1>1, <1>2 DEF CellsFrom

-----------------------------------------------------------------------------
(* The image does not change.                                              *)

LEMMA SameTree ==
  ASSUME tree' = tree, kind' = kind
  PROVE  /\ Image' = Image
         /\ \A p : NodeAt(p)' = NodeAt(p)
         /\ \A a : Fits(a)' <=> Fits(a)
         /\ \A a : ArchExact(a)' <=> ArchExact(a)
         /\ \A a, n : DictHas(a, n)' <=> DictHas(a, n)
         /\ \A a, n : ChildCells(a, n)' = ChildCells(a, n)
         /\ \A c, f, a, where : CallExact(c, f, a, where)' <=> CallExact(c, f, a, where)
         /\ \A a : AnswerRight(a)' <=> AnswerRight(a)
<1>1. Image' = Image /\ \A p : NodeAt(p)' = NodeAt(p)
  BY DEF Image, NodeAt
<1>2. \A a : Fits(a)' <=> Fits(a)
  BY <1>1 DEF Fits, Covers
<1>3. /\ \A a : FilesOf(a)' = FilesOf(a) /\ CellsOf(a)' = CellsOf(a)
      /\ \A a, n : ChildCells(a, n)' = ChildCells(a, n)
  BY <1>1 DEF FilesOf, CellsOf, ChildCells
<1>4. \A a : RootHead(a)' = RootHead(a) /\ TableLen(a)' = TableLen(a) /\ NamesPos(a)' = NamesPos(a)
             /\ DataPos(a)' = DataPos(a)
  BY <1>3 DEF RootHead, TableLen, NamesPos, DataPos
<1>5. /\ \A a : TableOf(a)' = TableOf(a) /\ NamesOf(a)' = NamesOf(a)
      /\ \A a, i : MetaOf(a, i)' = MetaOf(a, i)
  BY <1>3, <1>4 DEF TableOf, NamesOf, MetaOf
<1>6. \A a : EntriesOf(a)' = EntriesOf(a) /\ CardEntries(a)' = CardEntries(a)
  BY <1>3, <1>4, <1>5 DEF EntriesOf, CardEntries
<1>7. \A a : PartsExact(a)' <=> PartsExact(a)
  BY <1>3, <1>6 DEF PartsExact
<1>8. \A a, n : PartMade(a, n)' <=> PartMade(a, n)
  BY <1>3 DEF PartMade
<1>9. \A a : PartsMade(a)' <=> PartsMade(a)
  BY <1>1, <1>8 DEF PartsMade
<1>10. \A a : ArchExact(a)' <=> ArchExact(a)
  BY <1>2, <1>3, <1>4, <1>7 DEF ArchExact
<1>11. \A a, n : DictHas(a, n)' <=> DictHas(a, n)
  BY <1>3 DEF DictHas
<1>12. \A f, pos, len : CellsFrom(f, pos, len)' = CellsFrom(f, pos, len)
  BY <1>1 DEF CellsFrom
<1>13. \A c, f : FileCall(c, f)' <=> FileCall(c, f)
  BY <1>12 DEF FileCall
<1>14. \A a, c : (TableReads(a, c)' <=> TableReads(a, c)) /\ (CardReads(a, c)' <=> CardReads(a, c))
  BY <1>3, <1>4, <1>5, <1>6, <1>8 DEF TableReads, CardReads
<1>15. \A c, a : ArchiveCall(c, a)' <=> ArchiveCall(c, a)
  BY <1>4, <1>6, <1>9, <1>14 DEF ArchiveCall
<1>16. \A c, f, a, where : CallExact(c, f, a, where)' <=> CallExact(c, f, a, where)
  BY <1>13, <1>15 DEF CallExact
<1>17. \A a : AnswerRight(a)' <=> AnswerRight(a)
  BY <1>1 DEF AnswerRight, Found, ReadRight
<1> QED
  BY <1>1, <1>2, <1>3, <1>10, <1>11, <1>16, <1>17

\* What depends on an archive only through what it was made with.
SameBase(a, b) ==
  a.fmt = b.fmt /\ a.path = b.path /\ a.lo = b.lo /\ a.size = b.size /\ a.header = b.header

LEMMA SameBaseOp ==
  ASSUME NEW a, NEW b, SameBase(a, b)
  PROVE  /\ (Fits(a) <=> Fits(b)) /\ (IsValid(a) <=> IsValid(b))
         /\ CellsOf(a) = CellsOf(b) /\ FilesOf(a) = FilesOf(b) /\ \A n : ChildCells(a, n) = ChildCells(b, n)
         /\ RootHead(a) = RootHead(b) /\ TableLen(a) = TableLen(b) /\ DataPos(a) = DataPos(b)
         /\ TableOf(a) = TableOf(b) /\ NamesOf(a) = NamesOf(b)
         /\ EntriesOf(a) = EntriesOf(b) /\ CardEntries(a) = CardEntries(b)
         /\ \A reads : XciEntries(a, reads) = XciEntries(b, reads)
         /\ \A c : Ahead(a, c) = Ahead(b, c)
         /\ \A c : ArchiveRead(a, c) = ArchiveRead(b, c)
<1> USE DEF SameBase
<1>1. (Fits(a) <=> Fits(b)) /\ (IsValid(a) <=> IsValid(b))
  BY DEF Fits, Covers, IsValid
<1>2. CellsOf(a) = CellsOf(b) /\ FilesOf(a) = FilesOf(b) /\ \A n : ChildCells(a, n) = ChildCells(b, n)
  BY DEF CellsOf, FilesOf, ChildCells
<1>3. Base(a) = Base(b) /\ TableFmt(a) = TableFmt(b)
  BY DEF Base, TableFmt
<1>4. RootHead(a) = RootHead(b) /\ TablePos(a) = TablePos(b) /\ TableLen(a) = TableLen(b)
  BY <1>2, <1>3 DEF RootHead, TablePos, TableLen
<1>5. NamesPos(a) = NamesPos(b) /\ DataPos(a) = DataPos(b)
  BY <1>4 DEF NamesPos, DataPos
<1>6. TableOf(a) = TableOf(b) /\ NamesOf(a) = NamesOf(b) /\ \A i : MetaOf(a, i) = MetaOf(b, i)
  BY <1>2, <1>3, <1>4, <1>5 DEF TableOf, NamesOf, MetaOf
<1>7. EntriesOf(a) = EntriesOf(b) /\ CardEntries(a) = CardEntries(b)
  BY <1>2, <1>5, <1>6 DEF EntriesOf, CardEntries
<1>8. \A reads : XciEntries(a, reads) = XciEntries(b, reads)
  BY DEF XciEntries
<1>9. \A c : Ahead(a, c) = Ahead(b, c)
  BY <1>8 DEF Ahead
<1>10. \A c : ArchiveRead(a, c) = ArchiveRead(b, c)
  BY <1>8, <1>9 DEF ArchiveRead
<1> QED
  BY <1>1, <1>2, <1>4, <1>5, <1>6, <1>7, <1>8, <1>9, <1>10

\* What a step leaves of an archive that another thread has in hand.
Kept(a, b) ==
  /\ SameBase(a, b)
  /\ a.parsed => b.parsed
  /\ \A n : PartMade(a, n) => PartMade(b, n)
  /\ a.entries = EntriesOf(a) /\ a.data = DataPos(a) => b.entries = EntriesOf(a) /\ b.data = DataPos(a)

LEMMA KeptCall ==
  ASSUME NEW c, NEW f, NEW a, NEW b, NEW where, CallExact(c, f, a, where), Kept(a, b)
  PROVE  CallExact(c, f, b, where)
<1>1. SameBase(a, b)
  BY DEF Kept
<1>2. \A reads : XciEntries(a, reads) = XciEntries(b, reads)
  BY <1>1, SameBaseOp
<1>3. CardReads(a, c) => CardReads(b, c)
  BY <1>1, <1>2, SameBaseOp DEF CardReads, Kept, SameBase
<1>4. TableReads(a, c) => TableReads(b, c)
  BY <1>1, SameBaseOp DEF TableReads
<1>5. PartsMade(a) => PartsMade(b)
  BY <1>1 DEF PartsMade, Kept, SameBase
<1>6. ArchiveCall(c, b)
  <2>1. ArchiveCall(c, a)
    BY DEF CallExact
  <2>2. a.fmt = b.fmt
    BY <1>1 DEF SameBase
  <2>3. /\ EntriesOf(a) = EntriesOf(b) /\ DataPos(a) = DataPos(b) /\ (IsValid(a) <=> IsValid(b))
    BY <1>1, SameBaseOp
  <2>4. /\ a.parsed => b.parsed
        /\ a.entries = EntriesOf(a) /\ a.data = DataPos(a) => b.entries = EntriesOf(a) /\ b.data = DataPos(a)
    BY DEF Kept
  <2> QED
    BY <1>3, <1>4, <1>5, <2>1, <2>2, <2>3, <2>4 DEF ArchiveCall
<1>7. Sought(c, f, b, where)
  <2>1. Sought(c, f, a, where)
    BY DEF CallExact
  <2>2. TheRead(c, f, a) = TheRead(c, f, b)
    BY <1>1, SameBaseOp DEF TheRead
  <2>3. TheSource(c, f, a).lo = TheSource(c, f, b).lo /\ TheSource(c, f, a).size = TheSource(c, f, b).size
    BY <1>1 DEF TheSource, SameBase
  <2> QED
    BY <2>1, <2>2, <2>3 DEF Sought, TheStart
<1> QED
  BY <1>6, <1>7 DEF CallExact

\* A call on a file does not depend on any archive.
LEMMA FileCallOnly ==
  ASSUME NEW c, NEW f, NEW a, NEW b, NEW where, c.op \notin ArchiveOps, c.op \in Ops,
         CallExact(c, f, a, where)
  PROVE  CallExact(c, f, b, where)
<1>1. c.op = "none" \/ c.op \in FileOps
  BY DEF Ops, ArchiveOps, FileOps
<1>2. c.op # "none" => TheRead(c, f, a) = TheRead(c, f, b) /\ TheSource(c, f, a) = TheSource(c, f, b)
  BY <1>1 DEF TheRead, TheSource
<1>3. Sought(c, f, b, where)
  BY <1>2 DEF CallExact, Sought, TheStart
<1>4. ArchiveCall(c, b)
  BY DEF ArchiveCall
<1> QED
  BY <1>3, <1>4 DEF CallExact
-----------------------------------------------------------------------------
(* A step of one thread.                                                   *)

Alone(t) ==
  /\ tree' = tree /\ kind' = kind
  /\ \A u \in Threads \ {t} : call'[u] = call[u] /\ mine'[u] = mine[u] /\ answer'[u] = answer[u]

\* Archives keep what they were made with.
Grown ==
  /\ arch' \in Seq(ArchTypes) /\ Len(arch) <= Len(arch')
  /\ \A o \in DOMAIN arch : SameBase(arch[o], arch'[o])

LEMMA KeptSame ==
  ASSUME NEW a
  PROVE  SameBase(a, a) /\ Kept(a, a)
BY DEF SameBase, Kept

LEMMA DictKept ==
  ASSUME tree' = tree, kind' = kind, Types, Grown, NEW o \in DOMAIN arch, arch'[o].dict = arch[o].dict,
         arch'[o].data = arch[o].data, DictExact(arch[o])
  PROVE  DictExact(arch[o])'
<1>1. SameBase(arch[o], arch'[o])
  BY DEF Grown
<1>2. \A n : ChildCells(arch'[o], n) = ChildCells(arch[o], n) /\ CellsOf(arch'[o]) = CellsOf(arch[o])
  BY <1>1, SameBaseOp
<1>3. \A n : DictHas(arch[o], n) => DictHas(arch'[o], n)
  BY <1>1, <1>2 DEF DictHas, SameBase
<1>4. \A n : DictHas(arch[o], n) => DictHas(arch[o], n)'
  BY <1>3, SameTree
<1>5. arch \in Seq(ArchTypes) /\ arch' \in Seq(ArchTypes) /\ Len(arch) <= Len(arch')
  BY DEF Types, Grown
<1>6. \A i \in DOMAIN arch : i \in DOMAIN arch' /\ arch'[i].header = arch[i].header
  <2>1. \A i \in DOMAIN arch : i \in DOMAIN arch'
    BY <1>5
  <2> QED
    BY <2>1 DEF Grown, SameBase
<1>7. \A n : DictLeads(arch[o], n) => DictLeads(arch[o], n)'
  <2>1. \A n : ChildCells(arch[o], n)' = ChildCells(arch[o], n)
    BY <1>2, SameTree
  <2> QED
    BY <1>1, <1>6, <2>1 DEF DictLeads, SameBase
<1>8. Names(NodeAt(arch[o].path))' = Names(NodeAt(arch[o].path))
  BY <1>1, SameTree DEF SameBase
<1> QED
  BY <1>4, <1>7, <1>8 DEF DictExact

LEMMA StepOp ==
  ASSUME Types, Undisturbed, NEW t \in Threads, Alone(t), Grown,
         call' \in [Threads -> CallTypes],
         Fits(mine'[t]), AnswerRight(answer'[t]),
         CallExact(call'[t], mine'[t], arch'[call'[t].obj], at'),
         \A o \in DOMAIN arch' : ArchExact(arch'[o]),
         \A o \in DOMAIN arch' : (arch[o].parsed /\ Settled(o) => DictExact(arch[o]))',
         \A u \in Threads \ {t} : call[u].stage = "sought" => at' = at,
         \A u \in Threads \ {t} : call[u].op \in ArchiveOps => Kept(arch[call[u].obj], arch'[call[u].obj])
  PROVE  Undisturbed'
<1>1. tree' = tree /\ kind' = kind
  BY DEF Alone
<1>2. \A o \in DOMAIN arch' : ArchExact(arch[o])'
  BY <1>1, SameTree
<1>3. ASSUME NEW u \in Threads
      PROVE  (Fits(mine[u]) /\ AnswerRight(answer[u]) /\ CallExact(call[u], mine[u], arch[call[u].obj], at))'
  <2>1. CASE u = t
    BY <1>1, <2>1, SameTree
  <2>2. CASE u # t
    <3>1. call'[u] = call[u] /\ mine'[u] = mine[u] /\ answer'[u] = answer[u]
      BY <2>2 DEF Alone
    <3>2. Fits(mine[u]) /\ AnswerRight(answer[u]) /\ CallExact(call[u], mine[u], arch[call[u].obj], at)
      BY DEF Undisturbed
    <3>3. CallExact(call[u], mine[u], arch'[call[u].obj], at)
      <4>1. CASE call[u].op \in ArchiveOps
        BY <2>2, <3>2, <4>1, KeptCall
      <4>2. CASE call[u].op \notin ArchiveOps
        <5>1. call[u].op \in Ops
          BY DEF Types, CallTypes
        <5> QED
          BY <3>2, <4>2, <5>1, FileCallOnly
      <4> QED
        BY <4>1, <4>2
    <3>4. CallExact(call[u], mine[u], arch'[call[u].obj], at')
      <4>1. CASE call[u].stage = "sought"
        BY <2>2, <3>3, <4>1
      <4>2. CASE call[u].stage # "sought"
        BY <3>3, <4>2 DEF CallExact, Sought
      <4> QED
        BY <4>1, <4>2
    <3> QED
      BY <1>1, <3>1, <3>2, <3>4, SameTree
  <2> QED
    BY <2>1, <2>2
<1> QED
  BY <1>2, <1>3 DEF Undisturbed

\* Steps that leave the archives alone.
LEMMA StepSame ==
  ASSUME Types, Undisturbed, NEW t \in Threads, Alone(t), arch' = arch,
         call' \in [Threads -> CallTypes], call[t].stage # "fill",
         Fits(mine'[t]), AnswerRight(answer'[t]),
         CallExact(call'[t], mine'[t], arch[call'[t].obj], at'),
         \A u \in Threads \ {t} : call[u].stage = "sought" => at' = at
  PROVE  Undisturbed'
<1>1. Grown
  BY KeptSame DEF Grown, Types
<1>2. \A o \in DOMAIN arch' : ArchExact(arch'[o])
  BY DEF Undisturbed
<1>3. ASSUME NEW o \in DOMAIN arch' PROVE (arch[o].parsed /\ Settled(o) => DictExact(arch[o]))'
  <2>1. Settled(o)' => Settled(o)
    BY DEF Settled, Alone
  <2>2. arch[o].parsed /\ Settled(o) => DictExact(arch[o])
    BY DEF Undisturbed
  <2>3. DictExact(arch[o]) => DictExact(arch[o])'
    BY <1>1, DictKept DEF Alone
  <2> QED
    BY <2>1, <2>2, <2>3
<1>4. \A u \in Threads \ {t} : Kept(arch[call[u].obj], arch'[call[u].obj])
  BY KeptSame
<1> QED
  BY <1>1, <1>2, <1>3, <1>4, StepOp
LEMMA ExceptOp ==
  ASSUME NEW S, NEW T, NEW f \in [S -> T], NEW x \in S, NEW v \in T, NEW g, g = [f EXCEPT ![x] = v]
  PROVE  g \in [S -> T] /\ g[x] = v /\ \A y \in S \ {x} : g[y] = f[y]
OBVIOUS

\* Nobody else is inside a call that holds the lock.
LEMMA LockFree ==
  ASSUME Types, NEW t \in Threads, Free(t), kind = "path", NEW u \in Threads \ {t}
  PROVE  call[u].stage \notin {"read", "sought"}
BY BindingsAssumption DEF Types, LockHeld, Free

LEMMA TypesStep ==
  ASSUME Types, NEW t \in Threads, Alone(t), Free(t),
         arch' \in Seq(ArchTypes), Len(arch) <= Len(arch'),
         call' \in [Threads -> CallTypes], mine' \in [Threads -> FileTypes],
         answer' \in [Threads -> AnswerTypes],
         call'[t].obj \in 0 .. Len(arch'),
         calls' = calls \/ (calls[t] < CallBound[t] /\ calls' = [calls EXCEPT ![t] = @ + 1]),
         faults' \in 0 .. FaultBound, at' \in 0 .. Len(Image),
         \/ gil' = Held(t)
         \/ call'[t].stage \notin {"read", "sought"} /\ gil' \in {gil, None}
         \/ call[t].stage \in {"read", "sought"} /\ gil' = gil
  PROVE  Types'
<1>1. tree' = tree /\ kind' = kind /\ Image' = Image
  BY DEF Alone, Image, NodeAt
<1>2. \A u \in Threads \ {t} : call'[u] = call[u]
  BY DEF Alone
<1>3. gil \in Threads \cup {None} /\ gil' \in Threads \cup {None}
  BY DEF Types, Held
<1>4. LockHeld'
  <2>1. CASE kind = "path"
    <3>1. ASSUME NEW u \in Threads, call'[u].stage \in {"read", "sought"} PROVE gil' = u
      <4>1. CASE u = t
        BY <2>1, <3>1, <4>1 DEF Types, LockHeld, Held
      <4>2. CASE u # t
        BY <1>2, <2>1, <3>1, <4>2, LockFree
      <4> QED
        BY <4>1, <4>2
    <3> QED
      BY <1>1, <2>1, <3>1 DEF LockHeld
  <2>2. CASE kind # "path"
    BY <1>1, <2>2 DEF Types, LockHeld, Held
  <2> QED
    BY <2>1, <2>2
<1>5. calls' \in [Threads -> Nat] /\ \A u \in Threads : calls'[u] <= CallBound[u]
  <2>1. CASE calls' = calls
    BY <2>1 DEF Types
  <2>2. CASE calls[t] < CallBound[t] /\ calls' = [calls EXCEPT ![t] = @ + 1]
    <3>1. calls \in [Threads -> Nat] /\ calls[t] \in Nat /\ CallBound[t] \in Nat
          /\ \A u \in Threads : calls[u] <= CallBound[u]
      BY BindingsAssumption DEF Types
    <3>2. calls' \in [Threads -> Nat] /\ calls'[t] = calls[t] + 1 /\ \A u \in Threads \ {t} : calls'[u] = calls[u]
      BY <2>2, <3>1
    <3>3. calls'[t] <= CallBound[t]
      BY <2>2, <3>1, <3>2
    <3> QED
      BY <3>1, <3>2, <3>3
  <2> QED
    BY <2>1, <2>2
<1>6. \A u \in Threads : call'[u].obj \in 0 .. Len(arch')
  <2>1. Len(arch) \in Nat /\ Len(arch') \in Nat
    BY DEF Types
  <2>2. \A u \in Threads \ {t} : call[u].obj \in 0 .. Len(arch)
    BY DEF Types
  <2> QED
    BY <1>2, <2>1, <2>2
<1>7. tree \in DOMAIN Trees /\ kind \in {"path", "object"}
  BY DEF Types
<1> QED
  BY <1>1, <1>3, <1>4, <1>5, <1>6, <1>7 DEF Types

-----------------------------------------------------------------------------
(* What parse reads, and what it makes of it, whatever failed.             *)

LEMMA EntriesType ==
  ASSUME NEW fmt \in Formats, NEW n \in Nat, NEW metas \in Buffer, NEW names \in Buffer,
         Len(metas) = n * MetaLen[fmt]
  PROVE  /\ Entries(fmt, n, metas, names) \in Seq(EntryTypes)
         /\ DOMAIN Entries(fmt, n, metas, names) = 1 .. n
<1>1. MetaLen[fmt] \in Nat \ {0}
  BY LensOp
<1>2. ASSUME NEW i \in 1 .. n
      PROVE  LET m == metas[(i - 1) * MetaLen[fmt] + 1]
             IN  [off |-> m.off, size |-> m.size,
                  name |-> IF m.index < Len(names) THEN names[m.index + 1].text ELSE NoName] \in EntryTypes
  <2>1. (i - 1) * MetaLen[fmt] \in Nat /\ (i - 1) * MetaLen[fmt] + 1 <= n * MetaLen[fmt] /\ n * MetaLen[fmt] \in Nat
    BY <1>1, TableRow
  <2>2. PICK row \in Nat : row = (i - 1) * MetaLen[fmt]
    BY <2>1
  <2>3. row + 1 \in 1 .. Len(metas)
    BY <2>1, <2>2
  <2>4. metas[row + 1] \in Cells \cup {Zeros}
    BY <2>3 DEF Buffer
  <2>5. metas[row + 1].off \in Nat /\ metas[row + 1].size \in Nat /\ metas[row + 1].index \in Nat
    BY <2>4, CellOp
  <2>6. PICK k \in Nat : k = metas[row + 1].index
    BY <2>5
  <2>7. (IF k < Len(names) THEN names[k + 1].text ELSE NoName) \in Words
    <3>1. CASE k < Len(names)
      <4>1. k + 1 \in 1 .. Len(names)
        BY <3>1 DEF Buffer
      <4>2. names[k + 1] \in Cells \cup {Zeros}
        BY <4>1 DEF Buffer
      <4> QED
        BY <3>1, <4>2, CellOp
    <3>2. CASE ~ (k < Len(names))
      BY <3>2 DEF Words
    <3> QED
      BY <3>1, <3>2
  <2> QED
    BY <2>2, <2>5, <2>6, <2>7 DEF EntryTypes
<1> QED
  BY <1>2 DEF Entries

LEMMA XciType ==
  ASSUME NEW a, a.header \in Cells \cup {Zeros}, NEW reads \in Seq(Buffer), Len(reads) >= 3,
         Len(reads[2]) = TableAt(a.header.off, "HFS0", HeadOf(reads[1]).num).len
  PROVE  /\ XciEntries(a, reads) \in Seq(EntryTypes)
         /\ DOMAIN XciEntries(a, reads) = 1 .. HeadOf(reads[1]).num /\ HeadOf(reads[1]).num \in Nat
<1>1. reads[1] \in Buffer /\ reads[2] \in Buffer /\ reads[3] \in Buffer
  OBVIOUS
<1>2. PICK head : head = HeadOf(reads[1])
  OBVIOUS
<1>3. head.num \in Nat /\ head.strings \in Nat /\ a.header.off \in Nat
  BY <1>1, <1>2, HeadOp, CellOp
<1>4. HeaderLen["HFS0"] \in Nat /\ MetaLen["HFS0"] \in Nat /\ "HFS0" \in Formats
  BY LensOp
<1>5. Len(reads[2]) = head.num * MetaLen["HFS0"]
  BY <1>2 DEF TableAt
<1>6. PICK data : data = NamesAt(a.header.off, "HFS0", head).pos + head.strings
  OBVIOUS
<1>7. data \in Nat
  <2>1. head.num * MetaLen["HFS0"] \in Nat
    BY <1>3, <1>4
  <2>2. PICK table \in Nat : table = head.num * MetaLen["HFS0"]
    BY <2>1
  <2>3. data = (a.header.off + HeaderLen["HFS0"] + table) + head.strings
    BY <1>6, <2>2 DEF NamesAt
  <2>4. PICK off \in Nat : off = a.header.off
    BY <1>3
  <2>5. PICK strings \in Nat : strings = head.strings
    BY <1>3
  <2>6. PICK len \in Nat : len = HeaderLen["HFS0"]
    BY <1>4
  <2>7. data = (off + len + table) + strings
    BY <2>3, <2>4, <2>5, <2>6
  <2> QED
    BY <2>7
<1>8. PICK all : all = Entries("HFS0", head.num, reads[2], reads[3])
  OBVIOUS
<1>9. all \in Seq(EntryTypes) /\ DOMAIN all = 1 .. head.num
  BY <1>1, <1>3, <1>4, <1>5, <1>8, EntriesType
<1>10. XciEntries(a, reads) = [i \in DOMAIN all |-> [all[i] EXCEPT !.off = @ + data]]
  BY <1>2, <1>6, <1>8 DEF XciEntries
<1>11. ASSUME NEW i \in DOMAIN all PROVE [all[i] EXCEPT !.off = @ + data] \in EntryTypes
  <2>3. all[i] \in EntryTypes
    <3>1. \A s \in Seq(EntryTypes) : \A j \in DOMAIN s : s[j] \in EntryTypes
      OBVIOUS
    <3> QED
      BY <1>9, <3>1, Zenon
  <2>1. PICK e \in EntryTypes : e = all[i]
    BY <2>3
  <2>2. [e EXCEPT !.off = @ + data] \in EntryTypes
    BY <1>7 DEF EntryTypes
  <2> QED
    BY <2>1, <2>2
<1>12. XciEntries(a, reads) = [i \in 1 .. head.num |-> [all[i] EXCEPT !.off = @ + data]]
  BY <1>9, <1>10
<1>13. XciEntries(a, reads) \in [1 .. head.num -> EntryTypes]
  BY <1>9, <1>11, <1>12
<1>14. XciEntries(a, reads) \in Seq(EntryTypes) /\ DOMAIN XciEntries(a, reads) = 1 .. head.num
  BY <1>3, <1>13
<1> QED
  BY <1>2, <1>3, <1>14

LEMMA LeastNumber ==
  ASSUME NEW T \in SUBSET Nat, T # {}
  PROVE  \E x \in T : \A y \in T : x <= y
<1> DEFINE R == {p \in Nat \X Nat : p[1] < p[2]}
<1>1. IsWellFoundedOn(R, Nat)
  BY NatLessThanWellFounded DEF OpToRel
<1> HIDE DEF R
<1>2. PICK x \in T : \A y \in T : ~ (<<y, x>> \in R)
  BY <1>1, WFMin
<1>3. ASSUME NEW y \in T PROVE x <= y
  <2>1. ~ (y < x)
    BY <1>2 DEF R
  <2> QED
    BY <2>1
<1> QED
  BY <1>3

\* The loop of Xci::parse takes the next entry with a known name.
LEMMA AheadOp ==
  ASSUME NEW a, NEW c, DOMAIN XciEntries(a, c.reads) \subseteq Nat, Ahead(a, c) # {}
  PROVE  /\ Min(Ahead(a, c)) \in DOMAIN XciEntries(a, c.reads) /\ Min(Ahead(a, c)) > c.part
         /\ XciEntries(a, c.reads)[Min(Ahead(a, c))].name \in Partitions
         /\ \A i \in DOMAIN XciEntries(a, c.reads) :
              i > c.part /\ XciEntries(a, c.reads)[i].name \in Partitions => Min(Ahead(a, c)) <= i
<1>1. Ahead(a, c) \in SUBSET Nat
  BY DEF Ahead
<1>2. Min(Ahead(a, c)) \in Ahead(a, c) /\ \A i \in Ahead(a, c) : Min(Ahead(a, c)) <= i
  BY <1>1, LeastNumber DEF Min
<1> QED
  BY <1>2 DEF Ahead
Places == [pos : Nat, len : Nat]

LEMMA PlaceType ==
  ASSUME NEW base \in Nat, NEW fmt \in Formats, NEW head \in Cells \cup {Zeros}
  PROVE  TableAt(base, fmt, head.num) \in Places /\ NamesAt(base, fmt, head) \in Places
<1>1. head.num \in Nat /\ head.strings \in Nat
  BY CellOp
<1>2. HeaderLen[fmt] \in Nat /\ MetaLen[fmt] \in Nat
  BY LensOp
<1>3. PICK num \in Nat : num = head.num
  BY <1>1
<1>4. PICK w \in Nat : w = MetaLen[fmt]
  BY <1>2
<1>5. PICK h \in Nat : h = HeaderLen[fmt]
  BY <1>2
<1>6. PICK table : table = num * w
  OBVIOUS
<1>7. table \in Nat
  BY <1>6
<1>8. TableAt(base, fmt, head.num) = [pos |-> base + h, len |-> table]
      /\ NamesAt(base, fmt, head) = [pos |-> base + h + table, len |-> head.strings]
  BY <1>3, <1>4, <1>5, <1>6 DEF TableAt, NamesAt
<1>9. base + h \in Nat /\ base + h + table \in Nat
  BY <1>7
<1> QED
  BY <1>1, <1>7, <1>8, <1>9 DEF Places

LEMMA HeaderAtType ==
  ASSUME NEW e, e.off \in Nat, e.size \in Nat
  PROVE  /\ HeaderAt(e) \in Places /\ HeaderAt(e).pos = e.off
         /\ HeaderAt(e).len <= e.size /\ (e.size # 0 => HeaderAt(e).len >= 1)
BY LensOp DEF HeaderAt, Lesser, Places

LEMMA NoPlace == \A r \in Places : r # None /\ r.pos \in Nat /\ r.len \in Nat
BY BindingsAssumption DEF Places

\* The reads of parse of a Pfs or Hfs, and of an Xci, by how many there were.
LEMMA CountOp ==
  ASSUME NEW c, c.reads \in Seq(Buffer)
  PROVE  /\ Count(c) \in Nat /\ (Count(c) = 0 <=> c.reads = <<>>)
         /\ \A i \in 1 .. Count(c) : c.reads[i] \in Buffer
BY DEF Count

LEMMA TableRead ==
  ASSUME NEW a, NEW c, a.fmt # "HEAD"
  PROVE  /\ Count(c) = 0 => ArchiveRead(a, c) = TableAt(0, a.fmt, a.header.num)
         /\ Count(c) = 1 => ArchiveRead(a, c) = NamesAt(0, a.fmt, a.header)
         /\ Count(c) # 0 /\ Count(c) # 1 => ArchiveRead(a, c) = None
<1>1. ArchiveRead(a, c) =
        CASE Count(c) = 0 -> TableAt(0, a.fmt, a.header.num)
          [] Count(c) = 1 -> NamesAt(0, a.fmt, a.header)
          [] OTHER -> None
  BY DEF ArchiveRead, Count
<1> QED
  BY <1>1

LEMMA CardRead ==
  ASSUME NEW a, NEW c, a.fmt = "HEAD"
  PROVE  /\ Count(c) = 0 => ArchiveRead(a, c) = [pos |-> a.header.off, len |-> HeaderLen["HFS0"]]
         /\ Count(c) = 1 => ArchiveRead(a, c) = TableAt(a.header.off, "HFS0", HeadOf(c.reads[1]).num)
         /\ Count(c) = 2 => ArchiveRead(a, c) = NamesAt(a.header.off, "HFS0", HeadOf(c.reads[1]))
         /\ Count(c) \notin {0, 1, 2} =>
              ArchiveRead(a, c) = IF Ahead(a, c) = {} THEN None
                                  ELSE HeaderAt(XciEntries(a, c.reads)[Min(Ahead(a, c))])
<1>1. ArchiveRead(a, c) =
        CASE Count(c) = 0 -> [pos |-> a.header.off, len |-> HeaderLen["HFS0"]]
          [] Count(c) = 1 -> TableAt(a.header.off, "HFS0", HeadOf(c.reads[1]).num)
          [] Count(c) = 2 -> NamesAt(a.header.off, "HFS0", HeadOf(c.reads[1]))
          [] OTHER -> IF Ahead(a, c) = {} THEN None ELSE HeaderAt(XciEntries(a, c.reads)[Min(Ahead(a, c))])
  BY DEF ArchiveRead, Count
<1> QED
  BY <1>1

\* What an archive asks for is a place, or nothing.
LEMMA ArchiveReadType ==
  ASSUME NEW a, a.fmt \in Formats, a.header \in Cells \cup {Zeros}, NEW c, c.reads \in Seq(Buffer),
         a.fmt = "HEAD" => CardReads(a, c)
  PROVE  ArchiveRead(a, c) \in Places \cup {None}
<1>1. Count(c) \in Nat
  BY CountOp
<1>2. CASE a.fmt # "HEAD"
  <2>1. TableAt(0, a.fmt, a.header.num) \in Places /\ NamesAt(0, a.fmt, a.header) \in Places
    BY PlaceType
  <2> QED
    BY <1>2, <2>1, TableRead
<1>3. CASE a.fmt = "HEAD"
  <2>1. a.header.off \in Nat
    BY CellOp
  <2>2. CASE Count(c) = 0
    BY <1>3, <2>1, <2>2, CardRead, LensOp DEF Places
  <2>3. CASE Count(c) = 1 \/ Count(c) = 2
    <3>1. c.reads[1] \in Buffer
      BY <2>3, CountOp
    <3>2. HeadOf(c.reads[1]) \in Cells \cup {Zeros} /\ "HFS0" \in Formats
      BY <3>1, HeadOp, LensOp
    <3>3. TableAt(a.header.off, "HFS0", HeadOf(c.reads[1]).num) \in Places
          /\ NamesAt(a.header.off, "HFS0", HeadOf(c.reads[1])) \in Places
      BY <2>1, <3>2, PlaceType
    <3> QED
      BY <1>3, <2>3, <3>3, CardRead
  <2>4. CASE Count(c) \notin {0, 1, 2}
    <3>1. Count(c) >= 3
      BY <1>1, <2>4
    <3>2. CardReads(a, c)
      BY <1>3
    <3>3. /\ XciEntries(a, c.reads) \in Seq(EntryTypes)
          /\ DOMAIN XciEntries(a, c.reads) \subseteq Nat
      <4>1. Len(c.reads) >= 3
        BY <3>1 DEF Count
      <4>2. Len(c.reads[2]) = TableAt(a.header.off, "HFS0", HeadOf(c.reads[1]).num).len
        BY <1>1, <3>1, <3>2 DEF CardReads
      <4> QED
        BY <4>1, <4>2, XciType
    <3>4. CASE Ahead(a, c) # {}
      <4>1. Min(Ahead(a, c)) \in DOMAIN XciEntries(a, c.reads)
        BY <3>3, <3>4, AheadOp
      <4>2. \A s \in Seq(EntryTypes) : \A j \in DOMAIN s : s[j] \in EntryTypes
        OBVIOUS
      <4>3. XciEntries(a, c.reads)[Min(Ahead(a, c))] \in EntryTypes
        BY <3>3, <4>1, <4>2, Zenon
      <4>4. HeaderAt(XciEntries(a, c.reads)[Min(Ahead(a, c))]) \in Places
        BY <4>3, HeaderAtType DEF EntryTypes
      <4> QED
        BY <1>3, <2>4, <3>4, <4>4, CardRead
    <3>5. CASE Ahead(a, c) = {}
      BY <1>3, <2>4, <3>5, CardRead
    <3> QED
      BY <3>4, <3>5
  <2> QED
    BY <2>2, <2>3, <2>4
<1> QED
  BY <1>2, <1>3
\* A read of parse that succeeds gives the table and the names.
LEMMA WholeRead ==
  ASSUME NEW a, Sound(a), a.lo \in Nat, NEW pos, NEW len, NEW end, pos \in Nat, len \in Nat, end = pos + len, end <= a.size
  PROVE  CellsFrom(a, pos, len) = Part(CellsOf(a), pos, end)
BY ReadAll DEF Sound, CellsOf

LEMMA TableGives ==
  ASSUME NEW a, Sound(a), a.lo \in Nat, NEW fmt, fmt = TableFmt(a), NEW base, base = Base(a), NEW head, head = RootHead(a)
  PROVE  LET table == TableAt(base, fmt, head.num)
             names == NamesAt(base, fmt, head)
         IN  /\ CellsFrom(a, table.pos, table.len) = TableOf(a) /\ table.len = TableLen(a)
             /\ CellsFrom(a, names.pos, names.len) = NamesOf(a)
             /\ names.pos + head.strings = DataPos(a)
<1>1. /\ head.num = Len(FilesOf(a)) /\ TablePos(a) \in Nat /\ TableLen(a) \in Nat /\ NamesPos(a) \in Nat
      /\ DataPos(a) \in Nat /\ TablePos(a) = Base(a) + HeaderLen[TableFmt(a)]
      /\ NamesPos(a) = TablePos(a) + TableLen(a) /\ DataPos(a) = NamesPos(a) + RootHead(a).strings
      /\ DataPos(a) <= a.size /\ RootHead(a).strings \in Nat
  BY PlacesOp
<1>2. TableLen(a) = head.num * MetaLen[fmt]
  BY <1>1 DEF TableLen
<1>3. TableAt(base, fmt, head.num) = [pos |-> TablePos(a), len |-> TableLen(a)]
  BY <1>1, <1>2 DEF TableAt
<1>4. NamesAt(base, fmt, head) = [pos |-> NamesPos(a), len |-> head.strings]
  BY <1>1, <1>2 DEF NamesAt
<1>5. a.size \in Nat
  BY Layout
<1>6. NamesPos(a) <= a.size
  BY <1>1, <1>5
<1>7. CellsFrom(a, TablePos(a), TableLen(a)) = TableOf(a)
  BY <1>1, <1>6, WholeRead DEF TableOf
<1>8. CellsFrom(a, NamesPos(a), head.strings) = NamesOf(a)
  BY <1>1, WholeRead DEF NamesOf
<1> QED
  BY <1>1, <1>3, <1>4, <1>7, <1>8

\* The header of the Hfs in a card.
LEMMA HeadGives ==
  ASSUME NEW a, Sound(a), a.lo \in Nat, a.fmt = "HEAD"
  PROVE  HeadOf(CellsFrom(a, a.header.off, HeaderLen["HFS0"])) = RootHead(a)
<1>1. TableFmt(a) = "HFS0" /\ Base(a) = a.header.off
  BY DEF TableFmt, Base
<1>2. /\ Base(a) \in Nat /\ CellsOf(a) \in Buffer /\ a.size = Len(CellsOf(a)) /\ a.size \in Nat
  BY Layout
<1>3. /\ HeaderLen["HFS0"] \in Nat \ {0} /\ TablePos(a) = Base(a) + HeaderLen["HFS0"] /\ TablePos(a) \in Nat
      /\ TableLen(a) \in Nat /\ NamesPos(a) = TablePos(a) + TableLen(a) /\ RootHead(a).strings \in Nat
      /\ DataPos(a) = NamesPos(a) + RootHead(a).strings /\ DataPos(a) <= a.size
  BY <1>1, PlacesOp
<1>4. TablePos(a) <= a.size
  BY <1>2, <1>3
<1>5. CellsFrom(a, Base(a), HeaderLen["HFS0"]) = Part(CellsOf(a), Base(a), TablePos(a))
  BY <1>2, <1>3, <1>4, WholeRead
<1>6. Within(CellsOf(a), Base(a), TablePos(a)) /\ TablePos(a) - Base(a) >= 1
  BY <1>2, <1>3, <1>4 DEF Within
<1>7. /\ Part(CellsOf(a), Base(a), TablePos(a)) \in Buffer
      /\ Len(Part(CellsOf(a), Base(a), TablePos(a))) = TablePos(a) - Base(a)
      /\ \A i \in 1 .. TablePos(a) - Base(a) : Part(CellsOf(a), Base(a), TablePos(a))[i] = CellsOf(a)[Base(a) + i]
  BY <1>2, <1>6, PartOp DEF Buffer
<1>8. Part(CellsOf(a), Base(a), TablePos(a))[1] = CellsOf(a)[Base(a) + 1]
  BY <1>2, <1>3, <1>6, <1>7
<1>9. Part(CellsOf(a), Base(a), TablePos(a)) # <<>>
  BY <1>2, <1>3, <1>6, <1>7
<1> QED
  BY <1>1, <1>5, <1>7, <1>8, <1>9, HeadOp DEF RootHead
LEMMA HeadOfPart ==
  ASSUME NEW s, s \in Buffer, NEW a, NEW b, Within(s, a, b)
  PROVE  /\ Part(s, a, b) \in Buffer /\ Len(Part(s, a, b)) = b - a
         /\ a < b => HeadOf(Part(s, a, b)) = s[a + 1]
         /\ ~ (a < b) => HeadOf(Part(s, a, b)) = Zeros
<1>1. a \in Nat /\ b \in Nat /\ a <= b
  BY DEF Within
<1>5. s \in Seq(Cells \cup {Zeros})
  BY DEF Buffer
<1>2. /\ Part(s, a, b) \in Buffer /\ Len(Part(s, a, b)) = b - a
      /\ \A i \in 1 .. b - a : Part(s, a, b)[i] = s[a + i]
  <2>1. Part(s, a, b) \in Seq(Cells \cup {Zeros})
    BY <1>5, PartOp
  <2>2. Len(Part(s, a, b)) = b - a
    BY <1>5, PartOp
  <2>3. \A i \in 1 .. b - a : Part(s, a, b)[i] = s[a + i]
    BY <1>5, PartOp
  <2> QED
    BY <2>1, <2>2, <2>3 DEF Buffer
<1>3. CASE a < b
  <2>1. Part(s, a, b)[1] = s[a + 1]
    BY <1>1, <1>2, <1>3
  <2>2. Part(s, a, b) # <<>>
    BY <1>1, <1>2, <1>3
  <2> QED
    BY <1>2, <1>3, <2>1, <2>2, HeadOp
<1>4. CASE ~ (a < b)
  <2>1. Part(s, a, b) = <<>>
    BY <1>1, <1>4, <1>5, PartNone
  <2> QED
    BY <1>2, <1>4, <2>1 DEF HeadOf
<1> QED
  BY <1>3, <1>4

\* The header of a partition, and where it lies.
LEMMA PartGives ==
  ASSUME NEW a, Sound(a), a.lo \in Nat, NEW i \in DOMAIN FilesOf(a), NEW e, e = CardEntries(a)[i]
  PROVE  /\ e \in EntryTypes /\ e.name = FilesOf(a)[i]
         /\ e.off + e.size <= a.size
         /\ Part(CellsOf(a), e.off, e.off + e.size) = ChildCells(a, e.name)
         /\ e.size = Len(ChildCells(a, e.name))
         /\ Append(a.path, e.name) \in DOMAIN Trees[tree]
         /\ HeadOf(CellsFrom(a, HeaderAt(e).pos, HeaderAt(e).len)) = HeadOf(ChildCells(a, e.name))
<1>1. /\ i \in 1 .. Len(FilesOf(a)) /\ MetaOf(a, i).off \in Nat /\ MetaOf(a, i).size \in Nat
      /\ DataPos(a) + MetaOf(a, i).off + MetaOf(a, i).size <= a.size
      /\ Part(CellsOf(a), DataPos(a) + MetaOf(a, i).off,
                DataPos(a) + MetaOf(a, i).off + MetaOf(a, i).size) = ChildCells(a, FilesOf(a)[i])
  BY MetaOp
<1>2. CellsOf(a) \in Buffer /\ FilesOf(a) \in Seq(Words) /\ a.size = Len(CellsOf(a)) /\ a.size \in Nat
  BY Layout
<1>3. DataPos(a) \in Nat
  BY PlacesOp
<1>4. e = [off |-> MetaOf(a, i).off + DataPos(a), size |-> MetaOf(a, i).size, name |-> FilesOf(a)[i]]
  BY <1>1 DEF CardEntries
<1>5. PICK off \in Nat : off = MetaOf(a, i).off
  BY <1>1
<1>6. PICK size \in Nat : size = MetaOf(a, i).size
  BY <1>1
<1>7. PICK data \in Nat : data = DataPos(a)
  BY <1>3
<1>8. PICK pos \in Nat : pos = data + off
  OBVIOUS
<1>9. /\ e.off = pos /\ e.size = size /\ e.name = FilesOf(a)[i]
      /\ pos + size <= a.size /\ Part(CellsOf(a), pos, pos + size) = ChildCells(a, FilesOf(a)[i])
  <2>1. off + data = pos
    BY <1>8
  <2>2. e.off = off + data /\ e.size = size /\ e.name = FilesOf(a)[i]
    BY <1>4, <1>5, <1>6, <1>7
  <2>3. data + off + size <= a.size /\ Part(CellsOf(a), data + off, data + off + size) = ChildCells(a, FilesOf(a)[i])
    BY <1>1, <1>5, <1>6, <1>7
  <2> QED
    BY <1>8, <2>1, <2>2, <2>3
<1>10. FilesOf(a)[i] \in Words
  BY <1>1, <1>2
<1>11. e \in EntryTypes
  <2>1. e = [off |-> pos, size |-> size, name |-> FilesOf(a)[i]]
    BY <1>4, <1>9
  <2> QED
    BY <1>10, <2>1 DEF EntryTypes
<1>12. Append(a.path, FilesOf(a)[i]) \in DOMAIN Trees[tree]
  <2>1. tree \in DOMAIN Trees /\ a.path \in DOMAIN Trees[tree]
    BY DEF Sound, Fits
  <2> QED
    BY <2>1, NodeOp DEF FilesOf
<1>13. PICK len \in Nat : len = HeaderAt(e).len /\ len <= size /\ (size # 0 => len >= 1) /\ HeaderAt(e).pos = pos
  BY <1>9, HeaderAtType DEF Places
<1>14. PICK end \in Nat : end = pos + size /\ end <= Len(CellsOf(a)) /\ pos <= end
  BY <1>2, <1>9
<1>15. PICK mid \in Nat : mid = pos + len /\ pos <= mid /\ mid <= end /\ (pos < end <=> pos < mid)
  BY <1>13, <1>14
<1>16. CellsFrom(a, pos, len) = Part(CellsOf(a), pos, mid)
  BY <1>2, <1>14, <1>15, WholeRead
<1>17. HeadOf(Part(CellsOf(a), pos, mid)) = HeadOf(Part(CellsOf(a), pos, end))
  <2>1. Within(CellsOf(a), pos, mid) /\ Within(CellsOf(a), pos, end)
    BY <1>2, <1>14, <1>15 DEF Within
  <2> QED
    BY <1>2, <1>15, <2>1, HeadOfPart
<1>18. Len(Part(CellsOf(a), pos, end)) = size
  <2>1. end - pos = size
    BY <1>14
  <2> QED
    BY <1>2, <1>14, <2>1, HeadOfPart DEF Within
<1> QED
  BY <1>9, <1>11, <1>12, <1>13, <1>14, <1>16, <1>17, <1>18
-----------------------------------------------------------------------------
(* What a read of parse leaves.                                            *)

\* The call d that c becomes when a read of it gave cells.
Goes(c, d, cells, failed) ==
  d = [c EXCEPT !.stage = "read", !.reads = Append(@, cells), !.failed = failed]

LEMMA GoesOp ==
  ASSUME NEW c \in CallTypes, NEW cells \in Buffer, NEW failed \in BOOLEAN, NEW d, Goes(c, d, cells, failed)
  PROVE  /\ d \in CallTypes /\ Count(d) = Count(c) + 1
         /\ d.op = c.op /\ d.stage = "read" /\ d.obj = c.obj /\ d.name = c.name /\ d.len = c.len
         /\ d.part = c.part /\ d.failed = failed
         /\ \A i \in 1 .. Count(c) : d.reads[i] = c.reads[i]
         /\ d.reads[Count(c) + 1] = cells
<1>1. c.reads \in Seq(Buffer)
  BY DEF CallTypes
<1>2. d.reads = Append(c.reads, cells) /\ d.failed = failed /\ d.stage = "read"
      /\ d.op = c.op /\ d.obj = c.obj /\ d.name = c.name /\ d.len = c.len /\ d.part = c.part
  BY DEF Goes, CallTypes
<1>3. d \in CallTypes
  <2>1. Append(c.reads, cells) \in Seq(Buffer) /\ "read" \in Stages
    BY <1>1 DEF Stages
  <2> QED
    BY <2>1 DEF Goes, CallTypes
<1>4. /\ Len(d.reads) = Len(c.reads) + 1
      /\ \A i \in 1 .. Len(c.reads) : d.reads[i] = c.reads[i]
      /\ d.reads[Len(c.reads) + 1] = cells
  BY <1>1, <1>2, AppendOp
<1> QED
  BY <1>2, <1>3, <1>4 DEF Count

\* A read that failed leaves zeros; one that did not, what there is.
Gave(c, r, cells, failed, a) ==
  IF failed THEN cells = [i \in 1 .. r.len |-> Zeros]
  ELSE ~c.failed /\ cells = CellsFrom(a, r.pos, r.len)

LEMMA ZerosOp ==
  ASSUME NEW n \in Nat, NEW cells, cells = [i \in 1 .. n |-> Zeros]
  PROVE  cells \in Buffer /\ Len(cells) = n /\ \A i \in 1 .. n : cells[i] = Zeros
BY DEF Buffer

LEMMA TableGot ==
  ASSUME NEW a, Sound(a), a.fmt # "HEAD", a.lo \in Nat, NEW c \in CallTypes, TableReads(a, c),
         NEW r, r = ArchiveRead(a, c), r \in Places,
         NEW cells \in Buffer, NEW failed \in BOOLEAN, Gave(c, r, cells, failed, a),
         NEW d, Goes(c, d, cells, failed)
  PROVE  TableReads(a, d)
<1>1. /\ Count(d) = Count(c) + 1 /\ d.part = c.part /\ d.failed = failed /\ Count(c) \in Nat
      /\ \A i \in 1 .. Count(c) : d.reads[i] = c.reads[i]
      /\ d.reads[Count(c) + 1] = cells
  BY GoesOp, CountOp DEF CallTypes
<1>2. /\ RootHead(a) = a.header /\ TableFmt(a) = a.fmt /\ Base(a) = 0
  BY HeaderOp
<1>3. LET table == TableAt(0, a.fmt, a.header.num)
          names == NamesAt(0, a.fmt, a.header)
      IN  /\ CellsFrom(a, table.pos, table.len) = TableOf(a) /\ table.len = TableLen(a)
          /\ CellsFrom(a, names.pos, names.len) = NamesOf(a)
  BY <1>2, TableGives
<1>4. r # None /\ r.len \in Nat
  BY NoPlace
<1>5. CASE Count(c) = 0
  <2>1. r = TableAt(0, a.fmt, a.header.num)
    BY <1>5, TableRead
  <2>2. ~failed => cells = TableOf(a)
    BY <1>3, <2>1 DEF Gave
  <2>3. Len(cells) = TableLen(a)
    <3>1. CASE failed
      BY <1>3, <1>4, <2>1, <3>1, ZerosOp DEF Gave
    <3>2. CASE ~failed
      BY <2>2, <3>2, TablesOp
    <3> QED
      BY <3>1, <3>2
  <2>4. Count(d) = 1 /\ d.reads[1] = cells /\ c.part = 0
    BY <1>1, <1>5 DEF TableReads
  <2> QED
    BY <1>1, <2>2, <2>3, <2>4 DEF TableReads
<1>6. CASE Count(c) = 1
  <2>1. r = NamesAt(0, a.fmt, a.header)
    BY <1>6, TableRead
  <2>2. ~failed => cells = NamesOf(a) /\ ~c.failed
    BY <1>3, <2>1 DEF Gave
  <2>3. Count(d) = 2 /\ d.reads[1] = c.reads[1] /\ d.reads[2] = cells
    BY <1>1, <1>6
  <2>4. c.part = 0 /\ Len(c.reads[1]) = TableLen(a) /\ (~c.failed => c.reads[1] = TableOf(a))
    BY <1>6 DEF TableReads
  <2> QED
    BY <1>1, <2>2, <2>3, <2>4 DEF TableReads
<1>7. Count(c) = 0 \/ Count(c) = 1
  BY <1>4, TableRead
<1> QED
  BY <1>5, <1>6, <1>7

\* Another partition, as it should be.
LEMMA PartsAppend ==
  ASSUME NEW a \in ArchTypes, NEW p \in PartTypes, NEW b, b = [a EXCEPT !.parts = Append(@, p)]
  PROVE  /\ b \in ArchTypes /\ SameBase(a, b) /\ b.data = a.data /\ b.entries = a.entries
         /\ b.dict = a.dict /\ b.parsed = a.parsed
         /\ DOMAIN b.parts = 1 .. Len(a.parts) + 1 /\ DOMAIN a.parts = 1 .. Len(a.parts) /\ Len(a.parts) \in Nat
         /\ \A i \in 1 .. Len(a.parts) : b.parts[i] = a.parts[i]
         /\ b.parts[Len(a.parts) + 1] = p
<1>1. a.parts \in Seq(PartTypes)
  BY DEF ArchTypes
<1>2. b.parts = Append(a.parts, p) /\ SameBase(a, b) /\ b.data = a.data /\ b.entries = a.entries
      /\ b.dict = a.dict /\ b.parsed = a.parsed
  BY DEF ArchTypes, SameBase
<1>3. Append(a.parts, p) \in Seq(PartTypes)
  BY <1>1
<1>4. b \in ArchTypes
  BY <1>3 DEF ArchTypes
<1>5. /\ DOMAIN Append(a.parts, p) = 1 .. Len(a.parts) + 1 /\ DOMAIN a.parts = 1 .. Len(a.parts)
      /\ Len(a.parts) \in Nat
      /\ \A i \in 1 .. Len(a.parts) : Append(a.parts, p)[i] = a.parts[i]
      /\ Append(a.parts, p)[Len(a.parts) + 1] = p
  BY <1>1, AppendOp
<1> QED
  BY <1>2, <1>4, <1>5

LEMMA PartsRight ==
  ASSUME NEW a \in ArchTypes, NEW p \in PartTypes, NEW b, b = [a EXCEPT !.parts = Append(@, p)],
         p.header = HeadOf(ChildCells(a, p.name))
  PROVE  PartMade(b, p.name) /\ \A n : PartMade(a, n) => PartMade(b, n)
<1>1. /\ SameBase(a, b) /\ DOMAIN b.parts = 1 .. Len(a.parts) + 1 /\ DOMAIN a.parts = 1 .. Len(a.parts)
      /\ Len(a.parts) \in Nat
      /\ \A i \in 1 .. Len(a.parts) : b.parts[i] = a.parts[i]
      /\ b.parts[Len(a.parts) + 1] = p
  BY PartsAppend
<1>2. \A n : ChildCells(a, n) = ChildCells(b, n)
  BY <1>1, SameBaseOp
<1>3. PICK last \in Nat : last = Len(a.parts)
  BY <1>1
<1>4. /\ DOMAIN b.parts = 1 .. last + 1 /\ DOMAIN a.parts = 1 .. last
      /\ \A i \in 1 .. last : b.parts[i] = a.parts[i] /\ b.parts[last + 1] = p
  BY <1>1, <1>3
<1>5. PartMade(b, p.name)
  <2>1. last + 1 \in DOMAIN b.parts /\ b.parts[last + 1].name = p.name
    BY <1>1, <1>3
  <2>2. ASSUME NEW k \in DOMAIN b.parts, k >= last + 1
        PROVE  b.parts[k].header = HeadOf(ChildCells(b, p.name))
    <3>1. k = last + 1
      BY <1>4, <2>2
    <3>2. b.parts[k] = p
      BY <1>4, <3>1
    <3>3. ChildCells(a, p.name) = ChildCells(b, p.name)
      BY <1>2
    <3> QED
      BY <3>2, <3>3
  <2> QED
    BY <2>1, <2>2 DEF PartMade
<1>6. ASSUME NEW n, PartMade(a, n) PROVE PartMade(b, n)
  <2>1. PICK j \in DOMAIN a.parts :
          /\ a.parts[j].name = n
          /\ \A k \in DOMAIN a.parts :
               k >= j /\ a.parts[k].name = n => a.parts[k].header = HeadOf(ChildCells(a, n))
    BY <1>6 DEF PartMade
  <2>2. j \in DOMAIN b.parts /\ b.parts[j].name = n
    BY <1>1, <2>1
  <2>3. ASSUME NEW k \in DOMAIN b.parts, k >= j, b.parts[k].name = n
        PROVE  b.parts[k].header = HeadOf(ChildCells(b, n))
    <3>1. CASE k \in DOMAIN a.parts
      BY <1>1, <1>2, <2>1, <2>3, <3>1
    <3>2. CASE k \notin DOMAIN a.parts
      <4>1. k = last + 1
        BY <1>4, <3>2
      <4> QED
        BY <1>1, <1>2, <1>3, <2>3, <4>1
    <3> QED
      BY <3>1, <3>2
  <2> QED
    BY <2>2, <2>3 DEF PartMade
<1> QED
  BY <1>5, <1>6
\* The reads of Xci::parse before its loop.
LEMMA CardGot ==
  ASSUME NEW a, Sound(a), a.fmt = "HEAD", a.lo \in Nat, NEW c \in CallTypes, CardReads(a, c),
         Count(c) < 3, NEW r, r = ArchiveRead(a, c), r \in Places,
         NEW cells \in Buffer, NEW failed \in BOOLEAN, Gave(c, r, cells, failed, a),
         NEW d, Goes(c, d, cells, failed)
  PROVE  CardReads(a, d)
<1>1. /\ Count(d) = Count(c) + 1 /\ d.part = c.part /\ d.failed = failed /\ Count(c) \in Nat
      /\ \A i \in 1 .. Count(c) : d.reads[i] = c.reads[i]
      /\ d.reads[Count(c) + 1] = cells
      /\ d.reads \in Seq(Buffer) /\ c.reads \in Seq(Buffer)
  BY GoesOp, CountOp DEF CallTypes
<1>2. TableFmt(a) = "HFS0" /\ Base(a) = a.header.off
  BY DEF TableFmt, Base
<1>3. LET table == TableAt(a.header.off, "HFS0", RootHead(a).num)
          names == NamesAt(a.header.off, "HFS0", RootHead(a))
      IN  /\ CellsFrom(a, table.pos, table.len) = TableOf(a) /\ table.len = TableLen(a)
          /\ CellsFrom(a, names.pos, names.len) = NamesOf(a)
  BY <1>2, TableGives
<1>4. r # None /\ r.len \in Nat
  BY NoPlace
<1>5. c.part = 0
  BY DEF CardReads
<1>6. ~failed => ~c.failed
  BY DEF Gave
<1>7. CASE Count(c) = 0
  <2>1. r = [pos |-> a.header.off, len |-> HeaderLen["HFS0"]]
    BY <1>7, CardRead
  <2>2. ~failed => HeadOf(cells) = RootHead(a)
    BY <2>1, HeadGives DEF Gave
  <2>3. Count(d) = 1 /\ d.reads[1] = cells
    BY <1>1, <1>7
  <2> QED
    BY <1>1, <1>5, <2>2, <2>3 DEF CardReads
<1>8. CASE Count(c) = 1
  <2>1. r = TableAt(a.header.off, "HFS0", HeadOf(c.reads[1]).num)
    BY <1>8, CardRead
  <2>2. ~c.failed => HeadOf(c.reads[1]) = RootHead(a)
    BY <1>8 DEF CardReads
  <2>3. ~failed => cells = TableOf(a) /\ r.len = TableLen(a)
    BY <1>3, <1>6, <2>1, <2>2 DEF Gave
  <2>4. Len(cells) = r.len
    <3>1. CASE failed
      BY <1>4, <3>1, ZerosOp DEF Gave
    <3>2. CASE ~failed
      BY <2>3, <3>2, TablesOp
    <3> QED
      BY <3>1, <3>2
  <2>5. Count(d) = 2 /\ d.reads[1] = c.reads[1] /\ d.reads[2] = cells
    BY <1>1, <1>8
  <2> QED
    BY <1>1, <1>5, <1>6, <2>1, <2>2, <2>3, <2>4, <2>5 DEF CardReads
<1>9. CASE Count(c) = 2
  <2>1. r = NamesAt(a.header.off, "HFS0", HeadOf(c.reads[1]))
    BY <1>9, CardRead
  <2>2. /\ ~c.failed => HeadOf(c.reads[1]) = RootHead(a) /\ c.reads[2] = TableOf(a)
        /\ Len(c.reads[2]) = TableAt(a.header.off, "HFS0", HeadOf(c.reads[1]).num).len
    BY <1>9 DEF CardReads
  <2>3. ~failed => cells = NamesOf(a)
    BY <1>3, <1>6, <2>1, <2>2 DEF Gave
  <2>4. Count(d) = 3 /\ d.reads[1] = c.reads[1] /\ d.reads[2] = c.reads[2] /\ d.reads[3] = cells
    BY <1>1, <1>9
  <2>5. CASE ~failed
    <3>1. XciEntries(a, d.reads) = CardEntries(a)
      BY <1>6, <2>2, <2>3, <2>4, <2>5, CardOp
    <3>2. \A i \in DOMAIN FilesOf(a) : ~ (i <= d.part)
      <4>1. FilesOf(a) \in Seq(Words)
        BY Layout
      <4> QED
        BY <1>1, <1>5, <4>1
    <3> QED
      BY <1>1, <1>6, <2>2, <2>4, <2>5, <3>1, <3>2 DEF CardReads
  <2>6. CASE failed
    <3>1. Len(cells) = r.len /\ \A i \in 1 .. r.len : cells[i] = Zeros
      BY <1>4, <2>6, ZerosOp DEF Gave
    <3>2. ASSUME NEW i \in DOMAIN XciEntries(a, d.reads) PROVE XciEntries(a, d.reads)[i].name = NoName
      <4>1. PICK all : all = Entries("HFS0", HeadOf(c.reads[1]).num, c.reads[2], cells)
        OBVIOUS
      <4>2. XciEntries(a, d.reads)[i].name = all[i].name /\ i \in DOMAIN all
        <5>1. PICK data : data = NamesAt(a.header.off, "HFS0", HeadOf(c.reads[1])).pos + HeadOf(c.reads[1]).strings
          OBVIOUS
        <5>2. XciEntries(a, d.reads) = [j \in DOMAIN all |-> [all[j] EXCEPT !.off = @ + data]]
          BY <2>4, <4>1, <5>1 DEF XciEntries
        <5>3. \A j \in DOMAIN all : all[j] = [off |-> all[j].off, size |-> all[j].size, name |-> all[j].name]
          BY <4>1 DEF Entries
        <5>4. i \in DOMAIN all
          BY <5>2
        <5> QED
          BY <5>2, <5>3, <5>4
      <4>3. i \in 1 .. HeadOf(c.reads[1]).num
        BY <4>1, <4>2 DEF Entries
      <4>4. PICK m : m = c.reads[2][(i - 1) * MetaLen["HFS0"] + 1]
        OBVIOUS
      <4>5. all[i].name = IF m.index < Len(cells) THEN cells[m.index + 1].text ELSE NoName
        BY <4>1, <4>3, <4>4 DEF Entries
      <4>6. m.index \in Nat
        <5>1. c.reads[1] \in Buffer /\ c.reads[2] \in Buffer
          BY <1>9, CountOp DEF CallTypes
        <5>2. HeadOf(c.reads[1]).num \in Nat
          BY <5>1, HeadOp, CellOp
        <5>3. PICK num \in Nat : num = HeadOf(c.reads[1]).num
          BY <5>2
        <5>4. Len(c.reads[2]) = num * MetaLen["HFS0"] /\ MetaLen["HFS0"] \in Nat \ {0} /\ i \in 1 .. num
          BY <2>2, <4>3, <5>3, LensOp DEF TableAt
        <5>5. (i - 1) * MetaLen["HFS0"] \in Nat /\ (i - 1) * MetaLen["HFS0"] + 1 <= num * MetaLen["HFS0"]
              /\ num * MetaLen["HFS0"] \in Nat
          BY <5>4, TableRow
        <5>6. PICK row \in Nat : row = (i - 1) * MetaLen["HFS0"]
          BY <5>5
        <5>7. row + 1 \in 1 .. Len(c.reads[2])
          BY <5>4, <5>5, <5>6
        <5>8. m \in Cells \cup {Zeros}
          BY <4>4, <5>1, <5>6, <5>7 DEF Buffer
        <5> QED
          BY <5>8, CellOp
      <4>7. m.index < Len(cells) => cells[m.index + 1] = Zeros
        <5>1. PICK k \in Nat : k = m.index
          BY <4>6
        <5>2. k < Len(cells) => cells[k + 1] = Zeros
          BY <1>4, <3>1
        <5> QED
          BY <5>1, <5>2
      <4> QED
        BY <4>2, <4>5, <4>7, CellOp
    <3> QED
      BY <1>1, <2>2, <2>4, <2>6, <3>2 DEF CardReads
  <2> QED
    BY <2>5, <2>6
<1>10. Count(c) = 0 \/ Count(c) = 1 \/ Count(c) = 2
  BY <1>1
<1> QED
  BY <1>7, <1>8, <1>9, <1>10
\* The reads of the loop of Xci::parse, each of which makes a partition.
LEMMA LoopGot ==
  ASSUME NEW a \in ArchTypes, ArchExact(a), IsValid(a), tree \in DOMAIN Trees, a.fmt = "HEAD",
         NEW c \in CallTypes, CardReads(a, c), Count(c) >= 3,
         NEW r, r = ArchiveRead(a, c), r \in Places,
         NEW cells \in Buffer, NEW failed \in BOOLEAN, Gave(c, r, cells, failed, a),
         NEW i, i = Min(Ahead(a, c)), NEW e, e = XciEntries(a, c.reads)[i],
         NEW d0, Goes(c, d0, cells, failed), NEW d, d = [d0 EXCEPT !.part = i],
         NEW p, p = [off |-> e.off, size |-> e.size, name |-> e.name, header |-> HeadOf(cells)],
         NEW b, b = [a EXCEPT !.parts = Append(@, p)]
  PROVE  /\ d \in CallTypes /\ b \in ArchTypes /\ ArchExact(b) /\ SameBase(a, b) /\ CardReads(b, d)
         /\ b.dict = a.dict /\ b.data = a.data /\ b.parsed = a.parsed
         /\ ~failed => Kept(a, b)
<1>1. Sound(a) /\ a.lo \in Nat
  BY DEF Sound, ArchExact, ArchTypes
<1>2. /\ d0 \in CallTypes /\ Count(d0) = Count(c) + 1 /\ d0.failed = failed /\ Count(c) \in Nat
      /\ \A k \in 1 .. Count(c) : d0.reads[k] = c.reads[k]
      /\ c.reads \in Seq(Buffer)
  BY GoesOp, CountOp DEF CallTypes
<1>3. ~failed => ~c.failed
  BY DEF Gave
<1>4. r # None
  BY NoPlace
<1>5. Ahead(a, c) # {} /\ r = HeaderAt(e)
  BY <1>2, <1>4, CardRead
<1>6. /\ XciEntries(a, c.reads) \in Seq(EntryTypes) /\ DOMAIN XciEntries(a, c.reads) \subseteq Nat
      /\ Len(c.reads[2]) = TableAt(a.header.off, "HFS0", HeadOf(c.reads[1]).num).len
  <2>1. Len(c.reads[2]) = TableAt(a.header.off, "HFS0", HeadOf(c.reads[1]).num).len
    BY <1>2 DEF CardReads
  <2>2. Len(c.reads) >= 3 /\ a.header \in Cells \cup {Zeros}
    BY DEF Count, ArchTypes
  <2> QED
    BY <1>2, <2>1, <2>2, XciType
<1>7. /\ i \in DOMAIN XciEntries(a, c.reads) /\ i > c.part /\ e.name \in Partitions
      /\ \A k \in DOMAIN XciEntries(a, c.reads) :
           k > c.part /\ XciEntries(a, c.reads)[k].name \in Partitions => i <= k
  BY <1>5, <1>6, AheadOp
<1>8. i \in Nat /\ c.part \in Nat
  BY <1>6, <1>7 DEF CallTypes
<1>9. XciEntries(a, c.reads) = CardEntries(a)
  BY <1>2, <1>7, BindingsAssumption DEF CardReads
<1>10. DOMAIN CardEntries(a) = DOMAIN FilesOf(a) /\ i \in DOMAIN FilesOf(a) /\ e = CardEntries(a)[i]
  <2>1. FilesOf(a) \in Seq(Words)
    BY <1>1, Layout
  <2> QED
    BY <1>7, <1>9, <2>1 DEF CardEntries
<1>11. /\ e \in EntryTypes /\ e.name = FilesOf(a)[i]
       /\ HeadOf(CellsFrom(a, HeaderAt(e).pos, HeaderAt(e).len)) = HeadOf(ChildCells(a, e.name))
  BY <1>1, <1>10, PartGives
<1>12. p \in PartTypes
  BY <1>11, HeadOp DEF PartTypes, EntryTypes
<1>13. /\ b \in ArchTypes /\ SameBase(a, b) /\ b.data = a.data /\ b.entries = a.entries
       /\ b.dict = a.dict /\ b.parsed = a.parsed
       /\ DOMAIN b.parts = 1 .. Len(a.parts) + 1 /\ DOMAIN a.parts = 1 .. Len(a.parts) /\ Len(a.parts) \in Nat
       /\ \A k \in 1 .. Len(a.parts) : b.parts[k] = a.parts[k]
       /\ b.parts[Len(a.parts) + 1] = p
  BY <1>12, PartsAppend
<1>14. ~failed => p.header = HeadOf(ChildCells(a, p.name))
  BY <1>5, <1>11 DEF Gave
<1>15. ~failed => PartMade(b, p.name) /\ \A n : PartMade(a, n) => PartMade(b, n)
  BY <1>12, <1>14, PartsRight
<1>16. /\ FilesOf(b) = FilesOf(a) /\ CardEntries(b) = CardEntries(a) /\ CellsOf(b) = CellsOf(a)
       /\ (Fits(a) <=> Fits(b)) /\ IsValid(b) /\ RootHead(a) = RootHead(b) /\ TableOf(a) = TableOf(b)
       /\ \A reads : XciEntries(a, reads) = XciEntries(b, reads)
       /\ DataPos(a) = DataPos(b) /\ EntriesOf(a) = EntriesOf(b)
       /\ b.fmt = "HEAD" /\ b.header = a.header
  <2>1. SameBase(a, b)
    BY <1>13
  <2>2. b.fmt = "HEAD" /\ b.header = a.header
    BY <2>1 DEF SameBase
  <2>3. IsValid(b)
    BY <2>1, SameBaseOp
  <2>4. \A reads : XciEntries(a, reads) = XciEntries(b, reads)
    BY <2>1, SameBaseOp
  <2>5. FilesOf(b) = FilesOf(a) /\ CardEntries(b) = CardEntries(a) /\ CellsOf(b) = CellsOf(a)
        /\ (Fits(a) <=> Fits(b)) /\ RootHead(a) = RootHead(b) /\ TableOf(a) = TableOf(b)
    BY <2>1, SameBaseOp
  <2>6. DataPos(a) = DataPos(b) /\ EntriesOf(a) = EntriesOf(b)
    BY <2>1, SameBaseOp
  <2> QED
    BY <2>2, <2>3, <2>4, <2>5, <2>6
<1>17. PartsExact(b)
  <2>1. PartsExact(a)
    BY DEF ArchExact
  <2>2. ASSUME NEW j \in DOMAIN b.parts
        PROVE  /\ b.fmt = "HEAD" /\ IsValid(b)
               /\ b.parts[j].name \in Partitions
               /\ \E k \in DOMAIN FilesOf(b) :
                    LET x == CardEntries(b)[k]
                    IN  b.parts[j].name = x.name /\ b.parts[j].off = x.off /\ b.parts[j].size = x.size
    <3>1. CASE j \in DOMAIN a.parts
      <4>1. b.parts[j] = a.parts[j]
        BY <1>13, <3>1
      <4>2. /\ a.parts[j].name \in Partitions
            /\ \E k \in DOMAIN FilesOf(a) :
                 LET x == CardEntries(a)[k]
                 IN  a.parts[j].name = x.name /\ a.parts[j].off = x.off /\ a.parts[j].size = x.size
        BY <2>1, <3>1 DEF PartsExact
      <4>3. PICK k \in DOMAIN FilesOf(a) :
              /\ a.parts[j].name = CardEntries(a)[k].name /\ a.parts[j].off = CardEntries(a)[k].off
              /\ a.parts[j].size = CardEntries(a)[k].size
        BY <4>2
      <4>4. k \in DOMAIN FilesOf(b) /\ CardEntries(b)[k] = CardEntries(a)[k]
        BY <1>16
      <4>5. b.parts[j].name \in Partitions /\ b.fmt = "HEAD" /\ IsValid(b)
        BY <1>16, <4>1, <4>2
      <4>6. LET x == CardEntries(b)[k]
            IN  b.parts[j].name = x.name /\ b.parts[j].off = x.off /\ b.parts[j].size = x.size
        BY <4>1, <4>3, <4>4
      <4>7. \E l \in DOMAIN FilesOf(b) :
              LET x == CardEntries(b)[l]
              IN  b.parts[j].name = x.name /\ b.parts[j].off = x.off /\ b.parts[j].size = x.size
        BY <4>4, <4>6
      <4> QED
        BY <4>5, <4>7
    <3>2. CASE j \notin DOMAIN a.parts
      <4>1. PICK last \in Nat : last = Len(a.parts)
        BY <1>13
      <4>2. j = last + 1
        BY <1>13, <3>2, <4>1
      <4>3. b.parts[j] = p
        BY <1>13, <4>1, <4>2
      <4>4. p.name = e.name /\ p.off = e.off /\ p.size = e.size
        OBVIOUS
      <4> QED
        BY <1>7, <1>10, <1>16, <4>3, <4>4
    <3> QED
      BY <3>1, <3>2
  <2> QED
    BY <2>2 DEF PartsExact
<1>18. ArchExact(b)
  BY <1>13, <1>16, <1>17 DEF ArchExact
<1>19. /\ d \in CallTypes /\ d.part = i /\ d.failed = failed /\ d.reads = d0.reads
  BY <1>2, <1>8 DEF CallTypes
<1>20. d.reads[1] = c.reads[1] /\ d.reads[2] = c.reads[2] /\ d.reads[3] = c.reads[3] /\ Count(d) >= 3
  <2>1. 1 \in 1 .. Count(c) /\ 2 \in 1 .. Count(c) /\ 3 \in 1 .. Count(c) /\ Count(c) + 1 >= 3
    BY <1>2
  <2>2. Count(d) = Count(d0)
    BY <1>19 DEF Count
  <2> QED
    BY <1>2, <1>19, <2>1, <2>2
<1>21. XciEntries(a, d.reads) = CardEntries(a)
  BY <1>9, <1>20 DEF XciEntries
<1>22. CardReads(b, d)
  <2>1. ~failed => HeadOf(d.reads[1]) = RootHead(a) /\ d.reads[2] = TableOf(a)
    BY <1>2, <1>3, <1>20 DEF CardReads
  <2>2. ASSUME ~failed, NEW k \in DOMAIN FilesOf(a), k <= i, FilesOf(a)[k] \in Partitions
        PROVE  PartMade(b, FilesOf(a)[k])
    <3>1. k \in Nat
      BY <1>6, <1>9, <1>10
    <3>2. CASE k <= c.part
      <4>1. PartMade(a, FilesOf(a)[k])
        BY <1>2, <1>3, <2>2, <3>2 DEF CardReads
      <4> QED
        BY <1>15, <2>2, <4>1
    <3>3. CASE ~ (k <= c.part)
      <4>1. XciEntries(a, c.reads)[k].name = FilesOf(a)[k] /\ k \in DOMAIN XciEntries(a, c.reads)
        <5>1. FilesOf(a) \in Seq(Words)
          BY <1>1, Layout
        <5> QED
          BY <1>9, <1>10, <5>1 DEF CardEntries
      <4>2. i <= k
        BY <1>7, <1>8, <2>2, <3>1, <3>3, <4>1
      <4>3. k = i
        BY <1>8, <2>2, <3>1, <4>2
      <4> QED
        BY <1>11, <1>15, <2>2, <4>3
    <3> QED
      BY <3>2, <3>3
  <2>3. Count(d) \in Nat /\ Count(d) >= 2 /\ ~ (Count(d) < 3)
    BY <1>20, <1>19, CountOp DEF CallTypes
  <2>4. Len(d.reads[2]) = TableAt(b.header.off, "HFS0", HeadOf(d.reads[1]).num).len
    BY <1>6, <1>16, <1>20
  <2>5. /\ RootHead(b) = RootHead(a) /\ TableOf(b) = TableOf(a)
        /\ FilesOf(b) = FilesOf(a) /\ XciEntries(b, d.reads) = CardEntries(b)
    BY <1>16, <1>21
  <2>6. ~d.failed => HeadOf(d.reads[1]) = RootHead(b) /\ d.reads[2] = TableOf(b)
    BY <1>19, <2>1, <2>5
  <2>7. ~d.failed => \A k \in DOMAIN FilesOf(b) :
                       k <= d.part /\ FilesOf(b)[k] \in Partitions => PartMade(b, FilesOf(b)[k])
    BY <1>19, <2>2, <2>5
  <2> QED
    BY <2>3, <2>4, <2>5, <2>6, <2>7 DEF CardReads
<1>23. ~failed => Kept(a, b)
  BY <1>13, <1>15 DEF Kept
<1> QED
  BY <1>13, <1>18, <1>19, <1>22, <1>23
-----------------------------------------------------------------------------
(* Seek and Read.                                                          *)

LEMMA AskedOp ==
  ASSUME NEW f \in FileTypes, NEW len \in Nat
  PROVE  Asked(f, len) \in Nat
BY DEF FileTypes, Asked, Lesser

\* A thread that is not idle is in a call on a file or on an archive.
LEMMA BusyOp ==
  ASSUME Types, Undisturbed, NEW t \in Threads
  PROVE  /\ call[t] \in CallTypes /\ mine[t] \in FileTypes /\ Fits(mine[t])
         /\ CallExact(call[t], mine[t], arch[call[t].obj], at)
         /\ call[t].op \in FileOps \/ call[t].op \in ArchiveOps \/ call[t] = Idle
         /\ call[t].op \in ArchiveOps =>
              call[t].obj \in DOMAIN arch /\ arch[call[t].obj] \in ArchTypes /\ ArchExact(arch[call[t].obj])
<1>1. call[t] \in CallTypes /\ mine[t] \in FileTypes /\ call[t].obj \in 0 .. Len(arch) /\ arch \in Seq(ArchTypes)
  BY DEF Types
<1>2. Fits(mine[t]) /\ CallExact(call[t], mine[t], arch[call[t].obj], at)
  BY DEF Undisturbed
<1>3. call[t].op \in FileOps \/ call[t].op \in ArchiveOps \/ call[t] = Idle
  BY <1>1, <1>2 DEF CallExact, CallTypes, Ops, FileOps, ArchiveOps
<1>4. ASSUME call[t].op \in ArchiveOps
      PROVE  call[t].obj \in DOMAIN arch /\ arch[call[t].obj] \in ArchTypes /\ ArchExact(arch[call[t].obj])
  <2>1. call[t].obj # 0
    BY <1>2, <1>4 DEF CallExact, ArchiveCall
  <2>2. call[t].obj \in 1 .. Len(arch)
    BY <1>1, <2>1
  <2>3. call[t].obj \in DOMAIN arch /\ arch[call[t].obj] \in ArchTypes
    BY <1>1, <2>2
  <2> QED
    BY <2>3 DEF Undisturbed
<1> QED
  BY <1>1, <1>2, <1>3, <1>4

LEMMA ReadFacts ==
  ASSUME Types, Undisturbed, NEW t \in Threads, call[t].stage \in {"read", "sought"}
  PROVE  /\ call[t].op \in FileOps \/ (call[t].op \in ArchiveOps /\ call[t].op \notin FileOps)
         /\ call[t].op \in ArchiveOps <=> Parsing(t)
         /\ NextRead(t) = TheRead(call[t], mine[t], arch[call[t].obj])
         /\ Reads(t) = TheSource(call[t], mine[t], arch[call[t].obj])
         /\ NextRead(t) \in Places \cup {None}
         /\ Fits(Reads(t)) /\ Reads(t).lo \in Nat /\ Reads(t).size \in Nat
         /\ call[t].op \in ArchiveOps => Sound(arch[call[t].obj])
<1> DEFINE c == call[t]
           f == mine[t]
           a == arch[c.obj]
<1>1. /\ c \in CallTypes /\ f \in FileTypes /\ Fits(f) /\ CallExact(c, f, a, at) /\ tree \in DOMAIN Trees
      /\ c.op \in FileOps \/ c.op \in ArchiveOps \/ c = Idle
      /\ c.op \in ArchiveOps => c.obj \in DOMAIN arch /\ a \in ArchTypes /\ ArchExact(a)
  BY BusyOp DEF Types
<1>2. c # Idle
  BY DEF Idle
<1>3. c.op \in FileOps \/ (c.op \in ArchiveOps /\ c.op \notin FileOps)
  <2>1. c.op \in ArchiveOps => c.op \notin FileOps
    BY DEF FileOps, ArchiveOps
  <2>2. c.op \in FileOps \/ c.op \in ArchiveOps \/ c = Idle
    BY <1>1
  <2> QED
    BY <1>2, <2>1, <2>2, Zenon
<1>4. c.op \in ArchiveOps <=> Parsing(t)
  BY DEF Parsing, ArchiveOps
<1>5. NextRead(t) = TheRead(c, f, a)
  <2>1. CASE c.op \in FileOps
    BY <2>1 DEF NextRead, TheRead, FilePos, FileLen, FileOps
  <2>2. CASE c.op \notin FileOps
    BY <2>2 DEF NextRead, TheRead, FileOps
  <2> QED
    BY <2>1, <2>2
<1>6. Reads(t) = TheSource(c, f, a)
  BY DEF Reads, TheSource, FileOps
<1>7. CASE c.op \in FileOps
  <2>1. FileCall(c, f)
    BY <1>1 DEF CallExact
  <2>2. FilePos(c, f) \in Nat
    BY <1>1 DEF FilePos, FileTypes
  <2>3. FileLen(c, f) \in Nat
    <3>1. c.op = "read" => Asked(f, c.len) \in Nat
      BY <1>1, AskedOp DEF CallTypes
    <3>2. c.op = "new" => c.name \in Formats
      BY <1>7, <2>1 DEF FileCall
    <3> QED
      BY <1>7, <3>1, <3>2, LensOp DEF FileLen, FileOps
  <2>4. TheRead(c, f, a) \in Places \cup {None}
    BY <1>7, <2>2, <2>3 DEF TheRead, Places
  <2>5. Reads(t) = f
    BY <1>6, <1>7 DEF TheSource
  <2>6. c.op \notin ArchiveOps
    BY <1>7 DEF FileOps, ArchiveOps
  <2> QED
    BY <1>1, <1>3, <1>4, <1>5, <1>6, <2>4, <2>5, <2>6 DEF FileTypes
<1>8. CASE c.op \in ArchiveOps /\ c.op \notin FileOps
  <2>1. a \in ArchTypes /\ ArchExact(a)
    BY <1>1, <1>8
  <2>2. ArchiveCall(c, a)
    BY <1>1 DEF CallExact
  <2>3. IsValid(a) /\ (a.fmt = "HEAD" => CardReads(a, c))
    BY <1>8, <2>2 DEF ArchiveCall
  <2>4. Sound(a)
    BY <1>1, <2>1, <2>3 DEF Sound, ArchExact, ArchTypes
  <2>5. ArchiveRead(a, c) \in Places \cup {None}
    BY <1>1, <2>1, <2>3, ArchiveReadType DEF ArchTypes, CallTypes
  <2>6. TheRead(c, f, a) = ArchiveRead(a, c) /\ Reads(t) = a
    BY <1>6, <1>8 DEF TheRead, TheSource
  <2> QED
    BY <1>1, <1>3, <1>4, <1>5, <1>6, <2>1, <2>4, <2>5, <2>6 DEF ArchTypes, ArchExact
<1> QED
  BY <1>3, <1>7, <1>8
\* A call on a file has read what it asked for.
LEMMA FileGot ==
  ASSUME NEW f, NEW c \in CallTypes, FileCall(c, f), c.op \in FileOps, c.reads = <<>>,
         NEW r, r = [pos |-> FilePos(c, f), len |-> FileLen(c, f)],
         NEW cells \in Buffer, NEW failed \in BOOLEAN, Gave(c, r, cells, failed, f),
         NEW d, Goes(c, d, cells, failed)
  PROVE  FileCall(d, f)
<1>1. /\ d \in CallTypes /\ Count(d) = Count(c) + 1
      /\ d.op = c.op /\ d.stage = "read" /\ d.obj = c.obj /\ d.name = c.name /\ d.len = c.len
      /\ d.part = c.part /\ d.failed = failed /\ d.reads[Count(c) + 1] = cells
  BY GoesOp
<1>2. Count(c) = 0
  BY CountOp DEF CallTypes
<1>3. Len(d.reads) = 1 /\ d.reads[1] = cells /\ d.reads # <<>>
  BY <1>1, <1>2 DEF Count
<1>4. FilePos(d, f) = FilePos(c, f) /\ FileLen(d, f) = FileLen(c, f)
  BY <1>1 DEF FilePos, FileLen
<1>5. ~failed => cells = CellsFrom(f, FilePos(c, f), FileLen(c, f))
  BY DEF Gave
<1>6. c.obj = 0 /\ c.part = 0 /\ (c.op = "new" => c.name \in Formats)
  BY DEF FileCall
<1> QED
  BY <1>1, <1>3, <1>4, <1>5, <1>6 DEF FileCall

LEMMA GotStep ==
  ASSUME Types, Undisturbed, NEW t \in Threads, call[t].stage \in {"read", "sought"}, Free(t),
         NextRead(t) # None,
         NEW cells, NEW failed \in BOOLEAN, Gave(call[t], NextRead(t), cells, failed, Reads(t)),
         Got(t, cells, failed),
         tree' = tree, kind' = kind, gil' = gil, mine' = mine, answer' = answer, calls' = calls,
         at' \in 0 .. Len(Image), faults' \in 0 .. FaultBound,
         \A u \in Threads \ {t} : call[u].stage = "sought" => at' = at
  PROVE  Types' /\ (~Mixed' => Undisturbed')
<1> DEFINE c == call[t]
           f == mine[t]
           a == arch[c.obj]
           r == NextRead(t)
           got == [c EXCEPT !.stage = "read", !.reads = Append(@, cells), !.failed = failed]
<1>1. /\ c \in CallTypes /\ f \in FileTypes /\ Fits(f) /\ CallExact(c, f, a, at) /\ tree \in DOMAIN Trees
      /\ c.op \in ArchiveOps => c.obj \in DOMAIN arch /\ a \in ArchTypes /\ ArchExact(a)
  BY BusyOp DEF Types
<1>2. /\ c.op \in FileOps \/ (c.op \in ArchiveOps /\ c.op \notin FileOps)
      /\ c.op \in ArchiveOps <=> Parsing(t)
      /\ r = TheRead(c, f, a) /\ Reads(t) = TheSource(c, f, a)
      /\ r \in Places /\ Fits(Reads(t)) /\ Reads(t).lo \in Nat /\ Reads(t).size \in Nat
      /\ c.op \in ArchiveOps => Sound(a)
  BY ReadFacts
<1>3. cells \in Buffer
  <2>1. CASE failed
    BY <1>2, <2>1, NoPlace, ZerosOp DEF Gave
  <2>2. CASE ~failed
    <3>1. cells = CellsFrom(Reads(t), r.pos, r.len) /\ r.pos \in Nat /\ r.len \in Nat
      BY <1>2, <2>2, NoPlace DEF Gave
    <3> QED
      BY <1>1, <1>2, <3>1, ReadOp
  <2> QED
    BY <2>1, <2>2
<1>4. Goes(c, got, cells, failed)
  BY DEF Goes
<1>5. got \in CallTypes /\ got.obj = c.obj /\ got.op = c.op /\ got.stage = "read" /\ got.failed = failed
  BY <1>1, <1>3, <1>4, GoesOp
<1>6. AnswerRight(answer[t])
  BY DEF Undisturbed
<1>7. /\ arch \in Seq(ArchTypes) /\ call \in [Threads -> CallTypes] /\ mine \in [Threads -> FileTypes]
      /\ answer \in [Threads -> AnswerTypes] /\ c.obj \in 0 .. Len(arch)
  BY DEF Types
<1>8. ASSUME ~ (Parsing(t) /\ a.fmt = "HEAD" /\ Len(c.reads) >= 3)
      PROVE  Types' /\ (~Mixed' => Undisturbed')
  <2>1. call' = [call EXCEPT ![t] = got] /\ arch' = arch
    BY <1>8 DEF Got, Continue
  <2>2. call' \in [Threads -> CallTypes] /\ call'[t] = got /\ \A u \in Threads \ {t} : call'[u] = call[u]
    BY <1>5, <1>7, <2>1
  <2>3. Alone(t)
    BY <2>2 DEF Alone
  <2>4. Types'
    BY <1>5, <1>7, <2>1, <2>2, <2>3, TypesStep
  <2>5. CallExact(got, f, a, at')
    <3>1. CASE c.op \in FileOps
      <4>1. FileCall(c, f) /\ c.reads = <<>> /\ r = [pos |-> FilePos(c, f), len |-> FileLen(c, f)]
            /\ Reads(t) = f
        BY <1>1, <1>2, <3>1 DEF CallExact, TheRead, TheSource
      <4>2. FileCall(got, f)
        BY <1>1, <1>3, <1>4, <3>1, <4>1, FileGot
      <4> QED
        BY <1>5, <3>1, <4>2 DEF CallExact, ArchiveCall, Sought, FileOps, ArchiveOps
    <3>2. CASE c.op \in ArchiveOps /\ c.op \notin FileOps
      <4>1. r = ArchiveRead(a, c) /\ Reads(t) = a /\ Sound(a) /\ a.lo \in Nat /\ ArchiveCall(c, a)
        BY <1>1, <1>2, <3>2 DEF TheRead, TheSource, CallExact
      <4>2. IF a.fmt = "HEAD" THEN CardReads(a, got) ELSE TableReads(a, got)
        <5>1. CASE a.fmt = "HEAD"
          <6>1. CardReads(a, c)
            BY <3>2, <4>1, <5>1 DEF ArchiveCall
          <6>2. Count(c) < 3
            <7>1. ~ (Len(c.reads) >= 3)
              BY <1>2, <1>8, <3>2, <5>1
            <7>2. Count(c) \in Nat
              BY <1>1, CountOp DEF CallTypes
            <7> QED
              BY <7>1, <7>2 DEF Count
          <6> QED
            BY <1>1, <1>2, <1>3, <1>4, <4>1, <5>1, <6>1, <6>2, CardGot
        <5>2. CASE a.fmt # "HEAD"
          <6>1. TableReads(a, c)
            BY <3>2, <4>1, <5>2 DEF ArchiveCall
          <6> QED
            BY <1>1, <1>2, <1>3, <1>4, <4>1, <5>2, <6>1, TableGot
        <5> QED
          BY <5>1, <5>2
      <4>3. ArchiveCall(got, a)
        <5>1. c.obj # 0 /\ (c.op = "open" => a.fmt # "HEAD") /\ (c.op = "partition" => a.fmt = "HEAD")
          BY <3>2, <4>1 DEF ArchiveCall
        <5>2. IsValid(a)
          BY <4>1 DEF Sound
        <5> QED
          BY <1>5, <4>2, <5>1, <5>2 DEF ArchiveCall
      <4> QED
        BY <1>5, <3>2, <4>3 DEF CallExact, FileCall, Sought, FileOps, ArchiveOps
    <3> QED
      BY <1>2, <3>1, <3>2
  <2>6. Undisturbed'
    BY <1>1, <1>5, <1>6, <2>1, <2>2, <2>3, <2>5, StepSame
  <2> QED
    BY <2>4, <2>6
<1>9. ASSUME Parsing(t), a.fmt = "HEAD", Len(c.reads) >= 3
      PROVE  Types' /\ (~Mixed' => Undisturbed')
  <2>13. PICK i : i = Min(Ahead(a, c))
    OBVIOUS
  <2>14. PICK e : e = XciEntries(a, c.reads)[i]
    OBVIOUS
  <2>15. PICK p : p = [off |-> e.off, size |-> e.size, name |-> e.name, header |-> HeadOf(cells)]
    OBVIOUS
  <2>16. PICK b : b = [a EXCEPT !.parts = Append(@, p)]
    OBVIOUS
  <2>17. PICK d : d = [got EXCEPT !.part = i]
    OBVIOUS
  <2>1. call' = [call EXCEPT ![t] = d] /\ arch' = [arch EXCEPT ![c.obj].parts = Append(@, p)]
    BY <1>9, <2>13, <2>14, <2>15, <2>17 DEF Got, Continue
  <2>2. c.op \in ArchiveOps /\ c.op \notin FileOps /\ c.obj \in DOMAIN arch /\ a \in ArchTypes /\ ArchExact(a) /\ Sound(a)
        /\ r = ArchiveRead(a, c) /\ Reads(t) = a /\ ArchiveCall(c, a)
    BY <1>1, <1>2, <1>9 DEF TheRead, TheSource, CallExact, FileOps, ArchiveOps, Parsing
  <2>3. CardReads(a, c) /\ IsValid(a) /\ Count(c) >= 3
    BY <1>9, <2>2 DEF ArchiveCall, Count, Sound
  <2>4. /\ d \in CallTypes /\ b \in ArchTypes /\ ArchExact(b) /\ SameBase(a, b) /\ CardReads(b, d)
        /\ b.dict = a.dict /\ b.data = a.data /\ b.parsed = a.parsed
        /\ ~failed => Kept(a, b)
    <3>1. PICK cc : cc = c
      OBVIOUS
    <3>2. PICK aa : aa = a
      OBVIOUS
    <3>3. PICK rr : rr = r
      OBVIOUS
    <3>4. PICK gg : gg = got
      OBVIOUS
    <3>5. /\ aa \in ArchTypes /\ ArchExact(aa) /\ IsValid(aa) /\ tree \in DOMAIN Trees /\ aa.fmt = "HEAD"
          /\ cc \in CallTypes /\ CardReads(aa, cc) /\ Count(cc) >= 3
          /\ rr = ArchiveRead(aa, cc) /\ rr \in Places
          /\ Gave(cc, rr, cells, failed, aa) /\ Goes(cc, gg, cells, failed)
      BY <1>1, <1>2, <1>4, <1>9, <2>2, <2>3, <3>1, <3>2, <3>3, <3>4
    <3>6. i = Min(Ahead(aa, cc)) /\ e = XciEntries(aa, cc.reads)[i] /\ d = [gg EXCEPT !.part = i]
          /\ b = [aa EXCEPT !.parts = Append(@, p)]
      BY <2>13, <2>14, <2>16, <2>17, <3>1, <3>2, <3>4
    <3>7. /\ d \in CallTypes /\ b \in ArchTypes /\ ArchExact(b) /\ SameBase(aa, b) /\ CardReads(b, d)
          /\ b.dict = aa.dict /\ b.data = aa.data /\ b.parsed = aa.parsed
          /\ ~failed => Kept(aa, b)
      BY <1>3, <2>15, <3>5, <3>6, LoopGot
    <3> QED
      BY <3>2, <3>7
  <2>5. d.obj = c.obj /\ d.op = c.op /\ d.stage = "read" /\ d.failed = failed
    BY <1>5, <2>17 DEF CallTypes
  <2>6. call' \in [Threads -> CallTypes] /\ call'[t] = d /\ \A u \in Threads \ {t} : call'[u] = call[u]
    BY <1>7, <2>1, <2>4
  <2>7. arch' = [arch EXCEPT ![c.obj] = b]
    BY <1>7, <2>1, <2>2, <2>16
  <2>8. /\ arch' \in Seq(ArchTypes) /\ Len(arch') = Len(arch) /\ DOMAIN arch' = DOMAIN arch
        /\ arch'[c.obj] = b /\ \A o \in DOMAIN arch \ {c.obj} : arch'[o] = arch[o]
    <3>1. PICK o \in DOMAIN arch : o = c.obj
      BY <2>2
    <3>2. arch' = [arch EXCEPT ![o] = b]
      BY <2>7, <3>1
    <3>3. /\ arch' \in Seq(ArchTypes) /\ Len(arch') = Len(arch) /\ DOMAIN arch' = DOMAIN arch
          /\ arch'[o] = b /\ \A x \in DOMAIN arch \ {o} : arch'[x] = arch[x]
      BY <1>7, <2>4, <3>2
    <3> QED
      BY <3>1, <3>3
  <2>9. Alone(t)
    BY <2>6 DEF Alone
  <2>10. Types'
    <3>1. Len(arch) <= Len(arch') /\ call'[t].obj \in 0 .. Len(arch')
      BY <1>7, <2>5, <2>6, <2>8
    <3> QED
      BY <1>7, <2>6, <2>8, <2>9, <3>1, TypesStep
  <2>11. Grown
    <3>1. Len(arch) <= Len(arch')
      BY <1>7, <2>8
    <3> QED
      BY <2>4, <2>8, <3>1, KeptSame DEF Grown
  <2>12. ASSUME ~Mixed' PROVE Undisturbed'
    <3>1. CallExact(d, f, b, at')
      <4>1. b.fmt = "HEAD" /\ IsValid(b)
        BY <1>9, <2>3, <2>4, SameBaseOp DEF SameBase
      <4>2. c.obj # 0 /\ c.op # "open"
        BY <1>9, <2>2 DEF ArchiveCall
      <4>3. ArchiveCall(d, b)
        BY <2>4, <2>5, <4>1, <4>2 DEF ArchiveCall
      <4> QED
        BY <2>2, <2>5, <4>3 DEF CallExact, FileCall, Sought, FileOps, ArchiveOps
    <3>2. \A o \in DOMAIN arch' : ArchExact(arch'[o])
      BY <2>4, <2>8 DEF Undisturbed
    <3>3. ASSUME NEW o \in DOMAIN arch' PROVE (arch[o].parsed /\ Settled(o) => DictExact(arch[o]))'
      <4>1. Settled(o)' => Settled(o)
        BY <2>9 DEF Settled, Alone
      <4>2. arch'[o].parsed = arch[o].parsed /\ arch'[o].dict = arch[o].dict /\ arch'[o].data = arch[o].data
        BY <2>4, <2>8
      <4>3. arch[o].parsed /\ Settled(o) => DictExact(arch[o])
        BY <2>8 DEF Undisturbed
      <4>4. DictExact(arch[o]) => DictExact(arch[o])'
        BY <2>8, <2>11, <4>2, DictKept
      <4> QED
        BY <4>1, <4>2, <4>3, <4>4
    <3>4. ASSUME NEW u \in Threads \ {t}, call[u].op \in ArchiveOps
          PROVE  Kept(arch[call[u].obj], arch'[call[u].obj])
      <4>1. CASE call[u].obj = c.obj
        <5>1. ~failed
          <6>1. c.obj # 0
            BY <2>2 DEF ArchiveCall
          <6>2. failed => FALSE
            <7>1. ASSUME failed PROVE Mixed'
              <8>1. call'[t].failed /\ call'[t].obj # 0 /\ call'[t].obj = call'[u].obj
                BY <2>5, <2>6, <3>4, <4>1, <6>1, <7>1
              <8> QED
                BY <3>4, <8>1 DEF Mixed
            <7> QED
              BY <2>12, <7>1
          <6> QED
            BY <6>2
        <5> QED
          BY <2>4, <2>8, <4>1, <5>1
      <4>2. CASE call[u].obj # c.obj
        <5>1. call[u].obj \in DOMAIN arch
          BY <3>4, BusyOp
        <5> QED
          BY <2>8, <4>2, <5>1, KeptSame
      <4> QED
        BY <4>1, <4>2
    <3> QED
      <4>1. Fits(mine'[t]) /\ AnswerRight(answer'[t]) /\ CallExact(call'[t], mine'[t], arch'[call'[t].obj], at')
        BY <1>1, <1>6, <2>5, <2>6, <2>8, <3>1
      <4> QED
        BY <2>6, <2>9, <2>11, <3>2, <3>3, <3>4, <4>1, StepOp
  <2> QED
    BY <2>10, <2>12
<1> QED
  BY <1>8, <1>9
LEMMA FailsStep ==
  ASSUME Types, Undisturbed, ~Mixed, NEW t \in Threads, call[t].stage \in {"read", "sought"}, Free(t),
         NextRead(t) # None, Fails(t), UNCHANGED <<tree, kind, gil, mine, answer, calls>>
  PROVE  Types' /\ (~Mixed' => Undisturbed')
<1>1. Gave(call[t], NextRead(t), [i \in 1 .. NextRead(t).len |-> Zeros], TRUE, Reads(t))
  BY DEF Gave
<1>2. Got(t, [i \in 1 .. NextRead(t).len |-> Zeros], TRUE)
  BY DEF Fails
<1>3. at' \in 0 .. Len(Image)
  BY RootOp DEF Fails, Types
<1>4. faults' \in 0 .. FaultBound
  BY BindingsAssumption DEF Fails, Types
<1>5. \A u \in Threads \ {t} : call[u].stage = "sought" => at' = at
  <2>1. CASE call[t].stage = "sought"
    BY <2>1 DEF Mixed
  <2>2. CASE call[t].stage # "sought"
    BY <2>2 DEF Fails
  <2> QED
    BY <2>1, <2>2
<1> QED
  BY <1>1, <1>2, <1>3, <1>4, <1>5, GotStep

\* Where a call stands that has sought makes no difference to what it reads.
LEMMA SoughtOp ==
  ASSUME NEW c \in CallTypes, NEW f, NEW a, NEW where, CallExact(c, f, a, where), c.stage = "read", ~c.failed,
         c.op # "none", TheRead(c, f, a) # None,
         NEW d, d = [c EXCEPT !.stage = "sought"], NEW now,
         now = TheSource(c, f, a).lo + TheStart(c, f, a)
  PROVE  d \in CallTypes /\ CallExact(d, f, a, now)
<1>1. /\ d \in CallTypes /\ d.stage = "sought" /\ d.op = c.op /\ d.obj = c.obj /\ d.name = c.name /\ d.len = c.len
      /\ d.reads = c.reads /\ d.part = c.part /\ d.failed = c.failed
  BY DEF CallTypes, Stages
<1>2. Ahead(a, d) = Ahead(a, c)
  BY <1>1 DEF Ahead
<1>3. ArchiveRead(a, d) = ArchiveRead(a, c)
  BY <1>1, <1>2 DEF ArchiveRead
<1>4. TheRead(d, f, a) = TheRead(c, f, a) /\ TheSource(d, f, a) = TheSource(c, f, a)
  <2>1. FilePos(d, f) = FilePos(c, f) /\ FileLen(d, f) = FileLen(c, f)
    BY <1>1 DEF FilePos, FileLen
  <2> QED
    BY <1>1, <1>3, <2>1 DEF TheRead, TheSource
<1>5. Sought(d, f, a, now)
  BY <1>1, <1>4 DEF Sought, TheStart
<1>6. FileCall(d, f)
  <2>1. ASSUME c.op \in FileOps PROVE c.reads = <<>> /\ c.obj = 0 /\ c.part = 0 /\ (c.op = "new" => c.name \in Formats)
    BY <2>1 DEF TheRead, CallExact, FileCall
  <2> QED
    BY <1>1, <2>1 DEF FileCall
<1>7. ArchiveCall(d, a)
  <2>1. ArchiveCall(c, a)
    BY DEF CallExact
  <2>2. TableReads(a, c) => TableReads(a, d)
    BY <1>1 DEF TableReads, Count
  <2>3. CardReads(a, c) => CardReads(a, d)
    BY <1>1 DEF CardReads, Count
  <2>4. c.op \in ArchiveOps =>
          /\ c.obj # 0 /\ (c.op = "open" => a.fmt # "HEAD") /\ (c.op = "partition" => a.fmt = "HEAD")
          /\ IsValid(a) /\ IF a.fmt = "HEAD" THEN CardReads(a, c) ELSE TableReads(a, c)
    BY <2>1 DEF ArchiveCall
  <2> QED
    BY <1>1, <2>2, <2>3, <2>4 DEF ArchiveCall
<1> QED
  BY <1>1, <1>5, <1>6, <1>7 DEF CallExact

LEMMA SeekStep ==
  ASSUME Types, Undisturbed, ~Mixed, NEW t \in Threads, Seek(t)
  PROVE  Types' /\ (~Mixed' => Undisturbed')
<1>1. /\ call[t].stage = "read" /\ Free(t) /\ NextRead(t) # None
      /\ UNCHANGED <<tree, kind, gil, mine, answer, calls>>
  BY DEF Seek
<1>2. CASE Fails(t)
  BY <1>1, <1>2, FailsStep
<1>3. CASE /\ ~call[t].failed
           /\ at' = Reads(t).lo + From(t)
           /\ Continue(t, [call[t] EXCEPT !.stage = "sought"])
           /\ UNCHANGED <<arch, faults>>
  <2> DEFINE c == call[t]
             f == mine[t]
             a == arch[c.obj]
  <2>1. PICK d : d = [c EXCEPT !.stage = "sought"]
    OBVIOUS
  <2>2. /\ c \in CallTypes /\ CallExact(c, f, a, at) /\ Fits(f)
    BY BusyOp
  <2>3. /\ c.op \in FileOps \/ (c.op \in ArchiveOps /\ c.op \notin FileOps)
        /\ NextRead(t) = TheRead(c, f, a) /\ Reads(t) = TheSource(c, f, a)
        /\ NextRead(t) \in Places /\ Fits(Reads(t)) /\ Reads(t).lo \in Nat /\ Reads(t).size \in Nat
    BY <1>1, ReadFacts
  <2>4. From(t) = TheStart(c, f, a)
    BY <2>3 DEF From, TheStart
  <2>5. c.op # "none"
    BY <2>3 DEF FileOps, ArchiveOps
  <2>6. d \in CallTypes /\ CallExact(d, f, a, at')
    BY <1>1, <1>3, <2>1, <2>2, <2>3, <2>4, <2>5, SoughtOp
  <2>7. call \in [Threads -> CallTypes]
    BY DEF Types
  <2>8. call' \in [Threads -> CallTypes] /\ call'[t] = d /\ \A u \in Threads \ {t} : call'[u] = call[u]
    BY <1>3, <2>1, <2>6, <2>7 DEF Continue
  <2>9. d.stage = "sought" /\ d.obj = c.obj
    BY <2>1, <2>2 DEF CallTypes
  <2>10. at' \in 0 .. Len(Image)
    <3>1. NextRead(t).pos \in Nat /\ tree \in DOMAIN Trees
      BY <2>3, NoPlace DEF Types
    <3>2. PICK length : length = Lesser(0, Reads(t).size - From(t))
      OBVIOUS
    <3> QED
      BY <1>3, <2>3, <3>1, <3>2, ReadOp DEF From
  <2>11. Alone(t)
    BY <1>1, <2>8 DEF Alone
  <2>12. Types'
    <3>1. call'[t].obj \in 0 .. Len(arch') /\ arch' \in Seq(ArchTypes) /\ Len(arch) <= Len(arch')
      BY <1>3, <2>8, <2>9 DEF Types
    <3> QED
      BY <1>1, <1>3, <2>8, <2>10, <2>11, <3>1, TypesStep DEF Types
  <2>13. ASSUME ~Mixed', NEW u \in Threads \ {t} PROVE call[u].stage # "sought"
    <3>1. call'[u].stage = "sought" => Mixed'
      BY <2>8, <2>9, <2>13 DEF Mixed
    <3> QED
      BY <2>8, <2>13, <3>1
  <2>14. ASSUME ~Mixed' PROVE Undisturbed'
    <3>1. AnswerRight(answer[t])
      BY DEF Undisturbed
    <3>2. Fits(mine'[t]) /\ AnswerRight(answer'[t]) /\ CallExact(call'[t], mine'[t], arch[call'[t].obj], at')
      BY <1>1, <2>2, <2>6, <2>8, <2>9, <3>1
    <3> QED
      BY <1>1, <1>3, <2>8, <2>11, <2>13, <2>14, <3>2, StepSame
  <2> QED
    BY <2>12, <2>14
<1> QED
  BY <1>2, <1>3 DEF Seek

LEMMA ReadStep ==
  ASSUME Types, Undisturbed, ~Mixed, NEW t \in Threads, Read(t)
  PROVE  Types' /\ (~Mixed' => Undisturbed')
<1> DEFINE c == call[t]
           f == mine[t]
           a == arch[c.obj]
           cells == Part(Image, at, Lesser(at + Length(t), Len(Image)))
<1>1. /\ call[t].stage = "sought" /\ Free(t)
      /\ UNCHANGED <<tree, kind, gil, mine, answer, calls>>
  BY DEF Read
<1>2. c \in CallTypes /\ CallExact(c, f, a, at)
  BY BusyOp
<1>3. /\ NextRead(t) = TheRead(c, f, a) /\ Reads(t) = TheSource(c, f, a)
      /\ NextRead(t) \in Places \cup {None} /\ Fits(Reads(t)) /\ Reads(t).lo \in Nat
  BY <1>1, ReadFacts
<1>4. /\ ~c.failed /\ NextRead(t) # None /\ at = Reads(t).lo + From(t)
  BY <1>1, <1>2, <1>3 DEF CallExact, Sought, TheStart, From
<1>5. CASE Fails(t)
  BY <1>1, <1>4, <1>5, FailsStep
<1>6. CASE at' = 0 /\ Got(t, cells, FALSE) /\ UNCHANGED faults
  <2>1. NextRead(t).pos \in Nat /\ NextRead(t).len \in Nat /\ tree \in DOMAIN Trees
    BY <1>3, <1>4, NoPlace DEF Types
  <2>2. cells = CellsFrom(Reads(t), NextRead(t).pos, NextRead(t).len)
    <3>1. From(t) = Lesser(NextRead(t).pos, Reads(t).size)
          /\ Length(t) = Lesser(NextRead(t).len, Reads(t).size - From(t))
      BY DEF From, Length
    <3>2. PICK g : g = Reads(t)
      OBVIOUS
    <3>3. PICK pos \in Nat, len \in Nat : pos = NextRead(t).pos /\ len = NextRead(t).len
      BY <2>1
    <3>4. Fits(g) /\ g.lo \in Nat /\ tree \in DOMAIN Trees
      BY <1>3, <2>1, <3>2
    <3>5. PICK from, length : from = From(t) /\ length = Length(t)
      OBVIOUS
    <3>6. from = Lesser(pos, g.size) /\ length = Lesser(len, g.size - from)
      BY <3>1, <3>2, <3>3, <3>5
    <3>7. cells = Part(Image, g.lo + from, Lesser((g.lo + from) + length, Len(Image)))
      BY <1>4, <3>2, <3>5
    <3>8. Part(Image, g.lo + from, Lesser((g.lo + from) + length, Len(Image))) = CellsFrom(g, pos, len)
      BY <3>4, <3>6, ReadOp
    <3> QED
      BY <3>2, <3>3, <3>7, <3>8
  <2>3. Gave(c, NextRead(t), cells, FALSE, Reads(t))
    BY <1>4, <2>2 DEF Gave
  <2>4. at' \in 0 .. Len(Image)
    BY <1>6, <2>1, RootOp
  <2>5. faults' \in 0 .. FaultBound
    BY <1>6 DEF Types
  <2>6. \A u \in Threads \ {t} : call[u].stage = "sought" => at' = at
    BY <1>1 DEF Mixed
  <2> HIDE DEF cells
  <2> QED
    BY <1>1, <1>4, <1>6, <2>3, <2>4, <2>5, <2>6, GotStep
<1> QED
  BY <1>5, <1>6 DEF Read
-----------------------------------------------------------------------------
(* The calls of the program.                                               *)

LEMMA IdleOp ==
  /\ Idle \in CallTypes /\ Idle.op = "none" /\ Idle.obj = 0 /\ Idle.reads = <<>> /\ Idle.stage = "idle"
  /\ Nothing \in AnswerTypes /\ AnswerRight(Nothing)
<1>1. <<>> \in Seq(Buffer) /\ <<>> \in Seq(Words) /\ <<>> \in Buffer
  BY DEF Buffer
<1>2. NoName \in Words /\ "none" \in Ops /\ "idle" \in Stages
  BY DEF Words, Ops, Stages
<1>3. Idle \in CallTypes /\ Idle.op = "none" /\ Idle.obj = 0 /\ Idle.reads = <<>> /\ Idle.stage = "idle"
  BY <1>1, <1>2 DEF Idle, CallTypes
<1>4. Nothing \in AnswerTypes
  BY <1>1, <1>2 DEF Nothing, AnswerTypes
<1>5. AnswerRight(Nothing)
  BY DEF Nothing, AnswerRight, Found, ReadRight
<1> QED
  BY <1>3, <1>4, <1>5

\* A thread that is in no call is in none on an archive either.
LEMMA IdleExact ==
  ASSUME NEW f, NEW a, NEW where
  PROVE  CallExact(Idle, f, a, where)
BY DEF CallExact, FileCall, ArchiveCall, Sought, Idle, FileOps, ArchiveOps

LEMMA BeginStep ==
  ASSUME Types, Undisturbed, NEW t \in Threads, NEW c \in CallTypes, Begin(t, c), mine' = mine,
         c.obj \in 0 .. Len(arch), c.stage # "sought",
         CallExact(c, mine[t], arch[c.obj], at)
  PROVE  Types' /\ (~Mixed' => Undisturbed')
<1>1. /\ call[t] = Idle /\ Free(t) /\ calls[t] < CallBound[t]
      /\ calls' = [calls EXCEPT ![t] = @ + 1]
      /\ call' = [call EXCEPT ![t] = c]
      /\ gil' = IF c.stage = "read" THEN Held(t) ELSE gil
      /\ answer' = [answer EXCEPT ![t] = Nothing]
      /\ tree' = tree /\ kind' = kind /\ at' = at /\ arch' = arch /\ faults' = faults
  BY DEF Begin
<1>2. /\ call \in [Threads -> CallTypes] /\ answer \in [Threads -> AnswerTypes]
      /\ mine \in [Threads -> FileTypes] /\ arch \in Seq(ArchTypes)
      /\ faults \in 0 .. FaultBound /\ at \in 0 .. Len(Image)
  BY DEF Types
<1>3. call' \in [Threads -> CallTypes] /\ call'[t] = c /\ \A u \in Threads \ {t} : call'[u] = call[u]
  BY <1>1, <1>2
<1>4. /\ answer' \in [Threads -> AnswerTypes] /\ answer'[t] = Nothing
      /\ \A u \in Threads \ {t} : answer'[u] = answer[u]
  BY <1>1, <1>2, IdleOp
<1>5. Alone(t)
  BY <1>1, <1>3, <1>4 DEF Alone
<1>6. Types'
  <2>1. \/ gil' = Held(t)
        \/ call'[t].stage \notin {"read", "sought"} /\ gil' \in {gil, None}
    BY <1>1, <1>3
  <2>2. Len(arch) <= Len(arch')
    BY <1>1, <1>2
  <2> QED
    BY <1>1, <1>2, <1>3, <1>4, <1>5, <2>1, <2>2, TypesStep
<1>7. Undisturbed'
  <2>1. Fits(mine'[t]) /\ AnswerRight(answer'[t]) /\ CallExact(call'[t], mine'[t], arch[call'[t].obj], at')
    BY <1>1, <1>3, <1>4, IdleOp DEF Undisturbed
  <2>2. call[t].stage # "fill"
    BY <1>1, IdleOp
  <2> QED
    BY <1>1, <1>3, <1>5, <2>1, <2>2, StepSame
<1> QED
  BY <1>6, <1>7

\* A call on a file that has not read yet.
LEMMA FileBegins ==
  ASSUME NEW c \in CallTypes, c.op \in FileOps, c.op = "new" => c.name \in Formats,
         c.stage = "read" \/ (c.stage = "construct" /\ c.op = "new"),
         c.obj = 0, c.part = 0, c.reads = <<>>, ~c.failed,
         NEW f, NEW a, NEW where
  PROVE  CallExact(c, f, a, where)
<1>1. FileCall(c, f)
  BY DEF FileCall
<1> QED
  BY <1>1 DEF CallExact, ArchiveCall, Sought, FileOps, ArchiveOps

LEMMA NewStep ==
  ASSUME Types, Undisturbed, NEW t \in Threads, NEW fmt \in Formats, New(t, fmt)
  PROVE  Types' /\ (~Mixed' => Undisturbed')
<1>1. PICK c : c = [Idle EXCEPT !.op = "new", !.stage = "read", !.name = fmt]
  OBVIOUS
<1>2. /\ c \in CallTypes /\ c.op = "new" /\ c.stage = "read" /\ c.name = fmt /\ c.obj = 0 /\ c.part = 0
      /\ c.reads = <<>> /\ ~c.failed
  BY <1>1, IdleOp DEF Idle, CallTypes, Words, Ops, Stages
<1>3. CallExact(c, mine[t], arch[c.obj], at)
  BY <1>2, FileBegins DEF FileOps
<1>4. Begin(t, c) /\ mine' = mine
  BY <1>1 DEF New
<1>5. c.obj \in 0 .. Len(arch)
  BY <1>2 DEF Types
<1> QED
  BY <1>2, <1>3, <1>4, <1>5, BeginStep

LEMMA MatchStep ==
  ASSUME Types, Undisturbed, NEW t \in Threads, Match(t)
  PROVE  Types' /\ (~Mixed' => Undisturbed')
<1>1. PICK c : c = [Idle EXCEPT !.op = "match", !.stage = "read"]
  OBVIOUS
<1>2. /\ c \in CallTypes /\ c.op = "match" /\ c.stage = "read" /\ c.obj = 0 /\ c.part = 0
      /\ c.reads = <<>> /\ ~c.failed
  BY <1>1, IdleOp DEF Idle, CallTypes, Ops, Stages
<1>3. CallExact(c, mine[t], arch[c.obj], at)
  <2>1. c.op \in FileOps /\ c.op # "new"
    BY <1>2 DEF FileOps
  <2> QED
    BY <1>2, <2>1, FileBegins
<1>4. Begin(t, c) /\ mine' = mine
  BY <1>1 DEF Match
<1>5. c.obj \in 0 .. Len(arch)
  BY <1>2 DEF Types
<1> QED
  BY <1>2, <1>3, <1>4, <1>5, BeginStep

LEMMA ReadFileStep ==
  ASSUME Types, Undisturbed, NEW t \in Threads, NEW len \in Nat, ReadFile(t, len)
  PROVE  Types' /\ (~Mixed' => Undisturbed')
<1>1. PICK c : c = [Idle EXCEPT !.op = "read", !.stage = "read", !.len = len]
  OBVIOUS
<1>2. /\ c \in CallTypes /\ c.op = "read" /\ c.stage = "read" /\ c.obj = 0 /\ c.part = 0
      /\ c.reads = <<>> /\ ~c.failed
  BY <1>1, IdleOp DEF Idle, CallTypes, Ops, Stages
<1>3. CallExact(c, mine[t], arch[c.obj], at)
  <2>1. c.op \in FileOps /\ c.op # "new"
    BY <1>2 DEF FileOps
  <2> QED
    BY <1>2, <2>1, FileBegins
<1>4. Begin(t, c) /\ mine' = mine
  BY <1>1 DEF ReadFile
<1>5. c.obj \in 0 .. Len(arch)
  BY <1>2 DEF Types
<1> QED
  BY <1>2, <1>3, <1>4, <1>5, BeginStep

LEMMA UseArchiveStep ==
  ASSUME Types, Undisturbed, NEW t \in Threads, NEW o \in DOMAIN arch, NEW op, NEW name \in Words,
         op = "parse" \/ (op = "open" /\ arch[o].fmt # "HEAD") \/ (op = "partition" /\ arch[o].fmt = "HEAD"),
         UseArchive(t, o, op, name)
  PROVE  Types' /\ (~Mixed' => Undisturbed')
<1>1. PICK c : c = [Idle EXCEPT !.op = op, !.obj = o, !.name = name,
                                !.stage = IF op = "parse" \/ ~arch[o].parsed THEN "valid" ELSE "use"]
  OBVIOUS
<1>2. o \in Nat /\ o # 0 /\ o \in 0 .. Len(arch)
  BY DEF Types
<1>3. /\ c.op = op /\ c.obj = o /\ c.name = name /\ c.part = 0 /\ c.reads = <<>> /\ ~c.failed
      /\ c.stage = IF op = "parse" \/ ~arch[o].parsed THEN "valid" ELSE "use"
  BY <1>1 DEF Idle
<1>4. c \in CallTypes
  <2>1. op \in Ops /\ (IF op = "parse" \/ ~arch[o].parsed THEN "valid" ELSE "use") \in Stages
    BY DEF Ops, Stages
  <2> QED
    BY <1>1, <1>2, <2>1, IdleOp DEF CallTypes
<1>5. CallExact(c, mine[t], arch[c.obj], at)
  <2>1. c.op \notin FileOps /\ c.op # "none" /\ c.stage \in {"valid", "use"}
    BY <1>3 DEF FileOps
  <2>2. c.stage = "use" => arch[o].parsed
    BY <1>3
  <2>3. ArchiveCall(c, arch[o])
    BY <1>2, <1>3, <2>1, <2>2 DEF ArchiveCall
  <2> QED
    BY <1>3, <2>1, <2>3 DEF CallExact, FileCall, Sought
<1>6. Begin(t, c) /\ mine' = mine
  BY <1>1 DEF UseArchive
<1>7. c.stage # "sought"
  BY <1>3
<1> QED
  BY <1>2, <1>3, <1>4, <1>5, <1>6, <1>7, BeginStep

LEMMA SeekFileStep ==
  ASSUME Types, Undisturbed, NEW t \in Threads, NEW pos \in Nat, SeekFile(t, pos)
  PROVE  Types' /\ (~Mixed' => Undisturbed')
<1>1. /\ call[t] = Idle /\ Free(t) /\ calls[t] < CallBound[t]
      /\ calls' = [calls EXCEPT ![t] = @ + 1]
      /\ mine' = [mine EXCEPT ![t].pos = pos]
      /\ answer' = [answer EXCEPT ![t] = Nothing]
      /\ tree' = tree /\ kind' = kind /\ gil' = gil /\ at' = at /\ arch' = arch
      /\ call' = call /\ faults' = faults
  BY DEF SeekFile
<1>2. /\ call \in [Threads -> CallTypes] /\ answer \in [Threads -> AnswerTypes]
      /\ mine \in [Threads -> FileTypes] /\ arch \in Seq(ArchTypes)
      /\ faults \in 0 .. FaultBound /\ at \in 0 .. Len(Image)
  BY DEF Types
<1>3. PICK f : f = [mine[t] EXCEPT !.pos = pos]
  OBVIOUS
<1>4. f \in FileTypes /\ f.path = mine[t].path /\ f.lo = mine[t].lo /\ f.size = mine[t].size
  BY <1>2, <1>3 DEF FileTypes
<1>5. mine' \in [Threads -> FileTypes] /\ mine'[t] = f /\ \A u \in Threads \ {t} : mine'[u] = mine[u]
  BY <1>1, <1>2, <1>3, <1>4
<1>6. /\ answer' \in [Threads -> AnswerTypes] /\ answer'[t] = Nothing
      /\ \A u \in Threads \ {t} : answer'[u] = answer[u]
  BY <1>1, <1>2, IdleOp
<1>7. Alone(t)
  BY <1>1, <1>5, <1>6 DEF Alone
<1>8. Types'
  <2>1. call'[t].stage \notin {"read", "sought"} /\ call'[t].obj \in 0 .. Len(arch') /\ Len(arch) <= Len(arch')
    BY <1>1, <1>2, IdleOp
  <2> QED
    BY <1>1, <1>2, <1>5, <1>6, <1>7, <2>1, TypesStep
<1>9. Undisturbed'
  <2>1. Fits(f)
    BY <1>4 DEF Undisturbed, Fits, Covers
  <2>2. CallExact(call'[t], mine'[t], arch[call'[t].obj], at')
    BY <1>1, IdleExact
  <2>3. call[t].stage # "fill"
    BY <1>1, IdleOp
  <2> QED
    BY <1>1, <1>2, <1>5, <1>6, <1>7, <2>1, <2>2, <2>3, IdleOp, StepSame
<1> QED
  BY <1>8, <1>9

LEMMA CallsStep ==
  ASSUME Types, Undisturbed, NEW t \in Threads, Calls(t)
  PROVE  Types' /\ (~Mixed' => Undisturbed')
<1>1. CASE \E fmt \in {NodeAt(mine[t].path).fmt, "HFS0"} \cap Formats : New(t, fmt)
  BY <1>1, NewStep
<1>2. CASE Match(t)
  BY <1>2, MatchStep
<1>3. ASSUME NEW o \in DOMAIN arch, Parse(t, o) PROVE Types' /\ (~Mixed' => Undisturbed')
  BY <1>3, IdleOp, UseArchiveStep DEF Parse, Words
<1>4. ASSUME NEW o \in DOMAIN arch, NEW n \in Names(NodeAt(arch[o].path)) \cup {"missing"},
             OpenEntry(t, o, n) \/ GetPartition(t, o, n)
      PROVE  Types' /\ (~Mixed' => Undisturbed')
  <2>1. arch[o].path \in DOMAIN Trees[tree] /\ tree \in DOMAIN Trees
    BY DEF Types, Undisturbed, ArchExact, Fits
  <2>2. n \in Words
    <3>1. NodeAt(arch[o].path).files \in Seq(Words)
      BY <2>1, NodeOp
    <3>2. ASSUME n \in Names(NodeAt(arch[o].path)) PROVE n \in Words
      <4>1. PICK i \in DOMAIN NodeAt(arch[o].path).files : NodeAt(arch[o].path).files[i] = n
        BY <2>1, <3>2, NameOp
      <4> QED
        BY <3>1, <4>1
    <3>3. "missing" \in Words
      BY DEF Words
    <3> QED
      BY <3>2, <3>3
  <2>3. CASE OpenEntry(t, o, n)
    BY <2>2, <2>3, UseArchiveStep DEF OpenEntry
  <2>4. CASE GetPartition(t, o, n)
    BY <2>2, <2>4, UseArchiveStep DEF GetPartition
  <2> QED
    BY <1>4, <2>3, <2>4
<1>5. CASE \E len \in Lens : ReadFile(t, len)
  BY <1>5, BindingsAssumption, ReadFileStep
<1>6. ASSUME NEW pos \in {0, mine[t].size + 1}, SeekFile(t, pos) PROVE Types' /\ (~Mixed' => Undisturbed')
  <2>1. mine[t].size + 1 \in Nat
    BY DEF Types, FileTypes
  <2> QED
    BY <1>6, <2>1, SeekFileStep
<1>7. CASE CloneFile(t)
  BY <1>7, SeekFileStep DEF CloneFile
<1> QED
  BY <1>1, <1>2, <1>3, <1>4, <1>5, <1>6, <1>7 DEF Calls
-----------------------------------------------------------------------------
(* The ends of the calls on files.                                         *)

\* A step of a call that makes or changes no archive.
LEMMA EndStep ==
  ASSUME Types, Undisturbed, NEW t \in Threads, Free(t), call[t].stage # "fill",
         NEW c \in CallTypes, NEW f \in FileTypes, NEW a \in AnswerTypes,
         call' = [call EXCEPT ![t] = c], mine' = [mine EXCEPT ![t] = f], answer' = [answer EXCEPT ![t] = a],
         tree' = tree, kind' = kind, at' = at, calls' = calls, faults' = faults, arch' = arch,
         c.obj \in 0 .. Len(arch),
         \/ gil' = Held(t)
         \/ c.stage \notin {"read", "sought"} /\ gil' \in {gil, None},
         Fits(f), AnswerRight(a), CallExact(c, f, arch[c.obj], at)
  PROVE  Types' /\ (~Mixed' => Undisturbed')
<1>1. /\ call \in [Threads -> CallTypes] /\ answer \in [Threads -> AnswerTypes]
      /\ mine \in [Threads -> FileTypes] /\ arch \in Seq(ArchTypes)
      /\ faults \in 0 .. FaultBound /\ at \in 0 .. Len(Image)
  BY DEF Types
<1>2. call' \in [Threads -> CallTypes] /\ call'[t] = c /\ \A u \in Threads \ {t} : call'[u] = call[u]
  BY <1>1
<1>3. mine' \in [Threads -> FileTypes] /\ mine'[t] = f /\ \A u \in Threads \ {t} : mine'[u] = mine[u]
  BY <1>1
<1>4. answer' \in [Threads -> AnswerTypes] /\ answer'[t] = a /\ \A u \in Threads \ {t} : answer'[u] = answer[u]
  BY <1>1
<1>5. Alone(t)
  BY <1>2, <1>3, <1>4 DEF Alone
<1>6. Types'
  <2>1. Len(arch) <= Len(arch')
    BY <1>1
  <2> QED
    BY <1>1, <1>2, <1>3, <1>4, <1>5, <2>1, TypesStep
<1>7. Undisturbed'
  BY <1>2, <1>3, <1>4, <1>5, StepSame
<1> QED
  BY <1>6, <1>7

LEMMA RaiseOp ==
  ASSUME NEW op \in Ops, NEW a, a = [Nothing EXCEPT !.op = op, !.ok = FALSE, !.excuse = TRUE]
  PROVE  a \in AnswerTypes /\ AnswerRight(a)
<1>1. a \in AnswerTypes /\ ~a.ok /\ a.excuse
  BY IdleOp DEF Nothing, AnswerTypes
<1> QED
  BY <1>1 DEF AnswerRight, Found, ReadRight

\* A call that raises leaves the thread in none.
LEMMA RaiseStep ==
  ASSUME Types, Undisturbed, NEW t \in Threads, Free(t), call[t].stage # "fill", Raise(t),
         NEW f \in FileTypes, Fits(f), mine' = [mine EXCEPT ![t] = f],
         tree' = tree, kind' = kind, at' = at, calls' = calls, faults' = faults, arch' = arch,
         gil' \in {gil, None}
  PROVE  Types' /\ (~Mixed' => Undisturbed')
<1>1. PICK a : a = [Nothing EXCEPT !.op = call[t].op, !.ok = FALSE, !.excuse = TRUE]
  OBVIOUS
<1>2. call[t].op \in Ops /\ arch \in Seq(ArchTypes)
  BY DEF Types, CallTypes
<1>3. a \in AnswerTypes /\ AnswerRight(a)
  BY <1>1, <1>2, RaiseOp
<1>4. call' = [call EXCEPT ![t] = Idle] /\ answer' = [answer EXCEPT ![t] = a]
  BY <1>1 DEF Raise, Return, Continue
<1>5. Idle.obj \in 0 .. Len(arch) /\ Idle.stage \notin {"read", "sought"}
  BY <1>2, IdleOp
<1> QED
  BY <1>3, <1>4, <1>5, IdleOp, IdleExact, EndStep

\* A call on a file that has read.
LEMMA FileEnds ==
  ASSUME Types, Undisturbed, NEW t \in Threads, call[t].op \in FileOps, Ended(t, call[t].op)
  PROVE  /\ call[t].stage = "read" /\ Free(t) /\ gil' = None
         /\ tree' = tree /\ kind' = kind /\ at' = at /\ calls' = calls /\ faults' = faults
         /\ call[t] \in CallTypes /\ mine[t] \in FileTypes /\ Fits(mine[t])
         /\ call[t].obj = 0 /\ call[t].part = 0
         /\ call[t].op = "new" => call[t].name \in Formats
         /\ call[t].reads[1] \in Buffer
         /\ FilePos(call[t], mine[t]) \in Nat /\ FileLen(call[t], mine[t]) \in Nat
         /\ ~call[t].failed => call[t].reads[1] = CellsFrom(mine[t], FilePos(call[t], mine[t]), FileLen(call[t], mine[t]))
<1>1. /\ call[t].stage = "read" /\ Free(t) /\ gil' = None /\ NextRead(t) = None
      /\ tree' = tree /\ kind' = kind /\ at' = at /\ calls' = calls /\ faults' = faults
  BY DEF Ended
<1>2. /\ call[t] \in CallTypes /\ mine[t] \in FileTypes /\ Fits(mine[t])
      /\ CallExact(call[t], mine[t], arch[call[t].obj], at)
  BY BusyOp
<1>3. FileCall(call[t], mine[t])
  BY <1>2 DEF CallExact
<1>4. FilePos(call[t], mine[t]) \in Nat
  BY <1>2 DEF FilePos, FileTypes
<1>5. call[t].op = "new" => call[t].name \in Formats
  BY <1>3 DEF FileCall
<1>6. FileLen(call[t], mine[t]) \in Nat
  <2>1. Asked(mine[t], call[t].len) \in Nat
    BY <1>2, AskedOp DEF CallTypes
  <2> QED
    BY <1>5, <2>1, LensOp DEF FileLen, FileOps
<1>7. call[t].reads # <<>>
  <2>1. TheRead(call[t], mine[t], arch[call[t].obj]) = None
    BY <1>1, ReadFacts
  <2>2. [pos |-> FilePos(call[t], mine[t]), len |-> FileLen(call[t], mine[t])] \in Places
    BY <1>4, <1>6 DEF Places
  <2> QED
    BY <2>1, <2>2, NoPlace DEF TheRead
<1>8. /\ Len(call[t].reads) = 1 /\ call[t].obj = 0 /\ call[t].part = 0
      /\ ~call[t].failed => call[t].reads[1] = CellsFrom(mine[t], FilePos(call[t], mine[t]), FileLen(call[t], mine[t]))
  BY <1>3, <1>7 DEF FileCall
<1>9. call[t].reads[1] \in Buffer
  <2>1. Count(call[t]) = 1 /\ call[t].reads \in Seq(Buffer)
    BY <1>2, <1>8 DEF Count, CallTypes
  <2> QED
    BY <2>1, CountOp
<1> QED
  BY <1>1, <1>2, <1>4, <1>5, <1>6, <1>8, <1>9

\* A file that is moved covers what it did.
LEMMA MovedOp ==
  ASSUME NEW f \in FileTypes, Fits(f), NEW pos \in Nat, NEW g, g = [f EXCEPT !.pos = pos]
  PROVE  g \in FileTypes /\ Fits(g)
<1>1. g \in FileTypes /\ g.path = f.path /\ g.lo = f.lo /\ g.size = f.size
  BY DEF FileTypes
<1> QED
  BY <1>1 DEF Fits, Covers

LEMMA AfterOp ==
  ASSUME NEW f \in FileTypes, NEW len \in Nat, NEW got \in Nat
  PROVE  After(f, len, got) \in Nat
BY DEF After, FileTypes

\* What clamping makes of a read: where it ends, and how many cells it gives.
Asks(pos, len, size, asked) ==
  /\ pos \in Nat /\ len \in Nat /\ size \in Nat
  /\ asked = IF pos > size THEN len ELSE Lesser(len, size - pos)

LEMMA AsksOp ==
  ASSUME NEW pos, NEW len, NEW size, NEW asked, Asks(pos, len, size, asked)
  PROVE  /\ asked \in Nat
         /\ Lesser(pos + asked, size) = Lesser(pos + len, size)
         /\ pos <= size => Lesser(pos + asked, size) = pos + asked /\ pos + asked <= size
BY DEF Asks, Lesser

LEMMA WithinOp ==
  ASSUME NEW s, s \in Buffer, NEW pos, NEW len, NEW end, pos \in Nat, len \in Nat, end = pos + len, end <= Len(s)
  PROVE  Len(Part(s, pos, end)) = len
<1>1. Within(s, pos, end) /\ end - pos = len
  BY DEF Within, Buffer
<1> QED
  BY <1>1, PartOp DEF Buffer

LEMMA ReadGives ==
  ASSUME NEW f \in FileTypes, tree \in DOMAIN Trees, Fits(f), NEW len \in Nat,
         NEW got, got = CellsFrom(f, f.pos, Asked(f, len)), got \in Buffer,
         NEW to, to = After(f, Asked(f, len), Len(got))
  PROVE  /\ got = Part(NodeAt(f.path).cells, f.pos, Lesser(f.pos + len, Len(NodeAt(f.path).cells)))
         /\ to \in Nat
         /\ (kind = "path" \/ f.path # <<>>) /\ f.pos <= Len(NodeAt(f.path).cells) => to = f.pos + Len(got)
<1>1. f.pos \in Nat /\ f.lo \in Nat /\ f.size \in Nat
  BY DEF FileTypes
<1>2. NodeAt(f.path).cells \in Buffer /\ f.size = Len(NodeAt(f.path).cells)
  BY <1>1, FitsOp
<1>3. PICK asked : asked = Asked(f, len)
  OBVIOUS
<1>4. Asks(f.pos, len, f.size, asked)
  BY <1>1, <1>3 DEF Asks, Asked
<1>5. /\ asked \in Nat /\ Lesser(f.pos + asked, f.size) = Lesser(f.pos + len, f.size)
      /\ f.pos <= f.size => Lesser(f.pos + asked, f.size) = f.pos + asked /\ f.pos + asked <= f.size
  BY <1>4, AsksOp
<1>6. got = Part(NodeAt(f.path).cells, f.pos, Lesser(f.pos + asked, f.size))
  BY <1>2, <1>3 DEF CellsFrom
<1>7. got = Part(NodeAt(f.path).cells, f.pos, Lesser(f.pos + len, Len(NodeAt(f.path).cells)))
  BY <1>2, <1>5, <1>6
<1>8. Len(got) \in Nat
  BY DEF Buffer
<1>9. to \in Nat
  BY <1>3, <1>5, <1>8, AfterOp
<1>10. ASSUME f.pos <= f.size PROVE Len(got) = asked
  <2>1. PICK end : end = f.pos + asked
    OBVIOUS
  <2>2. got = Part(NodeAt(f.path).cells, f.pos, end) /\ end <= Len(NodeAt(f.path).cells)
    BY <1>2, <1>5, <1>6, <1>10, <2>1
  <2> QED
    BY <1>1, <1>2, <1>5, <2>1, <2>2, WithinOp
<1>11. ASSUME kind = "path" \/ f.path # <<>>, f.pos <= f.size PROVE to = f.pos + Len(got)
  <2>1. CASE IsRoot(f)
    BY <1>3, <1>11, <2>1 DEF After, IsRoot
  <2>2. CASE ~IsRoot(f)
    BY <1>3, <1>10, <1>11, <2>2 DEF After
  <2> QED
    BY <2>1, <2>2
<1> QED
  BY <1>2, <1>7, <1>9, <1>11

LEMMA ReadEndsStep ==
  ASSUME Types, Undisturbed, NEW t \in Threads, ReadEnds(t)
  PROVE  Types' /\ (~Mixed' => Undisturbed')
<1> DEFINE c == call[t]
           f == mine[t]
<1>1. PICK got : got = c.reads[1]
  OBVIOUS
<1>2. PICK to : to = After(f, Asked(f, c.len), Len(got))
  OBVIOUS
<1>3. PICK g : g = [f EXCEPT !.pos = to]
  OBVIOUS
<1>4. PICK a : a = [Nothing EXCEPT !.op = "read", !.path = f.path, !.from = f.pos,
                                   !.to = to, !.len = c.len, !.cells = got]
  OBVIOUS
<1>5. /\ Ended(t, "read") /\ c.op = "read" /\ arch' = arch
      /\ mine' = [mine EXCEPT ![t].pos = to]
      /\ IF c.failed THEN Raise(t) ELSE Return(t, a)
  BY <1>1, <1>2, <1>4 DEF ReadEnds, Ended
<1>6. c.op \in FileOps
  BY <1>5 DEF FileOps
<1>7. /\ c.stage = "read" /\ Free(t) /\ gil' = None
      /\ tree' = tree /\ kind' = kind /\ at' = at /\ calls' = calls /\ faults' = faults
      /\ c \in CallTypes /\ f \in FileTypes /\ Fits(f) /\ got \in Buffer
      /\ ~c.failed => got = CellsFrom(f, FilePos(c, f), FileLen(c, f))
  BY <1>1, <1>5, <1>6, FileEnds
<1>8. FilePos(c, f) = f.pos /\ FileLen(c, f) = Asked(f, c.len) /\ c.len \in Nat /\ tree \in DOMAIN Trees
  BY <1>5, <1>7 DEF FilePos, FileLen, CallTypes, Types
<1>9. to \in Nat
  <2>1. Len(got) \in Nat /\ Asked(f, c.len) \in Nat
    BY <1>7, <1>8, AskedOp DEF Buffer
  <2> QED
    BY <1>2, <1>7, <2>1, AfterOp
<1>10. g \in FileTypes /\ Fits(g)
  BY <1>3, <1>7, <1>9, MovedOp
<1>11. mine' = [mine EXCEPT ![t] = g]
  BY <1>3, <1>5 DEF Types
<1>12. CASE c.failed
  BY <1>5, <1>7, <1>10, <1>11, <1>12, RaiseStep
<1>13. CASE ~c.failed
  <2>1. got = CellsFrom(f, f.pos, Asked(f, c.len))
    BY <1>7, <1>8, <1>13
  <2>2. /\ got = Part(NodeAt(f.path).cells, f.pos, Lesser(f.pos + c.len, Len(NodeAt(f.path).cells)))
        /\ (kind = "path" \/ f.path # <<>>) /\ f.pos <= Len(NodeAt(f.path).cells) => to = f.pos + Len(got)
    BY <1>2, <1>7, <1>8, <2>1, ReadGives
  <2>3. /\ a \in AnswerTypes /\ a.op = "read" /\ a.path = f.path /\ a.from = f.pos /\ a.to = to
        /\ a.len = c.len /\ a.cells = got
    BY <1>4, <1>7, <1>8, <1>9, IdleOp DEF Nothing, AnswerTypes, FileTypes, Ops
  <2>4. AnswerRight(a)
    BY <2>2, <2>3 DEF AnswerRight, Found, ReadRight
  <2>5. call' = [call EXCEPT ![t] = Idle] /\ answer' = [answer EXCEPT ![t] = a]
    BY <1>5, <1>13 DEF Return, Continue
  <2>6. Idle.obj \in 0 .. Len(arch) /\ Idle.stage \notin {"read", "sought"}
    BY IdleOp DEF Types
  <2> QED
    BY <1>5, <1>7, <1>10, <1>11, <2>3, <2>4, <2>5, <2>6, IdleOp, IdleExact, EndStep
<1> QED
  BY <1>12, <1>13

\* The first cells of a file have its header.
LEMMA StartGives ==
  ASSUME NEW f, tree \in DOMAIN Trees, Fits(f), f.lo \in Nat, NEW len, len \in Nat \ {0}
  PROVE  HeadOf(CellsFrom(f, 0, len)) = HeadOf(NodeAt(f.path).cells)
<1>1. PICK s : s = NodeAt(f.path).cells
  OBVIOUS
<1>2. s \in Buffer /\ Len(s) \in Nat
  BY <1>1, FitsOp DEF Buffer
<1>3. PICK end : end = Lesser(0 + len, Len(s))
  OBVIOUS
<1>4. CellsFrom(f, 0, len) = Part(s, 0, end)
  BY <1>1, <1>3 DEF CellsFrom
<1>5. end \in Nat /\ end <= Len(s) /\ (Len(s) # 0 => 0 < end)
  BY <1>2, <1>3 DEF Lesser
<1>6. Within(s, 0, end)
  BY <1>2, <1>5 DEF Within
<1>7. /\ 0 < end => HeadOf(Part(s, 0, end)) = s[1]
      /\ ~ (0 < end) => HeadOf(Part(s, 0, end)) = Zeros
  BY <1>2, <1>6, HeadOfPart
<1>8. CASE Len(s) = 0
  <2>1. s = <<>> /\ ~ (0 < end)
    BY <1>2, <1>5, <1>8 DEF Buffer
  <2> QED
    BY <1>1, <1>4, <1>7, <2>1 DEF HeadOf
<1>9. CASE Len(s) # 0
  <2>1. s # <<>>
    BY <1>2, <1>9
  <2> QED
    BY <1>1, <1>4, <1>5, <1>7, <1>9, <2>1 DEF HeadOf
<1> QED
  BY <1>8, <1>9

LEMMA MatchEndsStep ==
  ASSUME Types, Undisturbed, NEW t \in Threads, MatchEnds(t)
  PROVE  Types' /\ (~Mixed' => Undisturbed')
<1> DEFINE c == call[t]
           f == mine[t]
<1>1. PICK fmt : fmt = FormatOf(c.reads[1])
  OBVIOUS
<1>2. PICK to : to = After(f, MatchLen, Len(c.reads[1]))
  OBVIOUS
<1>3. PICK g : g = [f EXCEPT !.pos = to]
  OBVIOUS
<1>4. PICK a : a = [Nothing EXCEPT !.op = "match", !.path = f.path, !.from = f.pos, !.fmt = fmt]
  OBVIOUS
<1>5. /\ Ended(t, "match") /\ c.op = "match" /\ arch' = arch
      /\ mine' = [mine EXCEPT ![t].pos = to]
  BY <1>2 DEF MatchEnds, Ended
<1>6. c.op \in FileOps
  BY <1>5 DEF FileOps
<1>7. /\ c.stage = "read" /\ Free(t) /\ gil' = None
      /\ tree' = tree /\ kind' = kind /\ at' = at /\ calls' = calls /\ faults' = faults
      /\ c \in CallTypes /\ f \in FileTypes /\ Fits(f) /\ c.reads[1] \in Buffer
      /\ ~c.failed => c.reads[1] = CellsFrom(f, FilePos(c, f), FileLen(c, f))
  BY <1>5, <1>6, FileEnds
<1>8. FilePos(c, f) = f.pos /\ FileLen(c, f) = MatchLen /\ tree \in DOMAIN Trees
  BY <1>5 DEF FilePos, FileLen, Types
<1>9. to \in Nat
  <2>1. Len(c.reads[1]) \in Nat
    BY <1>7 DEF Buffer
  <2> QED
    BY <1>2, <1>7, <2>1, LensOp, AfterOp
<1>10. g \in FileTypes /\ Fits(g)
  BY <1>3, <1>7, <1>9, MovedOp
<1>11. mine' = [mine EXCEPT ![t] = g]
  BY <1>3, <1>5 DEF Types
<1>12. fmt \in Words
  BY <1>1 DEF FormatOf, Words
<1>13. CASE c.failed
  <2>1. Raise(t)
    BY <1>13 DEF MatchEnds
  <2> QED
    BY <1>5, <1>7, <1>10, <1>11, <2>1, RaiseStep
<1>14. CASE ~c.failed /\ Return(t, a)
  <2>1. f.pos = 0 => fmt = NodeAt(f.path).fmt
    <3>1. ASSUME f.pos = 0 PROVE HeadOf(c.reads[1]) = HeadOf(NodeAt(f.path).cells)
      BY <1>7, <1>8, <1>14, <3>1, LensOp, StartGives DEF FileTypes
    <3>2. NodeAt(f.path).fmt = FormatOf(NodeAt(f.path).cells)
      BY <1>7, <1>8, NodeOp DEF Fits
    <3> QED
      BY <1>1, <3>1, <3>2 DEF FormatOf
  <2>2. a \in AnswerTypes /\ a.op = "match" /\ a.path = f.path /\ a.from = f.pos /\ a.fmt = fmt
    BY <1>4, <1>7, <1>12, IdleOp DEF Nothing, AnswerTypes, FileTypes, Ops
  <2>3. AnswerRight(a)
    BY <2>1, <2>2 DEF AnswerRight, Found, ReadRight
  <2>4. call' = [call EXCEPT ![t] = Idle] /\ answer' = [answer EXCEPT ![t] = a]
    BY <1>14 DEF Return, Continue
  <2>5. Idle.obj \in 0 .. Len(arch) /\ Idle.stage \notin {"read", "sought"}
    BY IdleOp DEF Types
  <2> QED
    BY <1>5, <1>7, <1>10, <1>11, <2>2, <2>3, <2>4, <2>5, IdleOp, IdleExact, EndStep
<1>15. CASE fmt \in Formats /\ Continue(t, [Idle EXCEPT !.op = "new", !.stage = "construct", !.name = fmt])
            /\ UNCHANGED answer
  <2>1. PICK d : d = [Idle EXCEPT !.op = "new", !.stage = "construct", !.name = fmt]
    OBVIOUS
  <2>2. /\ d \in CallTypes /\ d.op = "new" /\ d.stage = "construct" /\ d.name = fmt /\ d.obj = 0 /\ d.part = 0
        /\ d.reads = <<>> /\ ~d.failed
    BY <1>12, <2>1, IdleOp DEF Idle, CallTypes, Ops, Stages
  <2>3. CallExact(d, g, arch[d.obj], at)
    BY <1>15, <2>2, FileBegins DEF FileOps
  <2>4. call' = [call EXCEPT ![t] = d]
    BY <1>15, <2>1 DEF Continue
  <2>5. d.obj \in 0 .. Len(arch)
    BY <2>2 DEF Types
  <2>6. answer' = [answer EXCEPT ![t] = answer[t]] /\ answer[t] \in AnswerTypes /\ AnswerRight(answer[t])
    BY <1>15 DEF Types, Undisturbed
  <2> QED
    BY <1>5, <1>7, <1>10, <1>11, <2>2, <2>3, <2>4, <2>5, <2>6, EndStep
<1> QED
  BY <1>1, <1>4, <1>13, <1>14, <1>15 DEF MatchEnds

LEMMA ConstructStep ==
  ASSUME Types, Undisturbed, NEW t \in Threads, Construct(t)
  PROVE  Types' /\ (~Mixed' => Undisturbed')
<1>1. /\ call[t].stage = "construct" /\ Free(t)
      /\ Continue(t, [call[t] EXCEPT !.stage = "read"])
      /\ gil' = Held(t)
      /\ tree' = tree /\ kind' = kind /\ at' = at /\ arch' = arch /\ mine' = mine
      /\ answer' = answer /\ calls' = calls /\ faults' = faults
  BY DEF Construct
<1>2. /\ call[t] \in CallTypes /\ mine[t] \in FileTypes /\ Fits(mine[t])
      /\ CallExact(call[t], mine[t], arch[call[t].obj], at)
      /\ call[t].op \in FileOps \/ call[t].op \in ArchiveOps \/ call[t] = Idle
  BY BusyOp
<1>3. call[t].op \in FileOps
  <2>1. call[t].op \notin ArchiveOps
    BY <1>1, <1>2 DEF CallExact, ArchiveCall
  <2> QED
    BY <1>1, <1>2, <2>1, IdleOp
<1>4. /\ call[t].op = "new" /\ call[t].name \in Formats /\ call[t].reads = <<>> /\ ~call[t].failed
      /\ call[t].obj = 0 /\ call[t].part = 0
  BY <1>1, <1>2, <1>3 DEF CallExact, FileCall
<1>5. PICK d : d = [call[t] EXCEPT !.stage = "read"]
  OBVIOUS
<1>6. /\ d \in CallTypes /\ d.op = "new" /\ d.name \in Formats /\ d.stage = "read" /\ d.obj = 0 /\ d.part = 0
      /\ d.reads = <<>> /\ ~d.failed
  BY <1>2, <1>4, <1>5 DEF CallTypes, Stages
<1>7. CallExact(d, mine[t], arch[d.obj], at)
  BY <1>6, FileBegins DEF FileOps
<1>8. call' = [call EXCEPT ![t] = d] /\ d.obj \in 0 .. Len(arch)
  BY <1>1, <1>5, <1>6 DEF Continue, Types
<1>9. answer' = [answer EXCEPT ![t] = answer[t]] /\ answer[t] \in AnswerTypes /\ AnswerRight(answer[t])
      /\ mine' = [mine EXCEPT ![t] = mine[t]]
  BY <1>1 DEF Types, Undisturbed
<1> QED
  BY <1>1, <1>2, <1>6, <1>7, <1>8, <1>9, EndStep
-----------------------------------------------------------------------------
(* Archives are made.                                                      *)

LEMMA EmptyDict == <<>> \in DictTypes /\ DOMAIN <<>> = {}
<1>1. <<>> \in [{} -> [off : Nat, size : Nat, obj : Nat]]
  OBVIOUS
<1> QED
  BY <1>1 DEF DictTypes

LEMMA ArchiveOp ==
  ASSUME NEW fmt \in Formats, NEW path \in Seq(Words), NEW lo \in Nat, NEW size \in Nat,
         NEW header \in Cells \cup {Zeros}, NEW a, a = Archive(fmt, path, lo, size, header)
  PROVE  /\ a \in ArchTypes /\ a.fmt = fmt /\ a.path = path /\ a.lo = lo /\ a.size = size /\ a.header = header
         /\ a.data = 0 /\ a.parts = <<>> /\ ~a.parsed
<1>1. <<>> \in Seq(EntryTypes) /\ <<>> \in Seq(PartTypes)
  OBVIOUS
<1> QED
  BY <1>1, EmptyDict DEF Archive, ArchTypes

\* An archive made of a file of the image, or of a part of it.
LEMMA FreshExact ==
  ASSUME NEW a, Fits(a), a.header = HeadOf(CellsOf(a)), a.data = 0, a.parts = <<>>, ~a.parsed
  PROVE  ArchExact(a)
<1>1. PartsExact(a)
  BY DEF PartsExact
<1> QED
  BY <1>1 DEF ArchExact

LEMMA NewEndsStep ==
  ASSUME Types, Undisturbed, NEW t \in Threads, NewEnds(t)
  PROVE  Types' /\ (~Mixed' => Undisturbed')
<1> DEFINE c == call[t]
           f == mine[t]
<1>1. Ended(t, "new") /\ c.op = "new" /\ mine' = mine
  BY DEF NewEnds, Ended
<1>2. c.op \in FileOps
  BY <1>1 DEF FileOps
<1>3. /\ c.stage = "read" /\ Free(t) /\ gil' = None
      /\ tree' = tree /\ kind' = kind /\ at' = at /\ calls' = calls /\ faults' = faults
      /\ c \in CallTypes /\ f \in FileTypes /\ Fits(f) /\ c.reads[1] \in Buffer
      /\ c.obj = 0 /\ c.name \in Formats
      /\ ~c.failed => c.reads[1] = CellsFrom(f, FilePos(c, f), FileLen(c, f))
  BY <1>1, <1>2, FileEnds
<1>4. /\ call \in [Threads -> CallTypes] /\ answer \in [Threads -> AnswerTypes]
      /\ mine \in [Threads -> FileTypes] /\ arch \in Seq(ArchTypes) /\ tree \in DOMAIN Trees
      /\ faults \in 0 .. FaultBound /\ at \in 0 .. Len(Image)
  BY DEF Types
<1>5. CASE c.failed
  <2>1. Raise(t) /\ arch' = arch
    BY <1>5 DEF NewEnds
  <2>2. mine' = [mine EXCEPT ![t] = f]
    BY <1>1, <1>4
  <2> QED
    BY <1>3, <2>1, <2>2, RaiseStep
<1>6. CASE ~c.failed
  <2>1. PICK b : b = Archive(c.name, f.path, f.lo, f.size, HeadOf(c.reads[1]))
    OBVIOUS
  <2>2. PICK a : a = [Nothing EXCEPT !.op = "new"]
    OBVIOUS
  <2>3. /\ arch' = Append(arch, b) /\ call' = [call EXCEPT ![t] = Idle] /\ answer' = [answer EXCEPT ![t] = a]
    BY <1>6, <2>1, <2>2 DEF NewEnds, Return, Continue
  <2>4. FilePos(c, f) = 0 /\ FileLen(c, f) = HeaderLen[c.name]
    BY <1>1 DEF FilePos, FileLen
  <2>5. HeadOf(c.reads[1]) = HeadOf(NodeAt(f.path).cells)
    BY <1>3, <1>4, <1>6, <2>4, LensOp, StartGives DEF FileTypes
  <2>6. /\ b \in ArchTypes /\ b.path = f.path /\ b.lo = f.lo /\ b.size = f.size
        /\ b.header = HeadOf(c.reads[1]) /\ b.data = 0 /\ b.parts = <<>> /\ ~b.parsed
    <3>1. HeadOf(c.reads[1]) \in Cells \cup {Zeros}
      BY <1>3, HeadOp
    <3> QED
      BY <1>3, <2>1, <3>1, ArchiveOp DEF FileTypes
  <2>7. ArchExact(b)
    <3>1. Fits(b) /\ CellsOf(b) = NodeAt(f.path).cells
      BY <1>3, <2>6 DEF Fits, Covers, CellsOf
    <3> QED
      BY <2>5, <2>6, <3>1, FreshExact
  <2>8. /\ arch' \in Seq(ArchTypes) /\ Len(arch') = Len(arch) + 1 /\ Len(arch) \in Nat
        /\ \A o \in DOMAIN arch : arch'[o] = arch[o]
        /\ \A o \in DOMAIN arch' : o \in DOMAIN arch \/ arch'[o] = b
    BY <1>4, <2>3, <2>6, AppendOp
  <2>9. /\ call' \in [Threads -> CallTypes] /\ call'[t] = Idle /\ \A u \in Threads \ {t} : call'[u] = call[u]
    BY <1>4, <2>3, IdleOp
  <2>10. a \in AnswerTypes /\ AnswerRight(a)
    <3>1. a \in AnswerTypes /\ a.op = "new"
      BY <2>2, IdleOp DEF Nothing, AnswerTypes, Ops
    <3> QED
      BY <3>1 DEF AnswerRight, Found, ReadRight
  <2>11. /\ answer' \in [Threads -> AnswerTypes] /\ answer'[t] = a
         /\ \A u \in Threads \ {t} : answer'[u] = answer[u]
    BY <1>4, <2>3, <2>10
  <2>12. Alone(t)
    BY <1>1, <1>3, <2>9, <2>11 DEF Alone
  <2>13. Len(arch) <= Len(arch')
    BY <2>8
  <2>14. Grown
    BY <2>8, <2>13, KeptSame DEF Grown
  <2>15. Types'
    <3>1. call'[t].stage \notin {"read", "sought"} /\ call'[t].obj \in 0 .. Len(arch')
      BY <2>8, <2>9, IdleOp
    <3> QED
      BY <1>1, <1>3, <1>4, <2>8, <2>9, <2>11, <2>12, <2>13, <3>1, TypesStep
  <2>16. \A o \in DOMAIN arch' : ArchExact(arch'[o])
    BY <2>7, <2>8 DEF Undisturbed
  <2>17. ASSUME NEW o \in DOMAIN arch' PROVE (arch[o].parsed /\ Settled(o) => DictExact(arch[o]))'
    <3>1. CASE o \in DOMAIN arch
      <4>1. Settled(o)' => Settled(o)
        BY <1>3, <2>9 DEF Settled
      <4>2. arch'[o] = arch[o] /\ (arch[o].parsed /\ Settled(o) => DictExact(arch[o]))
        BY <2>8, <3>1 DEF Undisturbed
      <4>3. DictExact(arch[o]) => DictExact(arch[o])'
        BY <1>3, <2>14, <3>1, <4>2, DictKept
      <4> QED
        BY <4>1, <4>2, <4>3
    <3>2. CASE arch'[o] = b
      BY <2>6, <3>2
    <3> QED
      BY <2>8, <3>1, <3>2
  <2>18. ASSUME NEW u \in Threads \ {t}, call[u].op \in ArchiveOps
         PROVE  Kept(arch[call[u].obj], arch'[call[u].obj])
    BY <2>8, <2>18, BusyOp, KeptSame
  <2> QED
    BY <1>1, <1>3, <2>9, <2>10, <2>11, <2>12, <2>14, <2>15, <2>16, <2>17, <2>18, IdleExact, StepOp
<1> QED
  BY <1>5, <1>6

-----------------------------------------------------------------------------
(* Archives are parsed.                                                    *)

\* A thread in a method of an archive.
LEMMA ArchiveBusy ==
  ASSUME Types, Undisturbed, NEW t \in Threads,
         call[t].stage \in {"valid", "collect", "fill", "use"} \/ Parsing(t)
  PROVE  /\ call[t].op \in ArchiveOps /\ call[t] \in CallTypes /\ mine[t] \in FileTypes /\ Fits(mine[t])
         /\ call[t].obj # 0 /\ call[t].obj \in DOMAIN arch /\ arch[call[t].obj] \in ArchTypes
         /\ ArchExact(arch[call[t].obj]) /\ ArchiveCall(call[t], arch[call[t].obj])
<1>1. /\ call[t] \in CallTypes /\ mine[t] \in FileTypes /\ Fits(mine[t])
      /\ CallExact(call[t], mine[t], arch[call[t].obj], at)
      /\ call[t].op \in FileOps \/ call[t].op \in ArchiveOps \/ call[t] = Idle
      /\ call[t].op \in ArchiveOps =>
           call[t].obj \in DOMAIN arch /\ arch[call[t].obj] \in ArchTypes /\ ArchExact(arch[call[t].obj])
  BY BusyOp
<1>2. call[t].op \in ArchiveOps
  <2>1. CASE Parsing(t)
    BY <2>1 DEF Parsing, ArchiveOps
  <2>2. CASE call[t].stage \in {"valid", "collect", "fill", "use"}
    <3>1. call[t] # Idle
      BY <2>2, IdleOp
    <3>2. call[t].op \notin FileOps
      BY <1>1, <2>2 DEF CallExact, FileCall
    <3> QED
      BY <1>1, <3>1, <3>2
  <2> QED
    BY <2>1, <2>2
<1>3. ArchiveCall(call[t], arch[call[t].obj])
  BY <1>1 DEF CallExact
<1>4. call[t].obj # 0
  BY <1>2, <1>3 DEF ArchiveCall
<1> QED
  BY <1>1, <1>2, <1>3, <1>4

LEMMA ValidStep ==
  ASSUME Types, Undisturbed, NEW t \in Threads, Valid(t)
  PROVE  Types' /\ (~Mixed' => Undisturbed')
<1> DEFINE c == call[t]
           a == arch[c.obj]
<1>1. /\ c.stage = "valid" /\ Free(t)
      /\ tree' = tree /\ kind' = kind /\ at' = at /\ arch' = arch /\ mine' = mine /\ calls' = calls /\ faults' = faults
  BY DEF Valid
<1>2. /\ c.op \in ArchiveOps /\ c \in CallTypes /\ mine[t] \in FileTypes /\ Fits(mine[t])
      /\ c.obj # 0 /\ c.obj \in DOMAIN arch /\ a \in ArchTypes /\ ArchExact(a) /\ ArchiveCall(c, a)
  BY <1>1, ArchiveBusy
<1>3. mine' = [mine EXCEPT ![t] = mine[t]] /\ c.obj \in 0 .. Len(arch)
  BY <1>1 DEF Types
<1>4. CASE ~IsValid(a)
  <2>1. Raise(t) /\ gil' = gil
    BY <1>4 DEF Valid, IsValid
  <2> QED
    BY <1>1, <1>2, <1>3, <2>1, RaiseStep
<1>5. CASE IsValid(a)
  <2>1. PICK d : d = [c EXCEPT !.stage = "read"]
    OBVIOUS
  <2>2. call' = [call EXCEPT ![t] = d] /\ gil' = Held(t) /\ answer' = answer
    BY <1>5, <2>1 DEF Valid, IsValid, Continue
  <2>3. /\ d \in CallTypes /\ d.op = c.op /\ d.obj = c.obj /\ d.stage = "read"
        /\ d.reads = <<>> /\ d.part = 0 /\ ~d.failed
    BY <1>1, <1>2, <2>1 DEF CallTypes, ArchiveCall, Stages
  <2>4. CallExact(d, mine[t], a, at)
    <3>1. Count(d) = 0
      BY <2>3 DEF Count
    <3>2. CardReads(a, d) /\ TableReads(a, d)
      BY <2>3, <3>1 DEF CardReads, TableReads
    <3>3. ArchiveCall(d, a)
      BY <1>2, <1>5, <2>3, <3>2 DEF ArchiveCall
    <3> QED
      BY <1>2, <2>3, <3>3 DEF CallExact, FileCall, Sought, FileOps, ArchiveOps
  <2>5. answer' = [answer EXCEPT ![t] = answer[t]] /\ answer[t] \in AnswerTypes /\ AnswerRight(answer[t])
    BY <2>2 DEF Types, Undisturbed
  <2> QED
    BY <1>1, <1>2, <1>3, <2>2, <2>3, <2>4, <2>5, EndStep
<1> QED
  BY <1>4, <1>5

\* A step of a call that changes its archive, and ends or goes on without a read.
LEMMA ArchStep ==
  ASSUME Types, Undisturbed, NEW t \in Threads, Free(t), NEW o \in DOMAIN arch, call[t].stage # "fill",
         NEW c \in CallTypes, NEW a \in AnswerTypes, NEW b \in ArchTypes,
         call' = [call EXCEPT ![t] = c], answer' = [answer EXCEPT ![t] = a], arch' = [arch EXCEPT ![o] = b],
         tree' = tree, kind' = kind, at' = at, calls' = calls, faults' = faults, mine' = mine,
         gil' \in {gil, None}, c.stage \notin {"read", "sought"}, c = Idle \/ c.obj = o,
         SameBase(arch[o], b), ArchExact(b), AnswerRight(a), CallExact(c, mine[t], b, at),
         (b.parsed /\ Settled(o) => DictExact(arch[o]))',
         \A u \in Threads \ {t} : call[u].op \in ArchiveOps /\ call[u].obj = o => Kept(arch[o], b)
  PROVE  Types' /\ (~Mixed' => Undisturbed')
<1>1. /\ call \in [Threads -> CallTypes] /\ answer \in [Threads -> AnswerTypes]
      /\ mine \in [Threads -> FileTypes] /\ arch \in Seq(ArchTypes)
      /\ faults \in 0 .. FaultBound /\ at \in 0 .. Len(Image)
  BY DEF Types
<1>2. call' \in [Threads -> CallTypes] /\ call'[t] = c /\ \A u \in Threads \ {t} : call'[u] = call[u]
  BY <1>1
<1>3. answer' \in [Threads -> AnswerTypes] /\ answer'[t] = a /\ \A u \in Threads \ {t} : answer'[u] = answer[u]
  BY <1>1
<1>4. /\ arch' \in Seq(ArchTypes) /\ Len(arch') = Len(arch) /\ DOMAIN arch' = DOMAIN arch
      /\ arch'[o] = b /\ \A x \in DOMAIN arch \ {o} : arch'[x] = arch[x]
  BY <1>1
<1>5. Alone(t)
  BY <1>2, <1>3 DEF Alone
<1>6. Len(arch) <= Len(arch') /\ c.obj \in 0 .. Len(arch')
  BY <1>1, <1>4, IdleOp
<1>7. Types'
  BY <1>1, <1>2, <1>3, <1>4, <1>5, <1>6, TypesStep
<1>8. Grown
  BY <1>4, <1>6, KeptSame DEF Grown
<1>9. \A x \in DOMAIN arch' : ArchExact(arch'[x])
  BY <1>4 DEF Undisturbed
<1>10. ASSUME NEW x \in DOMAIN arch' PROVE (arch[x].parsed /\ Settled(x) => DictExact(arch[x]))'
  <2>1. CASE x = o
    BY <1>4, <2>1
  <2>2. CASE x # o
    <3>1. Settled(x)' => Settled(x)
      BY <1>2 DEF Settled
    <3>2. arch'[x] = arch[x] /\ (arch[x].parsed /\ Settled(x) => DictExact(arch[x]))
      BY <1>4, <2>2 DEF Undisturbed
    <3>3. DictExact(arch[x]) => DictExact(arch[x])'
      BY <1>4, <1>8, <3>2, DictKept
    <3> QED
      BY <3>1, <3>2, <3>3
  <2> QED
    BY <2>1, <2>2
<1>11. ASSUME NEW u \in Threads \ {t}, call[u].op \in ArchiveOps
       PROVE  Kept(arch[call[u].obj], arch'[call[u].obj])
  <2>1. call[u].obj \in DOMAIN arch
    BY <1>11, BusyOp
  <2> QED
    BY <1>4, <1>11, <2>1, KeptSame
<1>12. Fits(mine'[t]) /\ AnswerRight(answer'[t]) /\ CallExact(call'[t], mine'[t], arch'[call'[t].obj], at')
  <2>1. CallExact(c, mine[t], arch'[c.obj], at)
    BY <1>4, IdleExact
  <2> QED
    BY <1>2, <1>3, <2>1 DEF Undisturbed
<1> QED
  BY <1>2, <1>5, <1>7, <1>8, <1>9, <1>10, <1>11, <1>12, StepOp
\* parse of a Pfs or Hfs has read both of its tables.
LEMMA TableParsed ==
  ASSUME NEW a \in ArchTypes, Sound(a), a.fmt # "HEAD", NEW c \in CallTypes, TableReads(a, c),
         ArchiveRead(a, c) = None, NEW b, b = Parsed(a, c.reads)
  PROVE  /\ b \in ArchTypes /\ SameBase(a, b) /\ b.parts = a.parts /\ b.dict = a.dict /\ b.parsed = a.parsed
         /\ b.data = DataPos(a)
         /\ ~c.failed => b.entries = EntriesOf(a)
<1>1. a.fmt \in Formats /\ a.header \in Cells \cup {Zeros} /\ a.header.num \in Nat /\ a.header.strings \in Nat
  BY CellOp DEF ArchTypes
<1>2. Count(c) = 2
  <2>1. TableAt(0, a.fmt, a.header.num) \in Places /\ NamesAt(0, a.fmt, a.header) \in Places
    BY <1>1, PlaceType
  <2>2. Count(c) \in Nat /\ Count(c) <= 2
    BY CountOp DEF CallTypes, TableReads
  <2> QED
    BY <2>1, <2>2, NoPlace, TableRead
<1>3. c.reads[1] \in Buffer /\ c.reads[2] \in Buffer
  BY <1>2, CountOp DEF CallTypes
<1>4. /\ Len(c.reads[1]) = TableLen(a)
      /\ ~c.failed => c.reads[1] = TableOf(a) /\ c.reads[2] = NamesOf(a)
  BY <1>2 DEF TableReads
<1>5. /\ RootHead(a) = a.header /\ TableFmt(a) = a.fmt /\ Base(a) = 0 /\ TablePos(a) = HeaderLen[a.fmt]
      /\ RootHead(a).num = Len(FilesOf(a))
  BY HeaderOp, PlacesOp
<1>6. PICK entries : entries = Entries(a.fmt, a.header.num, c.reads[1], c.reads[2])
  OBVIOUS
<1>7. entries \in Seq(EntryTypes)
  <2>1. Len(c.reads[1]) = a.header.num * MetaLen[a.fmt]
    BY <1>4, <1>5 DEF TableLen
  <2> QED
    BY <1>1, <1>3, <1>6, <2>1, EntriesType
<1>8. ~c.failed => entries = EntriesOf(a)
  BY <1>4, <1>5, <1>6, TablesOp
<1>9. PICK data : data = NamesAt(0, a.fmt, a.header).pos + a.header.strings
  OBVIOUS
<1>10. data = DataPos(a) /\ data \in Nat
  <2>1. /\ HeaderLen[a.fmt] \in Nat /\ TableLen(a) \in Nat /\ DataPos(a) \in Nat
        /\ DataPos(a) = NamesPos(a) + a.header.strings /\ NamesPos(a) = TablePos(a) + TableLen(a)
    BY <1>5, PlacesOp
  <2>2. NamesAt(0, a.fmt, a.header).pos = (0 + HeaderLen[a.fmt]) + TableLen(a)
    BY <1>5 DEF NamesAt, TableLen
  <2>3. 0 + HeaderLen[a.fmt] = HeaderLen[a.fmt]
    BY <2>1
  <2> QED
    BY <1>5, <1>9, <2>1, <2>2, <2>3
<1>11. b = [a EXCEPT !.data = data, !.entries = entries]
  BY <1>6, <1>9 DEF Parsed
<1>12. /\ b \in ArchTypes /\ b.data = data /\ b.entries = entries /\ b.parts = a.parts /\ b.dict = a.dict
       /\ b.parsed = a.parsed /\ b.fmt = a.fmt /\ b.path = a.path /\ b.lo = a.lo /\ b.size = a.size
       /\ b.header = a.header
  BY <1>7, <1>10, <1>11 DEF ArchTypes
<1> QED
  BY <1>8, <1>10, <1>12 DEF SameBase

\* The loop of Xci::parse has made the partitions it found.
LEMMA CardParsed ==
  ASSUME NEW a, Sound(a), a.fmt = "HEAD", NEW c \in CallTypes, CardReads(a, c),
         ArchiveRead(a, c) = None, ~c.failed
  PROVE  PartsMade(a)
<1>1. a.header \in Cells \cup {Zeros} /\ a.header.off \in Nat
  BY Layout, CellOp
<1>2. Count(c) \in Nat /\ \A i \in 1 .. Count(c) : c.reads[i] \in Buffer
  BY CountOp DEF CallTypes
<1>3. Count(c) >= 3 /\ Ahead(a, c) = {}
  <2>1. Count(c) # 0
    <3>1. [pos |-> a.header.off, len |-> HeaderLen["HFS0"]] \in Places
      BY <1>1, LensOp DEF Places
    <3> QED
      BY <3>1, CardRead, NoPlace
  <2>2. Count(c) # 1 /\ Count(c) # 2
    <3>1. ASSUME Count(c) = 1 \/ Count(c) = 2 PROVE c.reads[1] \in Buffer
      BY <1>2, <3>1
    <3>2. ASSUME Count(c) = 1 \/ Count(c) = 2 PROVE HeadOf(c.reads[1]) \in Cells \cup {Zeros}
      BY <3>1, <3>2, HeadOp
    <3>3. ASSUME Count(c) = 1 \/ Count(c) = 2
          PROVE  /\ TableAt(a.header.off, "HFS0", HeadOf(c.reads[1]).num) \in Places
                 /\ NamesAt(a.header.off, "HFS0", HeadOf(c.reads[1])) \in Places
      BY <1>1, <3>2, <3>3, LensOp, PlaceType
    <3> QED
      BY <3>3, CardRead, NoPlace
  <2>3. Count(c) \notin {0, 1, 2}
    BY <2>1, <2>2
  <2>4. Count(c) >= 3
    BY <1>2, <2>1, <2>2
  <2>5. ASSUME Ahead(a, c) # {} PROVE FALSE
    <3>1. ArchiveRead(a, c) = HeaderAt(XciEntries(a, c.reads)[Min(Ahead(a, c))])
      BY <2>3, <2>5, CardRead
    <3>2. c.reads \in Seq(Buffer) /\ Len(c.reads) >= 3
          /\ Len(c.reads[2]) = TableAt(a.header.off, "HFS0", HeadOf(c.reads[1]).num).len
      BY <1>2, <2>4 DEF CallTypes, CardReads, Count
    <3>3. XciEntries(a, c.reads) \in Seq(EntryTypes)
      BY <1>1, <3>2, XciType
    <3>4. Min(Ahead(a, c)) \in DOMAIN XciEntries(a, c.reads)
      BY <2>5, <3>3, AheadOp
    <3>5. XciEntries(a, c.reads)[Min(Ahead(a, c))] \in EntryTypes
      BY <3>3, <3>4
    <3> QED
      BY <3>1, <3>5, HeaderAtType, NoPlace DEF EntryTypes
  <2> QED
    BY <2>4, <2>5
<1>4. /\ XciEntries(a, c.reads) = CardEntries(a)
      /\ \A i \in DOMAIN FilesOf(a) :
           i <= c.part /\ FilesOf(a)[i] \in Partitions => PartMade(a, FilesOf(a)[i])
  BY <1>3 DEF CardReads
<1>5. ASSUME NEW n \in Names(NodeAt(a.path)) PROVE PartMade(a, n)
  <2>1. tree \in DOMAIN Trees /\ a.path \in DOMAIN Trees[tree] /\ NodeAt(a.path).fmt = "HEAD"
        /\ FilesOf(a) \in Seq(Words)
    BY Layout DEF Sound, Fits
  <2>2. PICK i \in DOMAIN FilesOf(a) : FilesOf(a)[i] = n /\ n \in Partitions
    BY <2>1, NameOp DEF FilesOf
  <2>3. i \in DOMAIN XciEntries(a, c.reads) /\ XciEntries(a, c.reads)[i].name = n /\ i \in Nat
    <3>1. i \in 1 .. Len(FilesOf(a))
      BY <2>1
    <3> QED
      BY <1>4, <2>2, <3>1 DEF CardEntries
  <2>4. ~ (i > c.part)
    BY <1>3, <2>2, <2>3 DEF Ahead
  <2>5. i <= c.part
    BY <2>3, <2>4 DEF CallTypes
  <2> QED
    BY <1>4, <2>2, <2>5
<1> QED
  BY <1>5 DEF PartsMade

LEMMA CollectOp ==
  ASSUME NEW c \in CallTypes, NEW d, d = [c EXCEPT !.stage = "collect", !.reads = <<>>, !.part = 0],
         c.op \in ArchiveOps, ~c.failed, NEW a, ArchiveCall(c, a), IsValid(a),
         IF a.fmt = "HEAD" THEN PartsMade(a) ELSE a.entries = EntriesOf(a) /\ a.data = DataPos(a), NEW f, NEW where
  PROVE  d \in CallTypes /\ d.obj = c.obj /\ d.stage = "collect" /\ CallExact(d, f, a, where)
<1>1. /\ d \in CallTypes /\ d.op = c.op /\ d.obj = c.obj /\ d.stage = "collect" /\ d.reads = <<>> /\ d.part = 0
      /\ d.failed = c.failed
  <2>1. <<>> \in Seq(Buffer)
    OBVIOUS
  <2> QED
    BY <2>1 DEF CallTypes, Stages
<1>2. ArchiveCall(d, a)
  BY <1>1 DEF ArchiveCall
<1> QED
  BY <1>1, <1>2 DEF CallExact, FileCall, Sought, FileOps, ArchiveOps

LEMMA ParseEndsStep ==
  ASSUME Types, Undisturbed, ~Mixed, NEW t \in Threads, ParseEnds(t)
  PROVE  Types' /\ (~Mixed' => Undisturbed')
<1> DEFINE c == call[t]
           a == arch[c.obj]
<1>1. /\ Parsing(t) /\ c.stage = "read" /\ Free(t) /\ NextRead(t) = None /\ gil' = None
      /\ tree' = tree /\ kind' = kind /\ at' = at /\ mine' = mine /\ calls' = calls /\ faults' = faults
      /\ arch' = [arch EXCEPT ![c.obj] = Parsed(@, c.reads)]
  BY DEF ParseEnds, Ended
<1>2. /\ c.op \in ArchiveOps /\ c \in CallTypes /\ mine[t] \in FileTypes /\ Fits(mine[t])
      /\ c.obj # 0 /\ c.obj \in DOMAIN arch /\ a \in ArchTypes /\ ArchExact(a) /\ ArchiveCall(c, a)
  BY <1>1, ArchiveBusy
<1>3. /\ arch \in Seq(ArchTypes) /\ mine \in [Threads -> FileTypes] /\ answer \in [Threads -> AnswerTypes]
      /\ c.obj \in 0 .. Len(arch)
  BY DEF Types
<1>4. Sound(a) /\ IsValid(a) /\ ArchiveRead(a, c) = None
  <2>1. Sound(a) /\ NextRead(t) = TheRead(c, mine[t], a)
    BY <1>1, <1>2, ReadFacts
  <2>2. c.op \notin FileOps
    BY <1>2 DEF FileOps, ArchiveOps
  <2> QED
    BY <1>1, <2>1, <2>2 DEF TheRead, Sound
<1>5. PICK d : d = [c EXCEPT !.stage = "collect", !.reads = <<>>, !.part = 0]
  OBVIOUS
<1>6. IF c.failed THEN Raise(t) ELSE call' = [call EXCEPT ![t] = d] /\ answer' = answer
  BY <1>5 DEF ParseEnds, Continue
<1>7. answer[t] \in AnswerTypes /\ AnswerRight(answer[t]) /\ mine' = [mine EXCEPT ![t] = mine[t]]
  BY <1>1, <1>3 DEF Undisturbed
<1>8. CASE a.fmt = "HEAD"
  <2>1. arch' = arch
    <3>1. Parsed(a, c.reads) = a
      BY <1>8 DEF Parsed
    <3> QED
      BY <1>1, <1>2, <1>3, <3>1
  <2>2. CASE c.failed
    BY <1>1, <1>2, <1>6, <1>7, <2>1, <2>2, RaiseStep
  <2>3. CASE ~c.failed
    <3>1. PartsMade(a)
      <4>1. CardReads(a, c)
        BY <1>1, <1>2, <1>8 DEF ArchiveCall
      <4> QED
        BY <1>2, <1>4, <1>8, <2>3, <4>1, CardParsed
    <3>2. d \in CallTypes /\ d.obj = c.obj /\ d.stage = "collect" /\ CallExact(d, mine[t], a, at)
      BY <1>2, <1>4, <1>5, <1>8, <2>3, <3>1, CollectOp
    <3>3. answer' = [answer EXCEPT ![t] = answer[t]] /\ call' = [call EXCEPT ![t] = d]
      BY <1>3, <1>6, <2>3
    <3> QED
      BY <1>1, <1>2, <1>3, <1>7, <2>1, <3>2, <3>3, EndStep
  <2> QED
    BY <2>2, <2>3
<1>9. CASE a.fmt # "HEAD"
  <2>1. PICK b : b = Parsed(a, c.reads)
    OBVIOUS
  <2>2. arch' = [arch EXCEPT ![c.obj] = b]
    BY <1>1, <2>1
  <2>3. TableReads(a, c)
    BY <1>1, <1>2, <1>9 DEF ArchiveCall
  <2>4. /\ b \in ArchTypes /\ SameBase(a, b) /\ b.parts = a.parts /\ b.dict = a.dict /\ b.parsed = a.parsed
        /\ b.data = DataPos(a)
        /\ ~c.failed => b.entries = EntriesOf(a)
    BY <1>2, <1>4, <1>9, <2>1, <2>3, TableParsed
  <2>5. /\ b.fmt = a.fmt /\ b.header = a.header /\ (Fits(b) <=> Fits(a)) /\ IsValid(b)
        /\ CellsOf(b) = CellsOf(a) /\ FilesOf(b) = FilesOf(a) /\ DataPos(b) = DataPos(a)
        /\ EntriesOf(b) = EntriesOf(a) /\ CardEntries(b) = CardEntries(a)
    BY <1>4, <2>4, SameBaseOp DEF SameBase
  <2>6. ArchExact(b)
    <3>1. PartsExact(b)
      BY <1>2, <1>4, <2>4, <2>5 DEF ArchExact, PartsExact
    <3> QED
      BY <1>2, <1>9, <2>4, <2>5, <3>1 DEF ArchExact
  <2>7. ~c.failed => Kept(a, b)
    <3>1. \A n : PartMade(a, n) => PartMade(b, n)
      BY <2>4, SameBaseOp DEF PartMade
    <3> QED
      BY <2>4, <3>1 DEF Kept
  <2>8. ASSUME NEW u \in Threads \ {t}, call[u].op \in ArchiveOps /\ call[u].obj = c.obj PROVE Kept(a, b)
    BY <1>2, <2>7, <2>8 DEF Mixed
  <2>9. arch' \in Seq(ArchTypes) /\ Len(arch') = Len(arch) /\ arch'[c.obj] = b
        /\ \A o \in DOMAIN arch \ {c.obj} : arch'[o] = arch[o]
    BY <1>2, <1>3, <2>2, <2>4
  <2>10. Grown
    <3>1. Len(arch) <= Len(arch')
      BY <1>3, <2>9
    <3> QED
      BY <2>4, <2>9, <3>1, KeptSame DEF Grown
  <2>0. PICK o \in DOMAIN arch : o = c.obj
    BY <1>2
  <2>11. ASSUME NEW e, call' = [call EXCEPT ![t] = e], e = Idle \/ e.stage = "collect", e \in CallTypes
         PROVE  (b.parsed /\ Settled(o) => DictExact(arch[o]))'
    <3>1. Settled(o)' => Settled(o)
      <4>1. \A u \in Threads \ {t} : call'[u] = call[u]
        BY <2>11 DEF Types
      <4> QED
        BY <1>1, <4>1 DEF Settled
    <3>2. b.parsed /\ Settled(o) => DictExact(a)
      BY <1>2, <2>0, <2>4 DEF Undisturbed
    <3>3. b.parsed => a.data = b.data
      BY <1>2, <1>9, <2>4 DEF ArchExact
    <3>4. b.parsed /\ DictExact(a) => DictExact(arch[o])'
      BY <1>1, <1>2, <2>0, <2>4, <2>9, <2>10, <3>3, DictKept
    <3> QED
      BY <3>1, <3>2, <3>4
  <2>12. CASE c.failed
    <3>1. PICK x : x = [Nothing EXCEPT !.op = c.op, !.ok = FALSE, !.excuse = TRUE]
      OBVIOUS
    <3>2. x \in AnswerTypes /\ AnswerRight(x)
      BY <1>2, <3>1, RaiseOp DEF CallTypes
    <3>3. call' = [call EXCEPT ![t] = Idle] /\ answer' = [answer EXCEPT ![t] = x]
      BY <1>6, <2>12, <3>1 DEF Raise, Return, Continue
    <3>4. Idle.stage \notin {"read", "sought"} /\ Idle \in CallTypes /\ CallExact(Idle, mine[t], b, at)
      BY IdleOp, IdleExact
    <3>5. (b.parsed /\ Settled(o) => DictExact(arch[o]))'
      BY <2>11, <3>3, <3>4
    <3> QED
      BY <1>1, <1>2, <2>0, <2>2, <2>4, <2>6, <2>8, <3>2, <3>3, <3>4, <3>5, ArchStep
  <2>13. CASE ~c.failed
    <3>1. d \in CallTypes /\ d.obj = c.obj /\ d.stage = "collect" /\ CallExact(d, mine[t], b, at)
      <4>1. ArchiveCall(c, b)
        <5>1. TableReads(b, c)
          BY <2>3, <2>4, SameBaseOp DEF TableReads
        <5> QED
          BY <1>1, <1>2, <1>9, <2>5, <5>1 DEF ArchiveCall
      <4> QED
        BY <1>2, <1>5, <1>9, <2>4, <2>5, <2>13, <4>1, CollectOp
    <3>2. answer' = [answer EXCEPT ![t] = answer[t]] /\ call' = [call EXCEPT ![t] = d]
      BY <1>3, <1>6, <2>13
    <3>3. (b.parsed /\ Settled(o) => DictExact(arch[o]))'
      BY <2>11, <3>1, <3>2
    <3>4. d.stage \notin {"read", "sought"}
      BY <3>1
    <3> QED
      BY <1>1, <1>2, <1>7, <2>0, <2>2, <2>4, <2>6, <2>8, <3>1, <3>2, <3>3, <3>4, ArchStep
  <2> QED
    BY <2>12, <2>13
<1> QED
  BY <1>8, <1>9
-----------------------------------------------------------------------------
(* The dictionaries.                                                       *)

\* The last of the elements with a name.
LEMMA GreatestNumber ==
  ASSUME NEW m \in Nat, NEW T, T \subseteq 1 .. m, T # {}
  PROVE  \E x \in T : \A y \in T : y <= x
<1> DEFINE U == {k \in Nat : \A y \in T : y <= k}
<1>1. U \in SUBSET Nat /\ m \in U
  OBVIOUS
<1>2. PICK x \in U : \A y \in U : x <= y
  BY <1>1, LeastNumber
<1>3. x \in T
  <2>1. SUFFICES ASSUME x \notin T PROVE FALSE
    OBVIOUS
  <2>2. \A y \in T : y < x /\ y >= 1
    <3>1. \A y \in T : y \in Nat /\ y >= 1 /\ y <= x /\ y # x
      BY <1>1, <1>2, <2>1
    <3> QED
      BY <1>2, <3>1
  <2>3. x - 1 \in U /\ x \in Nat
    <3>1. x \in Nat /\ T # {} /\ \A y \in T : y \in Nat
      BY <1>1, <1>2
    <3>2. PICK y \in T : TRUE
      BY <3>1
    <3>3. x - 1 \in Nat /\ \A z \in T : z <= x - 1
      BY <2>2, <3>1, <3>2
    <3> QED
      BY <3>1, <3>3
  <2> HIDE DEF U
  <2> QED
    BY <1>2, <2>3
<1> QED
  BY <1>2, <1>3

LEMMA LatestOp ==
  ASSUME NEW s, NEW m \in Nat, DOMAIN s = 1 .. m, NEW n, \E i \in DOMAIN s : s[i].name = n
  PROVE  /\ Latest(s, n) \in DOMAIN s /\ s[Latest(s, n)].name = n
         /\ \A j \in DOMAIN s : s[j].name = n => j <= Latest(s, n)
<1> DEFINE T == {i \in DOMAIN s : s[i].name = n}
<1>1. T \subseteq 1 .. m /\ T # {}
  OBVIOUS
<1>2. PICK x \in T : \A y \in T : y <= x
  BY <1>1, GreatestNumber
<1> QED
  BY <1>2 DEF Latest

\* A call ends, or goes on with the archive b that is parsed now.
GoesOn(t, o, b, f, where) ==
  \E d \in CallTypes, x \in AnswerTypes :
    /\ call' = [call EXCEPT ![t] = d] /\ answer' = [answer EXCEPT ![t] = x] /\ AnswerRight(x)
    /\ d = Idle \/ d.obj = o
    /\ d.stage \in {"idle", "use"} /\ CallExact(d, f, b, where)

LEMMA ThenOp ==
  ASSUME Types, Undisturbed, NEW t \in Threads, NEW o, o = call[t].obj, Then(t),
         NEW c \in CallTypes, c = call[t], c.stage \in {"collect", "fill"}, c.op \in ArchiveOps,
         NEW b, b.fmt = arch[o].fmt, b.parsed, ArchiveCall(c, arch[o]), NEW f, NEW where
  PROVE  GoesOn(t, o, b, f, where)
<1>1. CASE c.op = "parse"
  <2>1. PICK x : x = [Nothing EXCEPT !.op = "parse"]
    OBVIOUS
  <2>2. x \in AnswerTypes /\ x.op = "parse"
    BY <2>1, IdleOp DEF Nothing, AnswerTypes, Ops
  <2>3. AnswerRight(x)
    BY <2>2 DEF AnswerRight, Found, ReadRight
  <2>4. call' = [call EXCEPT ![t] = Idle] /\ answer' = [answer EXCEPT ![t] = x]
    BY <1>1, <2>1 DEF Then, Return, Continue
  <2> QED
    BY <2>2, <2>3, <2>4, IdleOp, IdleExact DEF GoesOn
<1>2. CASE c.op # "parse"
  <2>1. PICK d : d = [c EXCEPT !.stage = "use"]
    OBVIOUS
  <2>2. /\ d \in CallTypes /\ d.op = c.op /\ d.obj = c.obj /\ d.stage = "use" /\ d.reads = c.reads
        /\ d.part = c.part /\ d.failed = c.failed
    BY <2>1 DEF CallTypes, Stages
  <2>3. call' = [call EXCEPT ![t] = d] /\ answer' = answer
    BY <1>2, <2>1 DEF Then, Continue
  <2>4. answer' = [answer EXCEPT ![t] = answer[t]] /\ answer[t] \in AnswerTypes /\ AnswerRight(answer[t])
    BY <2>3 DEF Types, Undisturbed
  <2>5. CallExact(d, f, b, where)
    <3>1. ArchiveCall(d, b)
      BY <2>2 DEF ArchiveCall
    <3> QED
      BY <2>2, <3>1 DEF CallExact, FileCall, Sought, FileOps, ArchiveOps
  <2> QED
    BY <2>2, <2>3, <2>4, <2>5 DEF GoesOn
<1> QED
  BY <1>1, <1>2

\* A dictionary of the entries of a Pfs or Hfs leads to their cells.
LEMMA DictOfEntries ==
  ASSUME NEW a \in ArchTypes, Sound(a), a.fmt # "HEAD", a.entries = EntriesOf(a), a.data = DataPos(a),
         NEW dict, dict = [n \in NamesIn(a.entries) |->
                             LET e == a.entries[Latest(a.entries, n)]
                             IN  [off |-> e.off, size |-> e.size, obj |-> 0]]
  PROVE  /\ dict \in DictTypes
         /\ DOMAIN dict = Names(NodeAt(a.path))
         /\ \A n \in DOMAIN dict : \A b : SameBase(a, b) /\ b.data = a.data /\ b.dict = dict => DictHas(b, n)
<1>1. /\ tree \in DOMAIN Trees /\ a.path \in DOMAIN Trees[tree] /\ NodeAt(a.path).fmt = a.fmt
      /\ FilesOf(a) \in Seq(Words)
  BY Layout DEF Sound, Fits
<1>2. \A i, j \in DOMAIN FilesOf(a) : FilesOf(a)[i] = FilesOf(a)[j] => i = j
  BY <1>1, NodeOp DEF FilesOf
<1>3. PICK m \in Nat : m = Len(FilesOf(a)) /\ DOMAIN FilesOf(a) = 1 .. m
  BY <1>1
<1>4. PICK s : s = a.entries
  OBVIOUS
<1>5. /\ DOMAIN s = 1 .. m /\ s \in Seq(EntryTypes)
      /\ \A i \in 1 .. m : s[i] = [off |-> MetaOf(a, i).off, size |-> MetaOf(a, i).size, name |-> FilesOf(a)[i]]
  BY <1>3, <1>4 DEF EntriesOf, ArchTypes
<1>6. ASSUME NEW i \in 1 .. m PROVE Latest(s, FilesOf(a)[i]) = i
  <2>1. s[i].name = FilesOf(a)[i]
    BY <1>5
  <2>2. Latest(s, FilesOf(a)[i]) \in DOMAIN s /\ s[Latest(s, FilesOf(a)[i])].name = FilesOf(a)[i]
    BY <1>5, <2>1, LatestOp
  <2> QED
    BY <1>2, <1>3, <1>5, <2>2
<1>7. ASSUME NEW n
      PROVE  n \in NamesIn(s) <=> \E i \in 1 .. m : FilesOf(a)[i] = n
  BY <1>5 DEF NamesIn
<1>8. DOMAIN dict = NamesIn(s)
  BY <1>4
<1>9. DOMAIN dict = Names(NodeAt(a.path))
  <2>1. ASSUME NEW n PROVE n \in NamesIn(s) <=> n \in Names(NodeAt(a.path))
    BY <1>1, <1>3, <1>7, NameOp DEF FilesOf
  <2> QED
    BY <1>8, <2>1
<1>10. ASSUME NEW n \in NamesIn(s)
       PROVE  \E i \in 1 .. m : /\ FilesOf(a)[i] = n
                                /\ dict[n] = [off |-> MetaOf(a, i).off, size |-> MetaOf(a, i).size, obj |-> 0]
  <2>1. PICK i \in 1 .. m : FilesOf(a)[i] = n
    BY <1>7
  <2>2. Latest(s, n) = i
    BY <1>6, <2>1
  <2>3. dict[n] = [off |-> s[i].off, size |-> s[i].size, obj |-> 0]
    BY <1>4, <2>2
  <2>4. s[i].off = MetaOf(a, i).off /\ s[i].size = MetaOf(a, i).size
    BY <1>5
  <2> QED
    BY <2>1, <2>3, <2>4
<1>11. dict \in DictTypes
  <2>1. ASSUME NEW n \in NamesIn(s) PROVE dict[n] \in [off : Nat, size : Nat, obj : Nat] /\ n \in Words
    <3>1. PICK i \in 1 .. m : /\ FilesOf(a)[i] = n
                              /\ dict[n] = [off |-> MetaOf(a, i).off, size |-> MetaOf(a, i).size, obj |-> 0]
      BY <1>10
    <3>2. MetaOf(a, i).off \in Nat /\ MetaOf(a, i).size \in Nat
      BY <1>3, MetaOp
    <3> QED
      BY <1>1, <1>3, <3>1, <3>2
  <2>2. dict \in [NamesIn(s) -> [off : Nat, size : Nat, obj : Nat]]
    BY <1>4, <2>1
  <2>3. NamesIn(s) \in SUBSET Words
    BY <2>1
  <2> QED
    BY <2>2, <2>3 DEF DictTypes
<1>12. ASSUME NEW n \in DOMAIN dict, NEW b, SameBase(a, b), b.data = a.data, b.dict = dict
       PROVE  DictHas(b, n)
  <2>1. PICK i \in 1 .. m : /\ FilesOf(a)[i] = n
                            /\ dict[n] = [off |-> MetaOf(a, i).off, size |-> MetaOf(a, i).size, obj |-> 0]
    BY <1>8, <1>10, <1>12
  <2>2. /\ DataPos(a) + MetaOf(a, i).off + MetaOf(a, i).size <= a.size
        /\ Part(CellsOf(a), DataPos(a) + MetaOf(a, i).off,
                  DataPos(a) + MetaOf(a, i).off + MetaOf(a, i).size) = ChildCells(a, FilesOf(a)[i])
    BY <1>3, MetaOp
  <2>3. dict[n].off = MetaOf(a, i).off /\ dict[n].size = MetaOf(a, i).size
    BY <2>1
  <2>4. b.size = a.size /\ CellsOf(b) = CellsOf(a) /\ ChildCells(b, n) = ChildCells(a, n)
    BY <1>12, SameBaseOp DEF SameBase
  <2> QED
    BY <1>12, <2>1, <2>2, <2>3, <2>4 DEF DictHas
<1> QED
  BY <1>9, <1>11, <1>12

LEMMA CollectStep ==
  ASSUME Types, Undisturbed, NEW t \in Threads, Collect(t)
  PROVE  Types' /\ (~Mixed' => Undisturbed')
<1>1. PICK c : c = call[t]
  OBVIOUS
<1>2. PICK o : o = c.obj
  OBVIOUS
<1>3. PICK a : a = arch[o]
  OBVIOUS
<1>4. /\ c.stage = "collect" /\ Free(t) /\ gil' = gil
      /\ tree' = tree /\ kind' = kind /\ at' = at /\ mine' = mine /\ calls' = calls /\ faults' = faults
  BY <1>1 DEF Collect
<1>5. /\ c.op \in ArchiveOps /\ c \in CallTypes /\ mine[t] \in FileTypes /\ Fits(mine[t])
      /\ o # 0 /\ o \in DOMAIN arch /\ a \in ArchTypes /\ ArchExact(a) /\ ArchiveCall(c, a)
  BY <1>1, <1>2, <1>3, <1>4, ArchiveBusy
<1>6. /\ arch \in Seq(ArchTypes) /\ answer \in [Threads -> AnswerTypes] /\ call \in [Threads -> CallTypes]
      /\ answer[t] \in AnswerTypes /\ AnswerRight(answer[t]) /\ tree \in DOMAIN Trees
  BY DEF Types, Undisturbed
<1>7. /\ IsValid(a) /\ c.reads = <<>> /\ c.part = 0 /\ ~c.failed
      /\ IF a.fmt = "HEAD" THEN PartsMade(a) ELSE a.entries = EntriesOf(a) /\ a.data = DataPos(a)
  BY <1>4, <1>5 DEF ArchiveCall
<1>8. Sound(a)
  BY <1>5, <1>6, <1>7 DEF Sound, ArchExact, ArchTypes
<1>9. CASE a.fmt = "HEAD"
  <2>1. PICK b : b = [a EXCEPT !.dict = <<>>]
    OBVIOUS
  <2>2. /\ b \in ArchTypes /\ SameBase(a, b) /\ b.parts = a.parts /\ b.data = a.data
        /\ b.entries = a.entries /\ b.parsed = a.parsed
    BY <1>5, <2>1, EmptyDict DEF ArchTypes, SameBase
  <2>3. PICK d : d = [c EXCEPT !.stage = "fill"]
    OBVIOUS
  <2>4. arch' = [arch EXCEPT ![o] = b] /\ call' = [call EXCEPT ![t] = d] /\ answer' = answer
    <3>1. arch' = [arch EXCEPT ![o].dict = <<>>] /\ call' = [call EXCEPT ![t] = d] /\ answer' = answer
      BY <1>1, <1>2, <1>3, <1>9, <2>3 DEF Collect, Continue
    <3> QED
      BY <1>3, <1>5, <1>6, <2>1, <3>1
  <2>5. /\ d \in CallTypes /\ d.op = c.op /\ d.obj = c.obj /\ d.stage = "fill" /\ d.reads = c.reads
        /\ d.part = c.part /\ d.failed = c.failed
    BY <1>5, <2>3 DEF CallTypes, Stages
  <2>6. /\ b.fmt = a.fmt /\ b.header = a.header /\ (Fits(b) <=> Fits(a)) /\ IsValid(b)
        /\ CellsOf(b) = CellsOf(a) /\ FilesOf(b) = FilesOf(a) /\ CardEntries(b) = CardEntries(a)
        /\ EntriesOf(b) = EntriesOf(a) /\ DataPos(b) = DataPos(a)
    BY <1>7, <2>2, SameBaseOp DEF SameBase
  <2>7. ArchExact(b)
    <3>1. PartsExact(b)
      BY <1>5, <1>7, <2>2, <2>6 DEF ArchExact, PartsExact
    <3> QED
      BY <1>5, <1>9, <2>2, <2>6, <3>1 DEF ArchExact
  <2>8. \A n : PartMade(a, n) => PartMade(b, n)
    BY <2>2 DEF PartMade, ChildCells, SameBase
  <2>9. Kept(a, b)
    BY <2>2, <2>6, <2>8 DEF Kept
  <2>10. CallExact(d, mine[t], b, at)
    <3>1. PartsMade(b)
      BY <1>7, <1>9, <2>2, <2>8 DEF PartsMade, SameBase
    <3>2. ArchiveCall(d, b)
      BY <1>4, <1>5, <1>7, <1>9, <2>5, <2>6, <3>1 DEF ArchiveCall
    <3> QED
      BY <1>5, <2>5, <3>2 DEF CallExact, FileCall, Sought, FileOps, ArchiveOps
  <2>11. (b.parsed /\ Settled(o) => DictExact(arch[o]))'
    <3>1. call'[t].stage = "fill" /\ call'[t].obj = o
      BY <1>2, <1>6, <2>4, <2>5
    <3> QED
      BY <3>1 DEF Settled
  <2>12. answer' = [answer EXCEPT ![t] = answer[t]] /\ d.stage \notin {"read", "sought"} /\ d.obj = o
    BY <1>2, <1>6, <2>4, <2>5
  <2>13. call[t].stage # "fill"
    BY <1>1, <1>4
  <2>14. gil' \in {gil, None}
    BY <1>4
  <2> QED
    BY <1>3, <1>4, <1>5, <1>6, <2>2, <2>4, <2>5, <2>7, <2>9, <2>10, <2>11, <2>12, <2>13, <2>14, ArchStep
<1>10. CASE a.fmt # "HEAD"
  <2>1. PICK dict : dict = [n \in NamesIn(a.entries) |->
                              LET e == a.entries[Latest(a.entries, n)]
                              IN  [off |-> e.off, size |-> e.size, obj |-> 0]]
    OBVIOUS
  <2>2. PICK b : b = [a EXCEPT !.dict = dict, !.parsed = TRUE]
    OBVIOUS
  <2>3. /\ dict \in DictTypes /\ DOMAIN dict = Names(NodeAt(a.path))
        /\ \A n \in DOMAIN dict : \A x : SameBase(a, x) /\ x.data = a.data /\ x.dict = dict => DictHas(x, n)
    BY <1>5, <1>7, <1>8, <1>10, <2>1, DictOfEntries
  <2>4. /\ b \in ArchTypes /\ SameBase(a, b) /\ b.parts = a.parts /\ b.data = a.data
        /\ b.entries = a.entries /\ b.parsed /\ b.dict = dict
    BY <1>5, <2>2, <2>3 DEF ArchTypes, SameBase
  <2>5. arch' = [arch EXCEPT ![o] = b] /\ Then(t)
    <3>1. arch' = [arch EXCEPT ![o].dict = dict, ![o].parsed = TRUE] /\ Then(t)
      BY <1>1, <1>2, <1>3, <1>10, <2>1 DEF Collect
    <3> QED
      BY <1>3, <1>5, <1>6, <2>2, <3>1
  <2>6. /\ b.fmt = a.fmt /\ b.header = a.header /\ (Fits(b) <=> Fits(a)) /\ IsValid(b)
        /\ CellsOf(b) = CellsOf(a) /\ FilesOf(b) = FilesOf(a) /\ CardEntries(b) = CardEntries(a)
        /\ EntriesOf(b) = EntriesOf(a) /\ DataPos(b) = DataPos(a) /\ b.path = a.path
    BY <1>7, <2>4, SameBaseOp DEF SameBase
  <2>7. ArchExact(b)
    <3>1. PartsExact(b)
      BY <1>5, <1>7, <2>4, <2>6 DEF ArchExact, PartsExact
    <3> QED
      BY <1>5, <1>7, <1>10, <2>4, <2>6, <3>1 DEF ArchExact
  <2>8. Kept(a, b)
    BY <2>4, <2>6 DEF Kept, PartMade, ChildCells, SameBase
  <2>9. PICK d \in CallTypes, x \in AnswerTypes :
          /\ call' = [call EXCEPT ![t] = d] /\ answer' = [answer EXCEPT ![t] = x] /\ AnswerRight(x)
          /\ d = Idle \/ d.obj = o
          /\ d.stage \in {"idle", "use"} /\ CallExact(d, mine[t], b, at)
    <3>1. o = call[t].obj /\ b.fmt = arch[o].fmt /\ ArchiveCall(c, arch[o])
      BY <1>1, <1>2, <1>3, <1>5, <2>6
    <3>2. c \in CallTypes /\ c = call[t] /\ c.stage \in {"collect", "fill"} /\ c.op \in ArchiveOps
      BY <1>1, <1>4, <1>5
    <3>3. GoesOn(t, o, b, mine[t], at)
      BY <2>4, <2>5, <3>1, <3>2, ThenOp
    <3> QED
      BY <3>3 DEF GoesOn
  <2>10. (b.parsed /\ Settled(o) => DictExact(arch[o]))'
    <3>1. arch'[o] = b
      BY <1>5, <1>6, <2>5
    <3>2. Names(NodeAt(b.path))' = Names(NodeAt(b.path))
      BY <1>4, SameTree
    <3>3. \A n \in DOMAIN b.dict : DictHas(b, n)'
      BY <1>4, <2>3, <2>4, SameTree
    <3>4. \A n : DictLeads(b, n)'
      BY <1>10, <2>6 DEF DictLeads
    <3>5. DictExact(b)'
      BY <2>3, <2>4, <2>6, <3>2, <3>3, <3>4 DEF DictExact
    <3> QED
      BY <3>1, <3>5 DEF DictExact
  <2>11. d.stage \notin {"read", "sought"} /\ call[t].stage # "fill" /\ gil' \in {gil, None}
    BY <1>1, <1>4, <2>9
  <2> QED
    BY <1>3, <1>4, <1>5, <2>4, <2>5, <2>7, <2>8, <2>9, <2>10, <2>11, ArchStep
<1> QED
  BY <1>9, <1>10
\* A part of an archive with the cells of an entry is the file of that entry.
Placed(a, f, pos, size) ==
  pos \in Nat /\ size \in Nat /\ pos + size <= a.size /\ f.lo = a.lo + pos /\ f.size = size

LEMMA ChildFits ==
  ASSUME tree \in DOMAIN Trees, NEW a, Fits(a), a.lo \in Nat, NEW n, Append(a.path, n) \in DOMAIN Trees[tree],
         NEW f, f.path = Append(a.path, n), NEW pos, NEW size, Placed(a, f, pos, size),
         Part(CellsOf(a), pos, pos + size) = ChildCells(a, n)
  PROVE  Fits(f) /\ f.lo \in Nat /\ f.size \in Nat
<1>1. /\ CellsOf(a) \in Buffer /\ a.size = Len(CellsOf(a)) /\ a.size \in Nat
      /\ Image \in Buffer /\ Len(Image) \in Nat /\ a.lo + a.size <= Len(Image)
      /\ Part(Image, a.lo, a.lo + a.size) = CellsOf(a)
  BY FitsOp DEF CellsOf
<1>2. PICK end : end = pos + size
  OBVIOUS
<1>3. f.lo = a.lo + pos /\ f.lo + f.size = a.lo + end /\ f.lo \in Nat /\ f.size \in Nat
      /\ f.lo + f.size <= Len(Image)
  BY <1>1, <1>2 DEF Placed
<1>4. Nested(Image, a.lo, a.size, pos, end)
  BY <1>1, <1>2 DEF Nested, Placed
<1>5. Part(Image, a.lo + pos, a.lo + end) = Part(Part(Image, a.lo, a.lo + a.size), pos, end)
  BY <1>1, <1>4, PartOfPart DEF Buffer
<1>6. Part(Image, f.lo, f.lo + f.size) = ChildCells(a, n)
  BY <1>1, <1>2, <1>3, <1>5
<1>7. f.size = Len(ChildCells(a, n))
  <2>1. f.size = size /\ end <= Len(CellsOf(a)) /\ pos \in Nat /\ size \in Nat
    BY <1>1, <1>2 DEF Placed
  <2>2. PICK s : s = CellsOf(a)
    OBVIOUS
  <2>3. s \in Buffer /\ end <= Len(s)
    BY <1>1, <2>1, <2>2
  <2>4. Len(Part(s, pos, end)) = size
    BY <1>2, <2>1, <2>3, WithinOp
  <2>5. Part(s, pos, end) = ChildCells(a, n)
    BY <1>2, <2>2
  <2> QED
    BY <2>1, <2>4, <2>5
<1> QED
  BY <1>3, <1>6, <1>7 DEF Fits, Covers, ChildCells

\* The partitions of a card by their names.
LEMMA PartsOp ==
  ASSUME NEW a \in ArchTypes, Sound(a), a.fmt = "HEAD", PartsExact(a), PartsMade(a)
  PROVE  /\ NamesIn(a.parts) = Names(NodeAt(a.path))
         /\ \A n \in NamesIn(a.parts) : \E p \in PartTypes :
              /\ p = a.parts[Latest(a.parts, n)]
              /\ p.name = n /\ p.header = HeadOf(ChildCells(a, n)) /\ n \in Words
              /\ Append(a.path, n) \in DOMAIN Trees[tree]
              /\ p.off + p.size <= a.size /\ Part(CellsOf(a), p.off, p.off + p.size) = ChildCells(a, n)
<1>1. /\ tree \in DOMAIN Trees /\ a.path \in DOMAIN Trees[tree] /\ NodeAt(a.path).fmt = "HEAD"
      /\ a.lo \in Nat /\ FilesOf(a) \in Seq(Words)
  BY Layout DEF Sound, Fits, ArchTypes
<1>2. PICK m \in Nat : DOMAIN a.parts = 1 .. m /\ \A j \in 1 .. m : a.parts[j] \in PartTypes
  BY DEF ArchTypes
<1>3. ASSUME NEW j \in DOMAIN a.parts
      PROVE  \E i \in DOMAIN FilesOf(a) :
               /\ FilesOf(a)[i] = a.parts[j].name /\ a.parts[j].name \in Partitions
               /\ a.parts[j].off = CardEntries(a)[i].off /\ a.parts[j].size = CardEntries(a)[i].size
  <2>1. PICK i \in DOMAIN FilesOf(a) :
          /\ a.parts[j].name = CardEntries(a)[i].name
          /\ a.parts[j].off = CardEntries(a)[i].off /\ a.parts[j].size = CardEntries(a)[i].size
    BY DEF PartsExact
  <2>2. CardEntries(a)[i].name = FilesOf(a)[i]
    BY <1>1, PartGives
  <2>3. a.parts[j].name \in Partitions
    BY DEF PartsExact
  <2> QED
    BY <2>1, <2>2, <2>3
<1>4. ASSUME NEW n PROVE n \in NamesIn(a.parts) <=> n \in Names(NodeAt(a.path))
  <2>1. ASSUME n \in NamesIn(a.parts) PROVE n \in Names(NodeAt(a.path))
    <3>1. PICK j \in DOMAIN a.parts : a.parts[j].name = n
      BY <2>1 DEF NamesIn
    <3>2. PICK i \in DOMAIN FilesOf(a) : FilesOf(a)[i] = n /\ n \in Partitions
      BY <1>3, <3>1
    <3> QED
      BY <1>1, <3>2, NameOp DEF FilesOf
  <2>2. ASSUME n \in Names(NodeAt(a.path)) PROVE n \in NamesIn(a.parts)
    BY <2>2 DEF PartsMade, PartMade, NamesIn
  <2> QED
    BY <2>1, <2>2
<1>5. ASSUME NEW n \in NamesIn(a.parts)
      PROVE  \E p \in PartTypes :
               /\ p = a.parts[Latest(a.parts, n)]
               /\ p.name = n /\ p.header = HeadOf(ChildCells(a, n)) /\ n \in Words
               /\ Append(a.path, n) \in DOMAIN Trees[tree]
               /\ p.off + p.size <= a.size /\ Part(CellsOf(a), p.off, p.off + p.size) = ChildCells(a, n)
  <2>1. PICK l : l = Latest(a.parts, n)
    OBVIOUS
  <2>2. l \in DOMAIN a.parts /\ a.parts[l].name = n /\ \A j \in DOMAIN a.parts : a.parts[j].name = n => j <= l
    <3>1. \E j \in DOMAIN a.parts : a.parts[j].name = n
      BY DEF NamesIn
    <3> QED
      BY <1>2, <2>1, <3>1, LatestOp
  <2>3. PICK p : p = a.parts[l]
    OBVIOUS
  <2>4. p \in PartTypes /\ p.name = n
    BY <1>2, <2>2, <2>3
  <2>5. p.header = HeadOf(ChildCells(a, n))
    <3>1. PartMade(a, n)
      BY <1>4 DEF PartsMade
    <3>2. PICK j \in DOMAIN a.parts :
            /\ a.parts[j].name = n
            /\ \A k \in DOMAIN a.parts : k >= j /\ a.parts[k].name = n => a.parts[k].header = HeadOf(ChildCells(a, n))
      BY <3>1 DEF PartMade
    <3>3. l >= j
      BY <1>2, <2>2, <3>2
    <3> QED
      BY <2>2, <2>3, <3>2, <3>3
  <2>6. PICK i \in DOMAIN FilesOf(a) :
          FilesOf(a)[i] = n /\ p.off = CardEntries(a)[i].off /\ p.size = CardEntries(a)[i].size
    BY <1>3, <2>2, <2>3
  <2>7. PICK e : e = CardEntries(a)[i]
    OBVIOUS
  <2>8. /\ e.name = n /\ e.off + e.size <= a.size
        /\ Part(CellsOf(a), e.off, e.off + e.size) = ChildCells(a, e.name)
        /\ Append(a.path, e.name) \in DOMAIN Trees[tree]
    BY <1>1, <2>6, <2>7, PartGives
  <2>9. n \in Words
    BY <1>1, <2>6
  <2> QED
    BY <2>1, <2>3, <2>4, <2>5, <2>6, <2>7, <2>8, <2>9
<1> QED
  BY <1>4, <1>5

\* A sequence of the elements of a finite set.
LEMMA SetToSeqOp ==
  ASSUME NEW S, IsFiniteSet(S), NEW s, s = SetToSeq(S)
  PROVE  \E k \in Nat : /\ s \in [1 .. k -> S] /\ DOMAIN s = 1 .. k
                        /\ \A n \in S : \E i \in 1 .. k : s[i] = n
                        /\ \A i, j \in 1 .. k : s[i] = s[j] => i = j
<1>1. PICK k : k = Cardinality(S)
  OBVIOUS
<1>2. k \in Nat /\ ExistsBijection(1 .. k, S)
  BY <1>1, FS_CardinalityType
<1>3. \E f \in [1 .. k -> S] : IsInjective(f)
  BY <1>2 DEF ExistsBijection, Bijection, Injection
<1>4. s \in [1 .. k -> S] /\ IsInjective(s)
  BY <1>1, <1>3 DEF SetToSeq
<1>5. s \in Injection(1 .. k, S)
  BY <1>4 DEF Injection
<1>6. IsFiniteSet(1 .. k) /\ Cardinality(1 .. k) = k
  <2>1. /\ IsFiniteSet(1 .. k)
        /\ Cardinality(1 .. k) = IF 1 > k THEN 0 ELSE k - 1 + 1
    BY <1>2, FS_Interval
  <2> QED
    BY <1>2, <2>1
<1>7. s \in Surjection(1 .. k, S)
  BY <1>1, <1>5, <1>6, FS_Injection
<1> QED
  BY <1>2, <1>4, <1>7 DEF Surjection, IsInjective

LEMMA NamesFinite ==
  ASSUME NEW S, NEW s \in Seq(S)
  PROVE  IsFiniteSet(NamesIn(s))
<1>1. PICK m \in Nat : DOMAIN s = 1 .. m
  OBVIOUS
<1>2. [i \in 1 .. m |-> s[i].name] \in Surjection(1 .. m, NamesIn(s))
  BY <1>1 DEF Surjection, NamesIn
<1> QED
  BY <1>1, <1>2, FS_NatSurjection DEF ExistsSurjection
\* What the loop over the partitions makes of them, in the order of names.
MadeOf(a, names) ==
  [i \in DOMAIN names |->
     Archive("HFS0", Append(a.path, names[i]), a.lo + a.parts[Latest(a.parts, names[i])].off,
             a.parts[Latest(a.parts, names[i])].size, a.parts[Latest(a.parts, names[i])].header)]

DictOf(a, names, base) ==
  [n \in NamesIn(a.parts) |->
     [off |-> a.parts[Latest(a.parts, n)].off, size |-> a.parts[Latest(a.parts, n)].size,
      obj |-> base + CHOOSE i \in DOMAIN names : names[i] = n]]

Filled(a, made, dict, base) ==
  /\ made \in Seq(ArchTypes)
  /\ \A i \in DOMAIN made : ArchExact(made[i]) /\ ~made[i].parsed
  /\ dict \in DictTypes /\ DOMAIN dict = Names(NodeAt(a.path))
  /\ \A n \in DOMAIN dict :
       /\ \A b : SameBase(a, b) /\ b.data = 0 /\ b.dict = dict => DictHas(b, n)
       /\ \E i \in DOMAIN made : dict[n].obj = base + i /\ made[i].header = HeadOf(ChildCells(a, n))

LEMMA FillOp ==
  ASSUME NEW a \in ArchTypes, Sound(a), a.fmt = "HEAD", PartsExact(a), PartsMade(a), a.data = 0,
         NEW base \in Nat, NEW names, names = SetToSeq(NamesIn(a.parts)),
         NEW made, made = MadeOf(a, names), NEW dict, dict = DictOf(a, names, base)
  PROVE  Filled(a, made, dict, base)
<1>1. PICK S : S = NamesIn(a.parts)
  OBVIOUS
<1>2. IsFiniteSet(S)
  BY <1>1, NamesFinite DEF ArchTypes
<1>3. PICK k \in Nat : /\ names \in [1 .. k -> S] /\ DOMAIN names = 1 .. k
                       /\ \A n \in S : \E i \in 1 .. k : names[i] = n
                       /\ \A i, j \in 1 .. k : names[i] = names[j] => i = j
  BY <1>1, <1>2, SetToSeqOp
<1>4. /\ S = Names(NodeAt(a.path))
      /\ \A n \in S : \E p \in PartTypes :
              /\ p = a.parts[Latest(a.parts, n)]
              /\ p.name = n /\ p.header = HeadOf(ChildCells(a, n)) /\ n \in Words
              /\ Append(a.path, n) \in DOMAIN Trees[tree]
              /\ p.off + p.size <= a.size /\ Part(CellsOf(a), p.off, p.off + p.size) = ChildCells(a, n)
  BY <1>1, PartsOp
<1>5. tree \in DOMAIN Trees /\ Fits(a) /\ a.lo \in Nat /\ "HFS0" \in Formats
  BY LensOp DEF Sound, ArchTypes
<1>6. ASSUME NEW i \in 1 .. k
      PROVE  /\ made[i] \in ArchTypes /\ ArchExact(made[i]) /\ ~made[i].parsed
             /\ made[i].header = HeadOf(ChildCells(a, names[i]))
  <2>1. PICK n \in S : n = names[i]
    BY <1>3
  <2>2. PICK p \in PartTypes :
              /\ p = a.parts[Latest(a.parts, n)]
              /\ p.name = n /\ p.header = HeadOf(ChildCells(a, n)) /\ n \in Words
              /\ Append(a.path, n) \in DOMAIN Trees[tree]
              /\ p.off + p.size <= a.size /\ Part(CellsOf(a), p.off, p.off + p.size) = ChildCells(a, n)
    BY <1>4
  <2>3. PICK m : m = made[i]
    OBVIOUS
  <2>0. PICK lo, path : lo = a.lo + p.off /\ path = Append(a.path, n)
    OBVIOUS
  <2>4. m = Archive("HFS0", path, lo, p.size, p.header)
    BY <1>3, <2>0, <2>1, <2>2, <2>3 DEF MadeOf
  <2>5. lo \in Nat /\ p.off \in Nat /\ p.size \in Nat /\ p.header \in Cells \cup {Zeros}
    BY <1>5, <2>0 DEF PartTypes
  <2>6. path \in Seq(Words)
    BY <1>5, <2>0, <2>2, NodeOp
  <2>7. /\ m \in ArchTypes /\ m.path = path /\ m.lo = lo /\ m.size = p.size
        /\ m.header = p.header /\ m.data = 0 /\ m.parts = <<>> /\ ~m.parsed
    BY <1>5, <2>4, <2>5, <2>6, ArchiveOp
  <2>8. Placed(a, m, p.off, p.size)
    BY <2>0, <2>2, <2>5, <2>7 DEF Placed
  <2>9. Fits(m)
    BY <1>5, <2>0, <2>2, <2>7, <2>8, ChildFits
  <2>10. m.header = HeadOf(CellsOf(m))
    BY <2>0, <2>2, <2>7 DEF CellsOf, ChildCells
  <2>11. ArchExact(m)
    BY <2>7, <2>9, <2>10, FreshExact
  <2> QED
    BY <2>1, <2>2, <2>3, <2>7, <2>11
<1>7. DOMAIN made = 1 .. k /\ made \in Seq(ArchTypes)
  <2>1. made \in [1 .. k -> ArchTypes]
    <3>1. made = [i \in 1 .. k |-> made[i]]
      BY <1>3 DEF MadeOf
    <3> QED
      BY <1>6, <3>1
  <2> QED
    BY <1>3, <2>1
<1>8. DOMAIN dict = S
  BY <1>1 DEF DictOf
<1>9. ASSUME NEW n \in S
      PROVE  /\ n \in Words /\ dict[n] \in [off : Nat, size : Nat, obj : Nat]
             /\ \A b : SameBase(a, b) /\ b.data = 0 /\ b.dict = dict => DictHas(b, n)
             /\ \E i \in DOMAIN made : dict[n].obj = base + i /\ made[i].header = HeadOf(ChildCells(a, n))
  <2>1. PICK p \in PartTypes :
              /\ p = a.parts[Latest(a.parts, n)]
              /\ p.name = n /\ p.header = HeadOf(ChildCells(a, n)) /\ n \in Words
              /\ Append(a.path, n) \in DOMAIN Trees[tree]
              /\ p.off + p.size <= a.size /\ Part(CellsOf(a), p.off, p.off + p.size) = ChildCells(a, n)
    BY <1>4
  <2>2. PICK i : i = CHOOSE j \in DOMAIN names : names[j] = n
    OBVIOUS
  <2>3. i \in 1 .. k /\ names[i] = n
    BY <1>3, <2>2
  <2>4. dict[n] = [off |-> p.off, size |-> p.size, obj |-> base + i]
    BY <1>1, <2>1, <2>2 DEF DictOf
  <2>5. p.off \in Nat /\ p.size \in Nat /\ base + i \in Nat
    BY <2>3 DEF PartTypes
  <2>6. dict[n].off = p.off /\ dict[n].size = p.size /\ dict[n].obj = base + i
        /\ dict[n] \in [off : Nat, size : Nat, obj : Nat]
    BY <2>4, <2>5
  <2>7. made[i].header = HeadOf(ChildCells(a, n))
    BY <1>6, <2>3
  <2>8. ASSUME NEW b, SameBase(a, b), b.data = 0, b.dict = dict PROVE DictHas(b, n)
    <3>1. b.size = a.size /\ CellsOf(b) = CellsOf(a) /\ ChildCells(b, n) = ChildCells(a, n)
      BY <2>8, SameBaseOp DEF SameBase
    <3>2. b.data + b.dict[n].off = p.off /\ b.dict[n].size = p.size
      BY <2>5, <2>6, <2>8
    <3> QED
      BY <2>1, <3>1, <3>2 DEF DictHas
  <2> QED
    BY <1>7, <2>1, <2>3, <2>6, <2>7, <2>8
<1>10. dict \in DictTypes
  <2>1. dict \in [S -> [off : Nat, size : Nat, obj : Nat]]
    <3>1. dict = [n \in S |-> dict[n]]
      BY <1>1 DEF DictOf
    <3> QED
      BY <1>9, <3>1
  <2>2. S \in SUBSET Words
    BY <1>9
  <2> QED
    BY <2>1, <2>2 DEF DictTypes
<1> QED
  BY <1>4, <1>6, <1>7, <1>8, <1>9, <1>10 DEF Filled

LEMMA FillStep ==
  ASSUME Types, Undisturbed, NEW t \in Threads, Fill(t)
  PROVE  Types' /\ (~Mixed' => Undisturbed')
<1>1. PICK c : c = call[t]
  OBVIOUS
<1>2. PICK o : o = c.obj
  OBVIOUS
<1>3. PICK a : a = arch[o]
  OBVIOUS
<1>4. /\ c.stage = "fill" /\ Free(t) /\ Then(t) /\ gil' = gil
      /\ tree' = tree /\ kind' = kind /\ at' = at /\ mine' = mine /\ calls' = calls /\ faults' = faults
  BY <1>1 DEF Fill
<1>5. /\ c.op \in ArchiveOps /\ c \in CallTypes /\ mine[t] \in FileTypes /\ Fits(mine[t])
      /\ o # 0 /\ o \in DOMAIN arch /\ a \in ArchTypes /\ ArchExact(a) /\ ArchiveCall(c, a)
  BY <1>1, <1>2, <1>3, <1>4, ArchiveBusy
<1>6. /\ arch \in Seq(ArchTypes) /\ answer \in [Threads -> AnswerTypes] /\ call \in [Threads -> CallTypes]
      /\ mine \in [Threads -> FileTypes] /\ faults \in 0 .. FaultBound /\ at \in 0 .. Len(Image)
      /\ tree \in DOMAIN Trees
  BY DEF Types
<1>7. IsValid(a) /\ a.fmt = "HEAD" /\ PartsMade(a) /\ PartsExact(a) /\ a.data = 0
  BY <1>4, <1>5 DEF ArchiveCall, ArchExact
<1>8. Sound(a)
  BY <1>5, <1>6, <1>7 DEF Sound, ArchExact, ArchTypes
<1>9. PICK base \in Nat : base = Len(arch) /\ DOMAIN arch = 1 .. base
  BY <1>6
<1>10. PICK names : names = SetToSeq(NamesIn(a.parts))
  OBVIOUS
<1>11. PICK made : made = MadeOf(a, names)
  OBVIOUS
<1>12. PICK dict : dict = DictOf(a, names, base)
  OBVIOUS
<1>13. arch' = [arch EXCEPT ![o].dict = dict, ![o].parsed = TRUE] \o made
  BY <1>1, <1>2, <1>3, <1>9, <1>10, <1>11, <1>12 DEF Fill, MadeOf, DictOf
<1>14. /\ made \in Seq(ArchTypes)
       /\ \A i \in DOMAIN made : ArchExact(made[i]) /\ ~made[i].parsed
       /\ dict \in DictTypes /\ DOMAIN dict = Names(NodeAt(a.path))
       /\ \A n \in DOMAIN dict :
            /\ \A b : SameBase(a, b) /\ b.data = 0 /\ b.dict = dict => DictHas(b, n)
            /\ \E i \in DOMAIN made : dict[n].obj = base + i /\ made[i].header = HeadOf(ChildCells(a, n))
  <2>1. Filled(a, made, dict, base)
    BY <1>5, <1>7, <1>8, <1>10, <1>11, <1>12, FillOp
  <2> QED
    BY <2>1 DEF Filled
<1>15. PICK b : b = [a EXCEPT !.dict = dict, !.parsed = TRUE]
  OBVIOUS
<1>16. /\ b \in ArchTypes /\ SameBase(a, b) /\ b.parts = a.parts /\ b.data = a.data
       /\ b.entries = a.entries /\ b.parsed /\ b.dict = dict
  BY <1>5, <1>14, <1>15 DEF ArchTypes, SameBase
<1>17. PICK kept : kept = [arch EXCEPT ![o] = b]
  OBVIOUS
<1>18. /\ kept \in Seq(ArchTypes) /\ Len(kept) = base
       /\ kept[o] = b /\ \A x \in 1 .. base \ {o} : kept[x] = arch[x]
  BY <1>5, <1>6, <1>9, <1>16, <1>17
<1>19. arch' = kept \o made
  <2>1. [arch EXCEPT ![o].dict = dict, ![o].parsed = TRUE] = kept
    BY <1>3, <1>5, <1>6, <1>15, <1>17
  <2> QED
    BY <1>13, <2>1
<1>20. PICK more \in Nat : more = Len(made) /\ DOMAIN made = 1 .. more
  BY <1>14
<1>21. /\ arch' \in Seq(ArchTypes) /\ Len(arch') = base + more /\ DOMAIN arch' = 1 .. base + more
       /\ \A i \in 1 .. base : arch'[i] = kept[i]
       /\ \A i \in 1 .. more : arch'[base + i] = made[i]
  <2>1. /\ arch' \in Seq(ArchTypes) /\ Len(arch') = Len(kept) + Len(made) /\ DOMAIN arch' = 1 .. Len(kept) + Len(made)
        /\ \A i \in 1 .. Len(kept) : arch'[i] = kept[i]
        /\ \A i \in 1 .. Len(made) : arch'[Len(kept) + i] = made[i]
    <3>1. PICK q : q = kept \o made
      OBVIOUS
    <3> kept \in Seq(ArchTypes) /\ made \in Seq(ArchTypes)
      BY <1>14, <1>18
    <3>2. /\ q \in Seq(ArchTypes) /\ Len(q) = Len(kept) + Len(made) /\ DOMAIN q = 1 .. Len(kept) + Len(made)
          /\ \A i \in 1 .. Len(kept) : q[i] = kept[i]
          /\ \A i \in 1 .. Len(made) : q[Len(kept) + i] = made[i]
      BY <3>1
    <3> QED
      BY <1>19, <3>1, <3>2
  <2> QED
    BY <1>18, <1>20, <2>1
<1>22. arch'[o] = b /\ \A x \in DOMAIN arch \ {o} : arch'[x] = arch[x]
  BY <1>5, <1>9, <1>18, <1>21
<1>23. \A x \in DOMAIN arch' : x \in DOMAIN arch \/ \E i \in DOMAIN made : arch'[x] = made[i]
  <2>1. ASSUME NEW x \in DOMAIN arch', x \notin DOMAIN arch PROVE x - base \in 1 .. more /\ x = base + (x - base)
    BY <1>9, <1>21, <2>1
  <2> QED
    BY <1>20, <1>21, <2>1
<1>24. /\ b.fmt = a.fmt /\ b.header = a.header /\ (Fits(b) <=> Fits(a)) /\ IsValid(b)
       /\ CellsOf(b) = CellsOf(a) /\ FilesOf(b) = FilesOf(a) /\ CardEntries(b) = CardEntries(a)
       /\ EntriesOf(b) = EntriesOf(a) /\ DataPos(b) = DataPos(a) /\ b.path = a.path
       /\ \A n : ChildCells(b, n) = ChildCells(a, n)
  BY <1>7, <1>16, SameBaseOp DEF SameBase
<1>25. ArchExact(b)
  <2>1. PartsExact(b)
    BY <1>7, <1>16, <1>24 DEF PartsExact
  <2> QED
    BY <1>5, <1>7, <1>16, <1>24, <2>1 DEF ArchExact
<1>26. Kept(a, b)
  BY <1>16, <1>24 DEF Kept, PartMade
<1>27. Grown
  <2>1. Len(arch) <= Len(arch')
    BY <1>9, <1>21
  <2> QED
    BY <1>3, <1>16, <1>21, <1>22, <2>1, KeptSame DEF Grown
<1>28. GoesOn(t, o, b, mine[t], at)
  <2>1. o = call[t].obj /\ b.fmt = arch[o].fmt /\ ArchiveCall(c, arch[o])
    BY <1>1, <1>2, <1>3, <1>5, <1>24
  <2>2. c \in CallTypes /\ c = call[t] /\ c.stage \in {"collect", "fill"} /\ c.op \in ArchiveOps
    BY <1>1, <1>4, <1>5
  <2> QED
    BY <1>4, <1>16, <2>1, <2>2, ThenOp
<1>29. PICK d \in CallTypes, x \in AnswerTypes :
         /\ call' = [call EXCEPT ![t] = d] /\ answer' = [answer EXCEPT ![t] = x] /\ AnswerRight(x)
         /\ d = Idle \/ d.obj = o
         /\ d.stage \in {"idle", "use"} /\ CallExact(d, mine[t], b, at)
  BY <1>28 DEF GoesOn
<1>30. call' \in [Threads -> CallTypes] /\ call'[t] = d /\ \A u \in Threads \ {t} : call'[u] = call[u]
  BY <1>6, <1>29
<1>31. answer' \in [Threads -> AnswerTypes] /\ answer'[t] = x /\ \A u \in Threads \ {t} : answer'[u] = answer[u]
  BY <1>6, <1>29
<1>32. Alone(t)
  BY <1>4, <1>30, <1>31 DEF Alone
<1>33. Types'
  <2>1. d.obj \in 0 .. Len(arch')
    BY <1>5, <1>9, <1>21, <1>29, IdleOp
  <2>2. Len(arch) <= Len(arch')
    BY <1>27 DEF Grown
  <2>3. d.stage \notin {"read", "sought"} /\ gil' \in {gil, None}
    BY <1>4, <1>29
  <2> QED
    BY <1>4, <1>6, <1>21, <1>30, <1>31, <1>32, <2>1, <2>2, <2>3, TypesStep
<1>34. \A y \in DOMAIN arch' : ArchExact(arch'[y])
  <2>1. \A y \in DOMAIN arch : ArchExact(arch[y])
    BY DEF Undisturbed
  <2> QED
    BY <1>14, <1>22, <1>23, <1>25, <2>1
<1>35. ASSUME NEW y \in DOMAIN arch' PROVE (arch[y].parsed /\ Settled(y) => DictExact(arch[y]))'
  <2>1. CASE y = o
    <3>1. Names(NodeAt(b.path))' = Names(NodeAt(b.path))
      BY <1>4, SameTree
    <3>2. \A n \in DOMAIN b.dict : DictHas(b, n)'
      BY <1>4, <1>7, <1>14, <1>16, SameTree
    <3>3. ASSUME NEW n \in DOMAIN b.dict PROVE DictLeads(b, n)'
      <4>1. PICK i \in DOMAIN made : b.dict[n].obj = base + i /\ made[i].header = HeadOf(ChildCells(a, n))
        BY <1>14, <1>16
      <4>2. base + i \in DOMAIN arch' /\ arch'[base + i] = made[i]
        BY <1>20, <1>21
      <4>3. ChildCells(b, n)' = ChildCells(a, n)
        BY <1>4, <1>24, SameTree
      <4> QED
        BY <4>1, <4>2, <4>3 DEF DictLeads
    <3>4. DictExact(b)'
      BY <1>14, <1>16, <1>24, <3>1, <3>2, <3>3 DEF DictExact
    <3> QED
      BY <1>22, <2>1, <3>4 DEF DictExact
  <2>2. CASE y \in DOMAIN arch /\ y # o
    <3>1. Settled(y)' => Settled(y)
      BY <1>1, <1>2, <1>30, <2>2 DEF Settled
    <3>2. arch'[y] = arch[y] /\ (arch[y].parsed /\ Settled(y) => DictExact(arch[y]))
      BY <1>22, <2>2 DEF Undisturbed
    <3>3. DictExact(arch[y]) => DictExact(arch[y])'
      BY <1>4, <1>27, <2>2, <3>2, DictKept
    <3> QED
      BY <3>1, <3>2, <3>3
  <2>3. CASE y \notin DOMAIN arch
    BY <1>14, <1>23, <2>3
  <2> QED
    BY <2>1, <2>2, <2>3
<1>36. ASSUME NEW u \in Threads \ {t}, call[u].op \in ArchiveOps
       PROVE  Kept(arch[call[u].obj], arch'[call[u].obj])
  <2>1. call[u].obj \in DOMAIN arch
    BY <1>36, BusyOp
  <2> QED
    BY <1>3, <1>22, <1>26, <2>1, KeptSame
<1>37. Fits(mine'[t]) /\ AnswerRight(answer'[t]) /\ CallExact(call'[t], mine'[t], arch'[call'[t].obj], at')
  <2>1. CallExact(d, mine[t], arch'[d.obj], at)
    BY <1>22, <1>29, IdleExact
  <2> QED
    BY <1>4, <1>5, <1>29, <1>30, <1>31, <2>1
<1> QED
  BY <1>4, <1>27, <1>30, <1>32, <1>33, <1>34, <1>35, <1>36, <1>37, StepOp
-----------------------------------------------------------------------------
(* open and get_partition.                                                 *)

LEMMA LastFront ==
  ASSUME NEW S, NEW s \in Seq(S), NEW n \in S
  PROVE  Last(Append(s, n)) = n /\ Front(Append(s, n)) = s /\ Append(s, n) \in Seq(S)
BY DEF Last, Front

LEMMA UseOp ==
  ASSUME Types, Undisturbed, NEW t \in Threads, NEW op \in {"open", "partition"}, NEW found \in BOOLEAN,
         UseReturns(t, op, found)
  PROVE  /\ call[t].stage = "use" /\ call[t].op = op /\ Free(t) /\ gil' = gil
         /\ tree' = tree /\ kind' = kind /\ at' = at /\ arch' = arch /\ calls' = calls /\ faults' = faults
         /\ call[t].op \in ArchiveOps /\ call[t] \in CallTypes /\ mine[t] \in FileTypes /\ Fits(mine[t])
         /\ call[t].obj \in DOMAIN arch /\ arch[call[t].obj] \in ArchTypes /\ ArchExact(arch[call[t].obj])
         /\ arch[call[t].obj].parsed /\ (op = "open" => arch[call[t].obj].fmt # "HEAD")
         /\ call' = [call EXCEPT ![t] = Idle]
         /\ \E a \in AnswerTypes :
              /\ answer' = [answer EXCEPT ![t] = a]
              /\ (found <=> call[t].name \in DOMAIN arch[call[t].obj].dict) => AnswerRight(a)
<1>1. PICK c : c = call[t]
  OBVIOUS
<1>2. PICK o : o = c.obj
  OBVIOUS
<1>3. PICK b : b = arch[o]
  OBVIOUS
<1>4. /\ c.stage = "use" /\ c.op = op /\ Free(t) /\ gil' = gil
      /\ tree' = tree /\ kind' = kind /\ at' = at /\ arch' = arch /\ calls' = calls /\ faults' = faults
  BY <1>1 DEF UseReturns
<1>5. /\ c.op \in ArchiveOps /\ c \in CallTypes /\ mine[t] \in FileTypes /\ Fits(mine[t])
      /\ o \in DOMAIN arch /\ b \in ArchTypes /\ ArchExact(b) /\ ArchiveCall(c, b)
  BY <1>1, <1>2, <1>3, <1>4, ArchiveBusy
<1>6. b.parsed /\ (op = "open" => b.fmt # "HEAD")
  BY <1>4, <1>5 DEF ArchiveCall
<1>7. PICK a : a = [Nothing EXCEPT !.op = op, !.ok = found, !.excuse = Refilled(t),
                                   !.path = Append(b.path, c.name)]
  OBVIOUS
<1>8. call' = [call EXCEPT ![t] = Idle] /\ answer' = [answer EXCEPT ![t] = a]
  BY <1>1, <1>2, <1>3, <1>7 DEF UseReturns, Return, Continue
<1>9. c.name \in Words /\ b.path \in Seq(Words)
  BY <1>5 DEF CallTypes, ArchTypes
<1>10. Last(Append(b.path, c.name)) = c.name /\ Front(Append(b.path, c.name)) = b.path
       /\ Append(b.path, c.name) \in Seq(Words)
  BY <1>9, LastFront
<1>11. PICK excuse \in BOOLEAN : excuse = Refilled(t)
  BY DEF Refilled
<1>12. PICK path \in Seq(Words) : path = Append(b.path, c.name)
  BY <1>10
<1>13. a = [Nothing EXCEPT !.op = op, !.ok = found, !.excuse = excuse, !.path = path]
  BY <1>7, <1>11, <1>12
<1>14. a \in AnswerTypes /\ a.op = op /\ a.ok = found /\ a.excuse = excuse /\ a.path = path
  BY <1>13, IdleOp DEF Nothing, AnswerTypes, Ops
<1>15. ASSUME found <=> c.name \in DOMAIN b.dict PROVE AnswerRight(a)
  <2>1. ASSUME ~Refilled(t) PROVE c.name \in DOMAIN b.dict <=> c.name \in Names(NodeAt(b.path))
    <3>1. Settled(o)
      BY <1>1, <1>2, <1>4, <2>1 DEF Settled, Refilled
    <3>2. DictExact(b)
      BY <1>3, <1>5, <1>6, <3>1 DEF Undisturbed
    <3> QED
      BY <3>2 DEF DictExact
  <2>2. Found(a)
    BY <1>10, <1>11, <1>12, <1>14, <1>15, <2>1 DEF Found
  <2>3. ReadRight(a)
    BY <1>14 DEF ReadRight
  <2> QED
    BY <2>2, <2>3 DEF AnswerRight
<1> QED
  BY <1>1, <1>2, <1>3, <1>4, <1>5, <1>6, <1>8, <1>14, <1>15

LEMMA PartitionEndsStep ==
  ASSUME Types, Undisturbed, NEW t \in Threads, PartitionEnds(t)
  PROVE  Types' /\ (~Mixed' => Undisturbed')
<1>1. PICK found \in BOOLEAN : found = (call[t].name \in DOMAIN arch[call[t].obj].dict)
  <2>1. (call[t].name \in DOMAIN arch[call[t].obj].dict) \in BOOLEAN
    OBVIOUS
  <2> WITNESS (call[t].name \in DOMAIN arch[call[t].obj].dict) \in BOOLEAN
  <2> QED
    OBVIOUS
<1>2. UseReturns(t, "partition", found) /\ mine' = mine
  BY <1>1 DEF PartitionEnds
<1>3. /\ call[t].stage = "use" /\ Free(t) /\ gil' = gil
      /\ tree' = tree /\ kind' = kind /\ at' = at /\ arch' = arch /\ calls' = calls /\ faults' = faults
      /\ mine[t] \in FileTypes /\ Fits(mine[t]) /\ call' = [call EXCEPT ![t] = Idle]
      /\ \E a \in AnswerTypes :
           /\ answer' = [answer EXCEPT ![t] = a]
           /\ (found <=> call[t].name \in DOMAIN arch[call[t].obj].dict) => AnswerRight(a)
  BY <1>2, UseOp
<1>4. PICK a \in AnswerTypes : answer' = [answer EXCEPT ![t] = a] /\ AnswerRight(a)
  BY <1>1, <1>3
<1>5. mine' = [mine EXCEPT ![t] = mine[t]] /\ Idle.obj \in 0 .. Len(arch) /\ Idle.stage \notin {"read", "sought"}
  BY <1>2, IdleOp DEF Types
<1>6. call[t].stage # "fill" /\ gil' \in {gil, None}
  BY <1>3
<1> QED
  BY <1>3, <1>4, <1>5, <1>6, IdleOp, IdleExact, EndStep

\* Nobody is filling the dictionary of a Pfs or Hfs.
LEMMA TableSettled ==
  ASSUME Types, Undisturbed, NEW o \in DOMAIN arch, arch[o].fmt # "HEAD"
  PROVE  Settled(o)
<1>1. ASSUME NEW t \in Threads, call[t].stage = "fill" PROVE call[t].obj # o
  BY <1>1, ArchiveBusy DEF ArchiveCall
<1> QED
  BY <1>1 DEF Settled

LEMMA OpenEndsStep ==
  ASSUME Types, Undisturbed, NEW t \in Threads, OpenEnds(t)
  PROVE  Types' /\ (~Mixed' => Undisturbed')
<1>1. PICK o : o = call[t].obj
  OBVIOUS
<1>2. PICK b : b = arch[o]
  OBVIOUS
<1>3. PICK n : n = call[t].name
  OBVIOUS
<1>4. PICK found \in BOOLEAN : found = (n \in DOMAIN b.dict)
  <2>1. (n \in DOMAIN b.dict) \in BOOLEAN
    OBVIOUS
  <2> WITNESS (n \in DOMAIN b.dict) \in BOOLEAN
  <2> QED
    OBVIOUS
<1>5. PICK f : f = [path |-> Append(b.path, n), lo |-> b.lo + b.data + b.dict[n].off,
                    size |-> b.dict[n].size, pos |-> 0]
  OBVIOUS
<1>6. UseReturns(t, "open", found) /\ mine' = IF found THEN [mine EXCEPT ![t] = f] ELSE mine
  BY <1>1, <1>2, <1>3, <1>4, <1>5 DEF OpenEnds
<1>7. /\ call[t].stage = "use" /\ Free(t) /\ gil' = gil
      /\ tree' = tree /\ kind' = kind /\ at' = at /\ arch' = arch /\ calls' = calls /\ faults' = faults
      /\ mine[t] \in FileTypes /\ Fits(mine[t]) /\ call' = [call EXCEPT ![t] = Idle]
      /\ call[t] \in CallTypes /\ call[t].obj \in DOMAIN arch /\ arch[call[t].obj] \in ArchTypes
      /\ ArchExact(arch[call[t].obj]) /\ arch[call[t].obj].parsed /\ arch[call[t].obj].fmt # "HEAD"
      /\ \E a \in AnswerTypes :
           /\ answer' = [answer EXCEPT ![t] = a]
           /\ (found <=> call[t].name \in DOMAIN arch[call[t].obj].dict) => AnswerRight(a)
  BY <1>6, UseOp
<1>8. PICK a \in AnswerTypes : answer' = [answer EXCEPT ![t] = a] /\ AnswerRight(a)
  BY <1>1, <1>2, <1>3, <1>4, <1>7
<1>9. /\ o \in DOMAIN arch /\ b \in ArchTypes /\ ArchExact(b) /\ b.parsed /\ b.fmt # "HEAD" /\ n \in Words
      /\ tree \in DOMAIN Trees /\ mine \in [Threads -> FileTypes]
  BY <1>1, <1>2, <1>3, <1>7 DEF CallTypes, Types
<1>10. DictExact(b)
  BY <1>2, <1>9, TableSettled DEF Undisturbed
<1>11. Fits(b) /\ b.path \in DOMAIN Trees[tree] /\ b.lo \in Nat /\ b.data \in Nat
  BY <1>9 DEF ArchExact, Fits, ArchTypes
<1>12. ASSUME found PROVE f \in FileTypes /\ Fits(f)
  <2>1. DictHas(b, n) /\ n \in Names(NodeAt(b.path))
    BY <1>4, <1>10, <1>12 DEF DictExact
  <2>2. b.dict[n] \in [off : Nat, size : Nat, obj : Nat]
    <3>1. b.dict \in DictTypes /\ n \in DOMAIN b.dict
      BY <1>4, <1>9, <1>12 DEF ArchTypes
    <3>2. PICK names : b.dict \in [names -> [off : Nat, size : Nat, obj : Nat]]
      BY <3>1 DEF DictTypes
    <3> QED
      BY <3>1, <3>2
  <2>3. PICK pos \in Nat, size \in Nat : pos = b.data + b.dict[n].off /\ size = b.dict[n].size
    BY <1>11, <2>2
  <2>4. pos + size <= b.size /\ Part(CellsOf(b), pos, pos + size) = ChildCells(b, n)
    BY <2>1, <2>3 DEF DictHas
  <2>5. Append(b.path, n) \in DOMAIN Trees[tree]
    <3>1. PICK i \in DOMAIN NodeAt(b.path).files : NodeAt(b.path).files[i] = n
      BY <1>9, <1>11, <2>1, NameOp
    <3> QED
      BY <1>9, <1>11, <3>1, NodeOp
  <2>6. f.path = Append(b.path, n) /\ f.lo = b.lo + pos /\ f.size = size /\ f.pos = 0
    <3>1. b.dict[n].off \in Nat
      BY <2>2
    <3>2. f.lo = b.lo + b.data + b.dict[n].off
      BY <1>5
    <3>3. f.lo = b.lo + pos
      BY <1>11, <2>3, <3>1, <3>2
    <3> QED
      BY <1>5, <2>3, <3>3
  <2>7. Placed(b, f, pos, size)
    BY <2>4, <2>6 DEF Placed
  <2>8. Fits(f) /\ f.lo \in Nat /\ f.size \in Nat
    BY <1>9, <1>11, <2>4, <2>5, <2>6, <2>7, ChildFits
  <2>9. Append(b.path, n) \in Seq(Words)
    BY <1>9, <2>5, NodeOp
  <2>10. f = [path |-> f.path, lo |-> f.lo, size |-> f.size, pos |-> f.pos]
    BY <1>5
  <2>11. f.path \in Seq(Words) /\ f.lo \in Nat /\ f.size \in Nat /\ f.pos \in Nat
    BY <2>6, <2>8, <2>9
  <2>12. f \in FileTypes
    BY <2>10, <2>11 DEF FileTypes
  <2> QED
    BY <2>8, <2>12
<1>13. PICK g \in FileTypes : mine' = [mine EXCEPT ![t] = g] /\ Fits(g)
  <2>1. CASE found
    BY <1>6, <1>12, <2>1
  <2>2. CASE ~found
    <3>1. mine' = [mine EXCEPT ![t] = mine[t]]
      BY <1>6, <1>9, <2>2
    <3> QED
      BY <1>7, <3>1
  <2> QED
    BY <2>1, <2>2
<1>14. Idle.obj \in 0 .. Len(arch) /\ Idle.stage \notin {"read", "sought"}
  BY IdleOp DEF Types
<1>15. call[t].stage # "fill" /\ gil' \in {gil, None}
  BY <1>7
<1> QED
  BY <1>7, <1>8, <1>13, <1>14, <1>15, IdleOp, IdleExact, EndStep

LEMMA RunsStep ==
  ASSUME Types, Undisturbed, ~Mixed, NEW t \in Threads, Runs(t)
  PROVE  Types' /\ (~Mixed' => Undisturbed')
BY SeekStep, ReadStep, ReadEndsStep, MatchEndsStep, ConstructStep, NewEndsStep, ValidStep, ParseEndsStep,
   CollectStep, FillStep, OpenEndsStep, PartitionEndsStep DEF Runs
-----------------------------------------------------------------------------
(* The invariant.                                                          *)

LEMMA InitInv == Init => Inv
<1> SUFFICES ASSUME Init PROVE Inv
  OBVIOUS
<1> USE DEF Init
<1>1. <<>> \in DOMAIN Trees[tree] /\ NodeAt(<<>>).fmt \in Formats /\ Image \in Buffer /\ Len(Image) \in Nat
  BY RootOp
<1>2. PICK header : header = Image[1]
  OBVIOUS
<1>3. header = HeadOf(Image) /\ header \in Cells \cup {Zeros}
  <2>1. NodeAt(<<>>).fmt = FormatOf(Image)
    BY <1>1, NodeOp DEF Image
  <2>2. HeadOf(Image).is \in Formats
    BY <1>1, <2>1, LensOp DEF FormatOf
  <2>3. Image # <<>>
    BY <2>2, CellOp DEF HeadOf
  <2> QED
    BY <1>1, <1>2, <2>3, HeadOp DEF HeadOf
<1>4. PICK a : a = Archive(NodeAt(<<>>).fmt, <<>>, 0, Len(Image), header)
  OBVIOUS
<1>5. arch = <<a>>
  BY <1>2, <1>4
<1>6. <<>> \in Seq(Words)
  OBVIOUS
<1>7. /\ a \in ArchTypes /\ a.path = <<>> /\ a.lo = 0 /\ a.size = Len(Image) /\ a.header = header
      /\ a.data = 0 /\ a.parts = <<>> /\ ~a.parsed
  <2>1. PICK fmt \in Formats : fmt = NodeAt(<<>>).fmt
    BY <1>1
  <2>2. PICK path \in Seq(Words) : path = <<>>
    BY <1>6
  <2>3. PICK lo \in Nat : lo = 0
    OBVIOUS
  <2>4. PICK size \in Nat : size = Len(Image)
    BY <1>1
  <2>5. a = Archive(fmt, path, lo, size, header) /\ header \in Cells \cup {Zeros}
    BY <1>3, <1>4, <2>1, <2>2, <2>3, <2>4
  <2>6. /\ a \in ArchTypes /\ a.path = path /\ a.lo = lo /\ a.size = size /\ a.header = header
        /\ a.data = 0 /\ a.parts = <<>> /\ ~a.parsed
    BY <2>5, ArchiveOp
  <2> QED
    BY <2>2, <2>3, <2>4, <2>6
<1>8. arch \in Seq(ArchTypes) /\ Len(arch) = 1 /\ DOMAIN arch = {1} /\ arch[1] = a
  BY <1>5, <1>7
<1>9. RootFile \in FileTypes /\ RootFile.path = <<>> /\ RootFile.lo = 0 /\ RootFile.size = Len(Image)
  BY <1>1, <1>6 DEF RootFile, FileTypes
<1>10. Part(Image, 0, 0 + Len(Image)) = Image
  <2>1. 0 + Len(Image) = Len(Image)
    BY <1>1
  <2>2. Part(Image, 0, Len(Image)) = Image
    BY <1>1 DEF Part, Buffer
  <2> QED
    BY <2>1, <2>2
<1>11. Fits(a) /\ Fits(RootFile)
  BY <1>1, <1>7, <1>9, <1>10 DEF Fits, Covers, Image
<1>12. ArchExact(a)
  BY <1>3, <1>7, <1>11, FreshExact DEF CellsOf, Image
<1>13. Types
  <2>1. LockHeld
    BY IdleOp DEF LockHeld
  <2>2. /\ mine \in [Threads -> FileTypes] /\ call \in [Threads -> CallTypes]
        /\ answer \in [Threads -> AnswerTypes]
    BY <1>9, IdleOp
  <2>3. \A t \in Threads : call[t].obj \in 0 .. Len(arch)
    BY <1>8, IdleOp
  <2>4. calls \in [Threads -> Nat] /\ \A t \in Threads : calls[t] <= CallBound[t]
    BY BindingsAssumption
  <2>5. faults \in 0 .. FaultBound /\ at \in 0 .. Len(Image)
    BY <1>1, BindingsAssumption
  <2> QED
    BY <1>8, <2>1, <2>2, <2>3, <2>4, <2>5 DEF Types
<1>14. ~Mixed
  BY DEF Mixed, Idle
<1>15. Undisturbed
  <2>1. \A o \in DOMAIN arch : ArchExact(arch[o]) /\ ~arch[o].parsed
    BY <1>7, <1>8, <1>12
  <2>2. ASSUME NEW t \in Threads
        PROVE  Fits(mine[t]) /\ CallExact(call[t], mine[t], arch[call[t].obj], at) /\ AnswerRight(answer[t])
    <3>1. mine[t] = RootFile /\ call[t] = Idle /\ answer[t] = Nothing
      OBVIOUS
    <3> QED
      BY <1>11, <3>1, IdleOp, IdleExact
  <2> QED
    BY <2>1, <2>2 DEF Undisturbed
<1> QED
  BY <1>13, <1>14, <1>15 DEF Inv

LEMMA NextInv == Inv /\ [Next]_vars => Inv'
<1> SUFFICES ASSUME Inv, [Next]_vars PROVE Inv'
  OBVIOUS
<1>1. CASE Next
  <2>1. ~disturbed /\ ~Mixed /\ Types /\ Undisturbed
    BY <1>1 DEF Inv, Next
  <2>2. PICK t \in Threads : Calls(t) \/ Runs(t)
    BY <1>1 DEF Next
  <2>3. Types' /\ (~Mixed' => Undisturbed')
    BY <2>1, <2>2, CallsStep, RunsStep
  <2>4. disturbed' = (disturbed \/ Mixed')
    BY <1>1 DEF Next
  <2>5. Mixed' \in BOOLEAN
    BY DEF Mixed
  <2>6. disturbed' \in BOOLEAN /\ (disturbed' <=> Mixed')
    BY <2>1, <2>4, <2>5
  <2> QED
    BY <2>3, <2>6 DEF Inv
<1>2. CASE UNCHANGED vars
  <2>1. /\ tree' = tree /\ kind' = kind /\ gil' = gil /\ at' = at /\ arch' = arch /\ mine' = mine
        /\ call' = call /\ answer' = answer /\ calls' = calls /\ faults' = faults /\ disturbed' = disturbed
    BY <1>2 DEF vars
  <2>2. Types' <=> Types
    BY <2>1 DEF Types, LockHeld, Image, NodeAt
  <2>3. Mixed' <=> Mixed
    BY <2>1 DEF Mixed
  <2>4. ASSUME Undisturbed PROVE Undisturbed'
    <3>1. \A o : Settled(o)' <=> Settled(o)
      BY <2>1 DEF Settled
    <3>2. ASSUME NEW o \in DOMAIN arch, DictExact(arch[o]) PROVE DictExact(arch[o])'
      <4>1. \A n : DictHas(arch[o], n)' <=> DictHas(arch[o], n)
        BY <2>1, SameTree
      <4>2. \A n : DictLeads(arch[o], n)' <=> DictLeads(arch[o], n)
        <5>1. \A n : ChildCells(arch[o], n)' = ChildCells(arch[o], n)
          BY <2>1, SameTree
        <5> QED
          BY <2>1, <5>1 DEF DictLeads
      <4>3. Names(NodeAt(arch[o].path))' = Names(NodeAt(arch[o].path))
        BY <2>1, SameTree
      <4> QED
        BY <2>1, <3>2, <4>1, <4>2, <4>3 DEF DictExact
    <3>3. \A o \in DOMAIN arch : ArchExact(arch[o])'
      BY <2>1, <2>4, SameTree DEF Undisturbed
    <3>4. \A t \in Threads : (Fits(mine[t]) /\ CallExact(call[t], mine[t], arch[call[t].obj], at) /\ AnswerRight(answer[t]))'
      BY <2>1, <2>4, SameTree DEF Undisturbed
    <3>5. \A o \in DOMAIN arch : (arch[o].parsed /\ Settled(o) => DictExact(arch[o]))'
      BY <2>1, <2>4, <3>1, <3>2 DEF Undisturbed
    <3> QED
      BY <2>1, <3>3, <3>4, <3>5 DEF Undisturbed
  <2> QED
    BY <2>1, <2>2, <2>3, <2>4 DEF Inv
<1> QED
  BY <1>1, <1>2

\* In every state of every run the invariant holds.
LEMMA Invariant == Spec => []Inv
<1>1. Init => Inv
  BY InitInv
<1>2. Inv /\ [Next]_vars => Inv'
  BY NextInv
<1> QED
  BY <1>1, <1>2, PTL DEF Spec

-----------------------------------------------------------------------------
(* What it gives.                                                          *)

LEMMA InvTypeOK == Inv => TypeOK
<1> SUFFICES ASSUME Inv PROVE TypeOK
  OBVIOUS
<1>1. Types /\ disturbed \in BOOLEAN
  BY DEF Inv
<1>2. ASSUME NEW t \in Threads
      PROVE  /\ mine[t].lo + mine[t].size <= Len(Image) \/ disturbed
             /\ call[t].obj \in 0 .. Len(arch)
             /\ call[t].stage = "sought" /\ kind = "path" => gil = t
             /\ calls[t] \in 0 .. CallBound[t]
  <2>1. mine[t].lo + mine[t].size <= Len(Image) \/ disturbed
    BY DEF Inv, Undisturbed, Fits
  <2>2. call[t].obj \in 0 .. Len(arch) /\ (call[t].stage = "sought" /\ kind = "path" => gil = t)
    BY <1>1 DEF Types, LockHeld
  <2>3. calls[t] \in 0 .. CallBound[t]
    BY <1>1, BindingsAssumption DEF Types
  <2> QED
    BY <2>1, <2>2, <2>3
<1> QED
  BY <1>1, <1>2 DEF TypeOK, Types

LEMMA InvFiles == Inv => FilesExact
BY DEF Inv, Undisturbed, Fits, FilesExact

LEMMA InvNames == Inv => NamesFound
BY DEF Inv, Undisturbed, AnswerRight, Found, NamesFound

LEMMA InvReads == Inv => ReadsRight
BY DEF Inv, Undisturbed, AnswerRight, ReadRight, ReadsRight

\* What a name in a dictionary leads to.
LEMMA DictGives ==
  ASSUME Types, Undisturbed, NEW o \in DOMAIN arch, arch[o].parsed, DictExact(arch[o]),
         NEW n \in DOMAIN arch[o].dict, NEW a, a = arch[o]
  PROVE  /\ Part(Image, a.lo + a.data + a.dict[n].off,
                   a.lo + a.data + a.dict[n].off + a.dict[n].size) = NodeAt(Append(a.path, n)).cells
         /\ a.fmt = "HEAD" => arch[a.dict[n].obj].header = NodeAt(Append(a.path, n)).cells[1]
<1>1. tree \in DOMAIN Trees /\ a \in ArchTypes /\ ArchExact(a) /\ IsValid(a)
  BY DEF Types, Undisturbed, ArchExact
<1>2. Sound(a) /\ Fits(a) /\ a.lo \in Nat /\ a.data \in Nat
  BY <1>1 DEF Sound, ArchExact, ArchTypes
<1>3. a.dict[n] \in [off : Nat, size : Nat, obj : Nat]
  <2>1. a.dict \in DictTypes
    BY <1>1 DEF ArchTypes
  <2>2. PICK names : a.dict \in [names -> [off : Nat, size : Nat, obj : Nat]]
    BY <2>1 DEF DictTypes
  <2> QED
    BY <2>2
<1>4. DictHas(a, n) /\ DictLeads(a, n) /\ n \in Names(NodeAt(a.path))
  BY DEF DictExact
<1>5. PICK pos \in Nat, size \in Nat, off \in Nat :
        pos = a.data + off /\ off = a.dict[n].off /\ size = a.dict[n].size
  BY <1>2, <1>3
<1>6. PICK end : end = pos + size
  OBVIOUS
<1>7. end <= a.size /\ Part(CellsOf(a), pos, end) = ChildCells(a, n) /\ end \in Nat
  BY <1>4, <1>5, <1>6 DEF DictHas
<1>8. /\ Image \in Buffer /\ Len(Image) \in Nat /\ a.size \in Nat /\ a.lo + a.size <= Len(Image)
      /\ Part(Image, a.lo, a.lo + a.size) = CellsOf(a)
  BY <1>1, <1>2, FitsOp DEF CellsOf
<1>9. Nested(Image, a.lo, a.size, pos, end)
  <2>1. pos <= end
    BY <1>6
  <2>2. a.lo \in Nat /\ a.size \in Nat /\ a.lo + a.size <= Len(Image)
    BY <1>2, <1>8
  <2>3. pos \in Nat /\ end \in Nat /\ end <= a.size
    BY <1>7
  <2> QED
    BY <2>1, <2>2, <2>3 DEF Nested
<1>10. Part(Image, a.lo + pos, a.lo + end) = Part(Part(Image, a.lo, a.lo + a.size), pos, end)
  BY <1>8, <1>9, PartOfPart DEF Buffer
<1>11. a.lo + pos = a.lo + a.data + a.dict[n].off
       /\ a.lo + end = a.lo + a.data + a.dict[n].off + a.dict[n].size
  <2>1. a.lo + pos = a.lo + a.data + off /\ a.lo + end = a.lo + a.data + off + size
    BY <1>2, <1>5, <1>6
  <2> QED
    BY <1>5, <2>1
<1>12. Part(Image, a.lo + a.data + a.dict[n].off,
              a.lo + a.data + a.dict[n].off + a.dict[n].size) = NodeAt(Append(a.path, n)).cells
  BY <1>7, <1>8, <1>10, <1>11 DEF ChildCells
<1>13. ASSUME a.fmt = "HEAD" PROVE arch[a.dict[n].obj].header = NodeAt(Append(a.path, n)).cells[1]
  <2>1. NodeAt(a.path).fmt = "HEAD" /\ a.path \in DOMAIN Trees[tree]
    BY <1>2, <1>13, Layout DEF Fits
  <2>2. PICK i \in DOMAIN NodeAt(a.path).files : NodeAt(a.path).files[i] = n /\ n \in Partitions
    BY <1>1, <1>4, <2>1, NameOp
  <2>3. NodeAt(Append(a.path, n)).fmt = "HFS0" /\ Append(a.path, n) \in DOMAIN Trees[tree]
    BY <1>1, <2>1, <2>2, NodeOp
  <2>4. HeadOf(ChildCells(a, n)).is = "HFS0"
    BY <1>1, <2>3, LensOp, FormatOp DEF ChildCells
  <2>5. ChildCells(a, n) # <<>>
    BY <2>4, LensOp, CellOp DEF HeadOf
  <2>6. HeadOf(ChildCells(a, n)) = NodeAt(Append(a.path, n)).cells[1]
    BY <2>5 DEF HeadOf, ChildCells
  <2> QED
    BY <1>4, <1>13, <2>6 DEF DictLeads
<1> QED
  BY <1>12, <1>13

LEMMA InvArchives == Inv => ArchivesExact
<1> SUFFICES ASSUME Inv, ~disturbed, NEW o \in DOMAIN arch
    PROVE  LET a == arch[o]
               node == NodeAt(a.path)
           IN  /\ Covers(a)
               /\ a.parsed => a.fmt = node.fmt
               /\ a.parsed /\ (\A t \in Threads : call[t].stage = "fill" => call[t].obj # o) =>
                    /\ DOMAIN a.dict = Names(node)
                    /\ \A n \in DOMAIN a.dict :
                         /\ Part(Image, a.lo + a.data + a.dict[n].off,
                                   a.lo + a.data + a.dict[n].off + a.dict[n].size) = NodeAt(Append(a.path, n)).cells
                         /\ a.fmt = "HEAD" => arch[a.dict[n].obj].header = NodeAt(Append(a.path, n)).cells[1]
  BY DEF ArchivesExact
<1>1. PICK a : a = arch[o]
  OBVIOUS
<1>2. Types /\ Undisturbed
  BY DEF Inv
<1>3. ArchExact(a) /\ a \in ArchTypes /\ tree \in DOMAIN Trees /\ (a.parsed /\ Settled(o) => DictExact(a))
  BY <1>1, <1>2 DEF Undisturbed, Types
<1>4. Covers(a)
  BY <1>3 DEF ArchExact, Fits
<1>5. a.parsed => a.fmt = NodeAt(a.path).fmt
  <2>1. a.parsed => Sound(a)
    BY <1>3 DEF ArchExact, Sound, ArchTypes
  <2> QED
    BY <2>1, Layout
<1>6. ASSUME a.parsed, \A t \in Threads : call[t].stage = "fill" => call[t].obj # o
      PROVE  /\ DOMAIN a.dict = Names(NodeAt(a.path))
             /\ \A n \in DOMAIN a.dict :
                  /\ Part(Image, a.lo + a.data + a.dict[n].off,
                            a.lo + a.data + a.dict[n].off + a.dict[n].size) = NodeAt(Append(a.path, n)).cells
                  /\ a.fmt = "HEAD" => arch[a.dict[n].obj].header = NodeAt(Append(a.path, n)).cells[1]
  <2>1. DictExact(a)
    BY <1>3, <1>6 DEF Settled
  <2>2. DOMAIN a.dict = Names(NodeAt(a.path))
    BY <2>1 DEF DictExact
  <2> QED
    BY <1>1, <1>2, <1>6, <2>1, <2>2, DictGives
<1> QED
  BY <1>1, <1>4, <1>5, <1>6

\* TypeOK: a file lies within the image, and only the thread with the lock is
\* between seek and read of a FILE.
THEOREM TypeCorrect == Spec => []TypeOK
BY Invariant, InvTypeOK, PTL

\* FilesExact: every file a program opens covers the cells of the entry it
\* named (Pfs::open, Hfs::open), unless two threads met in one object.
THEOREM FilesCorrect == Spec => []FilesExact
BY Invariant, InvFiles, PTL

\* ArchivesExact: a parsed archive lists the names of the archive of the image
\* it was made of, each with its own cells (parse, and the dictionaries).
THEOREM ArchivesCorrect == Spec => []ArchivesExact
BY Invariant, InvArchives, PTL

\* NamesFound: open and get_partition fail for unknown names only, but for
\* another thread that has emptied the dictionary of partitions.
THEOREM NamesCorrect == Spec => []NamesFound
BY Invariant, InvNames, PTL

\* ReadsRight: a read returns the cells it should and moves over them, and a
\* file at its start is recognised for what it is (PyFileBase_read, match).
THEOREM ReadsCorrect == Spec => []ReadsRight
BY Invariant, InvReads, PTL
=============================================================================
