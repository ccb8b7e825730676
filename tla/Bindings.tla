------------------------------- MODULE Bindings -------------------------------
(***************************************************************************)
(* The Pfs, Hfs and Xci formats (src/lib/pfs.cpp, hfs.cpp, xci.cpp) as a   *)
(* Python program uses them: the classes of hac.py, which parse an archive *)
(* when it is first needed, over those of bindings.cpp.                    *)
(*                                                                         *)
(* The file of all is a sequence of cells.  It is opened by its path, or   *)
(* it is a Python object, read through its methods seek and readinto: they *)
(* run Python code, so another thread can run between them, and they can   *)
(* raise an exception.  A call from Python into C++ has a step per read;   *)
(* but for the methods of such an object it keeps the interpreter's lock.  *)
(* An archive or file remembers, as a history, the path of names that led  *)
(* to it.                                                                  *)
(***************************************************************************)
EXTENDS Naturals, Sequences, SequencesExt

CONSTANTS
  Threads,     \* of the Python program
  None,
  Trees,       \* images by name: functions from paths to nodes [fmt, cells, files]
  HeaderLen,   \* cells of a header, for each format
  MetaLen,     \* cells of an entry of the file table, likewise
  Partitions,  \* the names of partition_map
  MatchLen,    \* cells read to recognise a format
  Lens,        \* lengths the program reads
  CallBound,   \* calls of each thread
  FaultBound   \* calls of seek and readinto that raise

Formats == {"PFS0", "HFS0", "HEAD"}

\* The name that a string table of zeros gives.
NoName == ""

\* A cell with nothing in it: what a buffer holds before it is read into.
Zeros == [is |-> "zero", num |-> 0, strings |-> 0, off |-> 0, size |-> 0, index |-> 0, text |-> NoName]

Cells == [is : STRING, num : Nat, strings : Nat, off : Nat, size : Nat, index : Nat, text : STRING]

\* The elements of a sequence behind a, up to b.
Part(s, a, b) == SubSeq(s, a + 1, b)

HeadOf(cells) == IF cells = <<>> THEN Zeros ELSE cells[1]

\* match of hac.hpp, of a buffer of zeros the cells are read into.
FormatOf(cells) == IF HeadOf(cells).is \in Formats THEN HeadOf(cells).is ELSE "Unknown"

\* A Pfs or Hfs that begins at base, as a builder lays it out: a header, a table
\* of entries, their names in any order, and the data the entries point at.
LaidOut(image, path, base, fmt) ==
  LET cells == image[path].cells
      files == image[path].files
      head  == cells[base + 1]
      table == base + HeaderLen[fmt]
      names == table + Len(files) * MetaLen[fmt]
      data  == names + head.strings
  IN  /\ table <= Len(cells) /\ data <= Len(cells)
      /\ head.is = fmt /\ head.num = Len(files)
      /\ \A i \in DOMAIN files :
           LET m == cells[table + (i - 1) * MetaLen[fmt] + 1]
           IN  /\ m.index < head.strings /\ cells[names + m.index + 1].text = files[i]
               /\ data + m.off + m.size <= Len(cells)
               /\ Part(cells, data + m.off, data + m.off + m.size) = image[Append(path, files[i])].cells

\* What the builder of an image guarantees: the names in an archive differ, what
\* is not an archive does not look like one, and the partitions are archives.
WellFormed(image) ==
  /\ <<>> \in DOMAIN image /\ image[<<>>].fmt \in Formats
  /\ \A path \in DOMAIN image :
       LET node == image[path]
       IN  /\ path \in Seq(STRING) /\ node.cells \in Seq(Cells) /\ node.files \in Seq(STRING)
           /\ IsInjective(node.files)
           /\ \A n \in ToSet(node.files) : Append(path, n) \in DOMAIN image
           /\ node.fmt = FormatOf(node.cells)
           /\ node.fmt = "Unknown" => node.files = <<>>
           /\ node.fmt \in {"PFS0", "HFS0"} => LaidOut(image, path, 0, node.fmt)
           /\ node.fmt = "HEAD" =>
                /\ LaidOut(image, path, node.cells[1].off, "HFS0")
                /\ \A n \in ToSet(node.files) \cap Partitions : image[Append(path, n)].fmt = "HFS0"

ASSUME BindingsAssumption ==
  /\ HeaderLen \in [Formats -> Nat \ {0}] /\ MetaLen \in [Formats -> Nat \ {0}]
  /\ MatchLen \in Nat \ {0} /\ Lens \subseteq Nat
  /\ CallBound \in [Threads -> Nat] /\ FaultBound \in Nat
  /\ None \notin Threads /\ None \notin [pos : Nat, len : Nat]
  /\ Partitions \subseteq STRING /\ NoName \notin Partitions
  /\ \A name \in DOMAIN Trees : WellFormed(Trees[name])

VARIABLES
  tree,      \* the name of the image
  kind,      \* "path" or "object"
  gil,       \* the thread that is inside a call into C++, or None
  at,        \* where the Python object stands between seek and readinto
  arch,      \* the archives made so far
  mine,      \* for each thread, the File it uses
  call,      \* for each thread, the call it is in
  answer,    \* for each thread, what its last call returned
  calls,     \* counts of calls
  faults,    \* count of calls that raised
  disturbed  \* history: two threads met where nothing keeps them apart

vars == <<tree, kind, gil, at, arch, mine, call, answer, calls, faults, disturbed>>

NodeAt(path) == Trees[tree][path]
Image == NodeAt(<<>>).cells

\* The names a program finds in an archive.
Names(node) == {n \in ToSet(node.files) : node.fmt = "HEAD" => n \in Partitions}

\* part is the entry Xci::parse made its last partition of.
Idle == [op |-> "none", stage |-> "idle", obj |-> 0, name |-> NoName, len |-> 0,
         reads |-> <<>>, part |-> 0, failed |-> FALSE]

Nothing == [op |-> "none", ok |-> TRUE, path |-> <<>>, excuse |-> FALSE, fmt |-> NoName,
            from |-> 0, to |-> 0, len |-> 0, cells |-> <<>>]

RootFile == [path |-> <<>>, lo |-> 0, size |-> Len(Image), pos |-> 0]

\* Files of the root itself are not OffsetFiles: File, or IoFile.
IsRoot(f) == f.path = <<>>

Archive(fmt, path, lo, size, header) ==
  [fmt |-> fmt, path |-> path, lo |-> lo, size |-> size, header |-> header, data |-> 0,
   entries |-> <<>>, parts |-> <<>>, dict |-> <<>>, parsed |-> FALSE]

\* The program begins with the file of all and an archive made of it.
Init ==
  /\ tree \in DOMAIN Trees
  /\ kind \in {"path", "object"}
  /\ gil = None
  /\ at = 0
  /\ arch = <<Archive(NodeAt(<<>>).fmt, <<>>, 0, Len(Image), Image[1])>>
  /\ mine = [t \in Threads |-> RootFile]
  /\ call = [t \in Threads |-> Idle]
  /\ answer = [t \in Threads |-> Nothing]
  /\ calls = [t \in Threads |-> 0] /\ faults = 0
  /\ disturbed = FALSE

-----------------------------------------------------------------------------
(* The reads of the formats.                                                *)

Lesser(a, b) == IF a < b THEN a ELSE b

\* A table of n entries behind a header at base, and the names behind it.
TableAt(base, fmt, n) == [pos |-> base + HeaderLen[fmt], len |-> n * MetaLen[fmt]]
NamesAt(base, fmt, head) ==
  [pos |-> base + HeaderLen[fmt] + head.num * MetaLen[fmt], len |-> head.strings]

\* Entries as the loops of parse make them.
Entries(fmt, n, metas, names) ==
  [i \in 1 .. n |->
     LET m == metas[(i - 1) * MetaLen[fmt] + 1]
     IN  [off |-> m.off, size |-> m.size,
          name |-> IF m.index < Len(names) THEN names[m.index + 1].text ELSE NoName]]

\* The entries of an Xci after the first three reads of Xci::parse, by where they
\* are in the card, and those of known names that have no partition yet.
XciEntries(o, reads) ==
  LET head == HeadOf(reads[1])
      data == NamesAt(o.header.off, "HFS0", head).pos + head.strings
      all  == Entries("HFS0", head.num, reads[2], reads[3])
  IN  [i \in DOMAIN all |-> [all[i] EXCEPT !.off = @ + data]]

Ahead(o, c) ==
  {i \in DOMAIN XciEntries(o, c.reads) : i > c.part /\ XciEntries(o, c.reads)[i].name \in Partitions}

\* The header of a partition, which ends where the partition does.
HeaderAt(e) == [pos |-> e.off, len |-> Lesser(HeaderLen["HFS0"], e.size)]

\* The next read of a call, in cells of the file it reads, or None.
ArchiveRead(o, c) ==
  LET k == Len(c.reads)
      h == o.header
  IN  IF o.fmt # "HEAD"
      THEN CASE k = 0 -> TableAt(0, o.fmt, h.num)
             [] k = 1 -> NamesAt(0, o.fmt, h)
             [] OTHER -> None
      ELSE CASE k = 0 -> [pos |-> h.off, len |-> HeaderLen["HFS0"]]
             [] k = 1 -> TableAt(h.off, "HFS0", HeadOf(c.reads[1]).num)
             [] k = 2 -> NamesAt(h.off, "HFS0", HeadOf(c.reads[1]))
             [] OTHER -> IF Ahead(o, c) = {} THEN None ELSE HeaderAt(XciEntries(o, c.reads)[Min(Ahead(o, c))])

\* PyFileBase_read clamps to what is left, but unsigned, so not behind the end.
Asked(f, len) == IF f.pos > f.size THEN len ELSE Lesser(len, f.size - f.pos)

NextRead(t) ==
  LET c == call[t]
      one(r) == IF c.reads = <<>> THEN r ELSE None
  IN  CASE c.op = "match" -> one([pos |-> mine[t].pos, len |-> MatchLen])
        [] c.op = "read"  -> one([pos |-> mine[t].pos, len |-> Asked(mine[t], c.len)])
        [] c.op = "new"   -> one([pos |-> 0, len |-> HeaderLen[c.name]])
        [] OTHER          -> ArchiveRead(arch[c.obj], c)

Reads(t) == IF call[t].op \in {"match", "read", "new"} THEN mine[t] ELSE arch[call[t].obj]

-----------------------------------------------------------------------------
(* What the program calls.                                                  *)

Free(t) == gil \in {None, t}
HeldMut(t) == None
Held(t) == IF kind = "path" THEN t ELSE None

Begin(t, c) ==
  /\ call[t] = Idle /\ Free(t) /\ calls[t] < CallBound[t]
  /\ calls' = [calls EXCEPT ![t] = @ + 1]
  /\ call' = [call EXCEPT ![t] = c]
  /\ gil' = IF c.stage = "read" THEN Held(t) ELSE gil
  /\ answer' = [answer EXCEPT ![t] = Nothing]
  /\ UNCHANGED <<tree, kind, at, arch, faults>>

\* Pfs(file), Hfs(file), Xci(file); match(file) and open_match(file).
New(t, fmt) ==
  Begin(t, [Idle EXCEPT !.op = "new", !.stage = "read", !.name = fmt]) /\ UNCHANGED mine
Match(t) ==
  Begin(t, [Idle EXCEPT !.op = "match", !.stage = "read"]) /\ UNCHANGED mine

\* A method of an archive begins with parse when there was none yet.  The
\* properties num_entries, entries and partitions do that and change nothing more.
UseArchive(t, o, op, name) ==
  /\ Begin(t, [Idle EXCEPT !.op = op, !.obj = o, !.name = name,
                           !.stage = IF op = "parse" \/ ~arch[o].parsed THEN "valid" ELSE "use"])
  /\ UNCHANGED mine

Parse(t, o) == UseArchive(t, o, "parse", NoName)
OpenEntry(t, o, name) == arch[o].fmt # "HEAD" /\ UseArchive(t, o, "open", name)
GetPartition(t, o, name) == arch[o].fmt = "HEAD" /\ UseArchive(t, o, "partition", name)

ReadFile(t, len) ==
  Begin(t, [Idle EXCEPT !.op = "read", !.stage = "read", !.len = len]) /\ UNCHANGED mine

\* FileBase::seek to pos, by whichever whence.
SeekFile(t, pos) ==
  /\ call[t] = Idle /\ Free(t) /\ calls[t] < CallBound[t]
  /\ calls' = [calls EXCEPT ![t] = @ + 1]
  /\ mine' = [mine EXCEPT ![t].pos = pos]
  /\ answer' = [answer EXCEPT ![t] = Nothing]
  /\ UNCHANGED <<tree, kind, gil, at, arch, call, faults>>

\* clone: only the copy of a File stands where the original does.
CloneFile(t) ==
  /\ ~(kind = "path" /\ IsRoot(mine[t]))
  /\ SeekFile(t, 0)

-----------------------------------------------------------------------------
(* The reads of a call.                                                     *)

Continue(t, c) == call' = [call EXCEPT ![t] = c]
Parsing(t) == call[t].op \in {"parse", "open", "partition"}

\* What a read leaves: the cells, and from the fourth of Xci::parse on another
\* partition, whose header stays undefined when the read fails.
Got(t, cells, failed) ==
  LET c == call[t]
      got == [c EXCEPT !.stage = "read", !.reads = Append(@, cells), !.failed = failed]
      i == Min(Ahead(arch[c.obj], c))
      e == XciEntries(arch[c.obj], c.reads)[i]
  IN  IF Parsing(t) /\ arch[c.obj].fmt = "HEAD" /\ Len(c.reads) >= 3
      THEN /\ Continue(t, [got EXCEPT !.part = i])
           /\ arch' = [arch EXCEPT ![c.obj].parts =
                Append(@, [off |-> e.off, size |-> e.size, name |-> e.name, header |-> HeadOf(cells)])]
      ELSE Continue(t, got) /\ UNCHANGED arch

Fails(t) ==
  /\ kind = "object"
  /\ call[t].failed \/ faults < FaultBound
  /\ faults' = IF call[t].failed THEN faults ELSE faults + 1
  /\ Got(t, [i \in 1 .. NextRead(t).len |-> Zeros], TRUE)
  /\ at' = IF call[t].stage = "sought" THEN 0 ELSE at

\* OffsetFile::read clamps to the size of the entry.
From(t) == Lesser(NextRead(t).pos, Reads(t).size)
Length(t) == Lesser(NextRead(t).len, Reads(t).size - From(t))

SeekMut(t) ==
  /\ call[t].stage = "read" /\ Free(t) /\ NextRead(t) # None
  /\ \/ /\ ~call[t].failed
        /\ at' = IF call[t].op = "new" THEN Reads(t).lo + From(t) ELSE at
        /\ Continue(t, [call[t] EXCEPT !.stage = "sought"])
        /\ UNCHANGED <<arch, faults>>
     \/ Fails(t)
  /\ UNCHANGED <<tree, kind, gil, mine, answer, calls>>

\* seek of the Python object; fseek, of a FILE that no other thread reads now.
Seek(t) ==
  /\ call[t].stage = "read" /\ Free(t) /\ NextRead(t) # None
  /\ \/ /\ ~call[t].failed
        /\ at' = Reads(t).lo + From(t)
        /\ Continue(t, [call[t] EXCEPT !.stage = "sought"])
        /\ UNCHANGED <<arch, faults>>
     \/ Fails(t)
  /\ UNCHANGED <<tree, kind, gil, mine, answer, calls>>

\* readinto; fread.  Where the object or FILE stands afterwards makes no
\* difference, as the next read seeks first.
Read(t) ==
  /\ call[t].stage = "sought" /\ Free(t)
  /\ LET cells == Part(Image, at, Lesser(at + Length(t), Len(Image)))
     IN  \/ /\ at' = 0
            /\ Got(t, cells, FALSE)
            /\ UNCHANGED faults
         \/ Fails(t)
  /\ UNCHANGED <<tree, kind, gil, mine, answer, calls>>

-----------------------------------------------------------------------------
(* The ends of the calls.                                                   *)

Return(t, a) == Continue(t, Idle) /\ answer' = [answer EXCEPT ![t] = a]
Raise(t) == Return(t, [Nothing EXCEPT !.op = call[t].op, !.ok = FALSE, !.excuse = TRUE])

Ended(t, op) ==
  /\ call[t].op = op /\ call[t].stage = "read" /\ Free(t) /\ NextRead(t) = None
  /\ gil' = None
  /\ UNCHANGED <<tree, kind, at, calls, faults>>

\* Where a file stands after it was asked for len cells and gave got: an IoFile
\* never moves, an OffsetFile moves by what it was asked for.
After(f, len, got) ==
  IF ~IsRoot(f) THEN f.pos + len ELSE IF kind = "path" THEN f.pos + got ELSE f.pos

ReadEnds(t) ==
  LET c == call[t]
      f == mine[t]
      to == After(f, Asked(f, c.len), Len(c.reads[1]))
  IN  /\ Ended(t, "read")
      /\ mine' = [mine EXCEPT ![t].pos = to]
      /\ IF c.failed THEN Raise(t)
         ELSE Return(t, [Nothing EXCEPT !.op = "read", !.path = f.path, !.from = f.pos,
                                        !.to = to, !.len = c.len, !.cells = c.reads[1]])
      /\ UNCHANGED arch

\* open_match goes on with the class of the format.
MatchEnds(t) ==
  LET c == call[t]
      f == mine[t]
      fmt == FormatOf(c.reads[1])
  IN  /\ Ended(t, "match")
      /\ mine' = [mine EXCEPT ![t].pos = After(f, MatchLen, Len(c.reads[1]))]
      /\ IF c.failed THEN Raise(t)
         ELSE \/ Return(t, [Nothing EXCEPT !.op = "match", !.path = f.path, !.from = f.pos,
                                           !.fmt = fmt])
              \/ /\ fmt \in Formats
                 /\ Continue(t, [Idle EXCEPT !.op = "new", !.stage = "construct", !.name = fmt])
                 /\ UNCHANGED answer
      /\ UNCHANGED arch

Construct(t) ==
  /\ call[t].stage = "construct" /\ Free(t)
  /\ Continue(t, [call[t] EXCEPT !.stage = "read"])
  /\ gil' = Held(t)
  /\ UNCHANGED <<tree, kind, at, arch, mine, answer, calls, faults>>

NewEnds(t) ==
  LET c == call[t]
      f == mine[t]
  IN  /\ Ended(t, "new")
      /\ IF c.failed THEN Raise(t) /\ UNCHANGED arch
         ELSE /\ arch' = Append(arch, Archive(c.name, f.path, f.lo, f.size, HeadOf(c.reads[1])))
              /\ Return(t, [Nothing EXCEPT !.op = "new"])
      /\ UNCHANGED mine

ValidMut(t) ==
  /\ call[t].stage = "valid" /\ Free(t)
  /\ IF arch[call[t].obj].header.is = arch[call[t].obj].fmt
     THEN /\ Continue(t, [call[t] EXCEPT !.stage = "read"])
          /\ gil' = Held(t)
          /\ arch' = [arch EXCEPT ![call[t].obj].dict = <<>>]
          /\ UNCHANGED answer
     ELSE Raise(t) /\ UNCHANGED <<gil, arch>>
  /\ UNCHANGED <<tree, kind, at, mine, calls, faults>>

\* The test of valid, and the call of parse that follows it.
Valid(t) ==
  /\ call[t].stage = "valid" /\ Free(t)
  /\ IF arch[call[t].obj].header.is = arch[call[t].obj].fmt
     THEN /\ Continue(t, [call[t] EXCEPT !.stage = "read"])
          /\ gil' = Held(t)
          /\ UNCHANGED answer
     ELSE Raise(t) /\ UNCHANGED gil
  /\ UNCHANGED <<tree, kind, at, arch, mine, calls, faults>>

ParsedMut(o, reads) ==
  IF o.fmt = "HEAD" THEN o
  ELSE [o EXCEPT !.data = NamesAt(0, o.fmt, o.header).pos,
                 !.entries = Entries(o.fmt, o.header.num, reads[1], reads[2])]

\* Pfs::parse and Hfs::parse once they have read: the whole of the members.
Parsed(o, reads) ==
  IF o.fmt = "HEAD" THEN o
  ELSE [o EXCEPT !.data = NamesAt(0, o.fmt, o.header).pos + o.header.strings,
                 !.entries = Entries(o.fmt, o.header.num, reads[1], reads[2])]

ParseEnds(t) ==
  LET c == call[t]
  IN  /\ Parsing(t) /\ Ended(t, c.op)
      /\ arch' = [arch EXCEPT ![c.obj] = Parsed(@, c.reads)]
      /\ IF c.failed THEN Raise(t)
         ELSE Continue(t, [c EXCEPT !.stage = "collect", !.reads = <<>>, !.part = 0]) /\ UNCHANGED answer
      /\ UNCHANGED mine

-----------------------------------------------------------------------------
(* The dictionaries of hac.py.                                              *)

Then(t) ==
  IF call[t].op = "parse" THEN Return(t, [Nothing EXCEPT !.op = "parse"])
  ELSE Continue(t, [call[t] EXCEPT !.stage = "use"]) /\ UNCHANGED answer

LatestMut(s, name) == CHOOSE i \in DOMAIN s :
  s[i].name = name /\ \A j \in DOMAIN s : s[j].name = name => i <= j

\* A dictionary keeps the last of the entries with one name.
Latest(s, name) == CHOOSE i \in DOMAIN s :
  s[i].name = name /\ \A j \in DOMAIN s : s[j].name = name => j <= i
NamesIn(s) == {s[i].name : i \in DOMAIN s}

\* get_entries, and self._entries; of an Xci self._partitions = {}.
Collect(t) ==
  LET c == call[t]
      o == arch[c.obj]
  IN  /\ c.stage = "collect" /\ Free(t)
      /\ IF o.fmt = "HEAD"
         THEN /\ arch' = [arch EXCEPT ![c.obj].dict = <<>>]
              /\ Continue(t, [c EXCEPT !.stage = "fill"]) /\ UNCHANGED answer
         ELSE /\ arch' = [arch EXCEPT
                   ![c.obj].dict = [n \in NamesIn(o.entries) |->
                      LET e == o.entries[Latest(o.entries, n)]
                      IN  [off |-> e.off, size |-> e.size, obj |-> 0]],
                   ![c.obj].parsed = TRUE]
              /\ Then(t)
      /\ UNCHANGED <<tree, kind, gil, at, mine, calls, faults>>

\* The loop over get_partitions of an Xci, each copied and wrapped in an Hfs.
Fill(t) ==
  LET c == call[t]
      o == arch[c.obj]
      names == SetToSeq(NamesIn(o.parts))
      part(n) == o.parts[Latest(o.parts, n)]
      made == [i \in DOMAIN names |->
                 Archive("HFS0", Append(o.path, names[i]), o.lo + part(names[i]).off,
                         part(names[i]).size, part(names[i]).header)]
  IN  /\ c.stage = "fill" /\ Free(t)
      /\ arch' = [arch EXCEPT
             ![c.obj].dict = [n \in NamesIn(o.parts) |->
                [off |-> part(n).off, size |-> part(n).size,
                 obj |-> Len(arch) + CHOOSE i \in DOMAIN names : names[i] = n]],
             ![c.obj].parsed = TRUE] \o made
      /\ Then(t)
      /\ UNCHANGED <<tree, kind, gil, at, mine, calls, faults>>

\* Another thread has emptied the dictionary and not yet filled it.
Refilled(t) == \E u \in Threads \ {t} : call[u].stage = "fill" /\ call[u].obj = call[t].obj

UseReturns(t, op, found) ==
  LET c == call[t]
  IN  /\ c.stage = "use" /\ c.op = op /\ Free(t)
      /\ Return(t, [Nothing EXCEPT !.op = op, !.ok = found, !.excuse = Refilled(t),
                                   !.path = Append(arch[c.obj].path, c.name)])
      /\ UNCHANGED <<tree, kind, gil, at, arch, calls, faults>>

\* The test of the name, and Pfs::open or Hfs::open.
OpenEnds(t) ==
  LET n == call[t].name
      o == arch[call[t].obj]
  IN  /\ UseReturns(t, "open", n \in DOMAIN o.dict)
      /\ mine' = IF n \in DOMAIN o.dict
                 THEN [mine EXCEPT ![t] =
                         [path |-> Append(o.path, n), lo |-> o.lo + o.data + o.dict[n].off,
                          size |-> o.dict[n].size, pos |-> 0]]
                 ELSE mine

PartitionEnds(t) ==
  /\ UseReturns(t, "partition", call[t].name \in DOMAIN arch[call[t].obj].dict)
  /\ UNCHANGED mine

-----------------------------------------------------------------------------
\* Two threads between seek and readinto of one object, and a thread with an
\* archive in hand that another one's failed parse is filling with zeros.
Mixed ==
  \E t, u \in Threads :
    /\ t # u
    /\ \/ call[t].stage = "sought" /\ call[u].stage = "sought"
       \/ call[t].failed /\ call[t].obj # 0 /\ call[t].obj = call[u].obj

Calls(t) ==
  \/ \E fmt \in {NodeAt(mine[t].path).fmt, "HFS0"} \cap Formats : New(t, fmt)
  \/ Match(t)
  \/ \E o \in DOMAIN arch :
       \/ Parse(t, o)
       \/ \E n \in Names(NodeAt(arch[o].path)) \cup {"missing"} :
            OpenEntry(t, o, n) \/ GetPartition(t, o, n)
  \/ \E len \in Lens : ReadFile(t, len)
  \/ \E pos \in {0, mine[t].size + 1} : SeekFile(t, pos)
  \/ CloneFile(t)

Runs(t) ==
  \/ Seek(t)
  \/ Read(t)
  \/ ReadEnds(t)
  \/ MatchEnds(t)
  \/ Construct(t)
  \/ NewEnds(t)
  \/ Valid(t)
  \/ ParseEnds(t)
  \/ Collect(t)
  \/ Fill(t)
  \/ OpenEnds(t)
  \/ PartitionEnds(t)

\* What follows a disturbance has no promise left, and is not explored.
Next ==
  /\ ~disturbed
  /\ \E t \in Threads : Calls(t) \/ Runs(t)
  /\ disturbed' = (disturbed \/ Mixed')

Spec == Init /\ [][Next]_vars

-----------------------------------------------------------------------------
TypeOK ==
  /\ tree \in DOMAIN Trees /\ kind \in {"path", "object"} /\ gil \in Threads \cup {None}
  /\ at \in 0 .. Len(Image)
  /\ \A t \in Threads :
       /\ mine[t].lo + mine[t].size <= Len(Image) \/ disturbed
       /\ call[t].obj \in 0 .. Len(arch)
       /\ call[t].stage = "sought" /\ kind = "path" => gil = t
  /\ \A t \in Threads : calls[t] \in 0 .. CallBound[t]
  /\ faults \in 0 .. FaultBound /\ disturbed \in BOOLEAN

Covers(f) == Part(Image, f.lo, f.lo + f.size) = NodeAt(f.path).cells

\* Every file a program opens covers the cells of the entry it named, however
\* deep archives are nested, and whatever was parsed twice, by two threads, or in
\* vain (pfs.cpp:54-56, hfs.cpp:51-53, hac.py:131-139).
FilesExact == ~disturbed => \A t \in Threads : Covers(mine[t])

\* An archive made of a file of its format lists, once parsed, exactly the names
\* of that archive, each with the cells that are its own: an Xci its known
\* partitions, each an archive that is good to parse (hac.py:102-110, 418-428).
ArchivesExact ==
  ~disturbed =>
    \A o \in DOMAIN arch :
      LET a == arch[o]
          node == NodeAt(a.path)
      IN  /\ Covers(a)
          /\ a.parsed => a.fmt = node.fmt
          /\ a.parsed /\ (\A t \in Threads : call[t].stage = "fill" => call[t].obj # o) =>
               /\ DOMAIN a.dict = Names(node)
               /\ \A n \in DOMAIN a.dict :
                    /\ Part(Image, a.lo + a.data + a.dict[n].off,
                            a.lo + a.data + a.dict[n].off + a.dict[n].size)
                         = NodeAt(Append(a.path, n)).cells
                    /\ a.fmt = "HEAD" => arch[a.dict[n].obj].header = NodeAt(Append(a.path, n)).cells[1]

\* open and get_partition fail for the names the archive does not have and for
\* no others, unless another thread is between emptying the dictionary of
\* partitions and filling it (hac.py:136-137, 425-427, 452-453).
NamesFound ==
  ~disturbed =>
    \A t \in Threads :
      answer[t].op \in {"open", "partition"} /\ ~answer[t].excuse =>
        (answer[t].ok <=> Last(answer[t].path) \in Names(NodeAt(Front(answer[t].path))))

\* A read returns the cells from where the file stands, as many as were asked
\* for and are left, and moves over them, but for a File on a Python object,
\* which stays (bindings.cpp:176-185); a file that stands at its start is
\* recognised for what it is (hac.hpp:46-58).
ReadsRight ==
  ~disturbed =>
    \A t \in Threads :
      LET a == answer[t]
          cells == NodeAt(a.path).cells
      IN  /\ a.op = "read" /\ a.ok =>
               /\ a.cells = Part(cells, a.from, Lesser(a.from + a.len, Len(cells)))
               /\ (kind = "path" \/ a.path # <<>>) /\ a.from <= Len(cells) =>
                    a.to = a.from + Len(a.cells)
          /\ a.op = "match" /\ a.ok /\ a.from = 0 => a.fmt = NodeAt(a.path).fmt
=============================================================================
