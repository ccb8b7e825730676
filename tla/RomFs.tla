-------------------------------- MODULE RomFs --------------------------------
(***************************************************************************)
(* A RomFS and the handlers that unfold it (src/lib/romfs.cpp and the      *)
(* RomFsContainer of src/src/containers.{hpp,cpp}).  The entry tables link *)
(* each directory to its first child, its next sibling and the next entry  *)
(* of its hash chain; parse_dir makes entries of the children and files of *)
(* one directory, find_dir follows a path through the hash chains.  Every  *)
(* directory is a RomFsContainer with a parsed flag of its own; all share  *)
(* the RomFs and one parse_mtx, which find_dir does not take.  A path has  *)
(* one container: of two folders of a path the maps keep one (Vfs.tla).    *)
(* A Python program parses the whole image at once, as often as it likes,  *)
(* and gets dictionaries of it (Romfs of hac.py); a call of it has the     *)
(* interpreter to itself.                                                  *)
(*                                                                         *)
(* A place in a table is the index of its entry, 1 for the root; the hash  *)
(* of a name is whatever the image says it is.                             *)
(***************************************************************************)
EXTENDS Naturals, Sequences, FiniteSets, SequencesExt

CONSTANTS
  Threads,   \* the threads that run handlers
  Nobody,    \* the holder of a free mutex
  Images     \* the images: records [dirs, files, heads, hash]

None == 0    \* invalid_meta

\* The places along a chain of links.
Chain(first, link) ==
  LET at[n \in 0 .. Len(link)] ==
        IF n = 0 THEN first ELSE IF at[n - 1] = None THEN None ELSE link[at[n - 1]]
  IN  SelectSeq([n \in 1 .. Len(link) |-> at[n - 1]], LAMBDA d : d # None)

Field(table, f) == [d \in 1 .. Len(table) |-> table[d][f]]
SubDirs(img, d) == Chain(img.dirs[d].child, Field(img.dirs, "sibling"))
DirFiles(img, d) == Chain(img.dirs[d].file, Field(img.files, "sibling"))
\* The bucket of a name under a directory.
BucketOf(img, d, name) == img.hash[d, name]
Bucket(img, b) == Chain(img.heads[b], Field(img.dirs, "next"))

\* The chain of links from first to its end.
IsChain(s, first, link) ==
  /\ s \in Seq(DOMAIN link)
  /\ first = IF s = <<>> THEN None ELSE s[1]
  /\ \A i \in DOMAIN s : link[s[i]] = IF i = Len(s) THEN None ELSE s[i + 1]

\* The entries of the tables, whose links stay within the tables.
DirMetas(img) ==
  LET Dir == 0 .. Len(img.dirs)
  IN  [parent : Dir, name : STRING, sibling : Dir, child : Dir, file : 0 .. Len(img.files), next : Dir]

FileMetas(img) ==
  [parent : DOMAIN img.dirs, name : STRING, sibling : 0 .. Len(img.files)]

\* What an image builder guarantees: all chains end; the sibling chains hold the
\* entries with that parent, once; names are unique in a directory; each
\* directory is on the hash chain of its name, and there are at least as many
\* buckets as directories (romfs.cpp:170-171).
WellFormed(img) ==
  LET Dirs == 2 .. Len(img.dirs)
      Children(d) == {c \in Dirs : img.dirs[c].parent = d}
      Files(d) == {f \in 1 .. Len(img.files) : img.files[f].parent = d}
  IN  /\ img.dirs \in Seq(DirMetas(img)) /\ img.dirs # <<>>
      /\ img.files \in Seq(FileMetas(img))
      /\ \A c \in Dirs :
           /\ img.dirs[c].parent \in 1 .. c - 1
           /\ BucketOf(img, img.dirs[c].parent, img.dirs[c].name) \in DOMAIN img.heads
      /\ \A d \in 1 .. Len(img.dirs) :
           /\ IsChain(SubDirs(img, d), img.dirs[d].child, Field(img.dirs, "sibling"))
           /\ IsChain(DirFiles(img, d), img.dirs[d].file, Field(img.files, "sibling"))
           /\ IsInjective(SubDirs(img, d)) /\ ToSet(SubDirs(img, d)) = Children(d)
           /\ IsInjective(DirFiles(img, d)) /\ ToSet(DirFiles(img, d)) = Files(d)
           /\ \A c1, c2 \in Children(d) : img.dirs[c1].name = img.dirs[c2].name => c1 = c2
           /\ \A f1, f2 \in Files(d) : img.files[f1].name = img.files[f2].name => f1 = f2
      /\ \A b \in DOMAIN img.heads :
           /\ IsChain(Bucket(img, b), img.heads[b], Field(img.dirs, "next"))
           /\ ToSet(Bucket(img, b)) = {c \in Dirs : BucketOf(img, img.dirs[c].parent, img.dirs[c].name) = b}
      /\ IsFiniteSet(DOMAIN img.heads)
      /\ Cardinality(DOMAIN img.heads) >= Len(img.dirs)

ASSUME RomFsAssumption ==
  /\ Nobody \notin Threads
  /\ \A img \in Images : WellFormed(img)

VARIABLES
  image,     \* the image that was opened
  full,      \* it is parsed by parse_full (Python) and not by parse
  dirs,      \* dir_entries: records [meta, parent, children, files]
  files,     \* file_entries: records [meta, parent]
  mtx,       \* holder of parse_mtx
  parsed,    \* the paths whose container has its parsed flag set
  busy,      \* the paths whose folder's processed_mtx is held
  lists,     \* path -> [files, children] its container returned, when both are
  entries,   \* the dictionaries of a Python program: [files, dirs], by paths
  pc,        \* where each thread is
  ask,       \* thread -> the path of the folder it processes
  at,        \* thread -> components of the path find_dir went through
  cur,       \* thread -> the entry find_dir is at
  meta,      \* thread -> the place in the table find_dir is at
  stack,     \* thread -> the calls of parse_dir, innermost last
  turn,      \* thread -> "files" in read_files, "children" in read_folders
  out        \* thread -> what the two have returned so far

vars == <<image, full, dirs, files, mtx, parsed, busy, lists, entries,
          pc, ask, at, cur, meta, stack, turn, out>>
tree == <<dirs, files>>
shared == <<image, full, parsed, busy, lists, entries>>
search == <<at, cur, meta>>
handler == <<ask, turn, out>>

Root == <<>>
Nothing == [files |-> <<>>, children |-> <<>>]
NoEntries == [files |-> [p \in {} |-> None], dirs |-> [p \in {} |-> Nothing]]

DirName(d) == image.dirs[d].name
FileName(f) == image.files[f].name

\* The directory of the image a path names.
DirAt(path) ==
  LET d[n \in 0 .. Len(path)] ==
        IF n = 0 THEN 1 ELSE CHOOSE c \in ToSet(SubDirs(image, d[n - 1])) : DirName(c) = path[n]
  IN  d[Len(path)]

\* The paths whose folders the file system knows: the root, and the children
\* of the folders whose containers have been read.
Known ==
  {Root} \cup UNION {{Append(p, n) : n \in ToSet(lists[p].children)} : p \in DOMAIN lists}

PCs == {"idle", "folder", "find", "component", "chain", "child", "lock", "parse", "entries", "unlock", "collect"}

TypeOK ==
  /\ image \in Images /\ full \in BOOLEAN
  /\ \A e \in DOMAIN dirs :
       /\ dirs[e].meta \in DOMAIN image.dirs /\ dirs[e].parent \in 0 .. e - 1
       /\ ToSet(dirs[e].children) \subseteq DOMAIN dirs
       /\ ToSet(dirs[e].files) \subseteq DOMAIN files
  /\ \A e \in DOMAIN files : files[e].meta \in DOMAIN image.files /\ files[e].parent \in DOMAIN dirs
  /\ mtx \in Threads \cup {Nobody}
  /\ parsed \subseteq Known /\ busy \subseteq Known /\ DOMAIN lists \subseteq Known
  /\ \A t \in Threads :
       /\ pc[t] \in PCs /\ ask[t] \in Known
       /\ at[t] \in 0 .. Len(ask[t])
       /\ cur[t] \in DOMAIN dirs \cup {None}
       /\ meta[t] \in DOMAIN image.dirs \cup {None}
       /\ \A i \in DOMAIN stack[t] : stack[t][i].entry \in DOMAIN dirs
       /\ turn[t] \in {"files", "children"}

Init ==
  /\ image \in Images
  /\ full \in BOOLEAN
  /\ dirs = <<>>
  /\ files = <<>>
  /\ mtx = Nobody
  /\ parsed = {}
  /\ busy = {}
  /\ lists = [p \in {} |-> Nothing]
  /\ entries = NoEntries
  /\ pc = [t \in Threads |-> "idle"]
  /\ ask = [t \in Threads |-> Root]
  /\ at = [t \in Threads |-> 0]
  /\ cur = [t \in Threads |-> None]
  /\ meta = [t \in Threads |-> None]
  /\ stack = [t \in Threads |-> <<>>]
  /\ turn = [t \in Threads |-> "files"]
  /\ out = [t \in Threads |-> Nothing]

Goto(t, from, to) == pc[t] = from /\ pc' = [pc EXCEPT ![t] = to]

-----------------------------------------------------------------------------
(* RomFs::parse_dir.                                                       *)

Top(t) == Last(stack[t])

\* A call parse_dir(entry), entry having been made of the place d.
Frame(entry, d) == [entry |-> entry, dir |-> image.dirs[d].child, file |-> image.dirs[d].file]

\* No thread is inside parse_full.
Calm == \A t \in Threads : pc[t] # "parse"

\* parse() and parse_full() make the entry of the root, before any other thread
\* has the image, or in a Python program, which parses once more than it has to.
Open(t) ==
  /\ dirs = <<>> \/ (full /\ Calm /\ Len(dirs) <= Len(image.dirs))
  /\ Goto(t, "idle", "parse")
  /\ dirs' = Append(dirs, [meta |-> 1, parent |-> None, children |-> <<>>, files |-> <<>>])
  /\ stack' = [stack EXCEPT ![t] = <<Frame(Len(dirs) + 1, 1)>>]
  /\ UNCHANGED <<shared, files, mtx, search, handler>>

ParseChild(t) ==
  LET f == Top(t)
      new == Len(dirs) + 1
      rest == Append(Front(stack[t]), [f EXCEPT !.dir = image.dirs[f.dir].sibling])
  IN  /\ pc[t] = "parse" /\ f.dir # None
      /\ dirs' = Append([dirs EXCEPT ![f.entry].children = Append(@, new)],
                        [meta |-> f.dir, parent |-> f.entry, children |-> <<>>, files |-> <<>>])
      /\ stack' = [stack EXCEPT ![t] = IF full THEN Append(rest, Frame(new, f.dir)) ELSE rest]
      /\ UNCHANGED <<shared, files, mtx, pc, search, handler>>

ParseFileMut(t) ==
  LET f == Top(t)
  IN  /\ pc[t] = "parse" /\ f.dir = None /\ f.file # None
      /\ files' = Append(files, [meta |-> f.file, parent |-> f.entry])
      /\ dirs' = [dirs EXCEPT ![f.entry].files = Append(@, Len(files) + 1)]
      /\ stack' = [stack EXCEPT ![t] = Append(Front(@), [f EXCEPT !.file = None])]
      /\ UNCHANGED <<shared, mtx, pc, search, handler>>

ParseFile(t) ==
  LET f == Top(t)
  IN  /\ pc[t] = "parse" /\ f.dir = None /\ f.file # None
      /\ files' = Append(files, [meta |-> f.file, parent |-> f.entry])
      /\ dirs' = [dirs EXCEPT ![f.entry].files = Append(@, Len(files) + 1)]
      /\ stack' = [stack EXCEPT ![t] = Append(Front(@), [f EXCEPT !.file = image.files[f.file].sibling])]
      /\ UNCHANGED <<shared, mtx, pc, search, handler>>

\* parse_dir returns: to parse_dir, to the container, whose flag is set, or to
\* the thread that opens the image.
ParseReturns(t) ==
  /\ pc[t] = "parse" /\ Top(t).dir = None /\ Top(t).file = None
  /\ stack' = [stack EXCEPT ![t] = Front(@)]
  /\ IF Len(stack[t]) > 1 THEN UNCHANGED <<pc, parsed>>
     ELSE /\ pc' = [pc EXCEPT ![t] = IF full THEN "entries" ELSE IF mtx = t THEN "unlock" ELSE "idle"]
          /\ parsed' = parsed \cup {ask[t]}
  /\ UNCHANGED <<image, full, busy, lists, entries, tree, mtx, search, handler>>

-----------------------------------------------------------------------------
(* The dictionaries of a Python program.                                    *)

PathOfMut(e) == IF dirs[e].parent = None THEN <<>> ELSE <<DirName(dirs[e].meta)>>

\* Entry::path of a directory, whose parents all have smaller indices.
PathOf(e) ==
  LET path[d \in DOMAIN dirs] ==
        IF dirs[d].parent = None THEN <<>>
        ELSE Append(path[dirs[d].parent], DirName(dirs[d].meta))
  IN  path[e]

FilePath(f) == Append(PathOf(files[f].parent), FileName(files[f].meta))

\* What walk comes to from an entry.
Walked(root) ==
  LET below[d \in DOMAIN dirs] == {d} \cup UNION {below[c] : c \in ToSet(dirs[d].children)}
  IN  below[root]

NamesOf(e) ==
  [files |-> [i \in DOMAIN dirs[e].files |-> FileName(files[dirs[e].files[i]].meta)],
   children |-> [i \in DOMAIN dirs[e].children |-> DirName(dirs[dirs[e].children[i]].meta)]]

\* get_entries begins at dir_entries[0]; parsed is set behind it.
GetEntries(t) ==
  LET ds == Walked(1)
      fs == UNION {ToSet(dirs[d].files) : d \in ds}
  IN  /\ Goto(t, "entries", "idle")
      /\ Calm
      /\ entries' =
           [files |-> [p \in {FilePath(f) : f \in fs} |->
                         files[CHOOSE f \in fs : FilePath(f) = p].meta],
            dirs |-> [p \in {PathOf(d) : d \in ds} |->
                        NamesOf(CHOOSE d \in ds : PathOf(d) = p)]]
      /\ UNCHANGED <<image, full, parsed, busy, lists, tree, mtx, search, stack, handler>>

-----------------------------------------------------------------------------
(* Folder::process of a folder of the image: read_files, then read_folders. *)

\* process_dir finds the folder not processed.
Begin(t, path) ==
  /\ Root \in parsed /\ ~full
  /\ path \notin DOMAIN lists
  /\ Goto(t, "idle", "folder")
  /\ ask' = [ask EXCEPT ![t] = path]
  /\ at' = [at EXCEPT ![t] = 0]
  /\ turn' = [turn EXCEPT ![t] = "files"]
  /\ out' = [out EXCEPT ![t] = Nothing]
  /\ UNCHANGED <<shared, tree, mtx, cur, meta, stack>>

LockFolder(t) ==
  /\ Goto(t, "folder", "find")
  /\ ask[t] \notin busy
  /\ busy' = busy \cup {ask[t]}
  /\ UNCHANGED <<image, full, parsed, lists, entries, tree, mtx, search, stack, handler>>

\* find_dir starts at the front of dir_entries.
FindBegins(t) ==
  /\ Goto(t, "find", "component")
  /\ cur' = [cur EXCEPT ![t] = 1]
  /\ at' = [at EXCEPT ![t] = 0]
  /\ UNCHANGED <<shared, tree, mtx, meta, stack, handler>>

Wanted(t) == ask[t][at[t] + 1]

\* What a list of files and a list of folders leave to do.
ReadReturns(t) ==
  IF turn[t] = "files"
    THEN /\ pc' = [pc EXCEPT ![t] = "find"]
         /\ turn' = [turn EXCEPT ![t] = "children"]
         /\ UNCHANGED <<busy, lists>>
    ELSE /\ pc' = [pc EXCEPT ![t] = "idle"]
         /\ busy' = busy \ {ask[t]}
         /\ lists' = [p \in DOMAIN lists \cup {ask[t]} |-> IF p = ask[t] THEN out[t] ELSE lists[p]]
         /\ UNCHANGED turn

\* find_dir returned nullptr, and the container returns an empty list.
NotFound(t) ==
  /\ ReadReturns(t)
  /\ UNCHANGED <<image, full, parsed, entries, tree, mtx, search, stack, ask, out>>

FindHash(t) ==
  LET bucket == BucketOf(image, dirs[cur[t]].meta, Wanted(t))
  IN  /\ pc[t] = "component" /\ at[t] < Len(ask[t])
      /\ \/ image.heads[bucket] = None /\ NotFound(t)
         \/ /\ image.heads[bucket] # None
            /\ Goto(t, "component", "chain")
            /\ meta' = [meta EXCEPT ![t] = image.heads[bucket]]
            /\ UNCHANGED <<shared, tree, mtx, at, cur, stack, handler>>

FindChainMut(t) ==
  LET d == image.dirs[meta[t]]
      right == d.parent = dirs[cur[t]].meta
  IN  /\ pc[t] = "chain"
      /\ IF ~right /\ d.next # None
           THEN meta' = [meta EXCEPT ![t] = d.next] /\ UNCHANGED pc
           ELSE Goto(t, "chain", "child") /\ UNCHANGED meta
      /\ UNCHANGED <<shared, tree, mtx, at, cur, stack, handler>>

\* The end of the chain ends the search whether the entry there is the one
\* looked for or not.
FindChain(t) ==
  LET d == image.dirs[meta[t]]
      right == d.name = Wanted(t) /\ d.parent = dirs[cur[t]].meta
  IN  /\ pc[t] = "chain"
      /\ IF ~right /\ d.next # None
           THEN meta' = [meta EXCEPT ![t] = d.next] /\ UNCHANGED pc
           ELSE Goto(t, "chain", "child") /\ UNCHANGED meta
      /\ UNCHANGED <<shared, tree, mtx, at, cur, stack, handler>>

\* The child made of the place that was found.
FindChild(t) ==
  LET made == {e \in ToSet(dirs[cur[t]].children) : dirs[e].meta = meta[t]}
  IN  /\ pc[t] = "child"
      /\ \/ made = {} /\ NotFound(t)
         \/ /\ Goto(t, "child", "component")
            /\ \E e \in made : cur' = [cur EXCEPT ![t] = e]
            /\ at' = [at EXCEPT ![t] = @ + 1]
            /\ UNCHANGED <<shared, tree, mtx, meta, stack, handler>>

Found(t) ==
  /\ at[t] = Len(ask[t])
  /\ Goto(t, "component", "lock")
  /\ UNCHANGED <<shared, tree, mtx, search, stack, handler>>

LockParseMut(t) ==
  /\ mtx = Nobody
  /\ mtx' = t
  /\ Goto(t, "lock", "parse")
  /\ stack' = [stack EXCEPT ![t] = <<Frame(cur[t], dirs[cur[t]].meta)>>]
  /\ UNCHANGED <<shared, tree, search, handler>>

UnlockedParseMut(t) ==
  /\ mtx' = t
  /\ IF ask[t] \in parsed THEN Goto(t, "lock", "unlock") /\ UNCHANGED stack
     ELSE /\ Goto(t, "lock", "parse")
          /\ stack' = [stack EXCEPT ![t] = <<Frame(cur[t], dirs[cur[t]].meta)>>]
  /\ UNCHANGED <<shared, tree, search, handler>>

\* RomFsContainer::parse_dir.
LockParse(t) ==
  /\ mtx = Nobody
  /\ mtx' = t
  /\ IF ask[t] \in parsed THEN Goto(t, "lock", "unlock") /\ UNCHANGED stack
     ELSE /\ Goto(t, "lock", "parse")
          /\ stack' = [stack EXCEPT ![t] = <<Frame(cur[t], dirs[cur[t]].meta)>>]
  /\ UNCHANGED <<shared, tree, search, handler>>

UnlockMut(t) ==
  /\ Goto(t, "unlock", "collect")
  /\ UNCHANGED <<shared, tree, mtx, search, stack, handler>>

Unlock(t) ==
  /\ Goto(t, "unlock", "collect")
  /\ mtx' = Nobody
  /\ UNCHANGED <<shared, tree, search, stack, handler>>

\* The loop over dir->files or dir->children, no mutex held.
Collect(t) ==
  LET list == dirs[cur[t]][turn[t]]
      n == Len(out[t][turn[t]])
      name(e) == IF turn[t] = "files" THEN FileName(files[e].meta) ELSE DirName(dirs[e].meta)
  IN  /\ pc[t] = "collect"
      /\ \/ /\ n < Len(list)
            /\ out' = [out EXCEPT ![t][turn[t]] = Append(@, name(list[n + 1]))]
            /\ UNCHANGED <<shared, tree, mtx, pc, search, stack, ask, turn>>
         \/ /\ n >= Len(list)
            /\ ReadReturns(t)
            /\ UNCHANGED <<image, full, parsed, entries, tree, mtx, search, stack, ask, out>>

-----------------------------------------------------------------------------
Parse(t) == ParseChild(t) \/ ParseFile(t) \/ ParseReturns(t)

Find(t) == FindBegins(t) \/ FindHash(t) \/ FindChain(t) \/ FindChild(t) \/ Found(t)

Handle(t) ==
  \/ LockFolder(t)
  \/ Find(t)
  \/ LockParse(t)
  \/ Parse(t)
  \/ GetEntries(t)
  \/ Unlock(t)
  \/ Collect(t)

Next ==
  \E t \in Threads :
    \/ Open(t)
    \/ \E path \in Known : Begin(t, path)
    \/ Handle(t)

Spec == Init /\ [][Next]_vars

\* A handler that can go on does; nothing obliges the host to call one.
FairSpec == Spec /\ \A t \in Threads : WF_vars(Handle(t))

-----------------------------------------------------------------------------
Names(img, d) ==
  [files |-> [i \in DOMAIN DirFiles(img, d) |-> img.files[DirFiles(img, d)[i]].name],
   children |-> [i \in DOMAIN SubDirs(img, d) |-> img.dirs[SubDirs(img, d)[i]].name]]

\* What a container returns for a directory is what the image has in it, each
\* name once and in the order of the image, although read_files and
\* read_folders both ask for it to be parsed, and other directories are parsed
\* meanwhile (containers.cpp:57-80, containers.hpp:91-97).
ListsExact == \A path \in DOMAIN lists : lists[path] = Names(image, DirAt(path))

\* find_dir leads to the directory of the path, also when names of other
\* directories share its hash chain (romfs.cpp:104-141).
FoundRight ==
  \A t \in Threads : pc[t] \in {"lock", "unlock", "collect"} => dirs[cur[t]].meta = DirAt(ask[t])

\* The entries are a part of the tree the image describes: each place has one
\* entry, hung below the entry of its parent, and an entry that is not being
\* parsed has all or none of its children and files; parse_full leaves none out,
\* and makes another tree apart from the first when it is called again
\* (romfs.cpp:58-102).
Hung(e) ==
  LET kids == [i \in DOMAIN dirs[e].children |-> dirs[dirs[e].children[i]].meta]
      leaves == [i \in DOMAIN dirs[e].files |-> files[dirs[e].files[i]].meta]
      open == \E t \in Threads : \E i \in DOMAIN stack[t] : stack[t][i].entry = e
      all == kids = SubDirs(image, dirs[e].meta) /\ leaves = DirFiles(image, dirs[e].meta)
  IN  /\ ~open => all \/ (kids = <<>> /\ leaves = <<>>)
      /\ full /\ Calm => all
      /\ \A c \in ToSet(dirs[e].children) : dirs[c].parent = e

Copy(e) == (e - 1) \div Len(image.dirs)

TreeExact ==
  /\ \A e1, e2 \in DOMAIN dirs :
       dirs[e1].meta = dirs[e2].meta /\ Copy(e1) = Copy(e2) => e1 = e2
  /\ \A e \in DOMAIN dirs : Hung(e)
  /\ full /\ Calm =>
       \E n \in 0 .. 2 : Len(dirs) = n * Len(image.dirs) /\ Len(files) = n * Len(image.files)

\* The whole path of a directory and of a file of the image.
DirPath(d) ==
  LET path[x \in DOMAIN image.dirs] ==
        IF x = 1 THEN Root ELSE Append(path[image.dirs[x].parent], DirName(x))
  IN  path[d]

LeafPath(f) == Append(DirPath(image.files[f].parent), FileName(f))

\* The dictionaries a Python program gets have every file and every directory of
\* the image, each under its whole path and with what is in it, however often it
\* was parsed and on whatever threads (bindings.cpp:749-863, romfs.cpp:22-31).
EntriesExact ==
  entries # NoEntries =>
    /\ DOMAIN entries.dirs = {DirPath(d) : d \in DOMAIN image.dirs}
    /\ \A d \in DOMAIN image.dirs : entries.dirs[DirPath(d)] = Names(image, d)
    /\ DOMAIN entries.files = {LeafPath(f) : f \in DOMAIN image.files}
    /\ \A f \in DOMAIN image.files : entries.files[LeafPath(f)] = f

\* No thread reads a vector another one appends to, and no two append: parse_dir
\* runs under parse_mtx, find_dir and the loops over its result do not
\* (containers.cpp:59-77).
RaceFree ==
  \A t, u \in Threads : t # u /\ pc[u] = "parse" =>
    /\ pc[t] # "parse"
    /\ pc[t] \in {"child", "collect"} => cur[t] # Top(u).entry

\* Under handlers dir_entries never outgrows what read_tables reserved for it, so
\* its buffer stays where a find_dir without the mutex reads it (romfs.cpp:105,
\* 172-176).
StaysPut == ~full => Len(dirs) <= Cardinality(DOMAIN image.heads)

\* Every handler comes to its end: processed_mtx is held over parse_mtx, never
\* the other way round (vfs.cpp:103, containers.hpp:91-97).
HandlerEnds == \A t \in Threads : (pc[t] # "idle") ~> (pc[t] = "idle")
=============================================================================
