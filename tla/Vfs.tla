-------------------------------- MODULE Vfs --------------------------------
(***************************************************************************)
(* The file system built over an archive: the Folder and File nodes and    *)
(* the path maps of src/src/vfs.{hpp,cpp}, filled lazily by the handlers   *)
(* FUSE calls (src/src/fuse.cpp) on several threads.                       *)
(*                                                                         *)
(* A folder stands for a container of the archive, or for a directory of   *)
(* a RomFS; Archive says what each one holds.  Opening a container that is *)
(* encrypted with a title key needs the key; opening a Pfs loads the keys  *)
(* of the tickets beside it.                                               *)
(***************************************************************************)
EXTENDS Naturals, Sequences, SequencesExt, Ordered

CONSTANTS
  Threads,      \* the threads FUSE runs handlers on
  Nobody,       \* the value of a free mutex
  Containers,   \* the containers and RomFS directories of the archive
  NoContainer,  \* what is inside a plain file
  Root,         \* the archive itself
  Archive,      \* container -> what it holds, see below
  MaxCalls      \* bound: handler calls per thread

\* Archive[c].files: the entries read_files returns - name, name of the folder
\* made of it, whether it is tried as a container, and what is inside;
\* Archive[c].folders: what read_folders returns; Archive[c].needs: the title
\* keys its sections are encrypted with; Archive[c].tickets: the keys of the
\* tickets in it, none unless it is a Pfs.
Entry == [name : STRING, stem : STRING, try : BOOLEAN, inside : Containers \cup {NoContainer}]
SubFolder == [name : STRING, inside : Containers]

ASSUME VfsAssumption ==
  /\ Nobody \notin Threads
  /\ NoContainer \notin Containers
  /\ Root \in Containers
  /\ MaxCalls \in Nat
  /\ \A c \in Containers :
       Archive[c].files \in Seq(Entry) /\ Archive[c].folders \in Seq(SubFolder)

\* The title keys the tickets of the archive carry.
Keys == UNION {Archive[c].tickets : c \in Containers}

\* make_container succeeds: the format is recognised and parse() has its keys.
Opens(entry, known) ==
  /\ entry.try
  /\ entry.inside # NoContainer
  /\ Archive[entry.inside].needs \subseteq known

-----------------------------------------------------------------------------
VARIABLES
  heap,      \* the Folder objects, in order of creation
  folders,   \* FileSystem::folders: path -> Folder object
  files,     \* FileSystem::files: path -> container and entry of the File
  serial,    \* the host never reads one directory twice at the same time
  keep_raw,  \* FileSystem::keep_raw: an option of mount, set by the others
  keys,      \* the title keys TitlekeySet holds
  crashed,   \* the process died of an iterator into a reallocated vector
  pc,        \* where each thread is
  ask,       \* thread -> the handler's operation and path
  dir,       \* thread -> the Folder it works on, 0 for none
  next,      \* thread -> entries or elements it has gone through
  end,       \* thread -> length of the vector it iterates over, at its start
  reply,     \* thread -> what the handler answers
  calls      \* thread -> finished calls

vars == <<heap, folders, files, keep_raw, serial, keys, crashed, pc, ask, dir, next, end, reply, calls>>
options == <<keep_raw, serial>>
maps == <<folders, files, options>>

PCs == {"idle", "folder", "file", "check", "lock", "fill", "fillfolders", "filled",
        "pubdirs", "pubfiles", "list", "listdirs", "listfiles", "reply"}

\* Folder::process keeps the file itself.
Kept(entry, known) == keep_raw \/ ~Opens(entry, known)

NoReply == [rc |-> "none", names |-> <<>>]
NoAsk == [op |-> "none", path |-> <<>>]

NewFolder(name, c) ==
  [name |-> name, cont |-> c, processed |-> FALSE, holder |-> Nobody,
   children |-> <<>>, files |-> <<>>]

\* Where a handler has the node of its directory.
AtWork == {"check", "lock", "fill", "fillfolders", "filled",
           "pubdirs", "pubfiles", "list", "listdirs", "listfiles"}

Object ==
  [name : STRING \cup {"/"}, cont : Containers, processed : BOOLEAN, holder : Threads \cup {Nobody},
   children : Seq(Nat), files : Seq(Nat)]

\* An object was made of an entry of a container.
MadeOf(c, name, inside) ==
  \/ \E i \in DOMAIN Archive[c].files :
       Archive[c].files[i].inside = inside /\ Archive[c].files[i].stem = name
  \/ \E i \in DOMAIN Archive[c].folders :
       Archive[c].folders[i].inside = inside /\ Archive[c].folders[i].name = name

HeapOK(h) ==
  /\ h \in Seq(Object)
  /\ \A o \in DOMAIN h :
       /\ \A k \in DOMAIN h[o].children :
            /\ h[o].children[k] \in DOMAIN h
            /\ MadeOf(h[o].cont, h[h[o].children[k]].name, h[h[o].children[k]].cont)
       /\ \A k \in DOMAIN h[o].files : h[o].files[k] \in DOMAIN Archive[h[o].cont].files

MapsOK ==
  /\ DOMAIN folders \subseteq Seq(STRING) /\ <<>> \in DOMAIN folders
  /\ \A p \in DOMAIN folders : folders[p] \in DOMAIN heap
  /\ DOMAIN files \subseteq Seq(STRING)
  /\ keep_raw \in BOOLEAN /\ serial \in BOOLEAN
  /\ keys \subseteq Keys

\* A thread works on the node its path leads to, and iterates over no more than
\* the vector holds.
ThreadOK(t) ==
  /\ pc[t] \in AtWork => ask[t].path \in DOMAIN folders /\ dir[t] = folders[ask[t].path]
  /\ pc[t] \in {"pubdirs", "listdirs"} => end[t] <= Len(heap[dir[t]].children)
  /\ pc[t] \in {"pubfiles", "listfiles"} => end[t] <= Len(heap[dir[t]].files)

TypeOK ==
  /\ HeapOK(heap)
  /\ MapsOK
  /\ crashed \in BOOLEAN
  /\ pc \in [Threads -> PCs]
  /\ ask \in [Threads -> [op : {"none", "getattr", "readdir"}, path : Seq(STRING)]]
  /\ dir \in [Threads -> Nat]
  /\ next \in [Threads -> Nat] /\ end \in [Threads -> Nat]
  /\ calls \in [Threads -> Nat]
  /\ \A t \in Threads : ThreadOK(t)

\* The FileSystem constructor makes a container of the archive.
Init ==
  /\ heap = <<NewFolder("/", Root)>>
  /\ folders = [p \in {<<>>} |-> 1]
  /\ files = [p \in {} |-> 0]
  /\ keep_raw \in BOOLEAN
  /\ serial \in BOOLEAN
  /\ keys = Archive[Root].tickets
  /\ crashed = FALSE
  /\ pc = [t \in Threads |-> "idle"]
  /\ ask = [t \in Threads |-> NoAsk]
  /\ dir = [t \in Threads |-> 0]
  /\ next = [t \in Threads |-> 0]
  /\ end = [t \in Threads |-> 0]
  /\ reply = [t \in Threads |-> NoReply]
  /\ calls = [t \in Threads |-> 0]

Goto(t, from, to) == ~crashed /\ pc[t] = from /\ pc' = [pc EXCEPT ![t] = to]
Answer(t, rc) == reply' = [reply EXCEPT ![t].rc = rc]

\* What a path a caller may ask about names: the root, or something the
\* archive has in a folder the caller has seen.
NamesIn(c) ==
  {Archive[c].files[i].name : i \in DOMAIN Archive[c].files}
  \cup {Archive[c].files[i].stem : i \in DOMAIN Archive[c].files}
  \cup {Archive[c].folders[i].name : i \in DOMAIN Archive[c].folders}
Askable ==
  {<<>>} \cup UNION {{Append(p, n) : n \in NamesIn(heap[folders[p]].cont)} : p \in DOMAIN folders}

-----------------------------------------------------------------------------
(* wrap_getattr and wrap_readdir: the lookups.                             *)

Call(t, op, path) ==
  /\ op = "readdir" /\ serial => \A u \in Threads : ask[u] # [op |-> op, path |-> path]
  /\ Goto(t, "idle", "folder")
  /\ ask' = [ask EXCEPT ![t] = [op |-> op, path |-> path]]
  /\ UNCHANGED <<heap, maps, keys, crashed, dir, next, end, reply, calls>>

\* get_folder, under folders_lock.
FindFolder(t) ==
  LET found == ask[t].path \in DOMAIN folders
  IN  /\ \/ /\ ask[t].op = "getattr" /\ found
            /\ Goto(t, "folder", "reply")
            /\ Answer(t, "directory")
         \/ /\ ask[t].op = "getattr" /\ ~found
            /\ Goto(t, "folder", "file")
            /\ UNCHANGED reply
         \/ /\ ask[t].op = "readdir" /\ ~found
            /\ Goto(t, "folder", "reply")
            /\ Answer(t, "ENOENT")
         \/ /\ ask[t].op = "readdir" /\ found
            /\ Goto(t, "folder", "check")
            /\ UNCHANGED reply
      /\ dir' = [dir EXCEPT ![t] =
                   IF ask[t].op = "readdir" /\ found THEN folders[ask[t].path] ELSE 0]
      /\ UNCHANGED <<heap, maps, keys, crashed, ask, next, end, calls>>

\* get_file, under files_lock.
FindFile(t) ==
  /\ Goto(t, "file", "reply")
  /\ Answer(t, IF ask[t].path \in DOMAIN files THEN "file" ELSE "ENOENT")
  /\ UNCHANGED <<heap, maps, keys, crashed, ask, dir, next, end, calls>>

Return(t) ==
  /\ Goto(t, "reply", "idle")
  /\ ask' = [ask EXCEPT ![t] = NoAsk]
  /\ dir' = [dir EXCEPT ![t] = 0]
  /\ reply' = [reply EXCEPT ![t] = NoReply]
  /\ next' = [next EXCEPT ![t] = 0]
  /\ end' = [end EXCEPT ![t] = 0]
  /\ calls' = [calls EXCEPT ![t] = @ + 1]
  /\ UNCHANGED <<heap, maps, keys, crashed>>

-----------------------------------------------------------------------------
(* FileSystem::process_dir, Folder::process.                               *)

\* is_processed() is read without processed_mtx.
CheckProcessed(t) ==
  /\ \/ Goto(t, "check", "list") /\ heap[dir[t]].processed
     \/ Goto(t, "check", "lock") /\ ~heap[dir[t]].processed
  /\ UNCHANGED <<heap, maps, keys, crashed, ask, dir, next, end, reply, calls>>

\* The test under the mutex, !base && processed, never holds: every Folder has
\* a container.
LockDir(t) ==
  /\ Goto(t, "lock", "fill")
  /\ heap[dir[t]].holder = Nobody
  /\ heap' = [heap EXCEPT ![dir[t]].holder = t]
  /\ next' = [next EXCEPT ![t] = 0]
  /\ UNCHANGED <<maps, keys, crashed, ask, dir, end, reply, calls>>

FillFileMut(t) ==
  LET o == dir[t]
      i == next[t] + 1
      entry == Archive[heap[o].cont].files[i]
      open == Opens(entry, keys)
      kept == IF Kept(entry, keys) THEN Append(heap[o].files, i) ELSE heap[o].files
  IN  /\ Goto(t, "fill", "fill")
      /\ i <= Len(Archive[heap[o].cont].files)
      /\ heap' = IF open
                   THEN Append([heap EXCEPT ![o].files = kept,
                                            ![o].children = Append(@, Len(heap) + 1)],
                               NewFolder(entry.stem, entry.inside))
                   ELSE [heap EXCEPT ![o].files = kept]
      /\ keys' = keys
      /\ next' = [next EXCEPT ![t] = i]
      /\ UNCHANGED <<maps, crashed, ask, dir, end, reply, calls>>

\* One entry of read_files: a folder if make_container succeeds - which loads
\* the tickets of a Pfs - and the file unless only the folder is shown.
FillFile(t) ==
  LET o == dir[t]
      i == next[t] + 1
      entry == Archive[heap[o].cont].files[i]
      open == Opens(entry, keys)
      kept == IF Kept(entry, keys) THEN Append(heap[o].files, i) ELSE heap[o].files
  IN  /\ Goto(t, "fill", "fill")
      /\ i <= Len(Archive[heap[o].cont].files)
      /\ heap' = IF open
                   THEN Append([heap EXCEPT ![o].files = kept,
                                            ![o].children = Append(@, Len(heap) + 1)],
                               NewFolder(entry.stem, entry.inside))
                   ELSE [heap EXCEPT ![o].files = kept]
      /\ keys' = IF open THEN keys \cup Archive[entry.inside].tickets ELSE keys
      /\ next' = [next EXCEPT ![t] = i]
      /\ UNCHANGED <<maps, crashed, ask, dir, end, reply, calls>>

FilesFilled(t) ==
  /\ Goto(t, "fill", "fillfolders")
  /\ next[t] = Len(Archive[heap[dir[t]].cont].files)
  /\ next' = [next EXCEPT ![t] = 0]
  /\ UNCHANGED <<heap, maps, keys, crashed, ask, dir, end, reply, calls>>

\* One entry of read_folders.
FillFolder(t) ==
  LET o == dir[t]
      i == next[t] + 1
      entry == Archive[heap[o].cont].folders[i]
  IN  /\ Goto(t, "fillfolders", "fillfolders")
      /\ i <= Len(Archive[heap[o].cont].folders)
      /\ heap' = Append([heap EXCEPT ![o].children = Append(@, Len(heap) + 1)],
                        NewFolder(entry.name, entry.inside))
      /\ next' = [next EXCEPT ![t] = i]
      /\ UNCHANGED <<maps, keys, crashed, ask, dir, end, reply, calls>>

FilledMut(t) ==
  /\ Goto(t, "fillfolders", "filled")
  /\ next[t] = Len(Archive[heap[dir[t]].cont].folders)
  /\ heap' = [heap EXCEPT ![dir[t]].processed = TRUE]
  /\ UNCHANGED <<maps, keys, crashed, ask, dir, next, end, reply, calls>>

\* processed = true, and the mutex is released on return.
Filled(t) ==
  /\ Goto(t, "fillfolders", "filled")
  /\ next[t] = Len(Archive[heap[dir[t]].cont].folders)
  /\ heap' = [heap EXCEPT ![dir[t]].processed = TRUE, ![dir[t]].holder = Nobody]
  /\ UNCHANGED <<maps, keys, crashed, ask, dir, next, end, reply, calls>>

\* The loops over get_children() and get_files() take no lock on the folder.
\* Their iterators go from the begin to the end the vector had when the loop
\* started, whatever is appended to it since.
Iterate(t, length) ==
  /\ next' = [next EXCEPT ![t] = 0]
  /\ end' = [end EXCEPT ![t] = length]
Advance(t) == next[t] < end[t] /\ next' = [next EXCEPT ![t] = @ + 1]
AtEnd(t) == next[t] = end[t]

PublishBegins(t) ==
  /\ Goto(t, "filled", "pubdirs")
  /\ Iterate(t, Len(heap[dir[t]].children))
  /\ UNCHANGED <<heap, maps, keys, crashed, ask, dir, reply, calls>>

TryEmplaceMut(map, path, node) ==
  [p \in DOMAIN map \cup {path} |-> IF p = path THEN node ELSE map[p]]

\* unordered_map::try_emplace: a path that is there keeps its node.
TryEmplace(map, path, node) ==
  [p \in DOMAIN map \cup {path} |-> IF p \in DOMAIN map THEN map[p] ELSE node]

PublishFolderMut(t) ==
  LET child == heap[dir[t]].children[next[t] + 1]
  IN  /\ Goto(t, "pubdirs", "pubdirs")
      /\ Advance(t)
      /\ folders' = TryEmplace(folders, <<heap[child].name>>, child)
      /\ UNCHANGED <<heap, files, options, keys, crashed, ask, dir, end, reply, calls>>

\* add_folder.
PublishFolder(t) ==
  LET child == heap[dir[t]].children[next[t] + 1]
  IN  /\ Goto(t, "pubdirs", "pubdirs")
      /\ Advance(t)
      /\ folders' = TryEmplace(folders, Append(ask[t].path, heap[child].name), child)
      /\ UNCHANGED <<heap, files, options, keys, crashed, ask, dir, end, reply, calls>>

FoldersPublishedMut(t) ==
  /\ AtEnd(t)
  /\ Goto(t, "pubdirs", "list")
  /\ Iterate(t, Len(heap[dir[t]].files))
  /\ UNCHANGED <<heap, maps, keys, crashed, ask, dir, reply, calls>>

FoldersPublished(t) ==
  /\ AtEnd(t)
  /\ Goto(t, "pubdirs", "pubfiles")
  /\ Iterate(t, Len(heap[dir[t]].files))
  /\ UNCHANGED <<heap, maps, keys, crashed, ask, dir, reply, calls>>

\* add_file.
PublishFile(t) ==
  LET c == heap[dir[t]].cont
      i == heap[dir[t]].files[next[t] + 1]
  IN  /\ Goto(t, "pubfiles", "pubfiles")
      /\ Advance(t)
      /\ files' = TryEmplace(files, Append(ask[t].path, Archive[c].files[i].name),
                             [cont |-> c, entry |-> i])
      /\ UNCHANGED <<heap, folders, options, keys, crashed, ask, dir, end, reply, calls>>

FilesPublished(t) ==
  /\ AtEnd(t)
  /\ Goto(t, "pubfiles", "list")
  /\ UNCHANGED <<heap, maps, keys, crashed, ask, dir, next, end, reply, calls>>

-----------------------------------------------------------------------------
(* The rest of wrap_readdir: the listing.                                  *)

ListBegins(t) ==
  /\ Goto(t, "list", "listdirs")
  /\ Iterate(t, Len(heap[dir[t]].children))
  /\ UNCHANGED <<heap, maps, keys, crashed, ask, dir, reply, calls>>

Fill(t, names) == reply' = [reply EXCEPT ![t].names = @ \o names]

ListFolders(t) ==
  LET kids == heap[dir[t]].children
  IN  /\ Goto(t, "listdirs", "listfiles")
      /\ Fill(t, [k \in 1 .. end[t] |-> heap[kids[k]].name])
      /\ Iterate(t, Len(heap[dir[t]].files))
      /\ UNCHANGED <<heap, maps, keys, crashed, ask, dir, calls>>

ListFiles(t) ==
  LET c == heap[dir[t]].cont
      held == heap[dir[t]].files
  IN  /\ Goto(t, "listfiles", "reply")
      /\ reply' = [reply EXCEPT ![t] =
           [rc |-> "listing",
            names |-> @.names \o [k \in 1 .. end[t] |-> Archive[c].files[held[k]].name]]]
      /\ UNCHANGED <<heap, maps, keys, crashed, ask, dir, next, end, calls>>

\* Another thread appends to the vector: the iterators may dangle, and then the
\* loop reads what the old buffer still holds (the steps above) or dies.
Crash(t) ==
  /\ \/ pc[t] \in {"pubdirs", "listdirs"} /\ end[t] # Len(heap[dir[t]].children)
     \/ pc[t] \in {"pubfiles", "listfiles"} /\ end[t] # Len(heap[dir[t]].files)
  /\ ~crashed
  /\ crashed' = TRUE
  /\ UNCHANGED <<heap, maps, keys, pc, ask, dir, next, end, reply, calls>>

-----------------------------------------------------------------------------
Handle(t) ==
  \/ FindFolder(t)
  \/ FindFile(t)
  \/ Return(t)
  \/ CheckProcessed(t)
  \/ LockDir(t)
  \/ FillFile(t)
  \/ FilesFilled(t)
  \/ FillFolder(t)
  \/ Filled(t)
  \/ PublishBegins(t)
  \/ PublishFolder(t)
  \/ FoldersPublished(t)
  \/ PublishFile(t)
  \/ FilesPublished(t)
  \/ ListBegins(t)
  \/ ListFolders(t)
  \/ ListFiles(t)

Next ==
  \E t \in Threads :
    \/ /\ pc[t] = "idle" /\ calls[t] < MaxCalls
       /\ \E op \in {"getattr", "readdir"}, path \in Askable : Call(t, op, path)
    \/ Handle(t)
    \/ Crash(t)

Spec == Init /\ [][Next]_vars

\* A handler that can go on does; nothing obliges the host to call one.
FairSpec == Spec /\ \A t \in Threads : WF_vars(Handle(t))

-----------------------------------------------------------------------------
\* What a directory lists when every key the archive carries is known: the
\* containers in it as folders, its directories, and the files that are none.
Listing(c) ==
  LET entries == Archive[c].files
      opened == InOrder({i \in DOMAIN entries : Opens(entries[i], Keys)})
      kept == InOrder({i \in DOMAIN entries : Kept(entries[i], Keys)})
  IN  [k \in DOMAIN opened |-> entries[opened[k]].stem]
        \o [k \in DOMAIN Archive[c].folders |-> Archive[c].folders[k].name]
        \o [k \in DOMAIN kept |-> entries[kept[k]].name]

\* known[c] are keys that are loaded when a folder stands for c: some that were
\* where it is, and some of its own tickets.  The keys a container needs, if the
\* archive has them at all, are loaded where it is.  A RomFS directory has no
\* tickets.
LoadedBefore(known) ==
  /\ known[Root] \subseteq Archive[Root].tickets
  /\ \A c \in Containers :
       /\ \A i \in DOMAIN Archive[c].files :
            LET inside == Archive[c].files[i].inside
            IN  inside # NoContainer =>
                  /\ known[inside] \subseteq known[c] \cup Archive[inside].tickets
                  /\ Archive[inside].needs \subseteq Keys => Archive[inside].needs \subseteq known[c]
       /\ \A i \in DOMAIN Archive[c].folders :
            known[Archive[c].folders[i].inside] \subseteq known[c]

\* The title keys a container needs, if the archive has them at all, are in
\* tickets beside it or beside a container it is in: they are loaded before it
\* is tried.
TicketsBefore == \E known \in [Containers -> SUBSET Keys] : LoadedBefore(known)

ExactReply(t) ==
  reply[t].rc = "listing" => reply[t].names = Listing(heap[dir[t]].cont)

\* readdir answers with each name of the directory once, however the folders
\* were filled before, by whom and in which order, and although the title keys
\* arrive while they are, when no directory is read twice at the same time
\* (vfs.cpp:26-43, 83-127, fuse.cpp:110-130).
ListingExact == serial => \A t \in Threads : ExactReply(t)

\* The same whenever the directories are read.
ListingAlwaysExact == \A t \in Threads : ExactReply(t)

\* Every name readdir gives out can be looked up from then on: process_dir has
\* registered the nodes before wrap_readdir lists them.  A second reader of the
\* directory would find it processed, and list it, before that.
ListedIsFound ==
  serial => \A t \in Threads : reply[t].rc = "listing" =>
    \A i \in DOMAIN reply[t].names :
      Append(ask[t].path, reply[t].names[i]) \in DOMAIN folders \cup DOMAIN files

\* A path leads where the archive says it does: its parent is registered, and
\* the node behind it was made of an entry of that name of the parent's
\* container.
PathsFaithful ==
  /\ \A p \in DOMAIN folders \ {<<>>} :
       /\ Front(p) \in DOMAIN folders
       /\ MadeOf(heap[folders[Front(p)]].cont, Last(p), heap[folders[p]].cont)
  /\ \A p \in DOMAIN files :
       /\ Front(p) \in DOMAIN folders
       /\ heap[folders[Front(p)]].cont = files[p].cont
       /\ Archive[files[p].cont].files[files[p].entry].name = Last(p)

\* A path that has led to a node leads to it for ever: a second process() of a
\* folder does not replace the nodes the host already uses (try_emplace).
NodesStay ==
  [][/\ \A p \in DOMAIN folders : p \in DOMAIN folders' /\ folders'[p] = folders[p]
     /\ \A p \in DOMAIN files : p \in DOMAIN files' /\ files'[p] = files[p]]_vars

\* Every handler answers, unless the process died.
HandlerReturns ==
  \A t \in Threads : (pc[t] # "idle") ~> (pc[t] = "idle" \/ crashed)
=============================================================================
