-------------------------------- MODULE Walk --------------------------------
(***************************************************************************)
(* The commands find, list and dump going through the tree: find_folder    *)
(* and walk of FileSystem (src/src/vfs.cpp) with the callbacks of          *)
(* src/src/find.cpp, list.cpp and dump.cpp.                                *)
(*                                                                         *)
(* One thread walks.  What Folder::process makes of a folder is a          *)
(* constant, Kids and Leaves; Vfs.tla models how.  A path is the sequence  *)
(* of components fs::path iterates over: "/" first when it is absolute.    *)
(***************************************************************************)
EXTENDS Naturals, Sequences, FiniteSets, TLC, SequencesExt

CONSTANTS
  Folders,     \* the Folder objects
  Files,       \* the File objects
  RootFolder,  \* what is made of the archive itself
  Kids,        \* folder -> its children: sequence of [name, node]
  Leaves,      \* folder -> its files: sequence of [name, node]
  Requests,    \* the runs: records [cmd, paths, depth, max, left, refused]
  Matching,    \* the names that match the expression of find
  MaxDepth     \* bound: the largest depth asked for

ASSUME WalkAssumption ==
  /\ RootFolder \in Folders
  /\ MaxDepth \in Nat
  /\ \A f \in Folders :
       /\ Kids[f] \in Seq([name : STRING, node : Folders])
       /\ Leaves[f] \in Seq([name : STRING, node : Files])
  /\ \A r \in Requests :
       /\ r.cmd \in {"find", "list", "dump"}
       /\ r.paths \in Seq(Seq(STRING) \ {<<>>})
       /\ r.depth \in 0 .. MaxDepth /\ r.max \in Nat /\ r.refused \in BOOLEAN
       /\ r.cmd # "dump" => Len(r.paths) = 1
       /\ r.cmd = "list" => r.paths[1] = <<"/">>

\* process() makes each node anew (vfs.cpp:110-128): it is in one folder, once.
ASSUME TreeAssumption ==
  /\ \A f \in Folders : \A i \in DOMAIN Kids[f] : Kids[f][i].node # RootFolder
  /\ \A f, g \in Folders : \A i \in DOMAIN Kids[f], j \in DOMAIN Kids[g] :
       Kids[f][i].node = Kids[g][j].node => f = g /\ i = j
  /\ \A f, g \in Folders : \A i \in DOMAIN Leaves[f], j \in DOMAIN Leaves[g] :
       Leaves[f][i].node = Leaves[g][j].node => f = g /\ i = j

VARIABLES
  req,        \* the command line, and what the run meets: whether the host may
              \* refuse a folder, a file or its bytes, and what is left of the archive
  folders,    \* FileSystem::folders: path -> folder
  files,      \* FileSystem::files: path -> file
  processed,  \* the folders whose nodes are registered
  pc,         \* where run() is
  turn,       \* the index in req.paths it is at
  at,         \* components find_folder has gone through
  stack,      \* the calls of walk(), innermost last
  visited,    \* the paths given to the callbacks, in order
  matched,    \* cur_count of find
  rc          \* what run() returned

vars == <<req, folders, files, processed, pc, turn, at, stack, visited, matched, rc>>
maps == <<folders, files, processed>>

Slash == <<"/">>
\* The components of a path: the root's, and names.
Names == {"/"} \cup STRING
PCs == {"next", "lookup", "found", "missing", "walk", "done"}
Frames == [path : Seq(Names), depth : 1 .. MaxDepth, folder : Folders, kid : Nat, leaf : Nat]

TypeOK ==
  /\ req \in Requests
  /\ Slash \in DOMAIN folders
  /\ \A p \in DOMAIN folders : folders[p] \in Folders
  /\ \A p \in DOMAIN files : files[p] \in Files
  /\ processed \subseteq Folders
  /\ pc \in PCs
  /\ turn \in 0 .. Len(req.paths)
  /\ at \in Nat
  /\ \A i \in DOMAIN stack : stack[i] \in Frames
  /\ \A i \in DOMAIN visited : visited[i].kind \in {"folder", "file"}
  /\ matched \in 0 .. Len(visited)
  /\ rc \in {"none", "0", "1"}

Init ==
  /\ req \in Requests
  /\ folders = [p \in {Slash} |-> RootFolder]
  /\ files = [p \in {} |-> 0]
  /\ processed = {}
  /\ pc = "next"
  /\ turn = 0
  /\ at = 0
  /\ stack = <<>>
  /\ visited = <<>>
  /\ matched = 0
  /\ rc = "none"

-----------------------------------------------------------------------------
(* FileSystem::process_dir.                                                *)

\* try_emplace of every node under its parent's path: the first of a name
\* stays.
Registered(map, path, nodes) ==
  LET first(name) == CHOOSE i \in DOMAIN nodes :
        nodes[i].name = name /\ \A j \in 1 .. i - 1 : nodes[j].name # name
      new == {Append(path, nodes[i].name) : i \in DOMAIN nodes} \ DOMAIN map
  IN  [p \in DOMAIN map \cup new |->
         IF p \in DOMAIN map THEN map[p] ELSE nodes[first(Last(p))].node]

ProcessDirMut(path) ==
  IF path \in DOMAIN folders /\ folders[path] \notin processed
    THEN /\ folders' = Registered(folders, path, Kids[folders[path]])
         /\ files' = Registered(files, Slash, Leaves[folders[path]])
         /\ processed' = processed \cup {folders[path]}
    ELSE UNCHANGED maps

ProcessDir(path) ==
  IF path \in DOMAIN folders /\ folders[path] \notin processed
    THEN /\ folders' = Registered(folders, path, Kids[folders[path]])
         /\ files' = Registered(files, path, Leaves[folders[path]])
         /\ processed' = processed \cup {folders[path]}
    ELSE UNCHANGED maps

\* get_children() and get_files() of a folder.
ChildrenOf(f) == IF f \in processed THEN Kids[f] ELSE <<>>
FilesOf(f) == IF f \in processed THEN Leaves[f] ELSE <<>>

-----------------------------------------------------------------------------
(* The callbacks.                                                          *)

Path == req.paths[turn]

Report(kind, path) ==
  /\ visited' = Append(visited, [kind |-> kind, path |-> path])
  /\ matched' = IF req.cmd = "find" /\ Last(path) \in Matching THEN matched + 1 ELSE matched

EnoughMut == req.cmd = "find" /\ matched' > req.max

\* The callback of find asks to stop.
Enough == req.cmd = "find" /\ matched' >= req.max

\* walk() has returned true: dump's run() returns 1, the others do not look.
Stop ==
  /\ pc' = "done"
  /\ stack' = <<>>
  /\ rc' = IF req.cmd = "dump" THEN "1" ELSE "0"

\* create_directories reports an error to dump.
CreateFails ==
  /\ req.cmd = "dump" /\ req.refused
  /\ Stop
  /\ UNCHANGED <<visited, matched>>

EnterMut(path, depth, rest, known) ==
  \/ /\ path \in DOMAIN known
     /\ stack' = Append(rest, [path |-> path, depth |-> depth, folder |-> known[path],
                               kid |-> 1, leaf |-> 1])
     /\ UNCHANGED rc
     /\ pc' = "walk"
  \/ /\ path \notin DOMAIN known
     /\ Stop

\* The call walk(path, depth); a depth of 0 returns at once, and so does a
\* path that is not in the map.  The caller goes on with rest.
Enter(path, depth, rest, known) ==
  \/ /\ depth = 0
     /\ stack' = rest
     /\ UNCHANGED rc
     /\ pc' = "walk"
  \/ /\ depth > 0 /\ path \in DOMAIN known
     /\ stack' = Append(rest, [path |-> path, depth |-> depth, folder |-> known[path],
                               kid |-> 1, leaf |-> 1])
     /\ UNCHANGED rc
     /\ pc' = "walk"
  \/ /\ depth > 0 /\ path \notin DOMAIN known
     /\ Stop

-----------------------------------------------------------------------------
(* run() of the three commands, and find_folder.                           *)

NextPath ==
  /\ pc = "next"
  /\ turn < Len(req.paths)
  /\ ~(req.cmd = "find" /\ req.max = 0)
  /\ pc' = "lookup"
  /\ turn' = turn + 1
  /\ at' = 0
  /\ UNCHANGED <<req, maps, stack, visited, matched, rc>>

Return ==
  /\ pc = "next"
  /\ turn = Len(req.paths) \/ (req.cmd = "find" /\ req.max = 0)
  /\ pc' = "done"
  /\ rc' = "0"
  /\ UNCHANGED <<req, maps, turn, at, stack, visited, matched>>

\* The expression of find does not compile, and the command stops at once.
BadPattern ==
  /\ pc = "next" /\ turn = 0
  /\ req.cmd = "find" /\ req.max # 0
  /\ pc' = "done"
  /\ rc' = "1"
  /\ UNCHANGED <<req, maps, turn, at, stack, visited, matched>>

\* find_folder: the root, then each component of relative_path() under it.
Relative == IF Head(Path) = "/" THEN Tail(Path) ELSE Path
CurPath == Slash \o SubSeq(Relative, 1, at)

LookupStep ==
  /\ pc = "lookup"
  /\ CurPath \in DOMAIN folders
  /\ ProcessDir(CurPath)
  /\ IF at < Len(Relative)
       THEN at' = at + 1 /\ UNCHANGED pc
       ELSE pc' = "found" /\ UNCHANGED at
  /\ UNCHANGED <<req, turn, stack, visited, matched, rc>>

LookupFails ==
  /\ pc = "lookup"
  /\ CurPath \notin DOMAIN folders
  /\ pc' = "missing"
  /\ UNCHANGED <<req, maps, turn, at, stack, visited, matched, rc>>

\* dump creates the folder first.
StartWalk ==
  /\ pc = "found"
  /\ \/ CreateFails
     \/ /\ IF req.cmd = "dump" THEN Report("folder", Path) ELSE UNCHANGED <<visited, matched>>
        /\ Enter(Path, req.depth, <<>>, folders)
  /\ UNCHANGED <<req, maps, turn, at>>

\* find and list give up; dump goes on, with the file the path may name.
Missing ==
  /\ pc = "missing"
  /\ \/ /\ req.cmd # "dump"
        /\ pc' = "done" /\ rc' = "1"
        /\ UNCHANGED <<stack, visited, matched>>
     \/ /\ req.cmd = "dump" /\ Path \notin DOMAIN files
        /\ pc' = "next"
        /\ UNCHANGED <<stack, visited, matched, rc>>
     \/ /\ Path \in DOMAIN files
        /\ CreateFails
     \/ /\ req.cmd = "dump" /\ Path \in DOMAIN files
        /\ visited' = visited \o <<[kind |-> "folder", path |-> Front(Path)],
                                   [kind |-> "file", path |-> Path]>>
        /\ pc' = "next"
        /\ UNCHANGED <<stack, matched, rc>>
  /\ UNCHANGED <<req, maps, turn, at>>

-----------------------------------------------------------------------------
(* FileSystem::walk.                                                       *)

Top == stack[Len(stack)]

WalkChildMut ==
  /\ pc = "walk" /\ stack # <<>>
  /\ Top.kid <= Len(ChildrenOf(Top.folder))
  /\ LET path == Append(Top.path, ChildrenOf(Top.folder)[Top.kid].name)
         rest == Append(Front(stack), [Top EXCEPT !.kid = @ + 1])
     IN  /\ ProcessDir(path)
         /\ \/ CreateFails
            \/ /\ Report("folder", path)
               /\ \/ Enough /\ Stop
                  \/ ~Enough /\ Enter(path, Top.depth, rest, folders')
  /\ UNCHANGED <<req, turn, at>>

\* One child: it is processed, reported, and walked.
WalkChild ==
  /\ pc = "walk" /\ stack # <<>>
  /\ Top.kid <= Len(ChildrenOf(Top.folder))
  /\ LET path == Append(Top.path, ChildrenOf(Top.folder)[Top.kid].name)
         rest == Append(Front(stack), [Top EXCEPT !.kid = @ + 1])
     IN  /\ ProcessDir(path)
         /\ \/ CreateFails
            \/ /\ Report("folder", path)
               /\ \/ Enough /\ Stop
                  \/ ~Enough /\ Enter(path, Top.depth - 1, rest, folders')
  /\ UNCHANGED <<req, turn, at>>

\* One file, when the children are done.
WalkFile ==
  /\ pc = "walk" /\ stack # <<>>
  /\ Top.kid > Len(ChildrenOf(Top.folder))
  /\ Top.leaf <= Len(FilesOf(Top.folder))
  /\ Report("file", Append(Top.path, FilesOf(Top.folder)[Top.leaf].name))
  /\ \/ Enough /\ Stop
     \/ /\ ~Enough
        /\ stack' = Append(Front(stack), [Top EXCEPT !.leaf = @ + 1])
        /\ UNCHANGED <<pc, rc>>
  /\ UNCHANGED <<req, maps, turn, at>>

WalkReturns ==
  /\ pc = "walk" /\ stack # <<>>
  /\ Top.kid > Len(ChildrenOf(Top.folder))
  /\ Top.leaf > Len(FilesOf(Top.folder))
  /\ stack' = Front(stack)
  /\ UNCHANGED <<req, maps, pc, turn, at, visited, matched, rc>>

WalkDone ==
  /\ pc = "walk" /\ stack = <<>>
  /\ pc' = "next"
  /\ UNCHANGED <<req, maps, turn, at, stack, visited, matched, rc>>

WalkNext ==
  \/ NextPath
  \/ BadPattern
  \/ Return
  \/ LookupStep
  \/ LookupFails
  \/ StartWalk
  \/ Missing
  \/ WalkChild
  \/ WalkFile
  \/ WalkReturns
  \/ WalkDone

WalkSpec == Init /\ [][WalkNext]_vars

-----------------------------------------------------------------------------
(* What the commands should visit, told without a walk.                    *)

\* The children of folders, with their paths.
Lower(level) ==
  UNION {{[path |-> Append(x.path, k.name), node |-> k.node] : k \in ToSet(Kids[x.node])} : x \in level}

\* The folders d levels below a folder.
Level(path, folder) ==
  LET below[d \in Nat] ==
        IF d = 0 THEN {[path |-> path, node |-> folder]} ELSE Lower(below[d - 1])
  IN  below

Entries(path, folder, depth) ==
  LET level == Level(path, folder)
      below == UNION {{[kind |-> "folder", path |-> x.path] : x \in level[d]} : d \in 1 .. depth}
      leaves(x) == {[kind |-> "file", path |-> Append(x.path, l.name)] : l \in ToSet(Leaves[x.node])}
      within == UNION {UNION {leaves(x) : x \in level[d]} : d \in 0 .. depth - 1}
  IN  below \cup within

\* The folder a path leads to, whether it starts with "/" or not; at most one,
\* as names are distinct.
Named(path) ==
  LET full == IF Head(path) = "/" THEN path ELSE Slash \o path
  IN  {x.node : x \in {y \in Level(Slash, RootFolder)[Len(full) - 1] : y.path = full}}

\* What a command is to visit for one path of its command line: dump creates the
\* folder it starts from, and the folder of a file it is asked for.
Asked(r, path) ==
  LET folder == Named(path)
      parent == IF Len(path) > 1 THEN Named(Front(path)) ELSE {}
      start == IF r.cmd = "dump" THEN {[kind |-> "folder", path |-> path]} ELSE {}
      isFile == \E f \in parent : \E l \in ToSet(Leaves[f]) : l.name = Last(path)
  IN  IF folder # {} THEN start \cup UNION {Entries(path, f, r.depth) : f \in folder}
      ELSE IF r.cmd = "dump" /\ isFile
             THEN {[kind |-> "folder", path |-> Front(path)], [kind |-> "file", path |-> path]}
      ELSE {}

\* A command that reports success has visited what it was asked for, each path
\* once for each time it was asked for, unless find had its matches before
\* (vfs.cpp:129-172).
VisitsExact ==
  rc = "0" /\ ~(req.cmd = "find" /\ matched >= req.max) =>
    LET asked == [i \in DOMAIN req.paths |-> Asked(req, req.paths[i])]
    IN  /\ ToSet(visited) \subseteq UNION Range(asked)
        /\ \A e \in UNION Range(asked) :
             Cardinality({j \in DOMAIN visited : visited[j] = e})
               = Cardinality({i \in DOMAIN asked : e \in asked[i]})

\* find prints as many matches as there are, or as many as it may
\* (find.cpp:60-72, the depth of walk, max_count).
CountExact ==
  req.cmd = "find" /\ rc = "0" =>
    LET found == {e \in Asked(req, req.paths[1]) : Last(e.path) \in Matching}
    IN  matched = IF Cardinality(found) < req.max THEN Cardinality(found) ELSE req.max

\* When a file is queued for dumping its path leads to the file, for the get_file
\* the worker dereferences (dump.cpp:48), and the folder it goes to has been
\* created before (dump.cpp:49).
JobsReady ==
  req.cmd = "dump" =>
    \A j \in DOMAIN visited : visited[j].kind = "file" =>
      LET path == visited[j].path
      IN  /\ path \in DOMAIN files /\ Front(path) \in DOMAIN folders
          /\ \E l \in ToSet(Leaves[folders[Front(path)]]) :
               l.name = Last(path) /\ l.node = files[path]
          /\ \E i \in 1 .. j - 1 : visited[i].kind = "folder" /\ IsPrefix(Front(path), visited[i].path)
=============================================================================
