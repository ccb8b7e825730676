----------------------------- MODULE DumpProofs -----------------------------
(***************************************************************************)
(* Theorems about Walk and Dump, for every tree of folders, command line,  *)
(* depth, number of workers, size of files and of the copy buffer: a file  *)
(* that is queued for dumping is there to be dumped; a command visits what *)
(* it was asked for, each entry as often as it was asked for; find counts  *)
(* what there is to find; what dump has on the disk when it reports is     *)
(* whole, and when it succeeds is what it was asked for; and all of the    *)
(* state keeps its type.                                                   *)
(***************************************************************************)
EXTENDS Dump, Integers, FiniteSetTheorems, SequenceTheorems, WellFoundedInduction, TLAPS

-----------------------------------------------------------------------------
(* Sequences and maps.                                                     *)

\* What Append does to a sequence.
LEMMA AppendOp ==
  ASSUME NEW S, NEW s \in Seq(S), NEW e \in S
  PROVE  /\ Append(s, e) \in Seq(S)
         /\ Len(s) \in Nat /\ DOMAIN s = 1 .. Len(s)
         /\ Len(Append(s, e)) = Len(s) + 1
         /\ DOMAIN Append(s, e) = 1 .. Len(s) + 1
         /\ \A i \in 1 .. Len(s) : Append(s, e)[i] = s[i]
         /\ Append(s, e)[Len(s) + 1] = e
OBVIOUS

\* A path that was extended gives back what it was extended from and with.
LEMMA PathOp ==
  ASSUME NEW S, NEW p \in Seq(S), NEW n \in S
  PROVE  Front(Append(p, n)) = p /\ Last(Append(p, n)) = n
<1>1. Len(Append(p, n)) = Len(p) + 1 /\ Append(p, n)[Len(p) + 1] = n
  OBVIOUS
<1>2. SubSeq(Append(p, n), 1, Len(p)) = p
  OBVIOUS
<1> QED
  BY <1>1, <1>2 DEF Front, Last

LEMMA PrefixOp ==
  ASSUME NEW S, NEW p \in Seq(S)
  PROVE  IsPrefix(p, p)
BY DEF IsPrefix

LEMMA ElementOp ==
  ASSUME NEW S, NEW s \in Seq(S), NEW i \in DOMAIN s
  PROVE  s[i] \in S /\ i \in 1 .. Len(s)
OBVIOUS

LEMMA SubSeqOp ==
  ASSUME NEW S, NEW s \in Seq(S), NEW n \in 0 .. Len(s)
  PROVE  /\ SubSeq(s, 1, n) \in Seq(S) /\ Len(SubSeq(s, 1, n)) = n
         /\ DOMAIN SubSeq(s, 1, n) = 1 .. n
         /\ \A i \in 1 .. n : SubSeq(s, 1, n)[i] = s[i]
OBVIOUS

\* The elements of Front are the first ones.
LEMMA FrontOp ==
  ASSUME NEW S, NEW s \in Seq(S), s # <<>>
  PROVE  /\ Front(s) \in Seq(S) /\ Len(Front(s)) = Len(s) - 1
         /\ DOMAIN Front(s) = 1 .. Len(s) - 1
         /\ \A i \in 1 .. Len(s) - 1 : Front(s)[i] = s[i]
         /\ Len(s) \in Nat \ {0} /\ s[Len(s)] \in S
<1>1. Len(s) \in Nat \ {0} /\ Front(s) = SubSeq(s, 1, Len(s) - 1)
  BY DEF Front
<1> DEFINE n == Len(s) - 1
<1>2. n \in 0 .. Len(s) /\ Len(s) \in DOMAIN s
  BY <1>1
<1> HIDE DEF n
<1>3. /\ SubSeq(s, 1, n) \in Seq(S) /\ Len(SubSeq(s, 1, n)) = n
      /\ DOMAIN SubSeq(s, 1, n) = 1 .. n
      /\ \A i \in 1 .. n : SubSeq(s, 1, n)[i] = s[i]
  BY <1>2, SubSeqOp
<1>4. s[Len(s)] \in S
  BY <1>2, ElementOp
<1> QED
  BY <1>1, <1>3, <1>4 DEF n

\* A set of numbers has a least one.
LEMMA LeastNumber ==
  ASSUME NEW T \in SUBSET Nat, T # {}
  PROVE  \E x \in T : \A y \in T : x <= y
<1> DEFINE R == {p \in Nat \X Nat : p[1] < p[2]}
<1>1. IsWellFoundedOn(R, Nat)
  BY NatLessThanWellFounded DEF OpToRel
<1> HIDE DEF R
<1>2. PICK x \in T : \A y \in T : ~ (<<y, x>> \in R)
  BY <1>1, WFMin
<1>3. ASSUME NEW y \in T PROVE x <= y
  <2>1. ~ (<<y, x>> \in R)
    BY <1>2
  <2>2. ~ (y < x)
    BY <2>1 DEF R
  <2> QED
    BY <2>2
<1> QED
  BY <1>3

\* A path is registered under another one for a node of that name.
Added(p, path, nodes, node) ==
  \E i \in DOMAIN nodes : p = Append(path, nodes[i].name) /\ node = nodes[i].node

\* Registering nodes adds the paths of their names, of which the first is kept,
\* and changes none.
LEMMA RegisteredOp ==
  ASSUME NEW map, NEW path \in Seq(Names), NEW nodes, NEW n \in Nat, DOMAIN nodes = 1 .. n,
         \A i \in DOMAIN nodes : nodes[i].name \in Names
  PROVE  /\ \A p \in DOMAIN map : /\ p \in DOMAIN Registered(map, path, nodes)
                                  /\ Registered(map, path, nodes)[p] = map[p]
         /\ \A i \in DOMAIN nodes : Append(path, nodes[i].name) \in DOMAIN Registered(map, path, nodes)
         /\ \A p \in DOMAIN Registered(map, path, nodes) :
              p \in DOMAIN map \/ Added(p, path, nodes, Registered(map, path, nodes)[p])
<1> DEFINE first(name) == CHOOSE i \in DOMAIN nodes :
             nodes[i].name = name /\ \A j \in 1 .. i - 1 : nodes[j].name # name
           new == {Append(path, nodes[i].name) : i \in DOMAIN nodes} \ DOMAIN map
<1>1. Registered(map, path, nodes) =
        [p \in DOMAIN map \cup new |->
           IF p \in DOMAIN map THEN map[p] ELSE nodes[first(Last(p))].node]
  BY DEF Registered
<1>2. ASSUME NEW i \in DOMAIN nodes
      PROVE  first(nodes[i].name) \in DOMAIN nodes /\ nodes[first(nodes[i].name)].name = nodes[i].name
  <2> DEFINE named == {j \in DOMAIN nodes : nodes[j].name = nodes[i].name}
  <2>1. named \in SUBSET Nat /\ named # {}
    OBVIOUS
  <2>2. PICK x \in named : \A y \in named : x <= y
    BY <2>1, LeastNumber
  <2>3. x \in DOMAIN nodes /\ nodes[x].name = nodes[i].name
    BY <2>2
  <2>4. \A j \in 1 .. x - 1 : nodes[j].name # nodes[i].name
    BY <2>2, <2>3
  <2> QED
    BY <2>3, <2>4
<1> HIDE DEF first
<1>3. ASSUME NEW p \in new
      PROVE  \E i \in DOMAIN nodes :
               p = Append(path, nodes[i].name) /\ nodes[first(Last(p))].node = nodes[i].node
  <2>1. PICK k \in DOMAIN nodes : p = Append(path, nodes[k].name)
    OBVIOUS
  <2>2. Last(p) = nodes[k].name
    BY <2>1, PathOp
  <2>3. /\ first(Last(p)) \in DOMAIN nodes
        /\ nodes[first(Last(p))].name = nodes[k].name
    BY <1>2, <2>2
  <2> QED
    BY <2>1, <2>3
<1> HIDE DEF new
<1>4. /\ \A i \in DOMAIN nodes : Append(path, nodes[i].name) \in DOMAIN map \cup new
      /\ \A p \in DOMAIN map \cup new : p \in DOMAIN map \/ p \in new
  BY DEF new
<1> QED
  BY <1>1, <1>3, <1>4 DEF Added

-----------------------------------------------------------------------------
(* The maps.                                                               *)

\* A path of the maps is that of a folder and a name in it.
Below(p) ==
  \E q \in DOMAIN folders : \E i \in DOMAIN Kids[folders[q]] :
    /\ p = Append(q, Kids[folders[q]][i].name)
    /\ folders[p] = Kids[folders[q]][i].node

Within(p) ==
  \E q \in DOMAIN folders : \E i \in DOMAIN Leaves[folders[q]] :
    /\ p = Append(q, Leaves[folders[q]][i].name)
    /\ files[p] = Leaves[folders[q]][i].node

\* A folder has one path; of a processed one, all files are in the map.
MapsOK ==
  /\ DOMAIN folders \subseteq Seq(Names) /\ DOMAIN files \subseteq Seq(Names)
  /\ \A p \in DOMAIN folders : folders[p] \in Folders
  /\ Slash \in DOMAIN folders /\ folders[Slash] = RootFolder
  /\ \A p \in DOMAIN folders : p = Slash \/ Below(p)
  /\ \A p \in DOMAIN files : Within(p)
  /\ \A p, q \in DOMAIN folders : folders[p] = folders[q] => p = q
  /\ processed \subseteq {folders[p] : p \in DOMAIN folders}
  /\ \A p \in DOMAIN folders : folders[p] \in processed =>
       \A i \in DOMAIN Leaves[folders[p]] :
         Append(p, Leaves[folders[p]][i].name) \in DOMAIN files

\* No path is lost, or leads elsewhere.
Grows ==
  /\ DOMAIN folders \subseteq DOMAIN folders'
  /\ \A p \in DOMAIN folders : folders'[p] = folders[p]
  /\ DOMAIN files \subseteq DOMAIN files'
  /\ \A p \in DOMAIN files : files'[p] = files[p]

LEMMA KidsType ==
  ASSUME NEW f \in Folders
  PROVE  /\ Kids[f] \in Seq([name : STRING, node : Folders])
         /\ \A i \in DOMAIN Kids[f] : Kids[f][i].name \in Names /\ Kids[f][i].node \in Folders
         /\ Leaves[f] \in Seq([name : STRING, node : Files])
         /\ \A i \in DOMAIN Leaves[f] : Leaves[f][i].name \in Names
<1>1. /\ Kids[f] \in Seq([name : STRING, node : Folders])
      /\ Leaves[f] \in Seq([name : STRING, node : Files])
  BY WalkAssumption
<1>2. ASSUME NEW i \in DOMAIN Kids[f]
      PROVE  Kids[f][i] \in [name : STRING, node : Folders]
  BY <1>1, ElementOp
<1>3. ASSUME NEW i \in DOMAIN Leaves[f]
      PROVE  Leaves[f][i] \in [name : STRING, node : Files]
  BY <1>1, ElementOp
<1> QED
  BY <1>1, <1>2, <1>3 DEF Names

LEMMA StaysBelow ==
  ASSUME Grows
  PROVE  /\ \A p \in DOMAIN folders : Below(p) => Below(p)'
         /\ \A p \in DOMAIN files : Within(p) => Within(p)'
<1>1. ASSUME NEW p \in DOMAIN folders, Below(p)
      PROVE  Below(p)'
  <2>1. PICK q \in DOMAIN folders : \E i \in DOMAIN Kids[folders[q]] :
          p = Append(q, Kids[folders[q]][i].name) /\ folders[p] = Kids[folders[q]][i].node
    BY <1>1 DEF Below
  <2>2. q \in DOMAIN folders' /\ folders'[q] = folders[q] /\ folders'[p] = folders[p]
    BY DEF Grows
  <2> QED
    BY <2>1, <2>2 DEF Below
<1>2. ASSUME NEW p \in DOMAIN files, Within(p)
      PROVE  Within(p)'
  <2>1. PICK q \in DOMAIN folders : \E i \in DOMAIN Leaves[folders[q]] :
          p = Append(q, Leaves[folders[q]][i].name) /\ files[p] = Leaves[folders[q]][i].node
    BY <1>2 DEF Within
  <2>2. q \in DOMAIN folders' /\ folders'[q] = folders[q] /\ files'[p] = files[p]
    BY DEF Grows
  <2> QED
    BY <2>1, <2>2 DEF Within
<1> QED
  BY <1>1, <1>2

\* process_dir of one folder keeps all this.
LEMMA ProcessKeeps ==
  ASSUME MapsOK, NEW path \in DOMAIN folders, folders[path] \notin processed,
         folders' = Registered(folders, path, Kids[folders[path]]),
         files' = Registered(files, path, Leaves[folders[path]]),
         processed' = processed \cup {folders[path]}
  PROVE  MapsOK' /\ Grows
<1> DEFINE f == folders[path]
<1>1. path \in Seq(Names) /\ f \in Folders
  BY DEF MapsOK
<1>2. /\ \A p \in DOMAIN folders : p \in DOMAIN folders' /\ folders'[p] = folders[p]
      /\ \A p \in DOMAIN folders' :
           p \in DOMAIN folders \/ Added(p, path, Kids[f], folders'[p])
  <2> DEFINE nodes == Kids[f]
  <2>1. /\ Len(nodes) \in Nat /\ DOMAIN nodes = 1 .. Len(nodes)
        /\ \A i \in DOMAIN nodes : nodes[i].name \in Names
        /\ folders' = Registered(folders, path, nodes)
    BY <1>1, KidsType
  <2> HIDE DEF nodes, f
  <2> QED
    BY <1>1, <2>1, RegisteredOp DEF nodes
<1>3. /\ \A p \in DOMAIN files : p \in DOMAIN files' /\ files'[p] = files[p]
      /\ \A i \in DOMAIN Leaves[f] : Append(path, Leaves[f][i].name) \in DOMAIN files'
      /\ \A p \in DOMAIN files' :
           p \in DOMAIN files \/ Added(p, path, Leaves[f], files'[p])
  <2> DEFINE nodes == Leaves[f]
  <2>1. /\ Len(nodes) \in Nat /\ DOMAIN nodes = 1 .. Len(nodes)
        /\ \A i \in DOMAIN nodes : nodes[i].name \in Names
        /\ files' = Registered(files, path, nodes)
    BY <1>1, KidsType
  <2> HIDE DEF nodes, f
  <2> DEFINE now == Registered(files, path, nodes)
  <2>2. /\ \A p \in DOMAIN files : p \in DOMAIN now /\ now[p] = files[p]
        /\ \A i \in DOMAIN nodes : Append(path, nodes[i].name) \in DOMAIN now
        /\ \A p \in DOMAIN now : p \in DOMAIN files \/ Added(p, path, nodes, now[p])
    BY <1>1, <2>1, RegisteredOp
  <2>3. files' = now
    BY <2>1
  <2> HIDE DEF now
  <2> QED
    BY <2>2, <2>3 DEF nodes
<1>4. Grows
  BY <1>2, <1>3 DEF Grows
<1>5. /\ \A p : \A node : Added(p, path, Kids[f], node) => p \in Seq(Names) /\ node \in Folders
      /\ \A p : \A node : Added(p, path, Leaves[f], node) => p \in Seq(Names)
  <2>1. \A n \in Names : Append(path, n) \in Seq(Names)
    BY <1>1, AppendOp
  <2> QED
    BY <1>1, <2>1, KidsType DEF Added
<1>6. folders'[path] = f /\ path \in DOMAIN folders'
  BY <1>2
<1> HIDE DEF f
<1>7. DOMAIN folders' \subseteq Seq(Names) /\ DOMAIN files' \subseteq Seq(Names)
  BY <1>2, <1>3, <1>5 DEF MapsOK
<1>8. \A p \in DOMAIN folders' : folders'[p] \in Folders
  BY <1>2, <1>5 DEF MapsOK
<1>9. Slash \in DOMAIN folders' /\ folders'[Slash] = RootFolder
  BY <1>2 DEF MapsOK
<1>10. ASSUME NEW p \in DOMAIN folders', p # Slash
       PROVE  Below(p)'
  <2>1. CASE p \in DOMAIN folders
    BY <1>4, <1>10, <2>1, StaysBelow DEF MapsOK
  <2>2. CASE p \notin DOMAIN folders
    BY <1>2, <1>6, <2>2 DEF Below, Added
  <2> QED
    BY <2>1, <2>2
<1>11. ASSUME NEW p \in DOMAIN files'
       PROVE  Within(p)'
  <2>1. CASE p \in DOMAIN files
    BY <1>4, <2>1, StaysBelow DEF MapsOK
  <2>2. CASE p \notin DOMAIN files
    BY <1>3, <1>6, <2>2 DEF Within, Added
  <2> QED
    BY <2>1, <2>2
<1>12. ASSUME NEW p \in DOMAIN folders', NEW q \in DOMAIN folders, p \notin DOMAIN folders
       PROVE  folders'[p] # folders'[q]
  <2>1. PICK i \in DOMAIN Kids[f] : p = Append(path, Kids[f][i].name) /\ folders'[p] = Kids[f][i].node
    BY <1>2, <1>12 DEF Added
  <2>2. CASE q = Slash
    BY <1>1, <1>9, <2>1, <2>2, TreeAssumption
  <2>3. CASE q # Slash
    <3>1. PICK r \in DOMAIN folders : \E j \in DOMAIN Kids[folders[r]] :
            /\ q = Append(r, Kids[folders[r]][j].name)
            /\ folders[q] = Kids[folders[r]][j].node
      BY <2>3 DEF MapsOK, Below
    <3>2. PICK j \in DOMAIN Kids[folders[r]] :
            /\ q = Append(r, Kids[folders[r]][j].name)
            /\ folders[q] = Kids[folders[r]][j].node
      BY <3>1
    <3> SUFFICES ASSUME folders'[p] = folders'[q]
                 PROVE  FALSE
      OBVIOUS
    <3>3. folders[r] \in Folders /\ folders'[q] = folders[q]
      BY <1>2 DEF MapsOK
    <3>4. f = folders[r] /\ i = j
      BY <1>1, <2>1, <3>2, <3>3, TreeAssumption
    <3>5. r = path
      BY <3>4 DEF MapsOK, f
    <3> QED
      BY <1>12, <2>1, <3>2, <3>4, <3>5
  <2> QED
    BY <2>2, <2>3
<1>13. ASSUME NEW p \in DOMAIN folders', NEW q \in DOMAIN folders', folders'[p] = folders'[q]
       PROVE  p = q
  <2>1. CASE p \in DOMAIN folders /\ q \in DOMAIN folders
    BY <1>2, <1>13, <2>1 DEF MapsOK
  <2>2. CASE p \notin DOMAIN folders /\ q \notin DOMAIN folders
    <3>1. PICK i \in DOMAIN Kids[f] : p = Append(path, Kids[f][i].name) /\ folders'[p] = Kids[f][i].node
      BY <1>2, <2>2 DEF Added
    <3>2. PICK j \in DOMAIN Kids[f] : q = Append(path, Kids[f][j].name) /\ folders'[q] = Kids[f][j].node
      BY <1>2, <2>2 DEF Added
    <3>3. i = j
      BY <1>1, <1>13, <3>1, <3>2, TreeAssumption
    <3> QED
      BY <3>1, <3>2, <3>3
  <2> QED
    BY <1>12, <1>13, <2>1, <2>2
<1>14. processed' \subseteq {folders'[p] : p \in DOMAIN folders'}
  BY <1>2, <1>6 DEF MapsOK, f
<1>15. ASSUME NEW p \in DOMAIN folders', folders'[p] \in processed',
              NEW i \in DOMAIN Leaves[folders'[p]]
       PROVE  Append(p, Leaves[folders'[p]][i].name) \in DOMAIN files'
  <2>1. CASE folders'[p] = f
    <3>1. p = path
      BY <1>6, <1>13, <2>1
    <3> QED
      BY <1>3, <1>15, <2>1, <3>1
  <2>2. CASE folders'[p] # f
    <3>1. PICK q \in DOMAIN folders : folders'[p] = folders[q]
      BY <1>15, <2>2 DEF MapsOK, f
    <3>2. p = q
      BY <1>2, <1>13, <3>1
    <3> QED
      BY <1>2, <1>3, <1>15, <2>2, <3>1, <3>2 DEF MapsOK, f
  <2> QED
    BY <2>1, <2>2
<1>16. MapsOK'
  BY <1>7, <1>8, <1>9, <1>10, <1>11, <1>13, <1>14, <1>15 DEF MapsOK
<1> QED
  BY <1>4, <1>16

LEMMA ProcessDirKeeps ==
  ASSUME MapsOK, \/ UNCHANGED maps
                       \/ \E path \in Seq(Names) : ProcessDir(path)
  PROVE  MapsOK' /\ Grows
<1>1. CASE UNCHANGED maps
  BY <1>1 DEF MapsOK, Grows, maps, Below, Within
<1>2. ASSUME NEW path \in Seq(Names), ProcessDir(path), path \in DOMAIN folders,
             folders[path] \notin processed
      PROVE  MapsOK' /\ Grows
  BY <1>2, ProcessKeeps DEF ProcessDir
<1> QED
  BY <1>1, <1>2 DEF ProcessDir

-----------------------------------------------------------------------------
(* The walk.                                                               *)

WalkFrames ==
  [path : Seq(Names), depth : 1 .. MaxDepth, folder : Folders, kid : Nat, leaf : Nat]

Visits == [kind : {"folder", "file"}, path : Seq(Names)]

Shape ==
  /\ req \in Requests
  /\ turn \in 0 .. Len(req.paths)
  /\ pc \in {"lookup", "found", "missing"} => turn # 0
  /\ stack \in Seq(WalkFrames)
  /\ visited \in Seq(Visits)

\* A call of walk is in a folder of its path, which dump has created.
Good(f, map, list) ==
  /\ f.kid # 0 /\ f.leaf # 0
  /\ f.path \in DOMAIN map /\ map[f.path] = f.folder
  /\ req.cmd = "dump" =>
       \E j \in DOMAIN list : list[j].kind = "folder" /\ list[j].path = f.path

Linked == \A i \in DOMAIN stack : Good(stack[i], folders, visited)

ReadyAt(j) ==
  LET path == visited[j].path
  IN  /\ path \in DOMAIN files /\ Front(path) \in DOMAIN folders
      /\ \E l \in ToSet(Leaves[folders[Front(path)]]) : l.name = Last(path) /\ l.node = files[path]
      /\ \E i \in 1 .. j - 1 : visited[i].kind = "folder" /\ IsPrefix(Front(path), visited[i].path)

WalkInv == Shape /\ MapsOK /\ Linked /\ JobsReady

\* What was visited stays so.
Extends ==
  /\ DOMAIN visited \subseteq DOMAIN visited'
  /\ \A i \in DOMAIN visited : visited'[i] = visited[i]

LEMMA GoodStays ==
  ASSUME Grows, Extends, NEW f, Good(f, folders, visited)
  PROVE  Good(f, folders', visited')
<1>1. f.path \in DOMAIN folders' /\ folders'[f.path] = f.folder
  BY DEF Good, Grows
<1>2. ASSUME req.cmd = "dump"
      PROVE  \E j \in DOMAIN visited' : visited'[j].kind = "folder" /\ visited'[j].path = f.path
  <2>1. PICK j \in DOMAIN visited : visited[j].kind = "folder" /\ visited[j].path = f.path
    BY <1>2 DEF Good
  <2>2. j \in DOMAIN visited' /\ visited'[j] = visited[j]
    BY DEF Extends
  <2> QED
    BY <2>1, <2>2
<1> QED
  BY <1>1, <1>2 DEF Good

LEMMA ReadyStays ==
  ASSUME Grows, Extends, visited \in Seq(Visits), NEW j \in DOMAIN visited, ReadyAt(j)
  PROVE  ReadyAt(j)'
<1> DEFINE path == visited[j].path
<1>1. visited'[j].path = path
  BY DEF Extends
<1>2. /\ path \in DOMAIN files' /\ files'[path] = files[path]
      /\ Front(path) \in DOMAIN folders' /\ folders'[Front(path)] = folders[Front(path)]
  BY DEF ReadyAt, Grows
<1>3. \E l \in ToSet(Leaves[folders'[Front(path)]]) : l.name = Last(path) /\ l.node = files'[path]
  BY <1>2 DEF ReadyAt
<1>4. \E i \in 1 .. j - 1 : visited'[i].kind = "folder" /\ IsPrefix(Front(path), visited'[i].path)
  <2>1. PICK i \in 1 .. j - 1 : visited[i].kind = "folder" /\ IsPrefix(Front(path), visited[i].path)
    BY DEF ReadyAt
  <2>2. i \in DOMAIN visited
    BY ElementOp
  <2>3. visited'[i] = visited[i]
    BY <2>2 DEF Extends
  <2> QED
    BY <2>1, <2>3
<1> HIDE DEF path
<1> QED
  BY <1>1, <1>2, <1>3, <1>4 DEF ReadyAt

\* A file that a path of the map leads to is ready, after its folder.
LEMMA FileReady ==
  ASSUME MapsOK', NEW p \in DOMAIN files', NEW j \in Nat, NEW i \in 1 .. j - 1,
         visited'[j].path = p,
         visited'[i].kind = "folder", visited'[i].path = Front(p)
  PROVE  ReadyAt(j)'
<1>1. Within(p)'
  BY DEF MapsOK
<1>2. PICK q \in DOMAIN folders' : \E k \in DOMAIN Leaves[folders'[q]] :
        p = Append(q, Leaves[folders'[q]][k].name) /\ files'[p] = Leaves[folders'[q]][k].node
  BY <1>1 DEF Within
<1>3. PICK k \in DOMAIN Leaves[folders'[q]] :
        p = Append(q, Leaves[folders'[q]][k].name) /\ files'[p] = Leaves[folders'[q]][k].node
  BY <1>2
<1>4. q \in Seq(Names) /\ folders'[q] \in Folders
  BY DEF MapsOK
<1>5. Leaves[folders'[q]][k].name \in Names
  BY <1>4, KidsType
<1>6. Front(p) = q /\ Last(p) = Leaves[folders'[q]][k].name
  BY <1>3, <1>4, <1>5, PathOp
<1>7. Leaves[folders'[q]][k] \in ToSet(Leaves[folders'[q]])
  BY DEF ToSet
<1>8. IsPrefix(Front(p), visited'[i].path)
  BY <1>4, <1>6, PrefixOp
<1> QED
  BY <1>3, <1>6, <1>7, <1>8 DEF ReadyAt

LEMMA JobsStay ==
  ASSUME JobsReady, Grows, Extends, visited \in Seq(Visits), req' = req,
         req.cmd = "dump" => \A j \in DOMAIN visited' :
           j \in DOMAIN visited \/ (visited'[j].kind = "file" => ReadyAt(j)')
  PROVE  JobsReady'
<1> SUFFICES ASSUME req.cmd = "dump", NEW j \in DOMAIN visited', visited'[j].kind = "file"
             PROVE  ReadyAt(j)'
  BY DEF JobsReady, ReadyAt
<1>1. CASE j \in DOMAIN visited
  <2>1. visited[j].kind = "file"
    BY <1>1 DEF Extends
  <2>2. ReadyAt(j)
    BY <1>1, <2>1 DEF JobsReady, ReadyAt
  <2> QED
    BY <1>1, <2>2, ReadyStays
<1> QED
  BY <1>1

\* What a callback adds.
LEMMA ReportOp ==
  ASSUME visited \in Seq(Visits), NEW kind \in {"folder", "file"}, NEW path \in Seq(Names),
         Report(kind, path)
  PROVE  /\ visited' \in Seq(Visits) /\ Extends
         /\ Len(visited) \in Nat /\ DOMAIN visited = 1 .. Len(visited)
         /\ DOMAIN visited' = 1 .. Len(visited) + 1
         /\ visited'[Len(visited) + 1].kind = kind /\ visited'[Len(visited) + 1].path = path
<1> DEFINE e == [kind |-> kind, path |-> path]
<1>1. e \in Visits /\ e.kind = kind /\ e.path = path
  BY DEF Visits
<1>2. visited' = Append(visited, e)
  BY DEF Report
<1> HIDE DEF e
<1>3. /\ Append(visited, e) \in Seq(Visits)
      /\ Len(visited) \in Nat /\ DOMAIN visited = 1 .. Len(visited)
      /\ DOMAIN Append(visited, e) = 1 .. Len(visited) + 1
      /\ \A i \in 1 .. Len(visited) : Append(visited, e)[i] = visited[i]
      /\ Append(visited, e)[Len(visited) + 1] = e
  BY <1>1, AppendOp
<1> QED
  BY <1>1, <1>2, <1>3 DEF Extends

\* Stopping leaves no calls.
LEMMA StopLinked ==
  ASSUME Stop
  PROVE  stack' \in Seq(WalkFrames) /\ Linked'
BY DEF Stop, Linked

\* The calls that go on, the one walk makes among them.
LEMMA EnterLinked ==
  ASSUME MapsOK', req' = req, NEW path \in Seq(Names), NEW depth \in 0 .. MaxDepth,
         NEW rest \in Seq(WalkFrames), Enter(path, depth, rest, folders'),
         \A i \in DOMAIN rest : Good(rest[i], folders', visited'),
         req.cmd = "dump" =>
           \E j \in DOMAIN visited' : visited'[j].kind = "folder" /\ visited'[j].path = path
  PROVE  stack' \in Seq(WalkFrames) /\ Linked'
<1>1. CASE Stop
  BY <1>1, StopLinked
<1>2. CASE stack' = rest
  BY <1>2 DEF Linked, Good
<1>3. CASE depth > 0 /\ path \in DOMAIN folders' /\ ~Stop
  <2> DEFINE f == [path |-> path, depth |-> depth, folder |-> folders'[path], kid |-> 1, leaf |-> 1]
  <2>1. stack' = Append(rest, f)
    BY <1>3 DEF Enter
  <2>2. depth \in 1 .. MaxDepth /\ folders'[path] \in Folders
    BY <1>3 DEF MapsOK
  <2>3. f \in WalkFrames
    BY <2>2 DEF WalkFrames
  <2>4. Good(f, folders', visited')
    BY <1>3 DEF Good
  <2> HIDE DEF f
  <2>5. /\ Append(rest, f) \in Seq(WalkFrames)
        /\ Len(rest) \in Nat /\ DOMAIN rest = 1 .. Len(rest)
        /\ DOMAIN Append(rest, f) = 1 .. Len(rest) + 1
        /\ \A i \in 1 .. Len(rest) : Append(rest, f)[i] = rest[i]
        /\ Append(rest, f)[Len(rest) + 1] = f
    BY <2>3, AppendOp
  <2>6. \A i \in DOMAIN stack' : Good(stack'[i], folders', visited')
    BY <2>1, <2>4, <2>5
  <2> QED
    BY <2>1, <2>5, <2>6 DEF Linked, Good
<1> QED
  BY <1>1, <1>2, <1>3 DEF Enter

\* The innermost call, and the stack with another in its place.
LEMMA TopOp ==
  ASSUME Shape, Linked, Grows, Extends, stack # <<>>, NEW g \in WalkFrames,
         g.path = Top.path, g.folder = Top.folder, g.kid # 0, g.leaf # 0
  PROVE  /\ Top \in WalkFrames /\ Good(Top, folders, visited)
         /\ Append(Front(stack), g) \in Seq(WalkFrames)
         /\ \A i \in DOMAIN Append(Front(stack), g) :
              Good(Append(Front(stack), g)[i], folders', visited')
<1>1. stack \in Seq(WalkFrames)
  BY DEF Shape
<1>2. /\ Front(stack) \in Seq(WalkFrames) /\ Len(Front(stack)) = Len(stack) - 1
      /\ DOMAIN Front(stack) = 1 .. Len(stack) - 1
      /\ \A i \in 1 .. Len(stack) - 1 : Front(stack)[i] = stack[i]
      /\ Len(stack) \in Nat \ {0} /\ stack[Len(stack)] \in WalkFrames
  BY <1>1, FrontOp
<1>3. DOMAIN stack = 1 .. Len(stack)
  BY <1>1
<1>4. Top \in WalkFrames /\ Good(Top, folders, visited)
  BY <1>2, <1>3 DEF Top, Linked
<1>5. Good(g, folders', visited')
  <2>1. Good(Top, folders', visited')
    BY <1>4, GoodStays
  <2> QED
    BY <2>1 DEF Good
<1>6. ASSUME NEW i \in 1 .. Len(stack) - 1
      PROVE  Good(Front(stack)[i], folders', visited')
  <2>1. i \in DOMAIN stack /\ Front(stack)[i] = stack[i]
    BY <1>2, <1>3
  <2>2. Good(stack[i], folders, visited)
    BY <2>1 DEF Linked
  <2> QED
    BY <2>1, <2>2, GoodStays
<1> DEFINE front == Front(stack)
<1> HIDE DEF front
<1>7. /\ Append(front, g) \in Seq(WalkFrames)
      /\ DOMAIN Append(front, g) = 1 .. Len(front) + 1
      /\ \A i \in 1 .. Len(front) : Append(front, g)[i] = front[i]
      /\ Append(front, g)[Len(front) + 1] = g
      /\ Len(front) = Len(stack) - 1
  <2>1. front \in Seq(WalkFrames) /\ Len(front) = Len(stack) - 1
    BY <1>2 DEF front
  <2> QED
    BY <2>1, AppendOp
<1>8. ASSUME NEW i \in DOMAIN Append(front, g)
      PROVE  Good(Append(front, g)[i], folders', visited')
  <2>1. CASE i \in 1 .. Len(front)
    BY <1>6, <1>7, <2>1 DEF front
  <2>2. CASE i = Len(front) + 1
    BY <1>5, <1>7, <2>2
  <2>3. i \in 1 .. Len(front) \/ i = Len(front) + 1
    BY <1>2, <1>7
  <2> QED
    BY <2>1, <2>2, <2>3
<1> QED
  BY <1>4, <1>7, <1>8 DEF front

-----------------------------------------------------------------------------
(* The steps.                                                              *)

LEMMA WalkInit == Init => WalkInv
<1> SUFFICES ASSUME Init
             PROVE  WalkInv
  OBVIOUS
<1>1. req.paths \in Seq(Seq(STRING) \ {<<>>}) /\ RootFolder \in Folders
  BY WalkAssumption DEF Init
<1>2. Shape
  BY <1>1 DEF Init, Shape
<1>3. Slash \in Seq(Names)
  <2>1. "/" \in Names
    BY DEF Names
  <2>2. <<>> \in Seq(Names)
    OBVIOUS
  <2>3. Append(<<>>, "/") \in Seq(Names)
    BY <2>1, <2>2, AppendOp
  <2>4. Append(<<>>, "/") = <<"/">>
    OBVIOUS
  <2> QED
    BY <2>3, <2>4 DEF Slash
<1>4. MapsOK
  BY <1>1, <1>3 DEF Init, MapsOK
<1>5. Linked /\ JobsReady
  BY DEF Init, Linked, JobsReady
<1> QED
  BY <1>2, <1>4, <1>5 DEF WalkInv

\* A step that visits nothing and enters nothing.
LEMMA QuietKeeps ==
  ASSUME WalkInv, req' = req, visited' = visited,
         \/ UNCHANGED maps
         \/ \E path \in Seq(Names) : ProcessDir(path),
         stack' \in Seq(WalkFrames),
         \A i \in DOMAIN stack' : i \in DOMAIN stack /\ stack'[i] = stack[i],
         turn' \in 0 .. Len(req.paths),
         pc' \in {"lookup", "found", "missing"} => turn' # 0
  PROVE  WalkInv'
<1>1. MapsOK' /\ Grows
  BY ProcessDirKeeps DEF WalkInv
<1>2. Shape'
  BY DEF WalkInv, Shape
<1>3. Extends
  BY DEF Extends
<1>4. Linked'
  <2>1. ASSUME NEW i \in DOMAIN stack'
        PROVE  Good(stack'[i], folders', visited')
    BY <1>1, <1>3, GoodStays DEF WalkInv, Linked
  <2> QED
    BY <2>1 DEF Linked, Good
<1>5. JobsReady'
  BY <1>1, <1>3, JobsStay DEF WalkInv, Shape
<1> QED
  BY <1>1, <1>2, <1>4, <1>5 DEF WalkInv

\* The path at hand of the command line.
LEMMA PathType ==
  ASSUME Shape, pc \in {"lookup", "found", "missing"}
  PROVE  Path \in Seq(Names) /\ req.depth \in 0 .. MaxDepth
<1>1. req.paths \in Seq(Seq(STRING) \ {<<>>}) /\ req.depth \in 0 .. MaxDepth
  BY WalkAssumption DEF Shape
<1>2. turn \in DOMAIN req.paths
  BY <1>1 DEF Shape
<1>3. req.paths[turn] \in Seq(STRING) \ {<<>>}
  BY <1>1, <1>2, ElementOp
<1>4. \A p \in Seq(STRING) : p \in Seq(Names)
  BY DEF Names
<1> QED
  BY <1>1, <1>3, <1>4 DEF Path

LEMMA PlainSteps ==
  ASSUME WalkInv, NextPath \/ BadPattern \/ Return \/ LookupStep \/ LookupFails \/ WalkReturns \/ WalkDone
  PROVE  WalkInv'
<1>1. /\ req' = req /\ visited' = visited
      /\ req.paths \in Seq(Seq(STRING) \ {<<>>}) /\ turn \in 0 .. Len(req.paths)
      /\ stack \in Seq(WalkFrames)
  BY WalkAssumption DEF WalkInv, Shape, NextPath, BadPattern, Return, LookupStep, LookupFails, WalkReturns, WalkDone
<1>2. CASE NextPath
  BY <1>1, <1>2, QuietKeeps DEF NextPath
<1>3. CASE Return \/ BadPattern
  BY <1>1, <1>3, QuietKeeps DEF Return, BadPattern
<1>4. CASE LookupStep
  <2>1. CurPath \in Seq(Names)
    BY <1>4 DEF LookupStep, WalkInv, MapsOK
  <2>2. turn' = turn /\ turn # 0 /\ stack' = stack /\ ProcessDir(CurPath)
    BY <1>4 DEF LookupStep, WalkInv, Shape
  <2> QED
    BY <1>1, <2>1, <2>2, QuietKeeps
<1>5. CASE LookupFails
  BY <1>1, <1>5, QuietKeeps DEF LookupFails, WalkInv, Shape
<1>6. CASE WalkReturns
  <2>1. /\ Front(stack) \in Seq(WalkFrames)
        /\ \A i \in DOMAIN Front(stack) : i \in DOMAIN stack /\ Front(stack)[i] = stack[i]
    <3>1. stack # <<>>
      BY <1>6 DEF WalkReturns
    <3>2. DOMAIN stack = 1 .. Len(stack)
      BY <1>1
    <3>3. /\ Front(stack) \in Seq(WalkFrames) /\ DOMAIN Front(stack) = 1 .. Len(stack) - 1
          /\ \A i \in 1 .. Len(stack) - 1 : Front(stack)[i] = stack[i]
          /\ Len(stack) \in Nat \ {0}
      BY <1>1, <3>1, FrontOp
    <3> QED
      BY <3>2, <3>3
  <2>2. stack' = Front(stack) /\ UNCHANGED maps /\ turn' = turn /\ pc' = "walk"
    BY <1>6 DEF WalkReturns
  <2> QED
    BY <1>1, <2>1, <2>2, QuietKeeps
<1>7. CASE WalkDone
  BY <1>1, <1>7, QuietKeeps DEF WalkDone
<1> QED
  BY <1>2, <1>3, <1>4, <1>5, <1>6, <1>7

\* A failure to create a folder ends the walk.
LEMMA CreateFailsKeeps ==
  ASSUME WalkInv, CreateFails, req' = req, turn' = turn, MapsOK', Grows
  PROVE  WalkInv'
<1>1. visited' = visited /\ Extends
  BY DEF CreateFails, Extends
<1>2. JobsReady'
  BY <1>1, JobsStay DEF WalkInv, Shape
<1>3. stack' \in Seq(WalkFrames) /\ Linked' /\ pc' = "done"
  BY StopLinked DEF CreateFails, Stop
<1> QED
  BY <1>1, <1>2, <1>3 DEF WalkInv, Shape

LEMMA SameMaps ==
  ASSUME MapsOK, UNCHANGED maps
  PROVE  MapsOK' /\ Grows
BY DEF MapsOK, Grows, maps, Below, Within

LEMMA StartKeeps ==
  ASSUME WalkInv, StartWalk
  PROVE  WalkInv'
<1>1. MapsOK' /\ Grows /\ req' = req /\ turn' = turn /\ folders' = folders
  BY SameMaps DEF WalkInv, StartWalk, maps
<1>2. CASE CreateFails
  BY <1>1, <1>2, CreateFailsKeeps
<1>3. CASE /\ IF req.cmd = "dump" THEN Report("folder", Path) ELSE UNCHANGED <<visited, matched>>
           /\ Enter(Path, req.depth, <<>>, folders)
  <2>1. Path \in Seq(Names) /\ req.depth \in 0 .. MaxDepth
    BY PathType DEF WalkInv, StartWalk
  <2>2. visited \in Seq(Visits)
    BY DEF WalkInv, Shape
  <2>3. /\ visited' \in Seq(Visits) /\ Extends
        /\ req.cmd = "dump" =>
             \E j \in DOMAIN visited' : visited'[j].kind = "folder" /\ visited'[j].path = Path
        /\ \A j \in DOMAIN visited' : j \in DOMAIN visited \/ visited'[j].kind = "folder"
    <3>1. CASE req.cmd = "dump"
      BY <1>3, <2>1, <2>2, <3>1, ReportOp
    <3>2. CASE req.cmd # "dump"
      BY <1>3, <2>2, <3>2 DEF Extends
    <3> QED
      BY <3>1, <3>2
  <2>4. <<>> \in Seq(WalkFrames) /\ DOMAIN <<>> = {}
    OBVIOUS
  <2>5. stack' \in Seq(WalkFrames) /\ Linked'
    BY <1>1, <1>3, <2>1, <2>3, <2>4, EnterLinked
  <2>6. JobsReady'
    BY <1>1, <2>2, <2>3, JobsStay DEF WalkInv
  <2>7. pc' \notin {"lookup", "found", "missing"}
    BY <1>3 DEF Enter, Stop
  <2> QED
    BY <1>1, <2>3, <2>5, <2>6, <2>7 DEF WalkInv, Shape
<1> QED
  BY <1>2, <1>3 DEF StartWalk

\* dump of a file: its folder is created and it is queued.
LEMMA MissingKeeps ==
  ASSUME WalkInv, Missing
  PROVE  WalkInv'
<1>1. MapsOK' /\ Grows /\ req' = req /\ turn' = turn /\ files' = files
  BY SameMaps DEF WalkInv, Missing, maps
<1>2. CASE CreateFails
  BY <1>1, <1>2, CreateFailsKeeps
<1>3. CASE stack' = stack /\ visited' = visited /\ pc' \in {"done", "next"}
  <2>1. Extends
    BY <1>3 DEF Extends
  <2>2. JobsReady'
    BY <1>1, <1>3, <2>1, JobsStay DEF WalkInv, Shape
  <2>3. ASSUME NEW i \in DOMAIN stack'
        PROVE  Good(stack'[i], folders', visited')
    BY <1>1, <1>3, <2>1, <2>3, GoodStays DEF WalkInv, Linked
  <2>4. Linked'
    BY <1>1, <2>3 DEF Linked, Good
  <2> QED
    BY <1>1, <1>3, <2>2, <2>4 DEF WalkInv, Shape
<1>4. CASE /\ Path \in DOMAIN files /\ stack' = stack /\ pc' = "next"
           /\ visited' = visited \o <<[kind |-> "folder", path |-> Front(Path)],
                                      [kind |-> "file", path |-> Path]>>
  <2> DEFINE d == [kind |-> "folder", path |-> Front(Path)]
             e == [kind |-> "file", path |-> Path]
             n == Len(visited)
  <2>1. Path \in Seq(Names) /\ Front(Path) \in Seq(Names)
    <3>1. Within(Path) /\ Path \in Seq(Names)
      BY <1>4 DEF WalkInv, MapsOK
    <3>2. PICK q \in DOMAIN folders : \E k \in DOMAIN Leaves[folders[q]] :
            Path = Append(q, Leaves[folders[q]][k].name)
      BY <3>1 DEF Within
    <3>3. PICK k \in DOMAIN Leaves[folders[q]] : Path = Append(q, Leaves[folders[q]][k].name)
      BY <3>2
    <3>4. q \in Seq(Names) /\ folders[q] \in Folders
      BY DEF WalkInv, MapsOK
    <3>5. Leaves[folders[q]][k].name \in Names
      BY <3>4, KidsType
    <3> QED
      BY <3>1, <3>3, <3>4, <3>5, PathOp
  <2>2. d \in Visits /\ e \in Visits /\ d.kind = "folder" /\ d.path = Front(Path) /\ e.path = Path
    BY <2>1 DEF Visits
  <2>3. visited \in Seq(Visits)
    BY DEF WalkInv, Shape
  <2> HIDE DEF d, e
  <2>4. visited' = Append(Append(visited, d), e)
    BY <1>4, <2>2, <2>3 DEF d, e
  <2>5. /\ Append(visited, d) \in Seq(Visits) /\ Len(Append(visited, d)) = n + 1
        /\ \A i \in 1 .. n : Append(visited, d)[i] = visited[i]
        /\ Append(visited, d)[n + 1] = d
        /\ n \in Nat /\ DOMAIN visited = 1 .. n
    BY <2>2, <2>3, AppendOp
  <2>6. /\ visited' \in Seq(Visits) /\ DOMAIN visited' = 1 .. n + 2
        /\ \A i \in 1 .. n + 1 : visited'[i] = Append(visited, d)[i]
        /\ visited'[n + 2] = e
    <3> DEFINE s == Append(visited, d)
    <3>1. s \in Seq(Visits) /\ Len(s) = n + 1
      BY <2>5
    <3> HIDE DEF s
    <3>2. /\ Append(s, e) \in Seq(Visits) /\ DOMAIN Append(s, e) = 1 .. Len(s) + 1
          /\ \A i \in 1 .. Len(s) : Append(s, e)[i] = s[i]
          /\ Append(s, e)[Len(s) + 1] = e
      BY <2>2, <3>1, AppendOp
    <3>3. visited' = Append(s, e) /\ n + 1 + 1 = n + 2
      BY <2>4, <2>5 DEF s
    <3> QED
      BY <3>1, <3>2, <3>3 DEF s
  <2> HIDE DEF n
  <2>7. Extends
    BY <2>5, <2>6 DEF Extends
  <2>8. visited'[n + 1].kind = "folder" /\ visited'[n + 1].path = Front(Path)
    BY <2>2, <2>5, <2>6
  <2>9. ASSUME NEW j \in DOMAIN visited', j \notin DOMAIN visited, visited'[j].kind = "file"
        PROVE  ReadyAt(j)'
    <3> DEFINE i == n + 1
    <3>1. j = n + 2
      BY <2>5, <2>6, <2>8, <2>9
    <3>2. j \in Nat /\ i \in 1 .. j - 1
      BY <2>5, <3>1
    <3>3. visited'[j].path = Path
      BY <2>2, <2>6, <3>1
    <3>4. visited'[i].kind = "folder" /\ visited'[i].path = Front(Path)
      BY <2>8
    <3>5. Path \in DOMAIN files'
      BY <1>1, <1>4
    <3> HIDE DEF i
    <3> QED
      BY <1>1, <3>2, <3>3, <3>4, <3>5, FileReady
  <2>10. JobsReady'
    BY <1>1, <2>3, <2>7, <2>8, <2>9, JobsStay DEF WalkInv
  <2>11. ASSUME NEW i \in DOMAIN stack'
         PROVE  Good(stack'[i], folders', visited')
    BY <1>1, <1>4, <2>7, <2>11, GoodStays DEF WalkInv, Linked
  <2>12. Linked'
    BY <1>1, <2>11 DEF Linked, Good
  <2> QED
    BY <1>1, <1>4, <2>6, <2>10, <2>12 DEF WalkInv, Shape
<1> QED
  BY <1>2, <1>3, <1>4 DEF Missing

\* The child or file at hand of the innermost call.
LEMMA TopFolder ==
  ASSUME WalkInv, stack # <<>>
  PROVE  /\ Top \in WalkFrames /\ Good(Top, folders, visited)
         /\ Top.path \in Seq(Names) /\ Top.folder \in Folders
         /\ Top.kid \in Nat \ {0} /\ Top.leaf \in Nat \ {0}
<1>1. stack \in Seq(WalkFrames) /\ Len(stack) \in DOMAIN stack
  BY DEF WalkInv, Shape
<1>2. Top \in WalkFrames
  BY <1>1, ElementOp DEF Top
<1>3. Good(Top, folders, visited)
  BY <1>1 DEF Top, WalkInv, Linked
<1> QED
  BY <1>2, <1>3 DEF WalkFrames, Good

\* A child is walked under the path it was registered under.
LEMMA ChildKeeps ==
  ASSUME WalkInv, WalkChild
  PROVE  WalkInv'
<1> DEFINE name == ChildrenOf(Top.folder)[Top.kid].name
           path == Append(Top.path, name)
           g == [Top EXCEPT !.kid = @ + 1]
           rest == Append(Front(stack), g)
<1>1. /\ stack # <<>> /\ Top.kid <= Len(ChildrenOf(Top.folder))
      /\ req' = req /\ turn' = turn
      /\ ProcessDir(path)
      /\ \/ CreateFails
         \/ /\ Report("folder", path)
            /\ \/ Enough /\ Stop
               \/ ~Enough /\ Enter(path, Top.depth - 1, rest, folders')
  BY DEF WalkChild
<1>2. /\ Top \in WalkFrames /\ Good(Top, folders, visited)
      /\ Top.path \in Seq(Names) /\ Top.folder \in Folders
      /\ Top.kid \in Nat \ {0} /\ Top.leaf \in Nat \ {0}
  BY <1>1, TopFolder
<1>3. name \in Names
  <2>1. ChildrenOf(Top.folder) = Kids[Top.folder] \/ ChildrenOf(Top.folder) = <<>>
    BY DEF ChildrenOf
  <2>2. Len(<<>>) = 0
    OBVIOUS
  <2>3. ChildrenOf(Top.folder) = Kids[Top.folder]
    BY <1>1, <1>2, <2>1, <2>2
  <2>4. Kids[Top.folder] \in Seq([name : STRING, node : Folders])
    BY <1>2, KidsType
  <2>5. Top.kid \in DOMAIN Kids[Top.folder]
    BY <1>1, <1>2, <2>3, <2>4
  <2> QED
    BY <1>2, <2>3, <2>5, KidsType
<1>4. path \in Seq(Names)
  BY <1>2, <1>3, AppendOp
<1>5. g \in WalkFrames /\ g.path = Top.path /\ g.folder = Top.folder /\ g.kid # 0 /\ g.leaf # 0
  BY <1>2 DEF WalkFrames
<1>6. Top.depth - 1 \in 0 .. MaxDepth
  BY <1>2, WalkAssumption DEF WalkFrames
<1> DEFINE depth == Top.depth - 1
<1> HIDE DEF name, path, g, depth
<1>7. MapsOK' /\ Grows
  BY <1>1, <1>4, ProcessDirKeeps DEF WalkInv
<1>8. CASE CreateFails
  BY <1>1, <1>7, <1>8, CreateFailsKeeps
<1>9. CASE /\ Report("folder", path)
           /\ \/ Enough /\ Stop
              \/ ~Enough /\ Enter(path, depth, rest, folders')
  <2>1. visited \in Seq(Visits) /\ Shape /\ Linked
    BY DEF WalkInv, Shape
  <2>2. /\ visited' \in Seq(Visits) /\ Extends
        /\ Len(visited) \in Nat /\ DOMAIN visited = 1 .. Len(visited)
        /\ DOMAIN visited' = 1 .. Len(visited) + 1
        /\ visited'[Len(visited) + 1].kind = "folder" /\ visited'[Len(visited) + 1].path = path
    BY <1>4, <1>9, <2>1, ReportOp
  <2>3. /\ \E j \in DOMAIN visited' : visited'[j].kind = "folder" /\ visited'[j].path = path
        /\ \A j \in DOMAIN visited' : j \in DOMAIN visited \/ visited'[j].kind = "folder"
    BY <2>2
  <2>4. JobsReady'
    BY <1>1, <1>7, <2>1, <2>2, <2>3, JobsStay DEF WalkInv
  <2>5. CASE Stop
    <3>1. stack' \in Seq(WalkFrames) /\ Linked' /\ pc' = "done"
      BY <2>5, StopLinked DEF Stop
    <3> QED
      BY <1>1, <1>7, <2>2, <2>4, <3>1 DEF WalkInv, Shape
  <2>6. CASE Enter(path, depth, rest, folders')
    <3>1. rest \in Seq(WalkFrames) /\ \A i \in DOMAIN rest : Good(rest[i], folders', visited')
      BY <1>1, <1>5, <1>7, <2>1, <2>2, TopOp
    <3>2. depth \in 0 .. MaxDepth
      BY <1>6 DEF depth
    <3> HIDE DEF rest
    <3>3. stack' \in Seq(WalkFrames) /\ Linked'
      BY <1>1, <1>4, <1>7, <2>3, <2>6, <3>1, <3>2, EnterLinked
    <3>4. pc' \notin {"lookup", "found", "missing"}
      BY <2>6 DEF Enter, Stop
    <3> QED
      BY <1>1, <1>7, <2>2, <2>4, <3>3, <3>4 DEF WalkInv, Shape
  <2> QED
    BY <1>9, <2>5, <2>6
<1> QED
  BY <1>1, <1>8, <1>9 DEF depth

\* A file of a processed folder is in the map.
LEMMA FileKeeps ==
  ASSUME WalkInv, WalkFile
  PROVE  WalkInv'
<1> DEFINE name == FilesOf(Top.folder)[Top.leaf].name
           path == Append(Top.path, name)
           g == [Top EXCEPT !.leaf = @ + 1]
           rest == Append(Front(stack), g)
<1>1. /\ stack # <<>> /\ Top.leaf <= Len(FilesOf(Top.folder))
      /\ req' = req /\ turn' = turn /\ UNCHANGED maps
      /\ Report("file", path)
      /\ \/ Stop
         \/ stack' = rest /\ pc' = pc
      /\ pc = "walk"
  BY DEF WalkFile
<1>2. /\ Top \in WalkFrames /\ Good(Top, folders, visited)
      /\ Top.path \in Seq(Names) /\ Top.folder \in Folders
      /\ Top.kid \in Nat \ {0} /\ Top.leaf \in Nat \ {0}
  BY <1>1, TopFolder
<1>3. name \in Names /\ path \in DOMAIN files
  <2>1. FilesOf(Top.folder) = <<>> \/ (Top.folder \in processed /\ FilesOf(Top.folder) = Leaves[Top.folder])
    BY DEF FilesOf
  <2>2. Len(<<>>) = 0
    OBVIOUS
  <2>3. Top.folder \in processed /\ FilesOf(Top.folder) = Leaves[Top.folder]
    BY <1>1, <1>2, <2>1, <2>2
  <2>4. Leaves[Top.folder] \in Seq([name : STRING, node : Files])
    BY <1>2, KidsType
  <2>5. Top.leaf \in DOMAIN Leaves[Top.folder]
    BY <1>1, <1>2, <2>3, <2>4
  <2>6. Top.path \in DOMAIN folders /\ folders[Top.path] = Top.folder
    BY <1>2 DEF Good
  <2>7. Append(Top.path, Leaves[Top.folder][Top.leaf].name) \in DOMAIN files
    BY <2>3, <2>5, <2>6 DEF WalkInv, MapsOK
  <2> QED
    BY <1>2, <2>3, <2>5, <2>7, KidsType
<1>4. path \in Seq(Names) /\ Front(path) = Top.path
  BY <1>2, <1>3, AppendOp, PathOp
<1>5. g \in WalkFrames /\ g.path = Top.path /\ g.folder = Top.folder /\ g.kid # 0 /\ g.leaf # 0
  BY <1>2 DEF WalkFrames
<1> HIDE DEF name, path, g
<1>6. MapsOK' /\ Grows /\ path \in DOMAIN files'
  BY <1>1, <1>3, SameMaps DEF WalkInv, maps
<1>7. visited \in Seq(Visits) /\ Shape /\ Linked
  BY DEF WalkInv, Shape
<1>8. /\ visited' \in Seq(Visits) /\ Extends
      /\ Len(visited) \in Nat /\ DOMAIN visited = 1 .. Len(visited)
      /\ DOMAIN visited' = 1 .. Len(visited) + 1
      /\ visited'[Len(visited) + 1].path = path
  BY <1>1, <1>4, <1>7, ReportOp
<1>9. ASSUME NEW j \in DOMAIN visited', j \notin DOMAIN visited, req.cmd = "dump"
      PROVE  ReadyAt(j)'
  <2>1. j = Len(visited) + 1
    BY <1>8, <1>9
  <2>2. PICK i \in DOMAIN visited : visited[i].kind = "folder" /\ visited[i].path = Top.path
    BY <1>2, <1>9 DEF Good
  <2>3. visited'[i].kind = "folder" /\ visited'[i].path = Front(path)
    BY <1>4, <1>8, <2>2 DEF Extends
  <2>4. j \in Nat /\ i \in 1 .. j - 1 /\ visited'[j].path = path
    BY <1>8, <2>1
  <2> QED
    BY <1>6, <2>3, <2>4, FileReady
<1>10. JobsReady'
  BY <1>1, <1>6, <1>7, <1>8, <1>9, JobsStay DEF WalkInv
<1>11. CASE Stop
  <2>1. stack' \in Seq(WalkFrames) /\ Linked' /\ pc' = "done"
    BY <1>11, StopLinked DEF Stop
  <2> QED
    BY <1>1, <1>6, <1>7, <1>8, <1>10, <2>1 DEF WalkInv, Shape
<1>12. CASE stack' = rest /\ pc' = pc
  <2>1. rest \in Seq(WalkFrames) /\ \A i \in DOMAIN rest : Good(rest[i], folders', visited')
    BY <1>1, <1>5, <1>6, <1>7, <1>8, TopOp
  <2> HIDE DEF rest
  <2>2. stack' \in Seq(WalkFrames) /\ Linked'
    BY <1>1, <1>12, <2>1 DEF Linked, Good
  <2> QED
    BY <1>1, <1>6, <1>7, <1>8, <1>10, <1>12, <2>2 DEF WalkInv, Shape
<1> QED
  BY <1>1, <1>11, <1>12

LEMMA WalkKeeps == WalkInv /\ [WalkNext]_vars => WalkInv'
<1> SUFFICES ASSUME WalkInv, [WalkNext]_vars
             PROVE  WalkInv'
  OBVIOUS
<1>1. CASE NextPath \/ BadPattern \/ Return \/ LookupStep \/ LookupFails \/ WalkReturns \/ WalkDone
  BY <1>1, PlainSteps
<1>2. CASE StartWalk \/ Missing \/ WalkChild \/ WalkFile
  BY <1>2, StartKeeps, MissingKeeps, ChildKeeps, FileKeeps
<1>3. CASE UNCHANGED vars
  <2>1. /\ req' = req /\ visited' = visited /\ stack' = stack /\ turn' = turn /\ pc' = pc
        /\ UNCHANGED maps
    BY <1>3 DEF vars, maps
  <2> QED
    BY <2>1, QuietKeeps DEF WalkInv, Shape
<1> QED
  BY <1>1, <1>2, <1>3 DEF WalkNext

LEMMA DumpWalks == DumpInit /\ [][DumpNext]_dumpVars => WalkSpec
<1>1. DumpInit => Init
  BY DEF DumpInit
<1>2. [DumpNext]_dumpVars => [WalkNext]_vars
  BY DEF DumpNext, RunStep, WalkStep, Returns, WorkerStep, Open, Test, Seek, ReadAndWrite, Close,
         dumpVars
<1> QED
  BY <1>1, <1>2, PTL DEF WalkSpec

\* When a file is queued for dumping, its path leads to the file and stays so,
\* and the folder it goes to was created before, while any number of workers
\* copy what was queued before: the get_file of a worker is not null
\* (dump.cpp:48-49, vfs.cpp:147-172).
THEOREM JobsAreReady == DumpSpec => []JobsReady
<1>1. WalkInv /\ [WalkNext]_vars => WalkInv'
  BY WalkKeeps
<1>2. WalkInv => JobsReady
  BY DEF WalkInv
<1>3. DumpSpec => WalkSpec
  BY DumpWalks DEF DumpSpec
<1> QED
  BY <1>1, <1>2, <1>3, WalkInit, PTL DEF WalkSpec

\* A set of numbers that has 0 and goes on with each of its numbers has them all.
LEMMA SetInduction ==
  ASSUME NEW T \in SUBSET Nat, 0 \in T, \A k \in T : k + 1 \in T
  PROVE  T = Nat
<1> DEFINE Out == Nat \ T
<1> SUFFICES ASSUME Out # {} PROVE FALSE
  OBVIOUS
<1>1. Out \in SUBSET Nat
  OBVIOUS
<1>2. PICK x \in Out : \A y \in Out : x <= y
  BY <1>1, LeastNumber
<1>3. x \in Nat \ {0} /\ x \notin T
  OBVIOUS
<1>4. x - 1 \in Nat /\ ~ (x <= x - 1)
  BY <1>3
<1>5. x - 1 \in T
  BY <1>2, <1>4
<1>6. (x - 1) + 1 \in T
  BY <1>5
<1> QED
  BY <1>3, <1>6

LEMMA AppendEq ==
  ASSUME NEW S, NEW p \in Seq(S), NEW q \in Seq(S), NEW m \in S, NEW n \in S,
         Append(p, m) = Append(q, n)
  PROVE  p = q /\ m = n
<1>1. Front(Append(p, m)) = p /\ Last(Append(p, m)) = m
  BY PathOp
<1>2. Front(Append(q, n)) = q /\ Last(Append(q, n)) = n
  BY PathOp
<1> QED
  BY <1>1, <1>2

-----------------------------------------------------------------------------
(* The folders below a folder, level by level.                             *)

\* A child of a folder, with its path.
KidOf(x, i) == [path |-> Append(x.path, Kids[x.node][i].name), node |-> Kids[x.node][i].node]

LEMMA LowerOp ==
  ASSUME NEW S, NEW y
  PROVE  y \in Lower(S) <=>
           \E x \in S : \E k \in DOMAIN Kids[x.node] :
             y = KidOf(x, k)
<1> DEFINE child(x, k) == [path |-> Append(x.path, k.name), node |-> k.node]
           below(x) == {child(x, k) : k \in ToSet(Kids[x.node])}
<1>1. Lower(S) = UNION {below(x) : x \in S}
  BY DEF Lower
<1>2. \A x : y \in below(x) <=> \E k \in DOMAIN Kids[x.node] : y = child(x, Kids[x.node][k])
  <2> HIDE DEF child
  <2> QED
    BY DEF ToSet
<1>3. y \in Lower(S) <=> \E x \in S : y \in below(x)
  <2> HIDE DEF below
  <2> QED
    BY <1>1
<1>4. \A x : \A k : child(x, Kids[x.node][k]) = KidOf(x, k)
  BY DEF KidOf
<1> HIDE DEF below, child
<1> QED
  BY <1>2, <1>3, <1>4

\* The levels down to n.
Levels(path, folder, n, g) ==
  g = [d \in 0 .. n |-> IF d = 0 THEN {[path |-> path, node |-> folder]} ELSE Lower(g[d - 1])]

LEMMA LevelsAgree ==
  ASSUME NEW path, NEW folder, NEW n \in Nat, NEW m \in Nat, NEW g, NEW h,
         Levels(path, folder, n, g), Levels(path, folder, m, h), NEW d \in Nat, d <= n, d <= m
  PROVE  g[d] = h[d]
<1> DEFINE T == {k \in Nat : k <= n /\ k <= m => g[k] = h[k]}
<1>1. 0 \in T
  BY DEF Levels
<1>2. ASSUME NEW k \in T PROVE k + 1 \in T
  <2> SUFFICES ASSUME k + 1 <= n, k + 1 <= m PROVE g[k + 1] = h[k + 1]
    OBVIOUS
  <2> DEFINE l == k + 1
  <2>1. l \in 0 .. n /\ l \in 0 .. m /\ l # 0 /\ l - 1 = k /\ k <= n /\ k <= m
    OBVIOUS
  <2> HIDE DEF l
  <2>2. g[l] = Lower(g[l - 1]) /\ h[l] = Lower(h[l - 1])
    BY <2>1 DEF Levels
  <2>3. g[k] = h[k]
    BY <2>1
  <2> QED
    BY <2>1, <2>2, <2>3 DEF l
<1>3. T = Nat
  <2> HIDE DEF T
  <2>1. T \in SUBSET Nat
    BY DEF T
  <2> QED
    BY <1>1, <1>2, <2>1, SetInduction
<1> QED
  BY <1>3

LEMMA LevelsExist ==
  ASSUME NEW path, NEW folder, NEW n \in Nat
  PROVE  \E g : Levels(path, folder, n, g)
<1> DEFINE T == {k \in Nat : \E g : Levels(path, folder, k, g)}
           first == {[path |-> path, node |-> folder]}
<1>1. 0 \in T
  <2> DEFINE g == [d \in 0 .. 0 |-> first]
  <2>1. Levels(path, folder, 0, g)
    BY DEF Levels
  <2> QED
    BY <2>1
<1>2. ASSUME NEW k \in T PROVE k + 1 \in T
  <2>1. PICK g : Levels(path, folder, k, g)
    OBVIOUS
  <2> DEFINE h == [d \in 0 .. k + 1 |-> IF d = k + 1 THEN Lower(g[k]) ELSE g[d]]
  <2>2. ASSUME NEW d \in 0 .. k + 1
        PROVE  h[d] = IF d = 0 THEN first ELSE Lower(h[d - 1])
    <3>1. CASE d = 0
      BY <2>1, <3>1 DEF Levels
    <3>2. CASE d = k + 1
      <4>1. d - 1 \in 0 .. k + 1 /\ d - 1 # k + 1 /\ d - 1 = k /\ d # 0
        BY <3>2
      <4> QED
        BY <3>2, <4>1
    <3>3. CASE d # 0 /\ d # k + 1
      <4>1. d \in 0 .. k /\ d - 1 \in 0 .. k + 1 /\ d - 1 # k + 1
        BY <3>3
      <4> HIDE DEF first
      <4>2. g[d] = Lower(g[d - 1])
        BY <2>1, <3>3, <4>1 DEF Levels
      <4> QED
        BY <3>3, <4>1, <4>2
    <3> QED
      BY <3>1, <3>2, <3>3
  <2>3. h = [d \in 0 .. k + 1 |-> h[d]]
    OBVIOUS
  <2> HIDE DEF h
  <2>4. Levels(path, folder, k + 1, h)
    BY <2>2, <2>3 DEF Levels
  <2> QED
    BY <2>4
<1>3. T = Nat
  <2> HIDE DEF T
  <2>1. T \in SUBSET Nat
    BY DEF T
  <2> QED
    BY <1>1, <1>2, <2>1, SetInduction
<1> QED
  BY <1>3

LEMMA LevelOp ==
  ASSUME NEW path, NEW folder
  PROVE  /\ Level(path, folder)[0] = {[path |-> path, node |-> folder]}
         /\ \A d \in Nat : Level(path, folder)[d + 1] = Lower(Level(path, folder)[d])
<1> DEFINE first == {[path |-> path, node |-> folder]}
           Is(f) == f = [d \in Nat |-> IF d = 0 THEN first ELSE Lower(f[d - 1])]
           to(n) == CHOOSE g : Levels(path, folder, n, g)
           f == [n \in Nat |-> to(n)[n]]
<1>1. \A n \in Nat : Levels(path, folder, n, to(n))
  BY LevelsExist
<1>2. ASSUME NEW d \in Nat
      PROVE  f[d] = IF d = 0 THEN first ELSE Lower(f[d - 1])
  <2>1. Levels(path, folder, d, to(d)) /\ d \in 0 .. d
    BY <1>1
  <2>2. CASE d = 0
    BY <2>1, <2>2 DEF Levels
  <2>3. CASE d # 0
    <3> DEFINE e == d - 1
    <3>1. e \in Nat /\ e <= e /\ e <= d
      BY <2>3
    <3> HIDE DEF e
    <3>2. Levels(path, folder, e, to(e))
      BY <1>1, <3>1
    <3> HIDE DEF to, first
    <3>3. to(d)[e] = to(e)[e]
      BY <2>1, <3>1, <3>2, LevelsAgree
    <3>4. to(d)[d] = Lower(to(d)[d - 1])
      BY <2>1, <2>3 DEF Levels
    <3> QED
      BY <2>3, <3>1, <3>3, <3>4 DEF e
  <2> QED
    BY <2>2, <2>3
<1> HIDE DEF to
<1>3. Is(f)
  <2>1. f = [d \in Nat |-> f[d]]
    OBVIOUS
  <2> HIDE DEF f
  <2> QED
    BY <1>2, <2>1
<1>4. Level(path, folder) = CHOOSE g : Is(g)
  BY DEF Level
<1> HIDE DEF f
<1> DEFINE L == Level(path, folder)
<1>5. Is(L)
  <2> HIDE DEF Is
  <2> QED
    BY <1>3, <1>4
<1> HIDE DEF L
<1>6. L[0] = first
  BY <1>5
<1>7. ASSUME NEW d \in Nat PROVE L[d + 1] = Lower(L[d])
  <2> DEFINE e == d + 1
  <2>1. e \in Nat /\ e # 0 /\ e - 1 = d
    OBVIOUS
  <2> HIDE DEF e
  <2>2. L[e] = Lower(L[e - 1])
    BY <1>5, <2>1
  <2> QED
    BY <2>1, <2>2 DEF e
<1> QED
  BY <1>6, <1>7 DEF L

\* A level below the first is made of the children of the one above.
LEMMA LevelStep ==
  ASSUME NEW path, NEW folder, NEW d \in Nat, NEW y
  PROVE  y \in Level(path, folder)[d + 1] <=>
           \E x \in Level(path, folder)[d] : \E k \in DOMAIN Kids[x.node] :
             y = KidOf(x, k)
<1> DEFINE L == Level(path, folder)
<1>1. L[d + 1] = Lower(L[d])
  BY LevelOp
<1> HIDE DEF L
<1>2. y \in Lower(L[d]) <=>
        \E x \in L[d] : \E k \in DOMAIN Kids[x.node] :
          y = KidOf(x, k)
  <2>1. PICK S : S = L[d]
    OBVIOUS
  <2>2. y \in Lower(S) <=>
          \E x \in S : \E k \in DOMAIN Kids[x.node] :
            y = KidOf(x, k)
    BY LowerOp
  <2> QED
    BY <2>1, <2>2
<1> QED
  BY <1>1, <1>2 DEF L

LEMMA LevelParent ==
  ASSUME NEW path, NEW folder, NEW d \in Nat, NEW y \in Level(path, folder)[d + 1]
  PROVE  \E x \in Level(path, folder)[d] : \E k \in DOMAIN Kids[x.node] :
           y = KidOf(x, k)
BY LevelStep

LEMMA LevelChild ==
  ASSUME NEW path, NEW folder, NEW d \in Nat, NEW x \in Level(path, folder)[d],
         NEW k \in DOMAIN Kids[x.node]
  PROVE  KidOf(x, k)
           \in Level(path, folder)[d + 1]
<1> DEFINE y == KidOf(x, k)
<1>1. \E z \in Level(path, folder)[d] : \E i \in DOMAIN Kids[z.node] :
        y = KidOf(z, i)
  OBVIOUS
<1> HIDE DEF y
<1>2. y \in Level(path, folder)[d + 1]
  BY <1>1, LevelStep
<1> QED
  BY <1>2 DEF y

\* The paths of a level are as long as it is deep.
LEMMA LevelType ==
  ASSUME NEW path \in Seq(Names), NEW folder \in Folders, NEW d \in Nat,
         NEW x \in Level(path, folder)[d]
  PROVE  /\ x = [path |-> x.path, node |-> x.node]
         /\ x.path \in Seq(Names) /\ x.node \in Folders
         /\ Len(x.path) = Len(path) + d
<1> DEFINE L == Level(path, folder)
           Typed(y, k) == /\ y = [path |-> y.path, node |-> y.node]
                          /\ y.path \in Seq(Names) /\ y.node \in Folders
                          /\ Len(y.path) = Len(path) + k
           T == {k \in Nat : \A y \in L[k] : Typed(y, k)}
<1>1. 0 \in T
  <2>1. Len(path) + 0 = Len(path)
    OBVIOUS
  <2> QED
    BY <2>1, LevelOp
<1>2. ASSUME NEW k \in T PROVE k + 1 \in T
  <2> SUFFICES ASSUME NEW y \in L[k + 1] PROVE Typed(y, k + 1)
    OBVIOUS
  <2>1. PICK z \in L[k] : \E i \in DOMAIN Kids[z.node] :
          y = KidOf(z, i)
    BY LevelParent
  <2>2. PICK i \in DOMAIN Kids[z.node] :
          y = KidOf(z, i)
    BY <2>1
  <2>3. z.path \in Seq(Names) /\ z.node \in Folders /\ Len(z.path) = Len(path) + k
    OBVIOUS
  <2>4. Kids[z.node][i].name \in Names /\ Kids[z.node][i].node \in Folders
    BY <2>3, KidsType
  <2>5. /\ Append(z.path, Kids[z.node][i].name) \in Seq(Names)
        /\ Len(Append(z.path, Kids[z.node][i].name)) = Len(z.path) + 1
    BY <2>3, <2>4, AppendOp
  <2>6. Len(path) + k + 1 = Len(path) + (k + 1)
    OBVIOUS
  <2> QED
    BY <2>2, <2>3, <2>4, <2>5, <2>6 DEF KidOf
<1>3. T = Nat
  <2> HIDE DEF T
  <2>1. T \in SUBSET Nat
    BY DEF T
  <2> QED
    BY <1>1, <1>2, <2>1, SetInduction
<1> QED
  BY <1>3

\* The names of the nodes in a folder differ.
Distinct ==
  \A f \in Folders :
    /\ \A i, j \in DOMAIN Kids[f] : Kids[f][i].name = Kids[f][j].name => i = j
    /\ \A i, j \in DOMAIN Leaves[f] : Leaves[f][i].name = Leaves[f][j].name => i = j

\* A path leads to one folder.
LEMMA LevelUnique ==
  ASSUME Distinct, NEW path \in Seq(Names), NEW folder \in Folders, NEW d \in Nat,
         NEW x \in Level(path, folder)[d], NEW y \in Level(path, folder)[d], x.path = y.path
  PROVE  x = y
<1> DEFINE L == Level(path, folder)
           T == {k \in Nat : \A u, v \in L[k] : u.path = v.path => u = v}
<1>1. 0 \in T
  <2>1. L[0] = {[path |-> path, node |-> folder]}
    BY LevelOp
  <2> QED
    BY <2>1
<1>2. ASSUME NEW k \in T PROVE k + 1 \in T
  <2> SUFFICES ASSUME NEW u \in L[k + 1], NEW v \in L[k + 1], u.path = v.path PROVE u = v
    OBVIOUS
  <2>1. PICK a \in L[k] : \E i \in DOMAIN Kids[a.node] :
          u = KidOf(a, i)
    <3>1. k \in Nat /\ u \in L[k + 1]
      OBVIOUS
    <3> HIDE DEF T
    <3> QED
      BY <3>1, LevelParent
  <2>2. PICK i \in DOMAIN Kids[a.node] :
          u = KidOf(a, i)
    BY <2>1
  <2>3. PICK b \in L[k] : \E j \in DOMAIN Kids[b.node] :
          v = KidOf(b, j)
    <3>1. k \in Nat /\ v \in L[k + 1]
      OBVIOUS
    <3> HIDE DEF T
    <3> QED
      BY <3>1, LevelParent
  <2>4. PICK j \in DOMAIN Kids[b.node] :
          v = KidOf(b, j)
    BY <2>3
  <2>5. a.path \in Seq(Names) /\ a.node \in Folders /\ b.path \in Seq(Names) /\ b.node \in Folders
    BY LevelType
  <2>6. Kids[a.node][i].name \in Names /\ Kids[b.node][j].name \in Names
    BY <2>5, KidsType
  <2>7. Append(a.path, Kids[a.node][i].name) = Append(b.path, Kids[b.node][j].name)
    BY <2>2, <2>4 DEF KidOf
  <2>8. a.path = b.path /\ Kids[a.node][i].name = Kids[b.node][j].name
    <3> DEFINE p == a.path
               q == b.path
               m == Kids[a.node][i].name
               n == Kids[b.node][j].name
    <3>1. /\ p \in Seq(Names) /\ q \in Seq(Names) /\ m \in Names /\ n \in Names
          /\ Append(p, m) = Append(q, n)
      BY <2>5, <2>6, <2>7
    <3> HIDE DEF p, q, m, n
    <3>2. p = q /\ m = n
      BY <3>1, AppendEq
    <3> QED
      BY <3>2 DEF p, q, m, n
  <2>9. a = b
    BY <2>8
  <2>10. i = j
    BY <2>5, <2>8, <2>9 DEF Distinct
  <2> QED
    BY <2>2, <2>4, <2>9, <2>10
<1>3. T = Nat
  <2> HIDE DEF T
  <2>1. T \in SUBSET Nat
    BY DEF T
  <2> QED
    BY <1>1, <1>2, <2>1, SetInduction
<1> QED
  BY <1>3

-----------------------------------------------------------------------------
(* The tree that unfolds.                                                  *)

Node(p, f) == [path |-> p, node |-> f]
Tree(d) == Level(Slash, RootFolder)[d]

\* The path of a folder or file begins at the root.
LEMMA SlashOp == Slash \in Seq(Names) /\ Len(Slash) = 1 /\ Slash[1] = "/" /\ RootFolder \in Folders
<1>1. "/" \in Names
  BY DEF Names
<1> QED
  BY <1>1, WalkAssumption DEF Slash

LEMMA TreeType ==
  ASSUME NEW d \in Nat, NEW x \in Tree(d)
  PROVE  /\ x = Node(x.path, x.node)
         /\ x.path \in Seq(Names) /\ x.node \in Folders /\ Len(x.path) = d + 1
<1>1. /\ x = [path |-> x.path, node |-> x.node] /\ x.path \in Seq(Names) /\ x.node \in Folders
      /\ Len(x.path) = Len(Slash) + d
  <2>1. PICK p, f : p = Slash /\ f = RootFolder
    OBVIOUS
  <2>2. p \in Seq(Names) /\ f \in Folders /\ x \in Level(p, f)[d]
    BY <2>1, SlashOp DEF Tree
  <2>3. /\ x = [path |-> x.path, node |-> x.node] /\ x.path \in Seq(Names) /\ x.node \in Folders
        /\ Len(x.path) = Len(p) + d
    BY <2>2, LevelType
  <2> QED
    BY <2>1, <2>3
<1>2. Len(Slash) + d = d + 1
  BY SlashOp
<1> QED
  BY <1>1, <1>2 DEF Node

LEMMA TreeUnique ==
  ASSUME Distinct, NEW d \in Nat, NEW x \in Tree(d), NEW y \in Tree(d), x.path = y.path
  PROVE  x = y
BY SlashOp, LevelUnique DEF Tree

LEMMA TreeParent ==
  ASSUME NEW d \in Nat, NEW y \in Tree(d + 1)
  PROVE  \E x \in Tree(d) : \E k \in DOMAIN Kids[x.node] : y = KidOf(x, k)
BY LevelParent DEF Tree

LEMMA TreeChild ==
  ASSUME NEW d \in Nat, NEW x \in Tree(d), NEW k \in DOMAIN Kids[x.node]
  PROVE  KidOf(x, k) \in Tree(d + 1)
BY LevelChild DEF Tree

\* What is above a folder of the tree is in the tree.
LEMMA TreePrefix ==
  ASSUME NEW d \in Nat, NEW x \in Tree(d), NEW m \in Nat, m <= d
  PROVE  \E y \in Tree(m) : y.path = SubSeq(x.path, 1, m + 1)
<1> DEFINE T == {k \in Nat : m <= k => \A v \in Tree(k) : \E y \in Tree(m) : y.path = SubSeq(v.path, 1, m + 1)}
<1>1. ASSUME NEW v \in Tree(m) PROVE v.path = SubSeq(v.path, 1, m + 1)
  <2>1. v.path \in Seq(Names) /\ Len(v.path) = m + 1
    BY TreeType
  <2> QED
    BY <2>1
<1>2. 0 \in T
  <2>1. m <= 0 => m = 0
    OBVIOUS
  <2> QED
    BY <1>1, <2>1
<1>3. ASSUME NEW k \in T PROVE k + 1 \in T
  <2> SUFFICES ASSUME m <= k + 1, NEW v \in Tree(k + 1)
               PROVE  \E y \in Tree(m) : y.path = SubSeq(v.path, 1, m + 1)
    OBVIOUS
  <2>1. CASE m = k + 1
    BY <1>1, <2>1
  <2>2. CASE m <= k
    <3>1. k \in Nat /\ \A u \in Tree(k) : \E y \in Tree(m) : y.path = SubSeq(u.path, 1, m + 1)
      BY <2>2
    <3>2. PICK u \in Tree(k) : \E i \in DOMAIN Kids[u.node] : v = KidOf(u, i)
      <4> HIDE DEF T
      <4> QED
        BY <3>1, TreeParent
    <3>3. PICK i \in DOMAIN Kids[u.node] : v = KidOf(u, i)
      BY <3>2
    <3>4. PICK y \in Tree(m) : y.path = SubSeq(u.path, 1, m + 1)
      BY <3>1
    <3>5. u.path \in Seq(Names) /\ u.node \in Folders /\ Len(u.path) = k + 1
      BY <3>1, TreeType
    <3>6. PICK p, n : p = u.path /\ n = Kids[u.node][i].name
      OBVIOUS
    <3>7. p \in Seq(Names) /\ n \in Names /\ Len(p) = k + 1 /\ v.path = Append(p, n)
      BY <3>3, <3>5, <3>6, KidsType DEF KidOf
    <3>8. SubSeq(Append(p, n), 1, m + 1) = SubSeq(p, 1, m + 1)
      BY <2>2, <3>1, <3>7
    <3> QED
      BY <3>4, <3>6, <3>7, <3>8
  <2> QED
    BY <2>1, <2>2
<1>4. T = Nat
  <2> HIDE DEF T
  <2>1. T \in SUBSET Nat
    BY DEF T
  <2> QED
    BY <1>2, <1>3, <2>1, SetInduction
<1> QED
  BY <1>4

\* A path of the map leads to what the tree has for it.
LEMMA MapInTree ==
  ASSUME MapsOK, NEW p \in DOMAIN folders
  PROVE  /\ Len(p) \in Nat \ {0} /\ p[1] = "/"
         /\ Node(p, folders[p]) \in Tree(Len(p) - 1)
<1> DEFINE Placed(q, n) == q[1] = "/" /\ Node(q, folders[q]) \in Tree(n)
           T == {n \in Nat : \A q \in DOMAIN folders : Len(q) = n + 1 => Placed(q, n)}
<1>1. \A q \in DOMAIN folders : q \in Seq(Names) /\ Len(q) \in Nat
  BY DEF MapsOK
<1>2. Placed(Slash, 0)
  <2>1. Tree(0) = {Node(Slash, RootFolder)}
    BY LevelOp DEF Tree, Node
  <2> QED
    BY <2>1, SlashOp DEF MapsOK
<1>3. ASSUME NEW q \in DOMAIN folders, q # Slash
      PROVE  \E r \in DOMAIN folders : \E k \in DOMAIN Kids[folders[r]] :
               /\ q = Append(r, Kids[folders[r]][k].name) /\ Kids[folders[r]][k].name \in Names
               /\ Node(q, folders[q]) = KidOf(Node(r, folders[r]), k)
               /\ Len(q) = Len(r) + 1 /\ (Len(r) # 0 => q[1] = r[1])
  <2>1. PICK r \in DOMAIN folders : \E k \in DOMAIN Kids[folders[r]] :
          q = Append(r, Kids[folders[r]][k].name) /\ folders[q] = Kids[folders[r]][k].node
    BY <1>3 DEF MapsOK, Below
  <2>2. PICK k \in DOMAIN Kids[folders[r]] :
          q = Append(r, Kids[folders[r]][k].name) /\ folders[q] = Kids[folders[r]][k].node
    BY <2>1
  <2>3. r \in Seq(Names) /\ folders[r] \in Folders
    BY DEF MapsOK
  <2>4. PICK n : n = Kids[folders[r]][k].name
    OBVIOUS
  <2>5. n \in Names
    BY <2>3, <2>4, KidsType
  <2>6. Len(Append(r, n)) = Len(r) + 1 /\ (Len(r) # 0 => Append(r, n)[1] = r[1])
    BY <2>3, <2>5
  <2>7. Node(q, folders[q]) = KidOf(Node(r, folders[r]), k)
    BY <2>2 DEF Node, KidOf
  <2> QED
    BY <2>2, <2>4, <2>5, <2>6, <2>7
<1>4. \A q \in DOMAIN folders : Len(q) # 0
  <2> SUFFICES ASSUME NEW q \in DOMAIN folders PROVE Len(q) # 0
    OBVIOUS
  <2>1. CASE q = Slash
    BY <2>1, SlashOp
  <2>2. CASE q # Slash
    BY <1>1, <1>3, <2>2
  <2> QED
    BY <2>1, <2>2
<1>5. 0 \in T
  <2> SUFFICES ASSUME NEW q \in DOMAIN folders, Len(q) = 0 + 1 PROVE Placed(q, 0)
    OBVIOUS
  <2>1. CASE q = Slash
    BY <1>2, <2>1
  <2>2. CASE q # Slash
    BY <1>1, <1>3, <1>4, <2>2
  <2> QED
    BY <2>1, <2>2
<1>6. ASSUME NEW n \in T PROVE n + 1 \in T
  <2> SUFFICES ASSUME NEW q \in DOMAIN folders, Len(q) = n + 1 + 1 PROVE Placed(q, n + 1)
    OBVIOUS
  <2>1. n \in Nat /\ q # Slash
    <3>1. n \in Nat
      OBVIOUS
    <3>2. n + 1 + 1 # 1
      BY <3>1
    <3> QED
      BY <3>1, <3>2, SlashOp
  <2>2. PICK r \in DOMAIN folders : \E k \in DOMAIN Kids[folders[r]] :
          /\ Node(q, folders[q]) = KidOf(Node(r, folders[r]), k)
          /\ Len(q) = Len(r) + 1 /\ (Len(r) # 0 => q[1] = r[1])
    BY <1>3, <2>1
  <2>3. PICK k \in DOMAIN Kids[folders[r]] :
          /\ Node(q, folders[q]) = KidOf(Node(r, folders[r]), k)
          /\ Len(q) = Len(r) + 1 /\ (Len(r) # 0 => q[1] = r[1])
    BY <2>2
  <2>4. Len(r) = n + 1 /\ Len(r) # 0
    BY <1>1, <2>1, <2>3
  <2>5. Placed(r, n)
    BY <2>4
  <2>6. PICK x : x = Node(r, folders[r])
    OBVIOUS
  <2>7. x \in Tree(n) /\ k \in DOMAIN Kids[x.node]
    BY <2>5, <2>6 DEF Node
  <2> HIDE DEF T
  <2>8. KidOf(x, k) \in Tree(n + 1)
    BY <2>1, <2>7, TreeChild
  <2> QED
    BY <2>3, <2>4, <2>5, <2>6, <2>8
<1>7. T = Nat
  <2> HIDE DEF T
  <2>1. T \in SUBSET Nat
    BY DEF T
  <2> QED
    BY <1>5, <1>6, <2>1, SetInduction
<1>8. Len(p) - 1 \in Nat /\ (Len(p) - 1) + 1 = Len(p)
  BY <1>1, <1>4
<1> QED
  BY <1>1, <1>4, <1>7, <1>8

\* The children of a processed folder have their paths.
KidsOK ==
  \A p \in DOMAIN folders : folders[p] \in processed =>
    \A k \in DOMAIN Kids[folders[p]] : Append(p, Kids[folders[p]][k].name) \in DOMAIN folders

LEMMA ProcessKids ==
  ASSUME MapsOK, KidsOK, NEW path \in Seq(Names), ProcessDir(path)
  PROVE  /\ KidsOK' /\ processed \subseteq processed'
         /\ path \in DOMAIN folders => folders[path] \in processed'
<1>1. MapsOK' /\ Grows
  BY ProcessDirKeeps
<1>2. CASE UNCHANGED maps
  <2>1. folders' = folders /\ processed' = processed
    BY <1>2 DEF maps
  <2> QED
    BY <2>1 DEF KidsOK, ProcessDir
<1>3. CASE path \in DOMAIN folders /\ folders[path] \notin processed
  <2> DEFINE f == folders[path]
             nodes == Kids[f]
  <2>1. f \in Folders /\ folders' = Registered(folders, path, nodes) /\ processed' = processed \cup {f}
    BY <1>3 DEF ProcessDir, MapsOK
  <2>2. /\ Len(nodes) \in Nat /\ DOMAIN nodes = 1 .. Len(nodes)
        /\ \A i \in DOMAIN nodes : nodes[i].name \in Names
    BY <2>1, KidsType
  <2>3. folders'[path] = f /\ path \in DOMAIN folders'
    BY <1>1, <1>3 DEF Grows
  <2> HIDE DEF f
  <2>4. \A i \in DOMAIN nodes : Append(path, nodes[i].name) \in DOMAIN folders'
    <3> HIDE DEF nodes
    <3> QED
      BY <2>1, <2>2, RegisteredOp
  <2>5. ASSUME NEW p \in DOMAIN folders', folders'[p] \in processed', NEW k \in DOMAIN Kids[folders'[p]]
        PROVE  Append(p, Kids[folders'[p]][k].name) \in DOMAIN folders'
    <3>1. CASE folders'[p] = f
      <4>1. p = path
        BY <1>1, <2>3, <3>1 DEF MapsOK
      <4> QED
        BY <2>4, <2>5, <3>1, <4>1
    <3>2. CASE folders'[p] \in processed
      <4>1. PICK q \in DOMAIN folders : folders'[p] = folders[q]
        BY <3>2 DEF MapsOK
      <4>2. q \in DOMAIN folders' /\ folders'[q] = folders[q]
        BY <1>1 DEF Grows
      <4>3. p = q
        BY <1>1, <4>1, <4>2 DEF MapsOK
      <4>4. Append(q, Kids[folders[q]][k].name) \in DOMAIN folders
        BY <2>5, <3>2, <4>1 DEF KidsOK
      <4> QED
        BY <1>1, <4>1, <4>3, <4>4 DEF Grows
    <3> QED
      BY <2>1, <2>5, <3>1, <3>2
  <2> QED
    BY <2>1, <2>5 DEF KidsOK, f
<1> QED
  BY <1>2, <1>3 DEF ProcessDir

-----------------------------------------------------------------------------
(* find_folder.                                                            *)

\* The paths of a command line begin at the root.
Rooted == \A r \in Requests : \A i \in DOMAIN r.paths : Head(r.paths[i]) = "/"

LEMMA PathRooted ==
  ASSUME Rooted, Shape, turn # 0
  PROVE  /\ Path \in Seq(Names) /\ Len(Path) \in Nat \ {0} /\ Head(Path) = "/" /\ Path[1] = "/"
         /\ turn \in DOMAIN req.paths /\ req.depth \in 0 .. MaxDepth
<1>1. req.paths \in Seq(Seq(STRING) \ {<<>>}) /\ req.depth \in 0 .. MaxDepth
  BY WalkAssumption DEF Shape
<1>2. turn \in DOMAIN req.paths
  BY <1>1 DEF Shape
<1>3. req.paths[turn] \in Seq(STRING) \ {<<>>}
  BY <1>1, <1>2, ElementOp
<1>4. \A p \in Seq(STRING) \ {<<>>} : p \in Seq(Names) /\ Len(p) \in Nat \ {0} /\ Head(p) = p[1]
  BY DEF Names
<1>5. Head(req.paths[turn]) = "/"
  BY <1>2 DEF Rooted, Shape
<1> QED
  BY <1>1, <1>2, <1>3, <1>4, <1>5 DEF Path

LEMMA JoinOp ==
  ASSUME NEW S, NEW s \in Seq(S), NEW u \in Seq(S), Len(s) = 1
  PROVE  /\ s \o u \in Seq(S) /\ Len(s \o u) = 1 + Len(u) /\ (s \o u)[1] = s[1]
         /\ \A i \in 2 .. 1 + Len(u) : (s \o u)[i] = u[i - 1]
<1>1. /\ s \o u \in Seq(S) /\ Len(s \o u) = Len(s) + Len(u)
      /\ \A i \in 1 .. Len(s) + Len(u) :
           (s \o u)[i] = IF i <= Len(s) THEN s[i] ELSE u[i - Len(s)]
  BY ConcatProperties
<1> DEFINE v == s \o u
<1> HIDE DEF v
<1>2. Len(u) \in Nat
  OBVIOUS
<1> QED
  BY <1>1, <1>2 DEF v

LEMMA CurPathOp ==
  ASSUME Rooted, Shape, turn # 0
  PROVE  /\ Len(Relative) = Len(Path) - 1
         /\ at \in 0 .. Len(Path) - 1 => CurPath = SubSeq(Path, 1, at + 1)
<1>1. /\ Path \in Seq(Names) /\ Len(Path) \in Nat \ {0} /\ Path[1] = "/" /\ Relative = Tail(Path)
  BY PathRooted DEF Relative
<1> DEFINE p == Path
<1> HIDE DEF p
<1>2. p \in Seq(Names) /\ Len(p) \in Nat \ {0} /\ p[1] = "/" /\ p # <<>>
  BY <1>1 DEF p
<1>3. /\ Tail(p) \in Seq(Names) /\ Len(Tail(p)) = Len(p) - 1
      /\ \A i \in 1 .. Len(p) - 1 : Tail(p)[i] = p[i + 1]
  BY <1>2
<1>4. ASSUME at \in 0 .. Len(p) - 1
      PROVE  Slash \o SubSeq(Tail(p), 1, at) = SubSeq(p, 1, at + 1)
  <2>1. PICK t : t = Tail(p)
    OBVIOUS
  <2>2. t \in Seq(Names) /\ Len(t) = Len(p) - 1 /\ \A i \in 1 .. Len(p) - 1 : t[i] = p[i + 1]
    BY <1>3, <2>1
  <2> DEFINE u == SubSeq(t, 1, at)
             q == SubSeq(p, 1, at + 1)
  <2>3. u \in Seq(Names) /\ Len(u) = at /\ \A i \in 1 .. at : u[i] = t[i]
    BY <1>2, <1>4, <2>2, SubSeqOp
  <2>4. q \in Seq(Names) /\ Len(q) = at + 1 /\ \A i \in 1 .. at + 1 : q[i] = p[i]
    <3> DEFINE m == at + 1
    <3>1. m \in 0 .. Len(p)
      BY <1>2, <1>4
    <3> HIDE DEF m
    <3>2. SubSeq(p, 1, m) \in Seq(Names) /\ Len(SubSeq(p, 1, m)) = m /\ \A i \in 1 .. m : SubSeq(p, 1, m)[i] = p[i]
      BY <1>2, <3>1, SubSeqOp
    <3> QED
      BY <3>2 DEF m
  <2> HIDE DEF u, q
  <2> DEFINE v == Slash \o u
  <2>5. v \in Seq(Names) /\ Len(v) = at + 1 /\ v[1] = "/" /\ \A i \in 2 .. at + 1 : v[i] = u[i - 1]
    <3>1. PICK s : s = Slash
      OBVIOUS
    <3>2. s \in Seq(Names) /\ Len(s) = 1 /\ s[1] = "/" /\ at \in Nat
      BY <1>2, <1>4, <3>1, SlashOp
    <3>3. /\ s \o u \in Seq(Names) /\ Len(s \o u) = 1 + at /\ (s \o u)[1] = s[1]
          /\ \A i \in 2 .. 1 + at : (s \o u)[i] = u[i - 1]
      BY <2>3, <3>2, JoinOp
    <3>4. 1 + at = at + 1
      BY <3>2
    <3> QED
      BY <3>1, <3>2, <3>3, <3>4
  <2> HIDE DEF v
  <2>6. ASSUME NEW i \in 1 .. at + 1 PROVE v[i] = q[i]
    <3>1. CASE i = 1
      BY <1>2, <1>4, <2>4, <2>5, <3>1
    <3>2. CASE i # 1
      <4>1. i \in 2 .. at + 1 /\ i - 1 \in 1 .. at /\ i - 1 \in 1 .. Len(p) - 1 /\ (i - 1) + 1 = i
        BY <1>2, <1>4, <3>2
      <4> QED
        BY <2>2, <2>3, <2>4, <2>5, <4>1
    <3> QED
      BY <3>1, <3>2
  <2>7. v = q
    BY <2>4, <2>5, <2>6
  <2> QED
    BY <2>1, <2>7 DEF u, q, v
<1> QED
  BY <1>1, <1>3, <1>4 DEF p, CurPath

\* The folders find_folder has gone through are processed, and the one it is at
\* is where it looks; what it misses is not there.
Looking ==
  /\ pc \in {"lookup", "missing"} =>
       /\ at \in 0 .. Len(Path) - 1
       /\ at # 0 => /\ SubSeq(Path, 1, at) \in DOMAIN folders
                    /\ folders[SubSeq(Path, 1, at)] \in processed
  /\ pc = "missing" => SubSeq(Path, 1, at + 1) \notin DOMAIN folders
  /\ pc = "found" => Path \in DOMAIN folders /\ folders[Path] \in processed

LEMMA NamedOp ==
  ASSUME NEW p \in Seq(Names), p # <<>>, p[1] = "/", NEW f
  PROVE  f \in Named(p) <=> Node(p, f) \in Tree(Len(p) - 1)
<1>1. Len(p) - 1 \in Nat /\ Head(p) = p[1]
  OBVIOUS
<1>2. Named(p) = {x.node : x \in {y \in Tree(Len(p) - 1) : y.path = p}}
  BY <1>1 DEF Named, Tree
<1>3. ASSUME NEW x \in Tree(Len(p) - 1), x.path = p PROVE x = Node(p, x.node)
  BY <1>1, <1>3, TreeType
<1>4. Node(p, f).path = p /\ Node(p, f).node = f
  BY DEF Node
<1> QED
  BY <1>2, <1>3, <1>4

LEMMA FolderNamed ==
  ASSUME Distinct, MapsOK, NEW p \in DOMAIN folders
  PROVE  Named(p) = {folders[p]}
<1>1. p \in Seq(Names) /\ Len(p) \in Nat \ {0} /\ p[1] = "/" /\ Node(p, folders[p]) \in Tree(Len(p) - 1)
  BY MapInTree DEF MapsOK
<1>2. p # <<>> /\ Len(p) - 1 \in Nat
  BY <1>1
<1>3. folders[p] \in Named(p)
  BY <1>1, <1>2, NamedOp
<1>4. ASSUME NEW f \in Named(p) PROVE f = folders[p]
  <2>1. Node(p, f) \in Tree(Len(p) - 1)
    BY <1>1, <1>2, NamedOp
  <2>2. Node(p, f).path = Node(p, folders[p]).path
    BY DEF Node
  <2>3. Node(p, f) = Node(p, folders[p])
    BY <1>1, <1>2, <2>1, <2>2, TreeUnique
  <2> QED
    BY <2>3 DEF Node
<1> QED
  BY <1>3, <1>4

\* What dump makes of the folder it starts from.
Start(r, p) == IF r.cmd = "dump" THEN {[kind |-> "folder", path |-> p]} ELSE {}

LEMMA FoundAsked ==
  ASSUME Distinct, MapsOK, Path \in DOMAIN folders
  PROVE  Asked(req, Path) = Start(req, Path) \cup Entries(Path, folders[Path], req.depth)
<1>1. Named(Path) = {folders[Path]}
  BY FolderNamed
<1> DEFINE folder == Named(Path)
<1>2. folder # {} /\ UNION {Entries(Path, f, req.depth) : f \in folder} = Entries(Path, folders[Path], req.depth)
  BY <1>1
<1>3. folder # {} => Asked(req, Path) = Start(req, Path) \cup UNION {Entries(Path, f, req.depth) : f \in folder}
  BY DEF Asked, Start
<1> QED
  BY <1>2, <1>3

\* The first folder that is missing is not in the tree, nor is any below it.
LEMMA NotBelow ==
  ASSUME Distinct, MapsOK, KidsOK, Looking, pc = "missing", Path \in Seq(Names), Len(Path) \in Nat \ {0},
         NEW n \in 0 .. Len(Path) - 1, NEW x \in Tree(n), x.path = SubSeq(Path, 1, n + 1)
  PROVE  n < at
<1> SUFFICES ASSUME at <= n PROVE FALSE
  BY DEF Looking
<1>1. at \in Nat /\ at \in 0 .. Len(Path) - 1 /\ n \in Nat
  BY DEF Looking
<1>2. PICK y \in Tree(at) : y.path = SubSeq(x.path, 1, at + 1)
  BY <1>1, TreePrefix
<1>3. PICK p : p = Path
  OBVIOUS
<1>4. p \in Seq(Names) /\ SubSeq(SubSeq(p, 1, n + 1), 1, at + 1) = SubSeq(p, 1, at + 1)
  BY <1>1, <1>3
<1>5. y.path = SubSeq(Path, 1, at + 1) /\ y.path \notin DOMAIN folders
  BY <1>2, <1>3, <1>4 DEF Looking
<1>6. CASE at = 0
  <2>1. Tree(0) = {Node(Slash, RootFolder)}
    BY LevelOp DEF Tree, Node
  <2>2. y.path = Slash
    <3>1. y \in Tree(0)
      BY <1>2, <1>6
    <3>2. y = Node(Slash, RootFolder)
      BY <2>1, <3>1
    <3> QED
      BY <3>2 DEF Node
  <2> QED
    BY <1>5, <2>2 DEF MapsOK
<1>7. CASE at # 0
  <2> DEFINE m == at - 1
             q == SubSeq(Path, 1, at)
  <2>1. m \in Nat /\ m + 1 = at
    BY <1>1, <1>7
  <2>2. q \in DOMAIN folders /\ folders[q] \in processed /\ q \in Seq(Names) /\ Len(q) = at
    <3>1. SubSeq(p, 1, at) \in Seq(Names) /\ Len(SubSeq(p, 1, at)) = at
      BY <1>1, <1>3, <1>4
    <3> QED
      BY <1>3, <1>7, <3>1 DEF Looking
  <2> HIDE DEF m, q
  <2>3. PICK z \in Tree(m) : \E k \in DOMAIN Kids[z.node] : y = KidOf(z, k)
    BY <1>2, <2>1, TreeParent
  <2>4. PICK k \in DOMAIN Kids[z.node] : y = KidOf(z, k)
    BY <2>3
  <2>5. /\ z = Node(z.path, z.node) /\ z.path \in Seq(Names) /\ z.node \in Folders /\ Len(z.path) = at
        /\ Kids[z.node][k].name \in Names
    BY <2>1, <2>3, TreeType, KidsType
  <2>6. z.path = q
    <3>1. PICK s, e : s = z.path /\ e = Kids[z.node][k].name
      OBVIOUS
    <3>2. s \in Seq(Names) /\ e \in Names /\ Len(s) = at /\ Append(s, e) = SubSeq(p, 1, at + 1)
      BY <1>3, <1>5, <2>4, <2>5, <3>1 DEF KidOf
    <3>3. SubSeq(Append(s, e), 1, at) = s
      BY <1>1, <3>2
    <3>4. SubSeq(SubSeq(p, 1, at + 1), 1, at) = SubSeq(p, 1, at)
      BY <1>1, <1>3, <1>4
    <3> QED
      BY <1>3, <3>1, <3>2, <3>3, <3>4 DEF q
  <2>7. Node(q, folders[q]) \in Tree(m)
    BY <2>1, <2>2, MapInTree DEF m
  <2>8. z = Node(q, folders[q])
    BY <2>1, <2>3, <2>6, <2>7, TreeUnique DEF Node
  <2>9. z.node = folders[q]
    BY <2>8 DEF Node
  <2>10. y.path \in DOMAIN folders
    BY <2>2, <2>4, <2>6, <2>9 DEF KidOf, KidsOK
  <2> QED
    BY <1>5, <2>10
<1> QED
  BY <1>6, <1>7

LEMMA FrontLast ==
  ASSUME NEW S, NEW p \in Seq(S), p # <<>>
  PROVE  /\ Front(p) \in Seq(S) /\ Len(Front(p)) = Len(p) - 1 /\ Front(p) = SubSeq(p, 1, Len(p) - 1)
         /\ Last(p) \in S /\ p = Append(Front(p), Last(p))
<1>1. /\ Front(p) \in Seq(S) /\ Len(Front(p)) = Len(p) - 1
      /\ \A i \in 1 .. Len(p) - 1 : Front(p)[i] = p[i]
      /\ Len(p) \in Nat \ {0} /\ p[Len(p)] \in S
  BY FrontOp
<1>2. Last(p) = p[Len(p)] /\ Front(p) = SubSeq(p, 1, Len(p) - 1)
  BY <1>1 DEF Last, Front
<1> DEFINE f == Front(p)
           e == Last(p)
<1> HIDE DEF f, e
<1>3. f \in Seq(S) /\ e \in S
  BY <1>1, <1>2 DEF f, e
<1> DEFINE q == Append(f, e)
<1>4. q \in Seq(S) /\ Len(q) = Len(f) + 1 /\ q[Len(f) + 1] = e /\ \A i \in 1 .. Len(f) : q[i] = f[i]
  BY <1>3, AppendOp
<1> HIDE DEF q
<1>5. Len(q) = Len(p)
  BY <1>1, <1>4 DEF f
<1>6. ASSUME NEW i \in 1 .. Len(p) PROVE q[i] = p[i]
  <2>1. i \in 1 .. Len(p) - 1 \/ i = Len(p)
    BY <1>1
  <2> QED
    BY <1>1, <1>2, <1>4, <2>1 DEF f, e
<1>7. q = p
  BY <1>4, <1>5, <1>6
<1> QED
  BY <1>1, <1>2, <1>7 DEF q, f, e

LEMMA MissingAsked ==
  ASSUME Distinct, Rooted, Shape, MapsOK, KidsOK, Looking, pc = "missing"
  PROVE  Asked(req, Path) =
           IF req.cmd = "dump" /\ Path \in DOMAIN files
             THEN {[kind |-> "folder", path |-> Front(Path)], [kind |-> "file", path |-> Path]}
             ELSE {}
<1> DEFINE p == Path
<1>1. p \in Seq(Names) /\ Len(p) \in Nat \ {0} /\ p[1] = "/" /\ turn # 0
  BY PathRooted DEF Shape
<1>2. at \in 0 .. Len(p) - 1 /\ p # <<>>
  BY <1>1 DEF Looking
<1>3. Named(p) = {}
  <2> SUFFICES ASSUME NEW f \in Named(p) PROVE FALSE
    OBVIOUS
  <2> DEFINE n == Len(p) - 1
  <2>1. Node(p, f) \in Tree(n)
    BY <1>1, <1>2, NamedOp
  <2>2. Node(p, f).path = SubSeq(p, 1, n + 1) /\ n \in 0 .. Len(p) - 1
    BY <1>1 DEF Node
  <2> HIDE DEF n
  <2>3. n < at
    BY <1>1, <2>1, <2>2, NotBelow
  <2> QED
    BY <1>1, <1>2, <2>3 DEF n
<1> DEFINE parent == IF Len(p) > 1 THEN Named(Front(p)) ELSE {}
           isFile == \E f \in parent : \E l \in ToSet(Leaves[f]) : l.name = Last(p)
<1>4. ASSUME p \in DOMAIN files PROVE isFile
  <2>1. PICK q \in DOMAIN folders : \E k \in DOMAIN Leaves[folders[q]] :
          p = Append(q, Leaves[folders[q]][k].name)
    BY <1>4 DEF MapsOK, Within
  <2>2. PICK k \in DOMAIN Leaves[folders[q]] : p = Append(q, Leaves[folders[q]][k].name)
    BY <2>1
  <2>3. q \in Seq(Names) /\ folders[q] \in Folders /\ Len(q) \in Nat \ {0}
    BY MapInTree DEF MapsOK
  <2>4. PICK e : e = Leaves[folders[q]][k].name
    OBVIOUS
  <2>5. e \in Names /\ p = Append(q, e)
    BY <2>2, <2>3, <2>4, KidsType
  <2>6. Front(p) = q /\ Last(p) = e
    BY <2>3, <2>5, PathOp
  <2>7. Len(p) > 1
    BY <2>3, <2>5
  <2>8. folders[q] \in Named(q)
    BY FolderNamed
  <2>9. Leaves[folders[q]][k] \in ToSet(Leaves[folders[q]])
    BY DEF ToSet
  <2> QED
    BY <2>4, <2>6, <2>7, <2>8, <2>9
<1>5. ASSUME isFile PROVE p \in DOMAIN files
  <2>1. PICK f \in parent : \E l \in ToSet(Leaves[f]) : l.name = Last(p)
    BY <1>5
  <2>2. PICK l \in ToSet(Leaves[f]) : l.name = Last(p)
    BY <2>1
  <2>3. PICK i \in DOMAIN Leaves[f] : Leaves[f][i].name = Last(p)
    BY <2>2 DEF ToSet
  <2> DEFINE q == Front(p)
             n == Len(p) - 2
  <2>4. Len(p) > 1 /\ f \in Named(q)
    BY <2>1
  <2>5. q \in Seq(Names) /\ Len(q) = Len(p) - 1 /\ q = SubSeq(p, 1, Len(p) - 1) /\ p = Append(q, Last(p))
    BY <1>1, <1>2, FrontLast
  <2>6. SubSeq(p, 1, Len(p) - 1)[1] = p[1]
    BY <1>1, <2>4
  <2>7. q # <<>> /\ q[1] = "/" /\ n \in 0 .. Len(p) - 1 /\ n + 1 = Len(p) - 1 /\ Len(q) - 1 = n
    BY <1>1, <2>4, <2>5, <2>6
  <2> HIDE DEF q, n
  <2>8. Node(q, f) \in Tree(n)
    BY <2>4, <2>5, <2>7, NamedOp
  <2>9. Node(q, f).path = SubSeq(p, 1, n + 1)
    BY <2>5, <2>7 DEF Node
  <2>10. n < at
    BY <1>1, <2>7, <2>8, <2>9, NotBelow
  <2>11. at = Len(p) - 1
    <3>1. PICK len : len = Len(p)
      OBVIOUS
    <3>2. len \in Nat \ {0} /\ at \in 0 .. len - 1 /\ n \in 0 .. len - 1 /\ n + 1 = len - 1 /\ n < at
      BY <1>1, <1>2, <2>7, <2>10, <3>1
    <3>3. at = len - 1
      BY <3>2
    <3> QED
      BY <3>1, <3>3
  <2>12. q \in DOMAIN folders /\ folders[q] \in processed
    BY <1>1, <2>4, <2>5, <2>11 DEF Looking
  <2>13. f = folders[q]
    BY <2>4, <2>12, FolderNamed
  <2> QED
    <3>1. Append(q, Leaves[folders[q]][i].name) \in DOMAIN files
      BY <2>3, <2>12, <2>13 DEF MapsOK
    <3> QED
      BY <2>3, <2>5, <2>13, <3>1
<1>6. Asked(req, p) = IF req.cmd = "dump" /\ isFile
                        THEN {[kind |-> "folder", path |-> Front(p)], [kind |-> "file", path |-> p]}
                        ELSE {}
  BY <1>3 DEF Asked
<1> QED
  BY <1>4, <1>5, <1>6

-----------------------------------------------------------------------------
(* How far walk is below a folder.                                         *)

FolderEntry(q) == [kind |-> "folder", path |-> q]
FileEntry(q) == [kind |-> "file", path |-> q]
LeafPath(x, l) == Append(x.path, Leaves[x.node][l].name)

LEMMA EntriesOp ==
  ASSUME NEW p, NEW base, NEW n \in Nat, NEW e
  PROVE  e \in Entries(p, base, n) <=>
           \/ \E d \in 1 .. n : \E x \in Level(p, base)[d] : e = FolderEntry(x.path)
           \/ \E d \in 0 .. n - 1 : \E x \in Level(p, base)[d] : \E l \in DOMAIN Leaves[x.node] :
                e = FileEntry(LeafPath(x, l))
<1> DEFINE L == Level(p, base)
           some(d) == {FolderEntry(x.path) : x \in L[d]}
           of(x) == {[kind |-> "file", path |-> Append(x.path, l.name)] : l \in ToSet(Leaves[x.node])}
           more(d) == UNION {of(x) : x \in L[d]}
<1>1. Entries(p, base, n) = (UNION {some(d) : d \in 1 .. n}) \cup (UNION {more(d) : d \in 0 .. n - 1})
  BY DEF Entries, FolderEntry
<1>2. \A x : e \in of(x) <=> \E l \in DOMAIN Leaves[x.node] : e = FileEntry(LeafPath(x, l))
  BY DEF ToSet, FileEntry, LeafPath
<1>3. \A d : e \in some(d) <=> \E x \in L[d] : e = FolderEntry(x.path)
  OBVIOUS
<1> HIDE DEF of, some, L
<1>4. \A d : e \in more(d) <=> \E x \in L[d] : e \in of(x)
  OBVIOUS
<1> HIDE DEF more
<1>5. e \in Entries(p, base, n) <=> (\E d \in 1 .. n : e \in some(d)) \/ (\E d \in 0 .. n - 1 : e \in more(d))
  <2> DEFINE A == UNION {some(d) : d \in 1 .. n}
             B == UNION {more(d) : d \in 0 .. n - 1}
  <2>1. e \in A <=> \E d \in 1 .. n : e \in some(d)
    OBVIOUS
  <2>2. e \in B <=> \E d \in 0 .. n - 1 : e \in more(d)
    OBVIOUS
  <2>3. Entries(p, base, n) = A \cup B
    BY <1>1
  <2> HIDE DEF A, B
  <2> QED
    BY <2>1, <2>2, <2>3
<1> QED
  BY <1>2, <1>3, <1>4, <1>5 DEF L

\* A folder walk has come by: where it began, and those it reported.
Entered(p, V, q) == q = p \/ FolderEntry(q) \in V

\* The calls of walk that are open have come by the nodes before the one they are at.
KidSeen(p, V, st, q, k) == Entered(p, V, q) /\ \A i \in DOMAIN st : st[i].path = q => k < st[i].kid
LeafSeen(p, V, st, q, l) == Entered(p, V, q) /\ \A i \in DOMAIN st : st[i].path = q => l < st[i].leaf

Seen(p, base, n, V, st) ==
  \A d \in 0 .. n - 1 : \A x \in Level(p, base)[d] :
    /\ \A k \in DOMAIN Kids[x.node] :
         FolderEntry(KidOf(x, k).path) \in V <=> KidSeen(p, V, st, x.path, k)
    /\ \A l \in DOMAIN Leaves[x.node] :
         FileEntry(LeafPath(x, l)) \in V <=> LeafSeen(p, V, st, x.path, l)

Calls(p, base, n, V, st) ==
  \A i \in DOMAIN st :
    /\ Node(st[i].path, st[i].folder) \in Level(p, base)[i - 1]
    /\ i <= n /\ st[i].depth = n - (i - 1)
    /\ Entered(p, V, st[i].path)

LEMMA EntryOp ==
  ASSUME NEW p, NEW q
  PROVE  /\ FolderEntry(p) = FolderEntry(q) <=> p = q
         /\ FileEntry(p) = FileEntry(q) <=> p = q
         /\ FolderEntry(p) # FileEntry(q)
BY DEF FolderEntry, FileEntry

\* When no call is open everything was reported.
LEMMA SeenEnd ==
  ASSUME Distinct, NEW p \in Seq(Names), NEW base \in Folders, NEW n \in Nat, NEW S, NEW V,
         Seen(p, base, n, V, <<>>), S \subseteq V, V \subseteq S \cup Entries(p, base, n)
  PROVE  V = S \cup Entries(p, base, n)
<1> DEFINE L == Level(p, base)
           T == {d \in Nat : d <= n => \A x \in L[d] : Entered(p, V, x.path)}
<1>1. 0 \in T
  <2>1. L[0] = {[path |-> p, node |-> base]}
    BY LevelOp
  <2> QED
    BY <2>1 DEF Entered
<1>2. ASSUME NEW d \in T PROVE d + 1 \in T
  <2> SUFFICES ASSUME d + 1 <= n, NEW x \in L[d + 1] PROVE Entered(p, V, x.path)
    OBVIOUS
  <2>1. d \in 0 .. n - 1 /\ d \in Nat /\ \A y \in L[d] : Entered(p, V, y.path)
    OBVIOUS
  <2> HIDE DEF T
  <2>2. PICK y \in L[d] : \E k \in DOMAIN Kids[y.node] : x = KidOf(y, k)
    BY <2>1, LevelParent
  <2>3. PICK k \in DOMAIN Kids[y.node] : x = KidOf(y, k)
    BY <2>2
  <2>4. KidSeen(p, V, <<>>, y.path, k)
    BY <2>1 DEF KidSeen
  <2> QED
    BY <2>1, <2>3, <2>4 DEF Seen, Entered
<1>3. T = Nat
  <2> HIDE DEF T
  <2>1. T \in SUBSET Nat
    BY DEF T
  <2> QED
    BY <1>1, <1>2, <2>1, SetInduction
<1>4. ASSUME NEW d \in 0 .. n, NEW x \in L[d] PROVE Entered(p, V, x.path)
  BY <1>3
<1> HIDE DEF T
<1> SUFFICES ASSUME NEW e \in Entries(p, base, n) PROVE e \in V
  OBVIOUS
<1>5. CASE \E d \in 1 .. n : \E x \in L[d] : e = FolderEntry(x.path)
  <2>1. PICK d \in 1 .. n : \E x \in L[d] : e = FolderEntry(x.path)
    BY <1>5
  <2>2. PICK x \in L[d] : e = FolderEntry(x.path)
    BY <2>1
  <2>3. d \in 0 .. n /\ d \in Nat /\ d # 0
    OBVIOUS
  <2>4. Entered(p, V, x.path)
    BY <1>4, <2>3
  <2>5. x.path # p
    <3>1. Len(x.path) = Len(p) + d /\ Len(p) \in Nat
      BY <2>3, LevelType
    <3> QED
      BY <2>3, <3>1
  <2> QED
    BY <2>2, <2>4, <2>5 DEF Entered
<1>6. CASE \E d \in 0 .. n - 1 : \E x \in L[d] : \E l \in DOMAIN Leaves[x.node] : e = FileEntry(LeafPath(x, l))
  <2>1. PICK d \in 0 .. n - 1 : \E x \in L[d] : \E l \in DOMAIN Leaves[x.node] : e = FileEntry(LeafPath(x, l))
    BY <1>6
  <2>2. PICK x \in L[d] : \E l \in DOMAIN Leaves[x.node] : e = FileEntry(LeafPath(x, l))
    BY <2>1
  <2>3. PICK l \in DOMAIN Leaves[x.node] : e = FileEntry(LeafPath(x, l))
    BY <2>2
  <2>4. d \in 0 .. n
    OBVIOUS
  <2>5. LeafSeen(p, V, <<>>, x.path, l)
    BY <1>4, <2>4 DEF LeafSeen
  <2> QED
    BY <2>3, <2>5 DEF Seen
<1> QED
  BY <1>5, <1>6, EntriesOp

LEMMA PathLen ==
  ASSUME NEW p \in Seq(Names), NEW base \in Folders, NEW d \in Nat, NEW x \in Level(p, base)[d]
  PROVE  /\ x.path \in Seq(Names) /\ x.node \in Folders /\ Len(x.path) = Len(p) + d
         /\ \A k \in DOMAIN Kids[x.node] : k \in Nat \ {0} /\ Len(KidOf(x, k).path) = Len(p) + d + 1
         /\ \A k \in DOMAIN Leaves[x.node] : k \in Nat \ {0}
<1>1. x.path \in Seq(Names) /\ x.node \in Folders /\ Len(x.path) = Len(p) + d
  BY LevelType
<1>2. \A k \in DOMAIN Kids[x.node] : k \in Nat \ {0}
  BY <1>1, KidsType
<1>3. \A k \in DOMAIN Leaves[x.node] : k \in Nat \ {0}
  BY <1>1, KidsType
<1>4. ASSUME NEW k \in DOMAIN Kids[x.node] PROVE Len(KidOf(x, k).path) = Len(p) + d + 1
  <2>1. PICK s, e : s = x.path /\ e = Kids[x.node][k].name
    OBVIOUS
  <2>2. s \in Seq(Names) /\ e \in Names /\ Len(s) = Len(p) + d
    BY <1>1, <2>1, KidsType
  <2>3. Len(Append(s, e)) = Len(p) + d + 1
    BY <2>2
  <2> QED
    BY <2>1, <2>3 DEF KidOf
<1> QED
  BY <1>1, <1>2, <1>3, <1>4

LEMMA SamePath ==
  ASSUME Distinct, NEW p \in Seq(Names), NEW base \in Folders, NEW c \in Nat, NEW d \in Nat,
         NEW x \in Level(p, base)[c], NEW y \in Level(p, base)[d], x.path = y.path
  PROVE  x = y /\ c = d
<1>1. /\ x.path \in Seq(Names) /\ Len(x.path) = Len(p) + c
      /\ y.path \in Seq(Names) /\ Len(y.path) = Len(p) + d
  BY LevelType
<1>2. c = d
  BY <1>1
<1> QED
  BY <1>2, LevelUnique

LEMMA SameKid ==
  ASSUME Distinct, NEW p \in Seq(Names), NEW base \in Folders, NEW c \in Nat, NEW d \in Nat,
         NEW x \in Level(p, base)[c], NEW y \in Level(p, base)[d],
         NEW k \in DOMAIN Kids[x.node], NEW m \in DOMAIN Kids[y.node], KidOf(x, k).path = KidOf(y, m).path
  PROVE  x = y /\ k = m
<1>1. Append(x.path, Kids[x.node][k].name) = Append(y.path, Kids[y.node][m].name)
  BY DEF KidOf
<1>2. /\ x.path \in Seq(Names) /\ x.node \in Folders /\ y.path \in Seq(Names) /\ y.node \in Folders
      /\ Kids[x.node][k].name \in Names /\ Kids[y.node][m].name \in Names
  BY LevelType, KidsType
<1>3. x.path = y.path /\ Kids[x.node][k].name = Kids[y.node][m].name
  <2>1. PICK s, t, a, b : s = x.path /\ t = y.path /\ a = Kids[x.node][k].name /\ b = Kids[y.node][m].name
    OBVIOUS
  <2>2. s \in Seq(Names) /\ t \in Seq(Names) /\ a \in Names /\ b \in Names /\ Append(s, a) = Append(t, b)
    BY <1>1, <1>2, <2>1
  <2>3. s = t /\ a = b
    BY <2>2, AppendEq
  <2> QED
    BY <2>1, <2>3
<1>4. x = y
  BY <1>3, SamePath
<1> QED
  BY <1>2, <1>3, <1>4 DEF Distinct

LEMMA SameLeaf ==
  ASSUME Distinct, NEW p \in Seq(Names), NEW base \in Folders, NEW c \in Nat, NEW d \in Nat,
         NEW x \in Level(p, base)[c], NEW y \in Level(p, base)[d],
         NEW k \in DOMAIN Leaves[x.node], NEW m \in DOMAIN Leaves[y.node], LeafPath(x, k) = LeafPath(y, m)
  PROVE  x = y /\ k = m
<1>1. Append(x.path, Leaves[x.node][k].name) = Append(y.path, Leaves[y.node][m].name)
  BY DEF LeafPath
<1>2. /\ x.path \in Seq(Names) /\ x.node \in Folders /\ y.path \in Seq(Names) /\ y.node \in Folders
      /\ Leaves[x.node][k].name \in Names /\ Leaves[y.node][m].name \in Names
  BY LevelType, KidsType
<1>3. x.path = y.path /\ Leaves[x.node][k].name = Leaves[y.node][m].name
  <2>1. PICK s, t, a, b : s = x.path /\ t = y.path /\ a = Leaves[x.node][k].name /\ b = Leaves[y.node][m].name
    OBVIOUS
  <2>2. s \in Seq(Names) /\ t \in Seq(Names) /\ a \in Names /\ b \in Names /\ Append(s, a) = Append(t, b)
    BY <1>1, <1>2, <2>1
  <2>3. s = t /\ a = b
    BY <2>2, AppendEq
  <2> QED
    BY <2>1, <2>3
<1>4. x = y
  BY <1>3, SamePath
<1> QED
  BY <1>2, <1>3, <1>4 DEF Distinct

LEMMA SeenStart ==
  ASSUME Distinct, NEW p \in Seq(Names), NEW base \in Folders, NEW n \in Nat, NEW V,
         V \subseteq {FolderEntry(p)}, NEW st,
         \/ n = 0 /\ DOMAIN st = {}
         \/ /\ n # 0 /\ DOMAIN st = {1}
            /\ st[1] = [path |-> p, depth |-> n, folder |-> base, kid |-> 1, leaf |-> 1]
  PROVE  Seen(p, base, n, V, st) /\ Calls(p, base, n, V, st)
<1>1. CASE n = 0 /\ DOMAIN st = {}
  <2>1. ~\E d : d \in 0 .. n - 1
    BY <1>1
  <2> QED
    BY <1>1, <2>1 DEF Seen, Calls
<1>2. CASE /\ n # 0 /\ DOMAIN st = {1}
           /\ st[1] = [path |-> p, depth |-> n, folder |-> base, kid |-> 1, leaf |-> 1]
  <2>1. Level(p, base)[0] = {Node(p, base)}
    BY LevelOp DEF Node
  <2>2. /\ st[1].path = p /\ st[1].folder = base /\ st[1].depth = n /\ st[1].kid = 1 /\ st[1].leaf = 1
        /\ Len(p) \in Nat /\ 1 - 1 = 0 /\ n - 0 = n /\ 1 <= n
    BY <1>2
  <2>3. Calls(p, base, n, V, st)
    BY <1>2, <2>1, <2>2 DEF Calls, Entered
  <2>4. ASSUME NEW d \in 0 .. n - 1, NEW x \in Level(p, base)[d]
        PROVE  /\ \A k \in DOMAIN Kids[x.node] :
                    FolderEntry(KidOf(x, k).path) \notin V /\ ~KidSeen(p, V, st, x.path, k)
               /\ \A k \in DOMAIN Leaves[x.node] :
                    FileEntry(LeafPath(x, k)) \notin V /\ ~LeafSeen(p, V, st, x.path, k)
    <3>1. d \in Nat
      OBVIOUS
    <3>2. /\ \A k \in DOMAIN Kids[x.node] : k \in Nat \ {0} /\ Len(KidOf(x, k).path) = Len(p) + d + 1
          /\ \A k \in DOMAIN Leaves[x.node] : k \in Nat \ {0}
      BY <3>1, PathLen
    <3>3. ASSUME NEW k \in DOMAIN Kids[x.node] PROVE FolderEntry(KidOf(x, k).path) \notin V
      <4>1. PICK q : q = KidOf(x, k).path
        OBVIOUS
      <4>2. PICK a : a = Len(q)
        OBVIOUS
      <4>3. PICK b : b = Len(p)
        OBVIOUS
      <4>4. a = b + d + 1 /\ b \in Nat
        BY <2>2, <3>2, <4>1, <4>2, <4>3
      <4>5. a # b
        BY <3>1, <4>4
      <4>6. q # p
        BY <4>2, <4>3, <4>5
      <4> QED
        BY <4>1, <4>6, EntryOp
    <3>4. \A r : FileEntry(r) \notin V
      BY EntryOp
    <3>5. Entered(p, V, x.path) => x.path = p
      BY EntryOp DEF Entered
    <3>6. \A i \in Nat \ {0} : ~(i < 1)
      OBVIOUS
    <3>7. \A k \in DOMAIN Kids[x.node] : ~KidSeen(p, V, st, x.path, k)
      BY <1>2, <2>2, <3>2, <3>5, <3>6 DEF KidSeen
    <3>8. \A k \in DOMAIN Leaves[x.node] : ~LeafSeen(p, V, st, x.path, k)
      BY <1>2, <2>2, <3>2, <3>5, <3>6 DEF LeafSeen
    <3> QED
      BY <3>3, <3>4, <3>7, <3>8
  <2> QED
    BY <2>3, <2>4 DEF Seen
<1> QED
  BY <1>1, <1>2

LEMMA LessNext == \A m, k \in Nat : m < k + 1 <=> m < k \/ m = k
OBVIOUS

\* The innermost of s calls is in the folder x, c levels down.
InCall(p, base, n, V, st, s, c, x) ==
  /\ s \in Nat \ {0} /\ c = s - 1 /\ DOMAIN st = 1 .. s
  /\ x = Node(st[s].path, st[s].folder)
  /\ Calls(p, base, n, V, st) /\ Seen(p, base, n, V, st)

\* The calls that are open are at different folders.
LEMMA TopCall ==
  ASSUME Distinct, NEW p \in Seq(Names), NEW base \in Folders, NEW n \in Nat, NEW V, NEW st,
         NEW s, NEW c, NEW x, InCall(p, base, n, V, st, s, c, x)
  PROVE  /\ c \in Nat /\ c \in 0 .. n - 1 /\ s \in 1 .. n
         /\ x \in Level(p, base)[c] /\ x.path = st[s].path /\ x.node = st[s].folder
         /\ Entered(p, V, x.path) /\ st[s].depth = n - c
         /\ \A i \in 1 .. c : st[i].path # x.path
<1>0. /\ s \in Nat \ {0} /\ c = s - 1 /\ DOMAIN st = 1 .. s
      /\ x = Node(st[s].path, st[s].folder)
      /\ Calls(p, base, n, V, st) /\ Seen(p, base, n, V, st)
  BY DEF InCall
<1> USE <1>0
<1>2. s \in DOMAIN st /\ c \in Nat /\ s - 1 = c
  OBVIOUS
<1>3. /\ x \in Level(p, base)[c] /\ x.path = st[s].path /\ x.node = st[s].folder
      /\ s <= n /\ st[s].depth = n - c
      /\ Entered(p, V, x.path)
  BY <1>2 DEF Calls, Node
<1>4. ASSUME NEW i \in 1 .. c PROVE st[i].path # x.path
  <2>1. PICK d : d = i - 1
    OBVIOUS
  <2>2. d \in Nat /\ d # c /\ i \in DOMAIN st
    BY <2>1
  <2>3. Node(st[i].path, st[i].folder) \in Level(p, base)[d]
    BY <2>1, <2>2 DEF Calls
  <2>4. Node(st[i].path, st[i].folder).path # x.path
    BY <1>3, <2>2, <2>3, SamePath
  <2> QED
    BY <2>4 DEF Node
<1>5. c \in 0 .. n - 1 /\ s \in 1 .. n
  BY <1>3
<1> QED
  BY <1>2, <1>3, <1>4, <1>5

\* The child walk is at was not reported yet.
LEMMA ChildNew ==
  ASSUME Distinct, NEW p \in Seq(Names), NEW base \in Folders, NEW n \in Nat, NEW V, NEW st,
         NEW s, NEW c, NEW x, InCall(p, base, n, V, st, s, c, x),
         NEW k \in DOMAIN Kids[x.node], k = st[s].kid,
         NEW q, q = KidOf(x, k).path
  PROVE  /\ FolderEntry(q) \notin V /\ FolderEntry(q) \in Entries(p, base, n)
         /\ KidOf(x, k) \in Level(p, base)[s] /\ Len(p) \in Nat
         /\ x.path \in Seq(Names) /\ x.node \in Folders /\ k \in Nat \ {0}
         /\ Len(x.path) = Len(p) + c /\ Len(q) = Len(p) + s
<1>0. /\ s \in Nat \ {0} /\ c = s - 1 /\ DOMAIN st = 1 .. s
      /\ x = Node(st[s].path, st[s].folder)
      /\ Calls(p, base, n, V, st) /\ Seen(p, base, n, V, st)
  BY DEF InCall
<1>1. /\ c \in Nat /\ c \in 0 .. n - 1 /\ s \in 1 .. n
      /\ x \in Level(p, base)[c] /\ x.path = st[s].path /\ x.node = st[s].folder
      /\ Entered(p, V, x.path) /\ st[s].depth = n - c
      /\ \A i \in 1 .. c : st[i].path # x.path
  BY TopCall
<1>2. PICK L : L = Level(p, base)
  OBVIOUS
<1>3. KidOf(x, k) \in L[s]
  <2>1. KidOf(x, k) \in L[c + 1]
    BY <1>1, <1>2, LevelChild
  <2>2. c + 1 = s
    <3>1. s \in Nat /\ c = s - 1
      BY <1>0
    <3> QED
      BY ONLY <3>1
  <2> QED
    BY <2>1, <2>2
<1>4. /\ s \in Nat /\ s # c /\ s - 1 = c /\ Len(p) \in Nat /\ s \in 1 .. s
      /\ \A i \in 1 .. s : i \in 1 .. c \/ i = s
      /\ \A i \in 1 .. c : i \in 1 .. s /\ i # s
  BY <1>0, <1>1
<1>5. x.path \in Seq(Names) /\ x.node \in Folders /\ k \in Nat \ {0} /\ Len(x.path) = Len(p) + c /\ Len(q) = Len(p) + s
  <2>1. /\ x.path \in Seq(Names) /\ x.node \in Folders /\ Len(x.path) = Len(p) + c
        /\ \A i \in DOMAIN Kids[x.node] : i \in Nat \ {0} /\ Len(KidOf(x, i).path) = Len(p) + c + 1
    <3>1. p \in Seq(Names) /\ base \in Folders /\ c \in Nat /\ x \in Level(p, base)[c]
      BY <1>1
    <3> QED
      BY ONLY <3>1, PathLen
  <2>2. PICK a, b : a = Len(p) /\ b = Len(q)
    OBVIOUS
  <2>3. b = a + s
    BY <1>4, <2>1, <2>2
  <2> QED
    BY <2>1, <2>2, <2>3
<1>6. FolderEntry(q) \notin V
  <2>1. ~KidSeen(p, V, st, x.path, k)
    <3>1. s \in DOMAIN st /\ st[s].path = x.path
      BY <1>0, <1>1, <1>4
    <3>2. ~(k < st[s].kid)
      BY <1>5
    <3> QED
      BY <3>1, <3>2 DEF KidSeen
  <2> QED
    BY <1>0, <1>1, <2>1 DEF Seen
<1>7. FolderEntry(q) \in Entries(p, base, n)
  BY <1>1, <1>2, <1>3, EntriesOp
<1> QED
  BY <1>2, <1>3, <1>4, <1>5, <1>6, <1>7

\* The calls st2 are those of st when walk has come by the child q = KidOf(x, k), and
\* has gone into it, or is deep enough.
ChildPast(n, st, s, c, x, k, q, st2, t) ==
  /\ k \in DOMAIN Kids[x.node] /\ k = st[s].kid /\ q = KidOf(x, k).path
  /\ DOMAIN st2 = 1 .. t /\ \A i \in 1 .. c : st2[i] = st[i]
  /\ st2[s].path = x.path /\ st2[s].folder = x.node /\ st2[s].depth = st[s].depth
  /\ st2[s].kid = k + 1 /\ st2[s].leaf = st[s].leaf
  /\ \/ t = s /\ s = n
     \/ /\ t = s + 1 /\ s # n
        /\ st2[t] = [path |-> q, depth |-> n - s, folder |-> KidOf(x, k).node, kid |-> 1, leaf |-> 1]

LEMMA SeenChild ==
  ASSUME Distinct, NEW p \in Seq(Names), NEW base \in Folders, NEW n \in Nat, NEW V, NEW st,
         NEW s, NEW c, NEW x, InCall(p, base, n, V, st, s, c, x),
         NEW k, NEW q, NEW st2, NEW t, ChildPast(n, st, s, c, x, k, q, st2, t)
  PROVE  /\ Calls(p, base, n, V \cup {FolderEntry(q)}, st2)
         /\ Seen(p, base, n, V \cup {FolderEntry(q)}, st2)
<1>0. /\ s \in Nat \ {0} /\ c = s - 1 /\ DOMAIN st = 1 .. s
      /\ x = Node(st[s].path, st[s].folder)
      /\ Calls(p, base, n, V, st) /\ Seen(p, base, n, V, st)
  BY DEF InCall
<1> DEFINE V2 == V \cup {FolderEntry(q)}
<1>1. /\ c \in Nat /\ c \in 0 .. n - 1 /\ s \in 1 .. n
      /\ x \in Level(p, base)[c] /\ x.path = st[s].path /\ x.node = st[s].folder
      /\ Entered(p, V, x.path) /\ st[s].depth = n - c
      /\ \A i \in 1 .. c : st[i].path # x.path
  BY TopCall
<1> USE DEF ChildPast
<1>2. PICK L : L = Level(p, base)
  OBVIOUS
<1>4. /\ s \in Nat /\ s # c /\ s - 1 = c /\ Len(p) \in Nat /\ s \in 1 .. s
      /\ \A i \in 1 .. s : i \in 1 .. c \/ i = s
      /\ \A i \in 1 .. c : i \in 1 .. s /\ i # s
  BY <1>0, <1>1
<1>5. /\ x.path \in Seq(Names) /\ x.node \in Folders /\ k \in Nat \ {0} /\ Len(x.path) = Len(p) + c
      /\ Len(q) = Len(p) + s /\ KidOf(x, k) \in L[s]
      /\ FolderEntry(q) \notin V /\ FolderEntry(q) \in Entries(p, base, n)
  BY <1>2, ChildNew
<1>8. q # p /\ q # x.path
  <2>1. PICK a, b, e : a = Len(p) /\ b = Len(q) /\ e = Len(x.path)
    OBVIOUS
  <2>2. b = a + s /\ e = a + c /\ a \in Nat
    BY <1>4, <1>5, <2>1
  <2>3. b # a /\ b # e
    BY <1>0, <2>2
  <2> QED
    BY <2>1, <2>3
<1>9. ~Entered(p, V, q)
  BY <1>5, <1>8 DEF Entered
<1>10. \A r : Entered(p, V2, r) <=> Entered(p, V, r) \/ r = q
  BY EntryOp DEF Entered
<1>11. \A r : FileEntry(r) \in V2 <=> FileEntry(r) \in V
  BY EntryOp
<1>12. \A r : FolderEntry(r) \in V2 <=> FolderEntry(r) \in V \/ r = q
  BY EntryOp
<1> HIDE DEF V2
<1>13. /\ \A i \in DOMAIN st2 : i \in 1 .. c \/ i = s \/ (i = t /\ t = s + 1)
       /\ s \in DOMAIN st2 /\ \A i \in 1 .. c : i \in DOMAIN st2
       /\ t = s + 1 => t \in DOMAIN st2 /\ t # s
  <2>1. CASE t = s
    BY <1>4, <2>1
  <2>2. CASE t = s + 1
    BY <1>4, <2>2
  <2> QED
    BY <2>1, <2>2
<1>14. t = s + 1 => /\ st2[t].path = q /\ st2[t].depth = n - s /\ st2[t].folder = KidOf(x, k).node
                    /\ st2[t].kid = 1 /\ st2[t].leaf = 1 /\ s # n
  <2>1. s + 1 # s
    BY <1>4
  <2> QED
    BY <2>1
<1>15. t # s + 1 => s = n
  OBVIOUS
<1>16. Calls(p, base, n, V2, st2)
  <2> SUFFICES ASSUME NEW i \in DOMAIN st2
               PROVE  /\ Node(st2[i].path, st2[i].folder) \in L[i - 1]
                      /\ i <= n /\ st2[i].depth = n - (i - 1)
                      /\ Entered(p, V2, st2[i].path)
    BY <1>2 DEF Calls
  <2>1. CASE i \in 1 .. c
    <3>1. /\ Node(st[i].path, st[i].folder) \in L[i - 1] /\ i <= n /\ st[i].depth = n - (i - 1)
          /\ Entered(p, V, st[i].path)
      BY <1>0, <1>2, <1>4, <2>1 DEF Calls
    <3> QED
      BY <1>10, <2>1, <3>1
  <2>2. CASE i = s
    <3>1. Node(st2[s].path, st2[s].folder) = x
      BY <1>0, <1>1
    <3>2. s <= n
      BY <1>1
    <3> QED
      BY <1>1, <1>2, <1>4, <1>10, <2>2, <3>1, <3>2
  <2>3. CASE i = t /\ t = s + 1
    <3>1. i - 1 = s /\ i <= n
      BY <1>1, <1>14, <2>3
    <3>2. Node(q, KidOf(x, k).node) = KidOf(x, k)
      BY DEF Node, KidOf
    <3>3. st2[i].path = q /\ st2[i].folder = KidOf(x, k).node /\ st2[i].depth = n - s
      BY <1>14, <2>3
    <3> QED
      BY <1>5, <1>10, <3>1, <3>2, <3>3
  <2> QED
    BY <1>13, <2>1, <2>2, <2>3
<1>17. ASSUME NEW d \in 0 .. n - 1, NEW y \in L[d]
       PROVE  /\ \A m \in DOMAIN Kids[y.node] :
                   FolderEntry(KidOf(y, m).path) \in V2 <=> KidSeen(p, V2, st2, y.path, m)
              /\ \A m \in DOMAIN Leaves[y.node] :
                   FileEntry(LeafPath(y, m)) \in V2 <=> LeafSeen(p, V2, st2, y.path, m)
  <2>1. /\ d \in Nat /\ Len(y.path) = Len(p) + d
        /\ \A m \in DOMAIN Kids[y.node] : m \in Nat \ {0}
        /\ \A m \in DOMAIN Leaves[y.node] : m \in Nat \ {0}
    BY <1>2, PathLen
  <2>2. /\ \A m \in DOMAIN Kids[y.node] : FolderEntry(KidOf(y, m).path) \in V <=> KidSeen(p, V, st, y.path, m)
        /\ \A m \in DOMAIN Leaves[y.node] : FileEntry(LeafPath(y, m)) \in V <=> LeafSeen(p, V, st, y.path, m)
    BY <1>0, <1>2 DEF Seen
  <2>3. ASSUME NEW m \in DOMAIN Kids[y.node], KidOf(y, m).path = q
        PROVE  y = x /\ m = k
    BY <1>1, <1>2, <2>1, <2>3, SameKid
  <2>4. CASE y.path = x.path
    <3>1. y = x
      BY <1>1, <1>2, <2>1, <2>4, SamePath
    <3>2. Entered(p, V2, x.path)
      BY <1>1, <1>10
    <3>3. \A i \in DOMAIN st : st[i].path = x.path <=> i = s
      BY <1>0, <1>1, <1>4
    <3>4. \A i \in DOMAIN st2 : st2[i].path = x.path <=> i = s
      BY <1>1, <1>8, <1>13, <1>14
    <3>5. \A m : /\ KidSeen(p, V, st, x.path, m) <=> m < k
                 /\ LeafSeen(p, V, st, x.path, m) <=> m < st[s].leaf
      BY <1>0, <1>1, <1>4, <3>3 DEF KidSeen, LeafSeen
    <3>6. \A m : /\ KidSeen(p, V2, st2, x.path, m) <=> m < k + 1
                 /\ LeafSeen(p, V2, st2, x.path, m) <=> m < st[s].leaf
      BY <1>13, <3>2, <3>4 DEF KidSeen, LeafSeen
    <3>7. ASSUME NEW m \in DOMAIN Kids[y.node]
          PROVE  FolderEntry(KidOf(y, m).path) \in V2 <=> KidSeen(p, V2, st2, y.path, m)
      <4>1. m < k + 1 <=> m < k \/ m = k
        <5>1. m \in Nat /\ k \in Nat
          BY <1>5, <2>1
        <5> QED
          BY <5>1, LessNext
      <4>2. KidOf(y, m).path = q <=> m = k
        BY <2>3, <3>1
      <4> QED
        BY <1>12, <2>2, <3>1, <3>5, <3>6, <4>1, <4>2
    <3>8. ASSUME NEW m \in DOMAIN Leaves[y.node]
          PROVE  FileEntry(LeafPath(y, m)) \in V2 <=> LeafSeen(p, V2, st2, y.path, m)
      BY <1>11, <2>2, <3>1, <3>5, <3>6
    <3> QED
      BY <3>7, <3>8
  <2>5. CASE y.path = q
    <3>1. d = s
      <4>1. PICK a : a = Len(p)
        OBVIOUS
      <4>2. a + d = a + s /\ a \in Nat
        BY <1>4, <1>5, <2>1, <2>5, <4>1
      <4> QED
        BY <1>4, <2>1, <4>2
    <3>2. t = s + 1
      <4>1. d # n
        OBVIOUS
      <4> QED
        BY <1>15, <3>1, <4>1
    <3>3. \A m \in Nat \ {0} : ~(m < 1)
      OBVIOUS
    <3>4. \A m \in Nat \ {0} : ~KidSeen(p, V2, st2, q, m) /\ ~LeafSeen(p, V2, st2, q, m)
      BY <1>13, <1>14, <3>2, <3>3 DEF KidSeen, LeafSeen
    <3>5. \A m : ~KidSeen(p, V, st, q, m) /\ ~LeafSeen(p, V, st, q, m)
      BY <1>9 DEF KidSeen, LeafSeen
    <3>6. y # x
      BY <1>8, <2>5
    <3>7. \A m \in DOMAIN Kids[y.node] : FolderEntry(KidOf(y, m).path) \notin V2
      BY <1>12, <2>2, <2>3, <2>5, <3>5, <3>6
    <3>8. \A m \in DOMAIN Leaves[y.node] : FileEntry(LeafPath(y, m)) \notin V2
      BY <1>11, <2>2, <2>5, <3>5
    <3> QED
      BY <2>1, <2>5, <3>4, <3>7, <3>8
  <2>6. CASE y.path # x.path /\ y.path # q
    <3>1. Entered(p, V2, y.path) <=> Entered(p, V, y.path)
      BY <1>10, <2>6
    <3>2. \A i \in DOMAIN st2 : st2[i].path = y.path => i \in DOMAIN st /\ st2[i] = st[i]
      BY <1>0, <1>4, <1>13, <1>14, <2>6
    <3>3. \A i \in DOMAIN st : st[i].path = y.path => i \in DOMAIN st2 /\ st2[i] = st[i]
      BY <1>0, <1>1, <1>4, <1>13, <2>6
    <3>4. \A m : KidSeen(p, V2, st2, y.path, m) <=> KidSeen(p, V, st, y.path, m)
      BY <3>1, <3>2, <3>3 DEF KidSeen
    <3>5. \A m : LeafSeen(p, V2, st2, y.path, m) <=> LeafSeen(p, V, st, y.path, m)
      BY <3>1, <3>2, <3>3 DEF LeafSeen
    <3>6. y # x
      BY <2>6
    <3>7. \A m \in DOMAIN Kids[y.node] : FolderEntry(KidOf(y, m).path) \in V2 <=> KidSeen(p, V2, st2, y.path, m)
      BY <1>12, <2>2, <2>3, <3>4, <3>6
    <3>8. \A m \in DOMAIN Leaves[y.node] : FileEntry(LeafPath(y, m)) \in V2 <=> LeafSeen(p, V2, st2, y.path, m)
      BY <1>11, <2>2, <3>5
    <3> QED
      BY <3>7, <3>8
  <2> QED
    BY <2>4, <2>5, <2>6
<1>18. Seen(p, base, n, V2, st2)
  BY <1>2, <1>17 DEF Seen
<1> QED
  BY <1>5, <1>16, <1>18 DEF V2

\* The file walk is at was not reported yet.
LEMMA FileNew ==
  ASSUME Distinct, NEW p \in Seq(Names), NEW base \in Folders, NEW n \in Nat, NEW V, NEW st,
         NEW s, NEW c, NEW x, InCall(p, base, n, V, st, s, c, x),
         NEW l \in DOMAIN Leaves[x.node], l = st[s].leaf,
         NEW q, q = LeafPath(x, l)
  PROVE  FileEntry(q) \notin V /\ FileEntry(q) \in Entries(p, base, n) /\ l \in Nat \ {0}
<1>0. /\ s \in Nat \ {0} /\ c = s - 1 /\ DOMAIN st = 1 .. s
      /\ x = Node(st[s].path, st[s].folder)
      /\ Calls(p, base, n, V, st) /\ Seen(p, base, n, V, st)
  BY DEF InCall
<1>1. /\ c \in Nat /\ c \in 0 .. n - 1 /\ s \in 1 .. n
      /\ x \in Level(p, base)[c] /\ x.path = st[s].path /\ x.node = st[s].folder
      /\ Entered(p, V, x.path) /\ st[s].depth = n - c
      /\ \A i \in 1 .. c : st[i].path # x.path
  BY TopCall
<1>2. PICK L : L = Level(p, base)
  OBVIOUS
<1>3. /\ s \in Nat /\ s # c /\ s - 1 = c /\ s \in 1 .. s
      /\ \A i \in 1 .. s : i \in 1 .. c \/ i = s
      /\ \A i \in 1 .. c : i \in 1 .. s /\ i # s
  BY <1>0, <1>1
<1>4. l \in Nat \ {0}
  BY <1>1, PathLen
<1>5. FileEntry(q) \notin V
  <2>1. ~LeafSeen(p, V, st, x.path, l)
    BY <1>0, <1>1, <1>3, <1>4 DEF LeafSeen
  <2> QED
    BY <1>0, <1>1, <2>1 DEF Seen
<1>6. FileEntry(q) \in Entries(p, base, n)
  BY <1>1, EntriesOp
<1> QED
  BY <1>4, <1>5, <1>6

\* The calls st2 are those of st when walk has come by the file l of the folder x.
FilePast(st, s, c, x, l, st2) ==
  /\ l \in DOMAIN Leaves[x.node] /\ l = st[s].leaf
  /\ DOMAIN st2 = 1 .. s /\ \A i \in 1 .. c : st2[i] = st[i]
  /\ st2[s].path = x.path /\ st2[s].folder = x.node /\ st2[s].depth = st[s].depth
  /\ st2[s].kid = st[s].kid /\ st2[s].leaf = l + 1

LEMMA SeenFile ==
  ASSUME Distinct, NEW p \in Seq(Names), NEW base \in Folders, NEW n \in Nat, NEW V, NEW st,
         NEW s, NEW c, NEW x, InCall(p, base, n, V, st, s, c, x),
         NEW l, NEW q, q = LeafPath(x, l), NEW st2, FilePast(st, s, c, x, l, st2)
  PROVE  /\ Calls(p, base, n, V \cup {FileEntry(q)}, st2)
         /\ Seen(p, base, n, V \cup {FileEntry(q)}, st2)
<1>0. /\ s \in Nat \ {0} /\ c = s - 1 /\ DOMAIN st = 1 .. s
      /\ x = Node(st[s].path, st[s].folder)
      /\ Calls(p, base, n, V, st) /\ Seen(p, base, n, V, st)
  BY DEF InCall
<1> DEFINE V2 == V \cup {FileEntry(q)}
<1>1. /\ c \in Nat /\ c \in 0 .. n - 1 /\ s \in 1 .. n
      /\ x \in Level(p, base)[c] /\ x.path = st[s].path /\ x.node = st[s].folder
      /\ Entered(p, V, x.path) /\ st[s].depth = n - c
      /\ \A i \in 1 .. c : st[i].path # x.path
  BY TopCall
<1> USE DEF FilePast
<1>2. PICK L : L = Level(p, base)
  OBVIOUS
<1>3. /\ s \in Nat /\ s # c /\ s - 1 = c /\ s \in 1 .. s
      /\ \A i \in 1 .. s : i \in 1 .. c \/ i = s
      /\ \A i \in 1 .. c : i \in 1 .. s /\ i # s
  BY <1>0, <1>1
<1>4. l \in Nat \ {0}
  BY <1>1, PathLen
<1>7. \A r : Entered(p, V2, r) <=> Entered(p, V, r)
  BY EntryOp DEF Entered
<1>8. \A r : FileEntry(r) \in V2 <=> FileEntry(r) \in V \/ r = q
  BY EntryOp
<1>9. \A r : FolderEntry(r) \in V2 <=> FolderEntry(r) \in V
  BY EntryOp
<1> HIDE DEF V2
<1>10. Calls(p, base, n, V2, st2)
  <2> SUFFICES ASSUME NEW i \in DOMAIN st2
               PROVE  /\ Node(st2[i].path, st2[i].folder) \in L[i - 1]
                      /\ i <= n /\ st2[i].depth = n - (i - 1)
                      /\ Entered(p, V2, st2[i].path)
    BY <1>2 DEF Calls
  <2>1. CASE i \in 1 .. c
    <3>1. /\ Node(st[i].path, st[i].folder) \in L[i - 1] /\ i <= n /\ st[i].depth = n - (i - 1)
          /\ Entered(p, V, st[i].path)
      BY <1>0, <1>2, <1>3, <2>1 DEF Calls
    <3> QED
      BY <1>7, <2>1, <3>1
  <2>2. CASE i = s
    <3>1. Node(st2[s].path, st2[s].folder) = x
      BY <1>0, <1>1
    <3>2. s <= n
      BY <1>1
    <3> QED
      BY <1>1, <1>2, <1>3, <1>7, <2>2, <3>1, <3>2
  <2> QED
    BY <1>3, <2>1, <2>2
<1>11. ASSUME NEW d \in 0 .. n - 1, NEW y \in L[d]
       PROVE  /\ \A m \in DOMAIN Kids[y.node] :
                   FolderEntry(KidOf(y, m).path) \in V2 <=> KidSeen(p, V2, st2, y.path, m)
              /\ \A m \in DOMAIN Leaves[y.node] :
                   FileEntry(LeafPath(y, m)) \in V2 <=> LeafSeen(p, V2, st2, y.path, m)
  <2>1. /\ d \in Nat
        /\ \A m \in DOMAIN Kids[y.node] : m \in Nat \ {0}
        /\ \A m \in DOMAIN Leaves[y.node] : m \in Nat \ {0}
    BY <1>2, PathLen
  <2>2. /\ \A m \in DOMAIN Kids[y.node] : FolderEntry(KidOf(y, m).path) \in V <=> KidSeen(p, V, st, y.path, m)
        /\ \A m \in DOMAIN Leaves[y.node] : FileEntry(LeafPath(y, m)) \in V <=> LeafSeen(p, V, st, y.path, m)
    BY <1>0, <1>2 DEF Seen
  <2>3. ASSUME NEW m \in DOMAIN Leaves[y.node], LeafPath(y, m) = q
        PROVE  y = x /\ m = l
    BY <1>1, <1>2, <2>1, <2>3, SameLeaf
  <2>4. CASE y.path = x.path
    <3>1. y = x
      BY <1>1, <1>2, <2>1, <2>4, SamePath
    <3>2. Entered(p, V2, x.path)
      BY <1>1, <1>7
    <3>3. \A i \in DOMAIN st : st[i].path = x.path <=> i = s
      BY <1>0, <1>1, <1>3
    <3>4. \A i \in DOMAIN st2 : st2[i].path = x.path <=> i = s
      BY <1>1, <1>3
    <3>5. \A m : /\ KidSeen(p, V, st, x.path, m) <=> m < st[s].kid
                 /\ LeafSeen(p, V, st, x.path, m) <=> m < l
      BY <1>0, <1>1, <1>3, <3>3 DEF KidSeen, LeafSeen
    <3>6. \A m : /\ KidSeen(p, V2, st2, x.path, m) <=> m < st[s].kid
                 /\ LeafSeen(p, V2, st2, x.path, m) <=> m < l + 1
      BY <1>3, <3>2, <3>4 DEF KidSeen, LeafSeen
    <3>7. ASSUME NEW m \in DOMAIN Leaves[y.node]
          PROVE  FileEntry(LeafPath(y, m)) \in V2 <=> LeafSeen(p, V2, st2, y.path, m)
      <4>1. m < l + 1 <=> m < l \/ m = l
        BY <1>4, <2>1, LessNext
      <4>2. LeafPath(y, m) = q <=> m = l
        BY <2>3, <3>1
      <4> QED
        BY <1>8, <2>2, <3>1, <3>5, <3>6, <4>1, <4>2
    <3>8. ASSUME NEW m \in DOMAIN Kids[y.node]
          PROVE  FolderEntry(KidOf(y, m).path) \in V2 <=> KidSeen(p, V2, st2, y.path, m)
      BY <1>9, <2>2, <3>1, <3>5, <3>6
    <3> QED
      BY <3>7, <3>8
  <2>5. CASE y.path # x.path
    <3>1. Entered(p, V2, y.path) <=> Entered(p, V, y.path)
      BY <1>7
    <3>2. \A i \in DOMAIN st2 : st2[i].path = y.path => i \in DOMAIN st /\ st2[i] = st[i]
      BY <1>0, <1>3, <2>5
    <3>3. \A i \in DOMAIN st : st[i].path = y.path => i \in DOMAIN st2 /\ st2[i] = st[i]
      BY <1>0, <1>1, <1>3, <2>5
    <3>4. \A m : KidSeen(p, V2, st2, y.path, m) <=> KidSeen(p, V, st, y.path, m)
      BY <3>1, <3>2, <3>3 DEF KidSeen
    <3>5. \A m : LeafSeen(p, V2, st2, y.path, m) <=> LeafSeen(p, V, st, y.path, m)
      BY <3>1, <3>2, <3>3 DEF LeafSeen
    <3>6. \A m \in DOMAIN Kids[y.node] : FolderEntry(KidOf(y, m).path) \in V2 <=> KidSeen(p, V2, st2, y.path, m)
      BY <1>9, <2>2, <3>4
    <3>7. \A m \in DOMAIN Leaves[y.node] : FileEntry(LeafPath(y, m)) \in V2 <=> LeafSeen(p, V2, st2, y.path, m)
      BY <1>8, <2>2, <2>3, <2>5, <3>5
    <3> QED
      BY <3>6, <3>7
  <2> QED
    BY <2>4, <2>5
<1>12. Seen(p, base, n, V2, st2)
  BY <1>2, <1>11 DEF Seen
<1> QED
  BY <1>10, <1>12 DEF V2

\* A call has come by all there is in its folder, and returns.
Past(st, s, c, x, st2) ==
  /\ \A k \in DOMAIN Kids[x.node] : k < st[s].kid
  /\ \A l \in DOMAIN Leaves[x.node] : l < st[s].leaf
  /\ DOMAIN st2 = 1 .. c /\ \A i \in 1 .. c : st2[i] = st[i]

LEMMA SeenReturn ==
  ASSUME Distinct, NEW p \in Seq(Names), NEW base \in Folders, NEW n \in Nat, NEW V, NEW st,
         NEW s, NEW c, NEW x, InCall(p, base, n, V, st, s, c, x), NEW st2, Past(st, s, c, x, st2)
  PROVE  Calls(p, base, n, V, st2) /\ Seen(p, base, n, V, st2)
<1>0. /\ s \in Nat \ {0} /\ c = s - 1 /\ DOMAIN st = 1 .. s
      /\ x = Node(st[s].path, st[s].folder)
      /\ Calls(p, base, n, V, st) /\ Seen(p, base, n, V, st)
  BY DEF InCall
<1>1. /\ c \in Nat /\ c \in 0 .. n - 1 /\ s \in 1 .. n
      /\ x \in Level(p, base)[c] /\ x.path = st[s].path /\ x.node = st[s].folder
      /\ Entered(p, V, x.path) /\ st[s].depth = n - c
      /\ \A i \in 1 .. c : st[i].path # x.path
  BY TopCall
<1> USE DEF Past
<1>2. PICK L : L = Level(p, base)
  OBVIOUS
<1>3. /\ s \in Nat /\ s # c /\ s - 1 = c /\ s \in 1 .. s
      /\ \A i \in 1 .. s : i \in 1 .. c \/ i = s
      /\ \A i \in 1 .. c : i \in 1 .. s /\ i # s
  BY <1>0, <1>1
<1>4. Calls(p, base, n, V, st2)
  BY <1>0, <1>3 DEF Calls
<1>5. ASSUME NEW d \in 0 .. n - 1, NEW y \in L[d]
       PROVE  /\ \A m \in DOMAIN Kids[y.node] :
                   FolderEntry(KidOf(y, m).path) \in V <=> KidSeen(p, V, st2, y.path, m)
              /\ \A m \in DOMAIN Leaves[y.node] :
                   FileEntry(LeafPath(y, m)) \in V <=> LeafSeen(p, V, st2, y.path, m)
  <2>1. d \in Nat
    OBVIOUS
  <2>2. /\ \A m \in DOMAIN Kids[y.node] : FolderEntry(KidOf(y, m).path) \in V <=> KidSeen(p, V, st, y.path, m)
        /\ \A m \in DOMAIN Leaves[y.node] : FileEntry(LeafPath(y, m)) \in V <=> LeafSeen(p, V, st, y.path, m)
    BY <1>0, <1>2 DEF Seen
  <2>3. CASE y.path = x.path
    <3>1. y = x
      BY <1>1, <1>2, <2>1, <2>3, SamePath
    <3>2. \A i \in DOMAIN st : st[i].path = x.path <=> i = s
      BY <1>0, <1>1, <1>3
    <3>3. \A i \in DOMAIN st2 : st2[i].path # x.path
      BY <1>1
    <3>4. /\ \A m \in DOMAIN Kids[x.node] : KidSeen(p, V, st, x.path, m) /\ KidSeen(p, V, st2, x.path, m)
          /\ \A m \in DOMAIN Leaves[x.node] : LeafSeen(p, V, st, x.path, m) /\ LeafSeen(p, V, st2, x.path, m)
      BY <1>1, <3>2, <3>3 DEF KidSeen, LeafSeen
    <3> QED
      BY <2>2, <3>1, <3>4
  <2>4. CASE y.path # x.path
    <3>1. \A i \in DOMAIN st2 : st2[i].path = y.path => i \in DOMAIN st /\ st2[i] = st[i]
      BY <1>0, <1>3
    <3>2. \A i \in DOMAIN st : st[i].path = y.path => i \in DOMAIN st2 /\ st2[i] = st[i]
      BY <1>0, <1>1, <1>3, <2>4
    <3>3. \A m : KidSeen(p, V, st2, y.path, m) <=> KidSeen(p, V, st, y.path, m)
      BY <3>1, <3>2 DEF KidSeen
    <3>4. \A m : LeafSeen(p, V, st2, y.path, m) <=> LeafSeen(p, V, st, y.path, m)
      BY <3>1, <3>2 DEF LeafSeen
    <3> QED
      BY <2>2, <3>3, <3>4
  <2> QED
    BY <2>3, <2>4
<1>6. Seen(p, base, n, V, st2)
  BY <1>2, <1>5 DEF Seen
<1> QED
  BY <1>4, <1>6

-----------------------------------------------------------------------------
(* How often an entry was visited, and was to be.                          *)

Times(s, b, e) == Cardinality({j \in 1 .. b : s[j] = e})
Asks(r, t, e) == Cardinality({i \in 1 .. t : e \in Asked(r, r.paths[i])})

\* The first b visits are those for the first t paths.
Counted(s, b, r, t) == \A e : Times(s, b, e) = Asks(r, t, e)

\* What was visited later, and each once.
Since(s, b) == {s[j] : j \in b + 1 .. Len(s)}
Once(s, b) == \A i, j \in b + 1 .. Len(s) : s[i] = s[j] => i = j

LEMMA Counting ==
  ASSUME NEW b \in Nat, NEW S \in SUBSET (1 .. b)
  PROVE  IsFiniteSet(S) /\ Cardinality(S) \in Nat /\ (Cardinality(S) = 0 <=> S = {})
<1>1. IsFiniteSet(1 .. b)
  BY FS_Interval
<1>2. IsFiniteSet(S)
  BY <1>1, FS_Subset
<1> QED
  BY <1>2, FS_CardinalityType, FS_EmptySet

LEMMA TimesOp ==
  ASSUME NEW s, NEW b \in Nat, NEW e
  PROVE  Times(s, b, e) \in Nat /\ (Times(s, b, e) # 0 <=> \E j \in 1 .. b : s[j] = e)
<1> DEFINE S == {j \in 1 .. b : s[j] = e}
<1>1. S \in SUBSET (1 .. b) /\ (S # {} <=> \E j \in 1 .. b : s[j] = e)
  OBVIOUS
<1> HIDE DEF S
<1>2. Cardinality(S) \in Nat /\ (Cardinality(S) = 0 <=> S = {})
  BY <1>1, Counting
<1> QED
  BY <1>1, <1>2 DEF Times, S

LEMMA AsksOp ==
  ASSUME NEW r, NEW t \in Nat, NEW e
  PROVE  Asks(r, t, e) \in Nat /\ (Asks(r, t, e) # 0 <=> \E i \in 1 .. t : e \in Asked(r, r.paths[i]))
<1> DEFINE S == {i \in 1 .. t : e \in Asked(r, r.paths[i])}
<1>1. S \in SUBSET (1 .. t) /\ (S # {} <=> \E i \in 1 .. t : e \in Asked(r, r.paths[i]))
  OBVIOUS
<1> HIDE DEF S
<1>2. Cardinality(S) \in Nat /\ (Cardinality(S) = 0 <=> S = {})
  BY <1>1, Counting
<1> QED
  BY <1>1, <1>2 DEF Asks, S

\* One path more.
LEMMA AsksNext ==
  ASSUME NEW r, NEW t \in Nat \ {0}, NEW e
  PROVE  Asks(r, t, e) = Asks(r, t - 1, e) + (IF e \in Asked(r, r.paths[t]) THEN 1 ELSE 0)
<1> DEFINE S(n) == {i \in 1 .. n : e \in Asked(r, r.paths[i])}
<1>1. t - 1 \in Nat
  OBVIOUS
<1>2. S(t) = IF e \in Asked(r, r.paths[t]) THEN S(t - 1) \cup {t} ELSE S(t - 1)
  <2>1. 1 .. t = (1 .. t - 1) \cup {t}
    OBVIOUS
  <2> QED
    BY <2>1
<1>3. t \notin S(t - 1)
  OBVIOUS
<1>4. S(t - 1) \in SUBSET (1 .. t - 1)
  OBVIOUS
<1> DEFINE A == S(t - 1)
           n == t - 1
<1> HIDE DEF n
<1>5. n \in Nat /\ S(n) \in SUBSET (1 .. n)
  BY <1>1, <1>4 DEF n
<1>6. Asks(r, t, e) = Cardinality(S(t)) /\ Asks(r, t - 1, e) = Cardinality(S(t - 1))
  BY DEF Asks
<1> HIDE DEF S
<1>7. IsFiniteSet(S(n)) /\ Cardinality(S(n)) \in Nat
  BY <1>5, Counting
<1>8. Cardinality(S(n) \cup {t}) = Cardinality(S(n)) + 1
  BY <1>3, <1>7, FS_AddElement DEF n
<1> QED
  BY <1>2, <1>6, <1>7, <1>8 DEF n

\* What was visited since, each once, is visited once more.
LEMMA TimesSince ==
  ASSUME NEW s, Len(s) \in Nat, NEW b \in 0 .. Len(s), Once(s, b), NEW e
  PROVE  Times(s, Len(s), e) = Times(s, b, e) + (IF e \in Since(s, b) THEN 1 ELSE 0)
<1> DEFINE S(n) == {j \in 1 .. n : s[j] = e}
<1>1. S(b) \in SUBSET (1 .. b) /\ b \in Nat
  OBVIOUS
<1>2. /\ \A j \in b + 1 .. Len(s) : j \in 1 .. Len(s) /\ j \notin 1 .. b
      /\ \A j \in 1 .. Len(s) : j \in 1 .. b \/ j \in b + 1 .. Len(s)
      /\ \A j \in 1 .. b : j \in 1 .. Len(s)
  OBVIOUS
<1>3. CASE e \in Since(s, b)
  <2>1. PICK k \in b + 1 .. Len(s) : s[k] = e
    BY <1>3 DEF Since
  <2>2. \A j \in b + 1 .. Len(s) : s[j] = e <=> j = k
    BY <2>1 DEF Once
  <2>3. S(Len(s)) = S(b) \cup {k} /\ k \notin S(b)
    BY <1>2, <2>1, <2>2
  <2> HIDE DEF S
  <2>4. IsFiniteSet(S(b)) /\ Cardinality(S(b)) \in Nat
    BY <1>1, Counting
  <2>5. Cardinality(S(Len(s))) = Cardinality(S(b)) + 1
    BY <2>3, <2>4, FS_AddElement
  <2> QED
    BY <1>3, <2>5 DEF Times, S
<1>4. CASE e \notin Since(s, b)
  <2>1. \A j \in b + 1 .. Len(s) : s[j] # e
    BY <1>4 DEF Since
  <2>2. S(Len(s)) = S(b)
    BY <1>2, <2>1
  <2>3. Times(s, Len(s), e) = Times(s, b, e) /\ Times(s, b, e) \in Nat
    <3>1. Times(s, Len(s), e) = Times(s, b, e)
      BY <2>2 DEF Times
    <3>2. Times(s, b, e) \in Nat
      BY <1>1, TimesOp
    <3> QED
      BY <3>1, <3>2
  <2> QED
    BY <1>4, <2>3
<1> QED
  BY <1>3, <1>4

\* The visits for one path more.
LEMMA CountedNext ==
  ASSUME NEW r, NEW t \in Nat \ {0}, NEW s, Len(s) \in Nat, NEW b \in 0 .. Len(s), Once(s, b),
         Counted(s, b, r, t - 1), Since(s, b) = Asked(r, r.paths[t])
  PROVE  Counted(s, Len(s), r, t)
<1> SUFFICES ASSUME NEW e PROVE Times(s, Len(s), e) = Asks(r, t, e)
  BY DEF Counted
<1>1. Times(s, Len(s), e) = Times(s, b, e) + (IF e \in Since(s, b) THEN 1 ELSE 0)
  BY TimesSince
<1>2. Asks(r, t, e) = Asks(r, t - 1, e) + (IF e \in Asked(r, r.paths[t]) THEN 1 ELSE 0)
  BY AsksNext
<1>3. Times(s, b, e) = Asks(r, t - 1, e)
  BY DEF Counted
<1> QED
  BY <1>1, <1>2, <1>3

\* The sequence z is s and e.
Longer(s, e, z) ==
  /\ Len(s) \in Nat /\ Len(z) = Len(s) + 1 /\ z[Len(s) + 1] = e
  /\ \A i \in 1 .. Len(s) : z[i] = s[i]

LEMMA AppendLonger ==
  ASSUME NEW S, NEW s \in Seq(S), NEW e \in S
  PROVE  Longer(s, e, Append(s, e)) /\ Append(s, e) \in Seq(S)
BY AppendOp DEF Longer

\* One visit more.
LEMMA SinceNext ==
  ASSUME NEW s, NEW e, NEW z, Longer(s, e, z), NEW b \in 0 .. Len(s)
  PROVE  /\ b \in 0 .. Len(z) /\ Len(z) \in Nat
         /\ Since(z, b) = Since(s, b) \cup {e}
         /\ Once(s, b) /\ e \notin Since(s, b) => Once(z, b)
         /\ \A r, t : Counted(s, b, r, t) => Counted(z, b, r, t)
<1>0. PICK n : n = Len(s)
  OBVIOUS
<1>1. n \in Nat /\ b \in 0 .. n /\ Len(z) = n + 1 /\ z[n + 1] = e /\ \A i \in 1 .. n : z[i] = s[i]
  BY <1>0 DEF Longer
<1>2. /\ \A j \in b + 1 .. n + 1 : j \in b + 1 .. n \/ j = n + 1
      /\ \A j \in b + 1 .. n : j \in b + 1 .. n + 1 /\ j \in 1 .. n
      /\ n + 1 \in b + 1 .. n + 1
      /\ \A j \in 1 .. b : j \in 1 .. n
      /\ b \in 0 .. n + 1
  BY <1>1
<1>3. Since(z, b) = Since(s, b) \cup {e}
  BY <1>0, <1>1, <1>2 DEF Since
<1>4. ASSUME Once(s, b), e \notin Since(s, b) PROVE Once(z, b)
  <2>1. \A j \in b + 1 .. n : z[j] = s[j] /\ s[j] # e
    BY <1>0, <1>1, <1>2, <1>4 DEF Since
  <2>2. \A i, j \in b + 1 .. n : z[i] = z[j] => i = j
    BY <1>0, <1>4, <2>1 DEF Once
  <2>3. \A j \in b + 1 .. n : z[j] # z[n + 1]
    BY <1>1, <2>1
  <2> QED
    BY <1>1, <1>2, <2>2, <2>3 DEF Once
<1>5. ASSUME NEW r, NEW t, Counted(s, b, r, t) PROVE Counted(z, b, r, t)
  <2>1. \A e2 : {j \in 1 .. b : z[j] = e2} = {j \in 1 .. b : s[j] = e2}
    BY <1>1, <1>2
  <2> QED
    BY <1>5, <2>1 DEF Counted, Times
<1> QED
  BY <1>1, <1>2, <1>3, <1>4, <1>5

LEMMA SinceNone ==
  ASSUME NEW s, Len(s) \in Nat
  PROVE  Since(s, Len(s)) = {} /\ Once(s, Len(s))
<1>1. \A j : j \notin Len(s) + 1 .. Len(s)
  OBVIOUS
<1> QED
  BY <1>1 DEF Since, Once

-----------------------------------------------------------------------------
(* There are finitely many entries to visit.                               *)

LEMMA FiniteImage ==
  ASSUME NEW f, IsFiniteSet(DOMAIN f)
  PROVE  IsFiniteSet({f[x] : x \in DOMAIN f})
<1> DEFINE S == DOMAIN f
           T == {f[x] : x \in S}
           g == [x \in S |-> f[x]]
<1>1. g \in Surjection(S, T)
  BY DEF Surjection
<1> HIDE DEF T
<1>2. IsFiniteSet(T)
  BY <1>1, FS_Surjection
<1> QED
  BY <1>2 DEF T

LEMMA FiniteSeq ==
  ASSUME NEW S, NEW s \in Seq(S)
  PROVE  IsFiniteSet(DOMAIN s) /\ IsFiniteSet(ToSet(s))
<1>1. Len(s) \in Nat /\ DOMAIN s = 1 .. Len(s)
  OBVIOUS
<1>2. IsFiniteSet(DOMAIN s)
  BY <1>1, FS_Interval
<1>3. ToSet(s) = {s[i] : i \in DOMAIN s}
  BY DEF ToSet
<1> QED
  BY <1>2, <1>3, FiniteImage

LEMMA FiniteFolder ==
  ASSUME NEW x, x.node \in Folders
  PROVE  /\ IsFiniteSet({KidOf(x, k) : k \in DOMAIN Kids[x.node]})
         /\ IsFiniteSet({FileEntry(LeafPath(x, l)) : l \in DOMAIN Leaves[x.node]})
<1>1. IsFiniteSet(DOMAIN Kids[x.node]) /\ IsFiniteSet(DOMAIN Leaves[x.node])
  BY KidsType, FiniteSeq
<1> DEFINE f == [k \in DOMAIN Kids[x.node] |-> KidOf(x, k)]
           g == [l \in DOMAIN Leaves[x.node] |-> FileEntry(LeafPath(x, l))]
<1>2. /\ DOMAIN f = DOMAIN Kids[x.node] /\ DOMAIN g = DOMAIN Leaves[x.node]
      /\ {KidOf(x, k) : k \in DOMAIN Kids[x.node]} = {f[k] : k \in DOMAIN f}
      /\ {FileEntry(LeafPath(x, l)) : l \in DOMAIN Leaves[x.node]} = {g[l] : l \in DOMAIN g}
  OBVIOUS
<1> HIDE DEF f, g
<1> QED
  BY <1>1, <1>2, FiniteImage

LEMMA FiniteUnion ==
  ASSUME NEW f, IsFiniteSet(DOMAIN f), \A x \in DOMAIN f : IsFiniteSet(f[x])
  PROVE  IsFiniteSet(UNION {f[x] : x \in DOMAIN f})
<1>1. IsFiniteSet({f[x] : x \in DOMAIN f})
  BY FiniteImage
<1> QED
  BY <1>1, FS_UNION

LEMMA FiniteLevel ==
  ASSUME NEW p \in Seq(Names), NEW base \in Folders, NEW d \in Nat
  PROVE  IsFiniteSet(Level(p, base)[d])
<1> DEFINE T == {k \in Nat : IsFiniteSet(Level(p, base)[k])}
<1>1. 0 \in T
  <2>1. Level(p, base)[0] = {[path |-> p, node |-> base]}
    BY LevelOp
  <2>2. PICK e : e = [path |-> p, node |-> base]
    OBVIOUS
  <2>3. IsFiniteSet({e})
    BY FS_Singleton
  <2> QED
    BY <2>1, <2>2, <2>3
<1>2. ASSUME NEW k \in T PROVE k + 1 \in T
  <2> DEFINE L == Level(p, base)[k]
             f == [x \in L |-> {KidOf(x, i) : i \in DOMAIN Kids[x.node]}]
  <2>1. k \in Nat /\ IsFiniteSet(L)
    OBVIOUS
  <2>2. \A x \in L : x.node \in Folders
    BY <2>1, LevelType
  <2>3. \A x \in L : IsFiniteSet({KidOf(x, i) : i \in DOMAIN Kids[x.node]})
    BY <2>2, FiniteFolder
  <2>4. DOMAIN f = L /\ \A x \in L : f[x] = {KidOf(x, i) : i \in DOMAIN Kids[x.node]}
    OBVIOUS
  <2>5. Level(p, base)[k + 1] = UNION {f[x] : x \in DOMAIN f}
    <3> SUFFICES ASSUME NEW y
                 PROVE  y \in Level(p, base)[k + 1] <=> y \in UNION {f[x] : x \in DOMAIN f}
      OBVIOUS
    <3>1. y \in Level(p, base)[k + 1] <=> \E x \in L : \E i \in DOMAIN Kids[x.node] : y = KidOf(x, i)
      BY <2>1, LevelParent, LevelChild
    <3> HIDE DEF f, L
    <3> QED
      BY <2>4, <3>1
  <2>7. k + 1 \in Nat
    OBVIOUS
  <2> HIDE DEF f, L, T
  <2>6. IsFiniteSet(UNION {f[x] : x \in DOMAIN f})
    BY <2>1, <2>3, <2>4, FiniteUnion
  <2> QED
    BY <2>5, <2>6, <2>7 DEF T
<1>3. T = Nat
  <2> HIDE DEF T
  <2>1. T \in SUBSET Nat
    BY DEF T
  <2> QED
    BY <1>1, <1>2, <2>1, SetInduction
<1> QED
  BY <1>3

LEMMA FiniteEntries ==
  ASSUME NEW p \in Seq(Names), NEW base \in Folders, NEW n \in Nat
  PROVE  IsFiniteSet(Entries(p, base, n))
<1>1. PICK L : L = Level(p, base)
  OBVIOUS
<1> DEFINE inside(d) == [x \in L[d] |-> {FileEntry(LeafPath(x, l)) : l \in DOMAIN Leaves[x.node]}]
           names(d) == [x \in L[d] |-> FolderEntry(x.path)]
           f == [d \in 1 .. n |-> {FolderEntry(x.path) : x \in L[d]}]
           g == [d \in 0 .. n - 1 |-> UNION {inside(d)[x] : x \in DOMAIN inside(d)}]
<1>2. ASSUME NEW d \in Nat
      PROVE  /\ IsFiniteSet({FolderEntry(x.path) : x \in L[d]})
             /\ IsFiniteSet(UNION {inside(d)[x] : x \in DOMAIN inside(d)})
  <2>1. IsFiniteSet(L[d])
    BY <1>1, FiniteLevel
  <2>2. \A x \in L[d] : IsFiniteSet({FileEntry(LeafPath(x, l)) : l \in DOMAIN Leaves[x.node]})
    BY <1>1, LevelType, FiniteFolder
  <2>3. PICK u : u = inside(d)
    OBVIOUS
  <2>4. DOMAIN u = L[d] /\ \A x \in L[d] : u[x] = {FileEntry(LeafPath(x, l)) : l \in DOMAIN Leaves[x.node]}
    BY <2>3
  <2>5. IsFiniteSet(UNION {u[x] : x \in DOMAIN u})
    <3>1. IsFiniteSet(DOMAIN u)
      BY <2>1, <2>4
    <3>2. ASSUME NEW x \in DOMAIN u PROVE IsFiniteSet(u[x])
      <4>1. x \in L[d]
        BY <2>4
      <4>2. PICK F : F = {FileEntry(LeafPath(x, l)) : l \in DOMAIN Leaves[x.node]}
        OBVIOUS
      <4>3. IsFiniteSet(F)
        BY <2>2, <4>1, <4>2
      <4>4. u[x] = F
        BY <2>4, <4>1, <4>2
      <4> QED
        BY <4>3, <4>4
    <3> QED
      BY <3>1, <3>2, FiniteUnion
  <2>6. PICK v : v = names(d)
    OBVIOUS
  <2>7. DOMAIN v = L[d] /\ {v[x] : x \in DOMAIN v} = {FolderEntry(x.path) : x \in L[d]}
    BY <2>6
  <2>8. IsFiniteSet({v[x] : x \in DOMAIN v})
    BY <2>1, <2>7, FiniteImage
  <2> QED
    BY <2>3, <2>5, <2>7, <2>8
<1>3. /\ \A d \in 1 .. n : IsFiniteSet(f[d])
      /\ \A d \in 0 .. n - 1 : IsFiniteSet(g[d])
      /\ DOMAIN f = 1 .. n /\ DOMAIN g = 0 .. n - 1
  <2>1. (\A d \in 1 .. n : d \in Nat) /\ (\A d \in 0 .. n - 1 : d \in Nat)
    OBVIOUS
  <2> HIDE DEF inside
  <2> QED
    BY <1>2, <2>1
<1>4. ASSUME NEW e \in Entries(p, base, n)
      PROVE  e \in (UNION {f[d] : d \in DOMAIN f}) \cup (UNION {g[d] : d \in DOMAIN g})
  <2>1. CASE \E d \in 1 .. n : \E x \in L[d] : e = FolderEntry(x.path)
    BY <2>1
  <2>2. CASE \E d \in 0 .. n - 1 : \E x \in L[d] : \E l \in DOMAIN Leaves[x.node] :
               e = FileEntry(LeafPath(x, l))
    <3>1. PICK d \in 0 .. n - 1 : \E x \in L[d] : \E l \in DOMAIN Leaves[x.node] :
               e = FileEntry(LeafPath(x, l))
      BY <2>2
    <3>2. PICK x \in L[d] : \E l \in DOMAIN Leaves[x.node] : e = FileEntry(LeafPath(x, l))
      BY <3>1
    <3>3. e \in inside(d)[x] /\ x \in DOMAIN inside(d)
      BY <3>2
    <3>4. e \in g[d]
      <4> HIDE DEF inside
      <4> QED
        BY <3>3
    <3> HIDE DEF g
    <3> QED
      BY <1>3, <3>4
  <2> HIDE DEF f, g
  <2>3. \/ \E d \in 1 .. n : \E x \in L[d] : e = FolderEntry(x.path)
        \/ \E d \in 0 .. n - 1 : \E x \in L[d] : \E l \in DOMAIN Leaves[x.node] : e = FileEntry(LeafPath(x, l))
    BY <1>1, EntriesOp
  <2> QED
    BY <2>1, <2>2, <2>3
<1> HIDE DEF f, g
<1>5. IsFiniteSet(1 .. n) /\ IsFiniteSet(0 .. n - 1)
  BY FS_Interval
<1>6. IsFiniteSet(UNION {f[d] : d \in DOMAIN f}) /\ IsFiniteSet(UNION {g[d] : d \in DOMAIN g})
  BY <1>3, <1>5, FiniteUnion
<1>7. IsFiniteSet((UNION {f[d] : d \in DOMAIN f}) \cup (UNION {g[d] : d \in DOMAIN g}))
  BY <1>6, FS_Union
<1> QED
  BY <1>4, <1>7, FS_Subset

-----------------------------------------------------------------------------
(* What the walk has come to.                                              *)

\* The entries find counts.
Hits(V) == {e \in V : Last(e.path) \in Matching}

\* The walk of one path: what was visited before it is counted, and what is visited
\* since is what the open calls have come by.
Going(r, t, p, base, s, b, st) ==
  /\ Once(s, b) /\ Counted(s, b, r, t - 1)
  /\ Asked(r, p) = Start(r, p) \cup Entries(p, base, r.depth)
  /\ Start(r, p) \subseteq Since(s, b) /\ Since(s, b) \subseteq Asked(r, p)
  /\ Seen(p, base, r.depth, Since(s, b), st)
  /\ Calls(p, base, r.depth, Since(s, b), st)

Walking ==
  /\ turn # 0
  /\ \A i \in DOMAIN stack : stack[i].folder \in processed
  /\ \E base \in Folders, b \in 0 .. Len(visited) : Going(req, turn, Path, base, visited, b, stack)

\* All was visited, or find had enough.
Done(r, s, m) ==
  \/ Counted(s, Len(s), r, Len(r.paths))
  \/ r.cmd = "find" /\ m >= r.max /\ Once(s, 0) /\ ToSet(s) \subseteq Asked(r, r.paths[1])

Finding ==
  /\ matched = Cardinality(Hits(ToSet(visited))) /\ matched <= req.max
  /\ pc \in {"lookup", "found", "missing", "walk"} => matched < req.max

Told ==
  /\ pc \in PCs
  /\ pc # "done" => rc = "none"
  /\ pc = "next" => Counted(visited, Len(visited), req, turn)
  /\ pc \in {"lookup", "found", "missing"} => Counted(visited, Len(visited), req, turn - 1)
  /\ pc = "walk" => Walking
  /\ rc = "0" => Done(req, visited, matched)
  /\ req.cmd = "find" => Finding

ToldInv == WalkInv /\ KidsOK /\ Looking /\ Told

LEMMA RequestOp ==
  ASSUME Rooted, NEW r \in Requests
  PROVE  /\ r.depth \in 0 .. MaxDepth /\ r.depth \in Nat /\ r.max \in Nat
         /\ r.cmd \in {"find", "list", "dump"}
         /\ Len(r.paths) \in Nat /\ DOMAIN r.paths = 1 .. Len(r.paths)
         /\ r.cmd # "dump" => Len(r.paths) = 1
         /\ \A i \in DOMAIN r.paths : /\ r.paths[i] \in Seq(Names) /\ Len(r.paths[i]) \in Nat \ {0}
                                      /\ r.paths[i][1] = "/"
<1>1. /\ r.paths \in Seq(Seq(STRING) \ {<<>>}) /\ r.depth \in 0 .. MaxDepth /\ r.max \in Nat
      /\ r.cmd \in {"find", "list", "dump"} /\ (r.cmd # "dump" => Len(r.paths) = 1) /\ MaxDepth \in Nat
  BY WalkAssumption
<1>2. ASSUME NEW i \in DOMAIN r.paths
      PROVE  r.paths[i] \in Seq(Names) /\ Len(r.paths[i]) \in Nat \ {0} /\ r.paths[i][1] = "/"
  <2>1. r.paths[i] \in Seq(STRING) \ {<<>>}
    BY <1>1, ElementOp
  <2>2. \A p \in Seq(STRING) \ {<<>>} : p \in Seq(Names) /\ Len(p) \in Nat \ {0} /\ Head(p) = p[1]
    BY DEF Names
  <2> QED
    BY <2>1, <2>2 DEF Rooted
<1>3. Len(r.paths) \in Nat /\ DOMAIN r.paths = 1 .. Len(r.paths)
  BY <1>1
<1>4. \A d \in 0 .. MaxDepth : d \in Nat
  BY <1>1
<1> QED
  BY <1>1, <1>2, <1>3, <1>4

\* For no path there are no visits.
LEMMA CountedNone ==
  ASSUME NEW r, NEW s, NEW b \in Nat
  PROVE  Counted(s, b, r, 0) <=> b = 0
<1>1. \A e : Asks(r, 0, e) = 0
  <2>1. ~\E i : i \in 1 .. 0
    OBVIOUS
  <2> QED
    BY <2>1, AsksOp
<1>2. ASSUME b = 0 PROVE \A e : Times(s, b, e) = 0
  <2>1. ~\E i : i \in 1 .. b
    BY <1>2
  <2> QED
    BY <2>1, TimesOp
<1>3. ASSUME b # 0 PROVE Times(s, b, s[1]) # 0
  <2>1. 1 \in 1 .. b
    BY <1>3
  <2> QED
    BY <2>1, TimesOp
<1> QED
  BY <1>1, <1>2, <1>3 DEF Counted

LEMMA SinceAll ==
  ASSUME NEW S, NEW s \in Seq(S)
  PROVE  Since(s, 0) = ToSet(s) /\ Len(s) \in Nat /\ DOMAIN s = 1 .. Len(s) /\ IsFiniteSet(ToSet(s))
<1>1. DOMAIN s = 1 .. Len(s) /\ Len(s) \in Nat
  OBVIOUS
<1>2. \A j : j \in 0 + 1 .. Len(s) <=> j \in 1 .. Len(s)
  OBVIOUS
<1>3. Since(s, 0) = ToSet(s)
  BY <1>1, <1>2 DEF Since, ToSet
<1> QED
  BY <1>1, <1>3, FiniteSeq

LEMMA HitsNext ==
  ASSUME NEW V, IsFiniteSet(V), NEW e, e \notin V
  PROVE  /\ IsFiniteSet(Hits(V)) /\ Cardinality(Hits(V)) \in Nat
         /\ Cardinality(Hits(V \cup {e})) =
              IF Last(e.path) \in Matching THEN Cardinality(Hits(V)) + 1 ELSE Cardinality(Hits(V))
<1>1. Hits(V) \in SUBSET V /\ e \notin Hits(V)
  BY DEF Hits
<1>2. IsFiniteSet(Hits(V))
  BY <1>1, FS_Subset
<1>3. Cardinality(Hits(V)) \in Nat
  BY <1>2, FS_CardinalityType
<1>4. Hits(V \cup {e}) = IF Last(e.path) \in Matching THEN Hits(V) \cup {e} ELSE Hits(V)
  BY DEF Hits
<1>5. Cardinality(Hits(V) \cup {e}) = Cardinality(Hits(V)) + 1
  BY <1>1, <1>2, FS_AddElement
<1> QED
  BY <1>2, <1>3, <1>4, <1>5

\* find walks one path, and has visited nothing before.
LEMMA FindsOne ==
  ASSUME Rooted, NEW r \in Requests, r.cmd = "find", NEW t \in 0 .. Len(r.paths)
  PROVE  /\ t # 0 => t = 1 /\ t - 1 = 0 /\ t = Len(r.paths)
         /\ t < Len(r.paths) => t = 0
         /\ Len(r.paths) = 1 /\ t \in Nat
<1>1. Len(r.paths) = 1
  BY RequestOp
<1> QED
  BY <1>1

\* What a callback reports, for the first time.
LEMMA ReportTold ==
  ASSUME visited \in Seq(Visits), NEW kind \in {"folder", "file"}, NEW path \in Seq(Names),
         Report(kind, path), NEW e, e = [kind |-> kind, path |-> path],
         NEW b \in 0 .. Len(visited), e \notin Since(visited, b), Once(visited, b)
  PROVE  /\ b \in 0 .. Len(visited') /\ Since(visited', b) = Since(visited, b) \cup {e} /\ Once(visited', b)
         /\ \A r, t : Counted(visited, b, r, t) => Counted(visited', b, r, t)
         /\ b = 0 /\ req.cmd = "find" /\ matched = Cardinality(Hits(ToSet(visited))) =>
              /\ matched' = Cardinality(Hits(ToSet(visited'))) /\ matched \in Nat
              /\ matched' \in {matched, matched + 1}
              /\ ToSet(visited') = ToSet(visited) \cup {e}
<1>1. e \in Visits /\ e.path = path
  BY DEF Visits
<1>2. PICK z : z = visited'
  OBVIOUS
<1>3. z = Append(visited, e)
  BY <1>2 DEF Report
<1>5. z \in Seq(Visits) /\ Longer(visited, e, z)
  BY <1>1, <1>3, AppendLonger
<1>6. /\ b \in 0 .. Len(z)
      /\ Since(z, b) = Since(visited, b) \cup {e} /\ Once(z, b)
      /\ \A r, t : Counted(visited, b, r, t) => Counted(z, b, r, t)
  BY <1>5, SinceNext
<1>8. ASSUME b = 0, req.cmd = "find", matched = Cardinality(Hits(ToSet(visited)))
      PROVE  /\ matched' = Cardinality(Hits(ToSet(z))) /\ matched \in Nat
             /\ matched' \in {matched, matched + 1}
             /\ ToSet(z) = ToSet(visited) \cup {e}
  <2>1. Since(visited, 0) = ToSet(visited) /\ Since(z, 0) = ToSet(z) /\ IsFiniteSet(ToSet(visited))
    BY <1>5, SinceAll
  <2>2. ToSet(z) = ToSet(visited) \cup {e} /\ e \notin ToSet(visited)
    BY <1>6, <1>8, <2>1
  <2>3. /\ matched \in Nat
        /\ Cardinality(Hits(ToSet(z))) = IF Last(path) \in Matching THEN matched + 1 ELSE matched
    BY <1>1, <1>8, <2>1, <2>2, HitsNext
  <2>4. matched' = IF Last(path) \in Matching THEN matched + 1 ELSE matched
    BY <1>8 DEF Report
  <2> QED
    BY <2>2, <2>3, <2>4
<1> QED
  BY <1>2, <1>6, <1>8

LEMMA ToldInit ==
  ASSUME Rooted, Init
  PROVE  KidsOK /\ Looking /\ Told
<1>1. req \in Requests /\ req.max \in Nat
  BY RequestOp DEF Init
<1>2. KidsOK /\ Looking
  BY DEF Init, KidsOK, Looking
<1>3. visited = <<>> /\ Len(visited) = 0 /\ matched = 0 /\ turn = 0 /\ rc = "none" /\ pc = "next"
  BY DEF Init
<1>4. Counted(visited, Len(visited), req, turn)
  BY <1>3, CountedNone
<1>5. Hits(ToSet(visited)) = {}
  BY <1>3 DEF Hits, ToSet
<1>6. Finding
  <2>1. Cardinality({}) = 0
    BY FS_EmptySet
  <2>2. matched = Cardinality(Hits(ToSet(visited)))
    BY <1>3, <1>5, <2>1
  <2>3. matched <= req.max
    BY <1>1, <1>3
  <2>4. pc \notin {"lookup", "found", "missing", "walk"}
    BY <1>3
  <2> QED
    BY <2>2, <2>3, <2>4 DEF Finding
<1> QED
  BY <1>2, <1>3, <1>4, <1>6 DEF Told, PCs

LEMMA ToldNextPath ==
  ASSUME Rooted, ToldInv, NextPath
  PROVE  KidsOK' /\ Looking' /\ Told'
<1>1. /\ pc = "next" /\ pc' = "lookup" /\ turn < Len(req.paths) /\ turn' = turn + 1 /\ at' = 0
      /\ req' = req /\ visited' = visited /\ matched' = matched /\ rc' = rc /\ stack' = stack
      /\ folders' = folders /\ processed' = processed /\ ~(req.cmd = "find" /\ req.max = 0)
  BY DEF NextPath, maps
<1>2. req \in Requests /\ turn \in 0 .. Len(req.paths) /\ visited \in Seq(Visits)
  BY DEF ToldInv, WalkInv, Shape
<1>3. /\ Len(req.paths) \in Nat /\ DOMAIN req.paths = 1 .. Len(req.paths) /\ req.max \in Nat
      /\ \A i \in DOMAIN req.paths : Len(req.paths[i]) \in Nat \ {0}
  BY <1>2, RequestOp
<1>4. turn' \in DOMAIN req.paths /\ turn' - 1 = turn
  BY <1>1, <1>2, <1>3
<1>5. KidsOK'
  BY <1>1 DEF ToldInv, KidsOK
<1>6. Looking'
  <2>1. Path' = req.paths[turn']
    BY <1>1 DEF Path
  <2>2. Len(Path') \in Nat \ {0}
    BY <1>3, <1>4, <2>1
  <2>3. 0 \in 0 .. Len(Path') - 1
    BY <2>2
  <2> QED
    BY <1>1, <2>3 DEF Looking
<1>7. Counted(visited, Len(visited), req, turn)
  BY <1>1 DEF ToldInv, Told
<1>8. ASSUME req.cmd = "find" PROVE Finding'
  <2>1. turn = 0
    BY <1>1, <1>2, <1>8, FindsOne
  <2>2. Len(visited) \in Nat
    BY <1>2
  <2>3. Len(visited) = 0
    BY <1>7, <2>1, <2>2, CountedNone
  <2>4. ToSet(visited) = {}
    BY <1>2, <2>3 DEF ToSet
  <2>5. Hits(ToSet(visited)) = {}
    BY <2>4 DEF Hits
  <2>6. matched = Cardinality(Hits(ToSet(visited)))
    BY <1>8 DEF ToldInv, Told, Finding
  <2>7. matched = 0
    BY <2>5, <2>6, FS_EmptySet
  <2>8. matched < req.max /\ matched <= req.max
    BY <1>1, <1>3, <1>8, <2>7
  <2> QED
    BY <1>1, <2>6, <2>8 DEF Finding
<1>9. rc = "none"
  BY <1>1 DEF ToldInv, Told
<1> QED
  BY <1>1, <1>4, <1>5, <1>6, <1>7, <1>8, <1>9 DEF Told, PCs

LEMMA ToldReturn ==
  ASSUME Rooted, ToldInv, Return
  PROVE  KidsOK' /\ Looking' /\ Told'
<1>1. /\ pc = "next" /\ pc' = "done" /\ (turn = Len(req.paths) \/ (req.cmd = "find" /\ req.max = 0))
      /\ req' = req /\ visited' = visited /\ matched' = matched /\ rc' = "0"
      /\ folders' = folders /\ processed' = processed
  BY DEF Return, maps
<1>2. req \in Requests /\ turn \in 0 .. Len(req.paths) /\ visited \in Seq(Visits)
  BY DEF ToldInv, WalkInv, Shape
<1>3. Counted(visited, Len(visited), req, turn) /\ pc = "next"
  BY DEF ToldInv, Told, Return
<1>4. Done(req, visited, matched)
  <2>1. CASE turn = Len(req.paths)
    BY <1>3, <2>1 DEF Done
  <2>2. CASE turn # Len(req.paths)
    <3>1. req.cmd = "find" /\ req.max = 0
      BY <1>1, <2>2 DEF Return
    <3>2. turn = 0
      <4>1. Len(req.paths) = 1
        BY <1>2, <3>1, RequestOp
      <4> QED
        BY <1>2, <2>2, <4>1
    <3>3. Len(visited) \in Nat /\ DOMAIN visited = 1 .. Len(visited)
      BY <1>2
    <3>4. Len(visited) = 0
      BY <1>3, <3>2, <3>3, CountedNone
    <3>5. ToSet(visited) = {} /\ Once(visited, 0)
      BY <3>3, <3>4 DEF ToSet, Once
    <3>6. matched = Cardinality(Hits(ToSet(visited))) /\ Hits(ToSet(visited)) = {}
      BY <3>1, <3>5 DEF ToldInv, Told, Finding, Hits
    <3>7. matched = 0 /\ req.max = 0
      BY <3>1, <3>6, FS_EmptySet
    <3>8. matched >= req.max
      BY <3>7
    <3> QED
      BY <3>1, <3>5, <3>8 DEF Done
  <2> QED
    BY <2>1, <2>2
<1>5. pc' = "done" /\ rc' = "0"
  BY DEF Return
<1>6. KidsOK' /\ Looking'
  BY <1>1, <1>5 DEF ToldInv, KidsOK, Looking
<1>7. req.cmd = "find" => Finding'
  BY <1>1, <1>5 DEF ToldInv, Told, Finding
<1> QED
  BY <1>1, <1>4, <1>5, <1>6, <1>7 DEF Told, PCs

\* A find that does not begin tells nothing.
LEMMA ToldBad ==
  ASSUME Rooted, ToldInv, BadPattern
  PROVE  KidsOK' /\ Looking' /\ Told'
<1>1. /\ pc = "next" /\ pc' = "done" /\ req.cmd = "find"
      /\ req' = req /\ visited' = visited /\ matched' = matched /\ rc' = "1"
      /\ folders' = folders /\ processed' = processed
  BY DEF BadPattern, maps
<1>2. KidsOK' /\ Looking'
  BY <1>1 DEF ToldInv, KidsOK, Looking
<1>3. Finding'
  BY <1>1 DEF ToldInv, Told, Finding
<1> QED
  BY <1>1, <1>2, <1>3 DEF Told, PCs

LEMMA ToldLookup ==
  ASSUME Rooted, ToldInv, LookupStep \/ LookupFails
  PROVE  KidsOK' /\ Looking' /\ Told'
<1>1. /\ pc = "lookup" /\ req' = req /\ turn' = turn /\ visited' = visited /\ matched' = matched
      /\ rc' = rc /\ stack' = stack
  BY DEF LookupStep, LookupFails
<1>2. Shape /\ turn # 0 /\ MapsOK /\ KidsOK
  BY <1>1 DEF ToldInv, WalkInv, Shape
<1>3. Len(Relative) = Len(Path) - 1 /\ (at \in 0 .. Len(Path) - 1 => CurPath = SubSeq(Path, 1, at + 1))
  BY <1>2, CurPathOp
<1>4. Path \in Seq(Names) /\ Len(Path) \in Nat \ {0} /\ Path' = Path
  BY <1>1, <1>2, PathRooted DEF Path
<1>5. at \in 0 .. Len(Path) - 1
  BY <1>1 DEF ToldInv, Looking
<1>6. /\ Counted(visited, Len(visited), req, turn - 1) /\ rc = "none"
      /\ req.cmd = "find" => Finding /\ matched < req.max
  BY <1>1 DEF ToldInv, Told, Finding
<1>7. ASSUME pc' \in {"lookup", "found", "missing"} PROVE Told'
  <2>1. req.cmd = "find" => Finding'
    BY <1>1, <1>6 DEF Finding
  <2>2. pc' \in PCs /\ pc' # "done" /\ pc' # "next" /\ pc' # "walk"
    BY <1>7 DEF PCs
  <2> QED
    BY <1>1, <1>6, <2>1, <2>2 DEF Told
<1>8. CASE LookupStep
  <2>1. CurPath \in DOMAIN folders /\ ProcessDir(CurPath)
    BY <1>8 DEF LookupStep
  <2>2. CurPath \in Seq(Names)
    BY <1>2, <2>1 DEF MapsOK
  <2>3. KidsOK' /\ folders[CurPath] \in processed' /\ Grows
    BY <1>2, <2>1, <2>2, ProcessKids, ProcessDirKeeps
  <2>4. CurPath \in DOMAIN folders' /\ folders'[CurPath] \in processed'
    BY <2>1, <2>3 DEF Grows
  <2>5. CASE at < Len(Relative) /\ at' = at + 1 /\ pc' = pc
    <3>1. at' \in 0 .. Len(Path) - 1
      BY <1>3, <1>4, <1>5, <2>5
    <3>2. SubSeq(Path, 1, at') = CurPath
      BY <1>3, <1>5, <2>5
    <3>3. Looking'
      BY <1>1, <1>4, <2>4, <2>5, <3>1, <3>2 DEF Looking
    <3> QED
      BY <1>1, <1>7, <2>3, <2>5, <3>3
  <2>6. CASE ~(at < Len(Relative)) /\ at' = at /\ pc' = "found"
    <3>1. at + 1 = Len(Path)
      <4>1. PICK n : n = Len(Path)
        OBVIOUS
      <4>2. n \in Nat \ {0} /\ at \in 0 .. n - 1 /\ ~(at < n - 1)
        BY <1>3, <1>4, <1>5, <2>6, <4>1
      <4> QED
        BY <4>1, <4>2
    <3>2. CurPath = Path
      <4>1. \A p \in Seq(Names) : SubSeq(p, 1, Len(p)) = p
        OBVIOUS
      <4> QED
        BY <1>3, <1>4, <1>5, <3>1, <4>1
    <3>3. Looking'
      BY <1>4, <2>4, <2>6, <3>2 DEF Looking
    <3> QED
      BY <1>7, <2>3, <2>6, <3>3
  <2> QED
    BY <1>8, <2>5, <2>6 DEF LookupStep
<1>9. CASE LookupFails
  <2>1. /\ CurPath \notin DOMAIN folders /\ pc' = "missing" /\ at' = at
        /\ folders' = folders /\ processed' = processed
    BY <1>9 DEF LookupFails, maps
  <2>2. KidsOK'
    BY <1>2, <2>1 DEF KidsOK
  <2>3. Looking'
    BY <1>1, <1>3, <1>4, <1>5, <2>1 DEF ToldInv, Looking
  <2> QED
    BY <1>7, <2>1, <2>2, <2>3
<1> QED
  BY <1>8, <1>9

\* A command that fails has nothing to tell.
LEMMA ToldFails ==
  ASSUME KidsOK', pc' = "done", rc' = "1", req' = req, req.cmd # "find"
  PROVE  KidsOK' /\ Looking' /\ Told'
BY DEF Looking, Told, PCs

\* The request and the path the walk is at.
LEMMA TurnOp ==
  ASSUME Rooted, WalkInv, turn # 0
  PROVE  /\ req \in Requests /\ turn \in Nat \ {0} /\ turn \in 0 .. Len(req.paths)
         /\ Path = req.paths[turn] /\ Path \in Seq(Names) /\ Len(Path) \in Nat \ {0}
         /\ req.depth \in Nat /\ req.max \in Nat
         /\ visited \in Seq(Visits) /\ Len(visited) \in Nat /\ DOMAIN visited = 1 .. Len(visited)
<1>1. Shape
  BY DEF WalkInv
<1>2. req \in Requests /\ turn \in 0 .. Len(req.paths) /\ visited \in Seq(Visits)
  BY <1>1 DEF Shape
<1>3. req.depth \in Nat /\ req.max \in Nat
  BY <1>2, RequestOp
<1>4. Path \in Seq(Names) /\ Len(Path) \in Nat \ {0}
  BY <1>1, PathRooted
<1> QED
  BY <1>2, <1>3, <1>4 DEF Path

LEMMA ToldStart ==
  ASSUME Rooted, Distinct, ToldInv, StartWalk
  PROVE  KidsOK' /\ Looking' /\ Told'
<1>1. /\ pc = "found" /\ req' = req /\ turn' = turn /\ folders' = folders /\ processed' = processed
  BY DEF StartWalk, maps
<1>2. WalkInv /\ MapsOK /\ Looking /\ turn # 0
  BY <1>1 DEF ToldInv, WalkInv, Shape
<1>3. /\ req \in Requests /\ turn \in Nat \ {0}
      /\ Path \in Seq(Names) /\ req.depth \in Nat
      /\ visited \in Seq(Visits) /\ Len(visited) \in Nat
  BY <1>2, TurnOp
<1>4. KidsOK'
  BY <1>1 DEF ToldInv, KidsOK
<1>5. /\ Path \in DOMAIN folders /\ folders[Path] \in processed /\ folders[Path] \in Folders
      /\ Path' = Path
  BY <1>1, <1>2 DEF Looking, MapsOK, Path
<1>6. /\ Counted(visited, Len(visited), req, turn - 1) /\ rc = "none"
      /\ req.cmd = "find" => Finding /\ matched < req.max
  BY <1>1 DEF ToldInv, Told, Finding
<1>7. CASE CreateFails
  BY <1>1, <1>4, <1>7, ToldFails DEF CreateFails, Stop
<1>8. CASE /\ IF req.cmd = "dump" THEN Report("folder", Path) ELSE UNCHANGED <<visited, matched>>
           /\ Enter(Path, req.depth, <<>>, folders)
  <2>1. PICK b, p, n, V, base : b = Len(visited) /\ p = Path /\ n = req.depth /\ V = Start(req, Path)
                                /\ base = folders[Path]
    OBVIOUS
  <2>2. b \in 0 .. Len(visited) /\ Since(visited, b) = {} /\ Once(visited, b) /\ Counted(visited, b, req, turn - 1)
    BY <1>3, <1>6, <2>1, SinceNone
  <2>3. /\ b \in 0 .. Len(visited') /\ Once(visited', b) /\ Counted(visited', b, req, turn - 1)
        /\ Since(visited', b) = V
    <3>1. CASE req.cmd = "dump"
      <4>1. PICK e : e = [kind |-> "folder", path |-> Path]
        OBVIOUS
      <4>2. /\ b \in 0 .. Len(visited') /\ Since(visited', b) = Since(visited, b) \cup {e} /\ Once(visited', b)
            /\ Counted(visited', b, req, turn - 1)
        BY <1>3, <1>8, <2>2, <3>1, <4>1, ReportTold
      <4>3. V = {e}
        BY <2>1, <3>1, <4>1 DEF Start
      <4> QED
        BY <2>2, <4>2, <4>3
    <3>2. CASE req.cmd # "dump"
      BY <1>8, <2>1, <2>2, <3>2 DEF Start
    <3> QED
      BY <3>1, <3>2
  <2>4. \/ n = 0 /\ DOMAIN stack' = {}
        \/ /\ n # 0 /\ DOMAIN stack' = {1}
           /\ stack'[1] = [path |-> p, depth |-> n, folder |-> base, kid |-> 1, leaf |-> 1]
    <3>1. CASE n = 0
      BY <1>8, <2>1, <3>1 DEF Enter
    <3>2. CASE n # 0
      <4>1. PICK f : f = [path |-> p, depth |-> n, folder |-> base, kid |-> 1, leaf |-> 1]
        OBVIOUS
      <4>2. stack' = Append(<<>>, f)
        BY <1>5, <1>8, <2>1, <3>2, <4>1 DEF Enter
      <4>3. Append(<<>>, f) = <<f>>
        OBVIOUS
      <4>4. DOMAIN <<f>> = {1} /\ <<f>>[1] = f
        OBVIOUS
      <4> QED
        BY <3>2, <4>1, <4>2, <4>3, <4>4
    <3> QED
      BY <3>1, <3>2
  <2>5. pc' = "walk" /\ rc' = rc
    BY <1>5, <1>8 DEF Enter
  <2>6. V \subseteq {FolderEntry(p)} /\ p \in Seq(Names) /\ base \in Folders /\ n \in Nat
    BY <1>3, <1>5, <2>1 DEF Start, FolderEntry
  <2>7. Seen(p, base, n, V, stack') /\ Calls(p, base, n, V, stack')
    BY <2>4, <2>6, SeenStart
  <2>8. Asked(req, p) = V \cup Entries(p, base, n)
    BY <1>2, <1>5, <2>1, FoundAsked
  <2>9. Going(req, turn, p, base, visited', b, stack')
    BY <2>1, <2>3, <2>7, <2>8 DEF Going
  <2>10. \A i \in DOMAIN stack' : stack'[i].folder \in processed'
    BY <1>1, <1>5, <2>1, <2>4
  <2>11. Walking'
    BY <1>1, <1>2, <1>5, <2>1, <2>3, <2>6, <2>9, <2>10 DEF Walking
  <2>12. req.cmd = "find" => Finding'
    BY <1>1, <1>6, <1>8, <2>5 DEF Finding
  <2>13. Looking'
    BY <2>5 DEF Looking
  <2>14. Told'
    BY <1>1, <1>6, <2>5, <2>11, <2>12 DEF Told, PCs
  <2> QED
    BY <1>4, <2>13, <2>14
<1> QED
  BY <1>7, <1>8 DEF StartWalk

\* What dump gives to its callbacks for a file of its command line.
LEMMA FileCounted ==
  ASSUME visited \in Seq(Visits), NEW d \in Visits, NEW e \in Visits, d # e,
         NEW r, NEW t \in Nat \ {0}, Counted(visited, Len(visited), r, t - 1),
         Asked(r, r.paths[t]) = {d, e}, visited' = Append(Append(visited, d), e)
  PROVE  Counted(visited', Len(visited'), r, t)
<1>1. PICK b, y, z : b = Len(visited) /\ y = Append(visited, d) /\ z = visited'
  OBVIOUS
<1>2. y \in Seq(Visits) /\ Longer(visited, d, y)
  BY <1>1, AppendLonger
<1>3. z = Append(y, e)
  BY <1>1
<1>4. z \in Seq(Visits) /\ Longer(y, e, z)
  BY <1>2, <1>3, AppendLonger
<1>5. b \in 0 .. Len(visited) /\ Since(visited, b) = {} /\ Once(visited, b) /\ Counted(visited, b, r, t - 1)
  BY <1>1, SinceNone
<1>6. b \in 0 .. Len(y) /\ Since(y, b) = {d} /\ Once(y, b) /\ Counted(y, b, r, t - 1)
  BY <1>2, <1>5, SinceNext
<1>7. /\ b \in 0 .. Len(z) /\ Len(z) \in Nat
      /\ Since(z, b) = {d, e} /\ Once(z, b) /\ Counted(z, b, r, t - 1)
  BY <1>4, <1>6, SinceNext
<1>8. Counted(z, Len(z), r, t)
  BY <1>7, CountedNext
<1> QED
  BY <1>1, <1>8

LEMMA ToldMissing ==
  ASSUME Rooted, Distinct, ToldInv, Missing
  PROVE  KidsOK' /\ Looking' /\ Told'
<1>1. /\ pc = "missing" /\ req' = req /\ turn' = turn /\ folders' = folders /\ processed' = processed
      /\ files' = files
  BY DEF Missing, maps
<1>2. WalkInv /\ Shape /\ MapsOK /\ KidsOK /\ Looking /\ turn # 0
  BY <1>1 DEF ToldInv, WalkInv, Shape
<1>3. /\ req \in Requests /\ turn \in Nat \ {0}
      /\ Path = req.paths[turn] /\ Path \in Seq(Names) /\ Len(Path) \in Nat \ {0}
      /\ visited \in Seq(Visits) /\ Len(visited) \in Nat
  BY <1>2, TurnOp
<1>4. KidsOK'
  BY <1>1 DEF ToldInv, KidsOK
<1>5. /\ Counted(visited, Len(visited), req, turn - 1) /\ rc = "none"
      /\ req.cmd = "find" => Finding
  BY <1>1 DEF ToldInv, Told, Finding
<1>6. Asked(req, Path) = IF req.cmd = "dump" /\ Path \in DOMAIN files
                           THEN {[kind |-> "folder", path |-> Front(Path)], [kind |-> "file", path |-> Path]}
                           ELSE {}
  BY <1>1, <1>2, MissingAsked
<1>7. CASE req.cmd # "dump" /\ pc' = "done" /\ rc' = "1" /\ UNCHANGED <<stack, visited, matched>>
  <2>1. req.cmd = "find" => Finding'
    BY <1>1, <1>5, <1>7 DEF Finding
  <2>2. Looking'
    BY <1>7 DEF Looking
  <2>3. Told'
    BY <1>1, <1>7, <2>1 DEF Told, PCs
  <2> QED
    BY <1>4, <2>2, <2>3
<1>8. CASE req.cmd = "dump" /\ Path \notin DOMAIN files /\ pc' = "next" /\ UNCHANGED <<stack, visited, matched, rc>>
  <2>1. Asked(req, req.paths[turn]) = {}
    BY <1>3, <1>6, <1>8
  <2>2. PICK b : b = Len(visited)
    OBVIOUS
  <2>3. b \in 0 .. Len(visited) /\ Since(visited, b) = {} /\ Once(visited, b) /\ Counted(visited, b, req, turn - 1)
    BY <1>3, <1>5, <2>2, SinceNone
  <2>4. Counted(visited, Len(visited), req, turn)
    BY <1>3, <2>1, <2>3, CountedNext
  <2>5. Looking'
    BY <1>8 DEF Looking
  <2>6. Told'
    BY <1>1, <1>5, <1>8, <2>4 DEF Told, PCs
  <2> QED
    BY <1>4, <2>5, <2>6
<1>9. CASE CreateFails
  BY <1>1, <1>4, <1>9, ToldFails DEF CreateFails, Stop
<1>10. CASE /\ req.cmd = "dump" /\ Path \in DOMAIN files
            /\ visited' = visited \o <<[kind |-> "folder", path |-> Front(Path)],
                                       [kind |-> "file", path |-> Path]>>
            /\ pc' = "next" /\ UNCHANGED <<stack, matched, rc>>
  <2> DEFINE d == [kind |-> "folder", path |-> Front(Path)]
             e == [kind |-> "file", path |-> Path]
  <2>1. d \in Visits /\ e \in Visits /\ d # e
    <3>1. Path # <<>>
      BY <1>3
    <3>2. Front(Path) \in Seq(Names)
      BY <1>3, <3>1, FrontLast
    <3> QED
      BY <1>3, <3>2 DEF Visits
  <2>2. Asked(req, req.paths[turn]) = {d, e}
    BY <1>3, <1>6, <1>10
  <2> HIDE DEF d, e
  <2>3. visited' = Append(Append(visited, d), e)
    BY <1>3, <1>10, <2>1 DEF d, e
  <2>4. Counted(visited', Len(visited'), req, turn)
    BY <1>3, <1>5, <2>1, <2>2, <2>3, FileCounted
  <2>5. Looking'
    BY <1>10 DEF Looking
  <2>6. Told'
    BY <1>1, <1>5, <1>10, <2>4 DEF Told, PCs
  <2> QED
    BY <1>4, <2>5, <2>6
<1> QED
  BY <1>7, <1>8, <1>9, <1>10 DEF Missing

\* The innermost call, in its folder.
LEMMA WalkTop ==
  ASSUME ToldInv, pc = "walk", stack # <<>>
  PROVE  /\ stack \in Seq(WalkFrames) /\ Len(stack) \in Nat \ {0} /\ DOMAIN stack = 1 .. Len(stack)
         /\ Top = stack[Len(stack)] /\ Top \in WalkFrames
         /\ Top.path \in DOMAIN folders /\ folders[Top.path] = Top.folder /\ Top.path \in Seq(Names)
         /\ Top.folder \in Folders /\ Top.folder \in processed
         /\ Top.kid \in Nat \ {0} /\ Top.leaf \in Nat \ {0}
         /\ ChildrenOf(Top.folder) = Kids[Top.folder] /\ FilesOf(Top.folder) = Leaves[Top.folder]
<1>1. stack \in Seq(WalkFrames) /\ Len(stack) \in Nat \ {0} /\ DOMAIN stack = 1 .. Len(stack)
  BY DEF ToldInv, WalkInv, Shape
<1>2. WalkInv
  BY DEF ToldInv
<1>3. /\ Top \in WalkFrames /\ Good(Top, folders, visited)
      /\ Top.path \in Seq(Names) /\ Top.folder \in Folders
      /\ Top.kid \in Nat \ {0} /\ Top.leaf \in Nat \ {0}
  BY <1>2, TopFolder
<1>4. Top = stack[Len(stack)] /\ Len(stack) \in DOMAIN stack
  BY <1>1 DEF Top
<1>5. Top.folder \in processed
  BY <1>4 DEF ToldInv, Told, Walking
<1> QED
  BY <1>1, <1>3, <1>4, <1>5 DEF Good, ChildrenOf, FilesOf

LEMMA RestOp ==
  ASSUME NEW S, NEW st \in Seq(S), st # <<>>, NEW g \in S, NEW s, s = Len(st), NEW rest, rest = Append(Front(st), g)
  PROVE  /\ rest \in Seq(S) /\ Len(rest) = s /\ DOMAIN rest = 1 .. s
         /\ \A i \in 1 .. s - 1 : rest[i] = st[i]
         /\ rest[s] = g
<1>1. PICK f : f = Front(st)
  OBVIOUS
<1>2. /\ f \in Seq(S) /\ Len(f) = s - 1 /\ s \in Nat \ {0}
      /\ \A i \in 1 .. s - 1 : f[i] = st[i]
  BY <1>1, FrontOp
<1>3. PICK n : n = Len(f)
  OBVIOUS
<1>4. rest = Append(f, g)
  BY <1>1
<1>5. /\ rest \in Seq(S) /\ Len(rest) = n + 1 /\ DOMAIN rest = 1 .. n + 1
      /\ \A i \in 1 .. n : rest[i] = f[i]
      /\ rest[n + 1] = g
  BY <1>2, <1>3, <1>4, AppendOp
<1>6. n + 1 = s /\ n = s - 1
  BY <1>2, <1>3
<1> QED
  BY <1>2, <1>5, <1>6

\* What find has visited is of its one path.
LEMMA FindBase ==
  ASSUME Rooted, WalkInv, turn # 0, req.cmd = "find", NEW b \in 0 .. Len(visited),
         Counted(visited, b, req, turn - 1)
  PROVE  b = 0 /\ turn = 1 /\ Path = req.paths[1]
<1>1. /\ req \in Requests /\ turn \in 0 .. Len(req.paths) /\ Len(visited) \in Nat /\ Path = req.paths[turn]
  BY TurnOp
<1>2. turn = 1 /\ turn - 1 = 0
  BY <1>1, FindsOne
<1>3. b \in Nat
  BY <1>1
<1> QED
  BY <1>1, <1>2, <1>3, CountedNone

\* A new entry is reported, and the walk goes on or has enough.
LEMMA WalkReports ==
  ASSUME Rooted, ToldInv, pc = "walk", req' = req, turn' = turn,
         NEW kind \in {"folder", "file"}, NEW path \in Seq(Names), Report(kind, path),
         NEW e, e = [kind |-> kind, path |-> path], NEW b \in 0 .. Len(visited),
         Once(visited, b), Counted(visited, b, req, turn - 1), Since(visited, b) \subseteq Asked(req, Path),
         e \notin Since(visited, b), e \in Asked(req, Path)
  PROVE  /\ b \in 0 .. Len(visited') /\ Since(visited', b) = Since(visited, b) \cup {e} /\ Once(visited', b)
         /\ Counted(visited', b, req, turn - 1)
         /\ Enough /\ Stop => Looking' /\ Told'
         /\ ~Enough /\ pc' = "walk" /\ rc' = rc /\ Walking' => Looking' /\ Told'
<1>1. WalkInv /\ turn # 0 /\ rc = "none" /\ (req.cmd = "find" => Finding /\ matched < req.max)
  BY DEF ToldInv, Told, Walking, Finding
<1>2. /\ visited \in Seq(Visits) /\ req.max \in Nat
  BY <1>1, TurnOp
<1>3. /\ b \in 0 .. Len(visited') /\ Since(visited', b) = Since(visited, b) \cup {e} /\ Once(visited', b)
      /\ Counted(visited', b, req, turn - 1)
      /\ b = 0 /\ req.cmd = "find" /\ matched = Cardinality(Hits(ToSet(visited))) =>
           /\ matched' = Cardinality(Hits(ToSet(visited'))) /\ matched \in Nat
           /\ matched' \in {matched, matched + 1}
           /\ ToSet(visited') = ToSet(visited) \cup {e}
  BY <1>2, ReportTold
<1>4. ASSUME req.cmd = "find"
      PROVE  /\ b = 0 /\ Path = req.paths[1]
             /\ matched' = Cardinality(Hits(ToSet(visited'))) /\ matched' \in Nat
             /\ matched' <= req.max /\ ToSet(visited') = ToSet(visited) \cup {e}
             /\ ToSet(visited) = Since(visited, 0)
  <2>1. b = 0 /\ Path = req.paths[1]
    BY <1>1, <1>4, FindBase
  <2>2. /\ matched' = Cardinality(Hits(ToSet(visited'))) /\ matched \in Nat
        /\ matched' \in {matched, matched + 1} /\ ToSet(visited') = ToSet(visited) \cup {e}
    BY <1>1, <1>3, <1>4, <2>1 DEF Finding
  <2>3. matched < req.max
    BY <1>1, <1>4
  <2>4. matched' <= req.max /\ matched' \in Nat
    BY <1>2, <2>2, <2>3
  <2>5. ToSet(visited) = Since(visited, 0)
    BY <1>2, SinceAll
  <2> QED
    BY <2>1, <2>2, <2>4, <2>5
<1>5. ASSUME Enough, Stop PROVE Looking' /\ Told'
  <2>1. req.cmd = "find" /\ matched' >= req.max
    BY <1>5 DEF Enough
  <2>2. pc' = "done" /\ rc' = "0"
    BY <1>5, <2>1 DEF Stop
  <2>3. ToSet(visited') \subseteq Asked(req, req.paths[1])
    BY <1>4, <2>1
  <2>4. Done(req, visited', matched')
    BY <1>3, <1>4, <2>1, <2>3 DEF Done
  <2>5. Finding'
    BY <1>4, <2>1, <2>2 DEF Finding
  <2>6. Looking'
    BY <2>2 DEF Looking
  <2> QED
    BY <2>2, <2>4, <2>5, <2>6 DEF Told, PCs
<1>6. ASSUME ~Enough, pc' = "walk", rc' = rc, Walking' PROVE Looking' /\ Told'
  <2>1. req.cmd = "find" => matched' < req.max
    BY <1>2, <1>4, <1>6 DEF Enough
  <2>2. req.cmd = "find" => Finding'
    BY <1>4, <2>1 DEF Finding
  <2>3. Looking'
    BY <1>6 DEF Looking
  <2> QED
    BY <1>1, <1>6, <2>2, <2>3 DEF Told, PCs
<1> QED
  BY <1>3, <1>5, <1>6

\* A child is registered under its path.
LEMMA KidThere ==
  ASSUME Distinct, MapsOK, NEW p \in DOMAIN folders, NEW k \in DOMAIN Kids[folders[p]],
         NEW q, q = Append(p, Kids[folders[p]][k].name), q \in DOMAIN folders
  PROVE  folders[q] = Kids[folders[p]][k].node
<1>1. p \in Seq(Names) /\ folders[p] \in Folders
  BY DEF MapsOK
<1>2. PICK n : n = Kids[folders[p]][k].name
  OBVIOUS
<1>3. n \in Names
  BY <1>1, <1>2, KidsType
<1>4. q # Slash
  <2>1. Len(Append(p, n)) = Len(p) + 1
    BY <1>1, <1>3
  <2>2. Len(p) # 0
    <3>1. CASE p = Slash
      BY <3>1, SlashOp
    <3>2. CASE p # Slash
      <4>1. PICK r, i : /\ r \in DOMAIN folders /\ i \in DOMAIN Kids[folders[r]]
                        /\ p = Append(r, Kids[folders[r]][i].name) /\ folders[p] = Kids[folders[r]][i].node
        <5>1. Below(p)
          BY <3>2 DEF MapsOK
        <5> QED
          BY <5>1 DEF Below
      <4>2. r \in Seq(Names) /\ folders[r] \in Folders
        BY <4>1 DEF MapsOK
      <4>3. PICK m : m = Kids[folders[r]][i].name
        OBVIOUS
      <4>4. m \in Names
        BY <4>1, <4>2, <4>3, KidsType
      <4>5. Len(Append(r, m)) # 0
        BY <4>2, <4>4
      <4> QED
        BY <4>1, <4>3, <4>5
    <3> QED
      BY <3>1, <3>2
  <2>3. Len(p) \in Nat
    BY <1>1
  <2>4. Len(Append(p, n)) # 1
    BY <2>1, <2>2, <2>3
  <2> QED
    BY <1>2, <2>4, SlashOp
<1>5. PICK r, i : /\ r \in DOMAIN folders /\ i \in DOMAIN Kids[folders[r]]
                  /\ q = Append(r, Kids[folders[r]][i].name) /\ folders[q] = Kids[folders[r]][i].node
  <2>1. Below(q)
    BY <1>4 DEF MapsOK
  <2> QED
    BY <2>1 DEF Below
<1>6. r \in Seq(Names) /\ folders[r] \in Folders
  BY <1>5 DEF MapsOK
<1>7. PICK m : m = Kids[folders[r]][i].name
  OBVIOUS
<1>8. m \in Names
  BY <1>5, <1>6, <1>7, KidsType
<1>9. Append(p, n) = Append(r, m)
  BY <1>2, <1>5, <1>7
<1>10. p = r /\ n = m
  BY <1>1, <1>3, <1>6, <1>8, <1>9, AppendEq
<1> QED
  BY <1>1, <1>2, <1>5, <1>7, <1>10 DEF Distinct

\* What walk knows at a child of the folder of the innermost call.
LEMMA AtChild ==
  ASSUME Distinct, ToldInv, pc = "walk", stack # <<>>, Top.kid <= Len(ChildrenOf(Top.folder)),
         NEW x, x = Node(Top.path, Top.folder), NEW k, k = Top.kid
  PROVE  /\ k \in DOMAIN Kids[x.node] /\ k \in Nat \ {0} /\ Kids[x.node][k].name \in Names
         /\ x.path = Top.path /\ x.node = Top.folder
         /\ Append(Top.path, ChildrenOf(Top.folder)[Top.kid].name) = KidOf(x, k).path
         /\ KidOf(x, k).path \in Seq(Names) /\ KidOf(x, k).path \in DOMAIN folders
         /\ folders[KidOf(x, k).path] = KidOf(x, k).node
<1>1. /\ Top.path \in DOMAIN folders /\ folders[Top.path] = Top.folder /\ Top.path \in Seq(Names)
      /\ Top.folder \in Folders /\ Top.folder \in processed
      /\ k \in Nat \ {0} /\ ChildrenOf(Top.folder) = Kids[Top.folder]
  BY WalkTop
<1>2. x.path = Top.path /\ x.node = Top.folder
  BY DEF Node
<1>3. Kids[Top.folder] \in Seq([name : STRING, node : Folders]) /\ k <= Len(Kids[Top.folder])
  BY <1>1, KidsType
<1>4. k \in DOMAIN Kids[Top.folder]
  BY <1>1, <1>3
<1>5. PICK q, name : q = KidOf(x, k).path /\ name = Kids[x.node][k].name
  OBVIOUS
<1>6. q = Append(Top.path, name) /\ name \in Names
  BY <1>1, <1>2, <1>4, <1>5, KidsType DEF KidOf
<1>7. q \in Seq(Names)
  BY <1>1, <1>6, AppendOp
<1>8. MapsOK /\ KidsOK
  BY DEF ToldInv, WalkInv
<1>9. q \in DOMAIN folders
  BY <1>1, <1>2, <1>4, <1>5, <1>6, <1>8 DEF KidsOK
<1>10. folders[q] = Kids[folders[Top.path]][k].node
  <2>1. PICK p : p = Top.path
    OBVIOUS
  <2>2. p \in DOMAIN folders /\ k \in DOMAIN Kids[folders[p]] /\ q = Append(p, Kids[folders[p]][k].name)
    BY <1>1, <1>2, <1>4, <1>5, <1>6, <2>1
  <2>3. Append(p, Kids[folders[p]][k].name) \in DOMAIN folders
    BY <1>9, <2>2
  <2>4. folders[Append(p, Kids[folders[p]][k].name)] = Kids[folders[p]][k].node
    BY <1>8, <2>2, <2>3, KidThere
  <2> QED
    BY <2>1, <2>2, <2>4
<1> QED
  BY <1>1, <1>2, <1>4, <1>5, <1>6, <1>7, <1>9, <1>10 DEF KidOf

LEMMA GoingNext ==
  ASSUME NEW r, NEW t, NEW p, NEW base, NEW s, NEW b, NEW st, Going(r, t, p, base, s, b, st),
         NEW s2, NEW e, Since(s2, b) = Since(s, b) \cup {e}, Once(s2, b), Counted(s2, b, r, t - 1),
         e \in Asked(r, p), NEW st2,
         Seen(p, base, r.depth, Since(s, b) \cup {e}, st2), Calls(p, base, r.depth, Since(s, b) \cup {e}, st2)
  PROVE  Going(r, t, p, base, s2, b, st2)
BY DEF Going

\* The innermost call, as the lemmas on what was seen take it.
LEMMA CallOp ==
  ASSUME Rooted, ToldInv, pc = "walk", stack # <<>>, NEW base, NEW b,
         Going(req, turn, Path, base, visited, b, stack),
         NEW s, s = Len(stack), NEW c, c = s - 1, NEW x, x = Node(Top.path, Top.folder)
  PROVE  /\ InCall(Path, base, req.depth, Since(visited, b), stack, s, c, x)
         /\ Path \in Seq(Names) /\ req.depth \in Nat /\ s \in Nat \ {0}
<1>1. /\ s \in Nat \ {0} /\ DOMAIN stack = 1 .. s /\ Top = stack[s]
  BY WalkTop
<1>2. WalkInv /\ turn # 0
  BY DEF ToldInv, Told, Walking
<1>3. Path \in Seq(Names) /\ req.depth \in Nat
  BY <1>2, TurnOp
<1> QED
  BY <1>1, <1>3 DEF InCall, Going

LEMMA ToldChild ==
  ASSUME Rooted, Distinct, ToldInv, WalkChild
  PROVE  KidsOK' /\ Looking' /\ Told'
<1> DEFINE path == Append(Top.path, ChildrenOf(Top.folder)[Top.kid].name)
           g == [Top EXCEPT !.kid = @ + 1]
<1>1. PICK q, f, rest : q = path /\ f = g /\ rest = Append(Front(stack), f)
  OBVIOUS
<1>2. /\ pc = "walk" /\ stack # <<>> /\ Top.kid <= Len(ChildrenOf(Top.folder))
      /\ req' = req /\ turn' = turn
      /\ ProcessDir(q)
      /\ \/ CreateFails
         \/ /\ Report("folder", q)
            /\ \/ Enough /\ Stop
               \/ ~Enough /\ Enter(q, Top.depth - 1, rest, folders')
  BY <1>1 DEF WalkChild
<1>3. PICK s, c, x, k : s = Len(stack) /\ c = s - 1 /\ x = Node(Top.path, Top.folder) /\ k = Top.kid
  OBVIOUS
<1>4. /\ k \in DOMAIN Kids[x.node] /\ k \in Nat \ {0}
      /\ x.path = Top.path /\ x.node = Top.folder
      /\ q = KidOf(x, k).path /\ q \in Seq(Names) /\ q \in DOMAIN folders
      /\ folders[q] = KidOf(x, k).node
  BY <1>1, <1>2, <1>3, AtChild
<1>5. /\ stack \in Seq(WalkFrames) /\ s \in Nat \ {0} /\ DOMAIN stack = 1 .. s
      /\ Top = stack[s] /\ Top \in WalkFrames /\ Top.folder \in processed
  BY <1>2, <1>3, WalkTop
<1>6. /\ f \in WalkFrames /\ f.path = x.path /\ f.folder = x.node /\ f.depth = Top.depth
      /\ f.kid = k + 1 /\ f.leaf = Top.leaf
  <2>1. PICK w, m : w = Top /\ m = w.kid + 1
    OBVIOUS
  <2>2. f = [w EXCEPT !.kid = m] /\ w \in WalkFrames /\ m = k + 1 /\ m \in Nat
    BY <1>1, <1>3, <1>4, <1>5, <2>1
  <2>3. /\ f \in WalkFrames /\ f.path = w.path /\ f.folder = w.folder /\ f.depth = w.depth
        /\ f.kid = m /\ f.leaf = w.leaf
    BY ONLY <2>2 DEF WalkFrames
  <2> QED
    BY <1>4, <2>1, <2>2, <2>3
<1> HIDE DEF path, g
<1>7. /\ rest \in Seq(WalkFrames) /\ Len(rest) = s /\ DOMAIN rest = 1 .. s
      /\ \A i \in 1 .. s - 1 : rest[i] = stack[i]
      /\ rest[s] = f
  <2>1. stack \in Seq(WalkFrames) /\ stack # <<>> /\ f \in WalkFrames /\ s = Len(stack) /\ rest = Append(Front(stack), f)
    BY <1>1, <1>2, <1>3, <1>5, <1>6
  <2>2. rest \in Seq(WalkFrames)
    BY ONLY <2>1, RestOp
  <2>3. Len(rest) = s /\ DOMAIN rest = 1 .. s
    BY ONLY <2>1, RestOp
  <2>4. rest[s] = f
    BY ONLY <2>1, RestOp
  <2>5. \A i \in 1 .. s - 1 : rest[i] = stack[i]
    BY ONLY <2>1, RestOp
  <2> QED
    BY <2>2, <2>3, <2>4, <2>5
<1>8. WalkInv /\ MapsOK /\ KidsOK /\ Told /\ turn # 0 /\ Walking /\ rc = "none"
  BY <1>2 DEF ToldInv, WalkInv, Told, Walking
<1>9. /\ KidsOK' /\ processed \subseteq processed'
      /\ q \in DOMAIN folders' /\ folders'[q] = KidOf(x, k).node /\ folders'[q] \in processed'
  <2>1. /\ KidsOK' /\ processed \subseteq processed' /\ folders[q] \in processed'
    BY <1>2, <1>4, <1>8, ProcessKids
  <2>2. Grows
    BY <1>2, <1>4, <1>8, ProcessDirKeeps
  <2> QED
    BY <1>4, <2>1, <2>2 DEF Grows
<1>10. CASE CreateFails
  BY <1>2, <1>9, <1>10, ToldFails DEF CreateFails, Stop
<1>11. ASSUME Report("folder", q), (Enough /\ Stop) \/ (~Enough /\ Enter(q, Top.depth - 1, rest, folders'))
       PROVE  Looking' /\ Told'
  <2>1. PICK base \in Folders, b \in 0 .. Len(visited) : Going(req, turn, Path, base, visited, b, stack)
    BY <1>8 DEF Walking
  <2>2. PICK p, n, V, e : p = Path /\ n = req.depth /\ V = Since(visited, b) /\ e = FolderEntry(q)
    OBVIOUS
  <2>3. /\ InCall(p, base, n, V, stack, s, c, x) /\ p \in Seq(Names) /\ n \in Nat
    BY <1>2, <1>3, <2>1, <2>2, CallOp
  <2>4. k = stack[s].kid
    BY <1>3, <1>5
  <2>5. e \notin V /\ e \in Entries(p, base, n)
    BY <1>4, <2>2, <2>3, <2>4, ChildNew
  <2>6. /\ Once(visited, b) /\ Counted(visited, b, req, turn - 1) /\ V \subseteq Asked(req, p)
        /\ e \in Asked(req, p)
    BY <2>1, <2>2, <2>5 DEF Going
  <2>7. e = [kind |-> "folder", path |-> q]
    BY <2>2 DEF FolderEntry
  <2>8. /\ b \in 0 .. Len(visited') /\ Since(visited', b) = V \cup {e} /\ Once(visited', b)
        /\ Counted(visited', b, req, turn - 1)
        /\ Enough /\ Stop => Looking' /\ Told'
        /\ ~Enough /\ pc' = "walk" /\ rc' = rc /\ Walking' => Looking' /\ Told'
    BY <1>2, <1>4, <1>11, <2>2, <2>5, <2>6, <2>7, WalkReports
  <2>9. CASE ~Enough /\ Enter(q, Top.depth - 1, rest, folders')
    <3>1. /\ c \in Nat /\ s \in 1 .. n /\ stack[s].depth = n - c
      BY <2>3, TopCall
    <3>2. Top.depth - 1 = n - s /\ (n - s = 0 <=> s = n) /\ s \in Nat
      BY <1>3, <1>5, <2>3, <3>1
    <3>3. PICK h : h = [path |-> q, depth |-> n - s, folder |-> KidOf(x, k).node, kid |-> 1, leaf |-> 1]
      OBVIOUS
    <3>4. h.folder \in processed'
      BY <1>9, <3>3
    <3>5. /\ pc' = "walk" /\ rc' = rc
          /\ (s = n /\ stack' = rest) \/ (s # n /\ stack' = Append(rest, h))
      <4>1. PICK d : d = Top.depth - 1
        OBVIOUS
      <4>2. Enter(q, d, rest, folders') /\ d = n - s /\ (d = 0 <=> s = n)
        BY <2>9, <3>2, <4>1
      <4>3. CASE d = 0 /\ stack' = rest /\ rc' = rc /\ pc' = "walk"
        BY <4>2, <4>3
      <4>4. CASE /\ d > 0 /\ rc' = rc /\ pc' = "walk"
                 /\ stack' = Append(rest, [path |-> q, depth |-> d, folder |-> folders'[q], kid |-> 1, leaf |-> 1])
        <5>1. d # 0
          BY <4>2, <4>4
        <5> QED
          BY <1>9, <3>3, <4>2, <4>4, <5>1
      <4> QED
        BY <1>9, <4>2, <4>3, <4>4 DEF Enter
    <3>6. PICK t, st2 : /\ st2 = stack' /\ DOMAIN st2 = 1 .. t
                        /\ \A i \in 1 .. s : st2[i] = rest[i]
                        /\ (t = s /\ s = n) \/ (t = s + 1 /\ s # n /\ st2[t] = h)
      <4>1. CASE s = n /\ stack' = rest
        BY <1>7, <4>1
      <4>2. CASE s # n /\ stack' = Append(rest, h)
        <5>1. PICK S : S = WalkFrames \cup {h}
          OBVIOUS
        <5>2. rest \in Seq(S) /\ h \in S
          BY <1>7, <5>1
        <5>3. PICK z : z = Append(rest, h)
          OBVIOUS
        <5>4. /\ DOMAIN z = 1 .. s + 1 /\ z[s + 1] = h
              /\ \A i \in 1 .. s : z[i] = rest[i]
          BY <1>7, <5>2, <5>3, AppendOp
        <5> QED
          BY <4>2, <5>3, <5>4
      <4> QED
        BY <3>5, <4>1, <4>2
    <3>7. /\ \A i \in 1 .. c : st2[i] = stack[i]
          /\ st2[s].path = x.path /\ st2[s].folder = x.node /\ st2[s].depth = stack[s].depth
          /\ st2[s].kid = k + 1 /\ st2[s].leaf = stack[s].leaf
      <4>1. s \in 1 .. s /\ \A i \in 1 .. c : i \in 1 .. s /\ i \in 1 .. s - 1
        BY <1>3, <1>5, <3>2
      <4> QED
        BY <1>5, <1>6, <1>7, <3>6, <4>1
    <3>8. Calls(p, base, n, V \cup {e}, st2) /\ Seen(p, base, n, V \cup {e}, st2)
      <4>1. ChildPast(n, stack, s, c, x, k, q, st2, t)
        BY <1>4, <2>4, <3>3, <3>6, <3>7 DEF ChildPast
      <4>2. Calls(p, base, n, V \cup {FolderEntry(q)}, st2) /\ Seen(p, base, n, V \cup {FolderEntry(q)}, st2)
        BY <2>3, <4>1, SeenChild
      <4> QED
        BY <2>2, <4>2
    <3>9. Going(req, turn, p, base, visited', b, st2)
      BY <2>1, <2>2, <2>6, <2>8, <3>8, GoingNext
    <3>10. \A i \in DOMAIN st2 : st2[i].folder \in processed'
      <4>1. \A i \in DOMAIN stack : stack[i].folder \in processed'
        BY <1>8, <1>9 DEF Walking
      <4>2. \A i \in 1 .. s : st2[i].folder \in processed'
        <5>1. \A i \in 1 .. s : i \in 1 .. s - 1 \/ i = s
          BY <3>2
        <5> QED
          BY <1>4, <1>5, <1>6, <1>7, <1>9, <3>6, <4>1, <5>1
      <4>3. \A i \in DOMAIN st2 : i \in 1 .. s \/ (i = t /\ st2[t] = h)
        BY <3>2, <3>6
      <4> QED
        BY <3>4, <4>2, <4>3
    <3>11. Path' = Path
      BY <1>2 DEF Path
    <3>12. Walking'
      BY <1>2, <1>8, <2>2, <2>8, <3>6, <3>9, <3>10, <3>11 DEF Walking
    <3> QED
      BY <2>8, <2>9, <3>5, <3>12
  <2> QED
    BY <1>11, <2>8, <2>9
<1>12. \/ CreateFails
       \/ /\ Report("folder", q)
          /\ (Enough /\ Stop) \/ (~Enough /\ Enter(q, Top.depth - 1, rest, folders'))
  BY <1>2
<1> QED
  BY <1>9, <1>10, <1>11, <1>12

\* What walk knows at a file of the folder of the innermost call.
LEMMA AtFile ==
  ASSUME ToldInv, pc = "walk", stack # <<>>, Top.leaf <= Len(FilesOf(Top.folder)),
         NEW x, x = Node(Top.path, Top.folder), NEW l, l = Top.leaf
  PROVE  /\ l \in DOMAIN Leaves[x.node] /\ l \in Nat \ {0}
         /\ x.path = Top.path /\ x.node = Top.folder
         /\ Append(Top.path, FilesOf(Top.folder)[Top.leaf].name) = LeafPath(x, l)
         /\ LeafPath(x, l) \in Seq(Names)
<1>1. /\ Top.path \in Seq(Names) /\ Top.folder \in Folders
      /\ l \in Nat \ {0} /\ FilesOf(Top.folder) = Leaves[Top.folder]
  BY WalkTop
<1>2. x.path = Top.path /\ x.node = Top.folder
  BY DEF Node
<1>3. Leaves[Top.folder] \in Seq([name : STRING, node : Files]) /\ l <= Len(Leaves[Top.folder])
  BY <1>1, KidsType
<1>4. l \in DOMAIN Leaves[Top.folder]
  BY <1>1, <1>3
<1>5. PICK q, name : q = LeafPath(x, l) /\ name = Leaves[x.node][l].name
  OBVIOUS
<1>6. q = Append(Top.path, name) /\ name \in Names
  BY <1>1, <1>2, <1>4, <1>5, KidsType DEF LeafPath
<1>7. q \in Seq(Names)
  BY <1>1, <1>6, AppendOp
<1> QED
  BY <1>1, <1>2, <1>4, <1>5, <1>6, <1>7

LEMMA ToldFile ==
  ASSUME Rooted, Distinct, ToldInv, WalkFile
  PROVE  KidsOK' /\ Looking' /\ Told'
<1> DEFINE path == Append(Top.path, FilesOf(Top.folder)[Top.leaf].name)
           g == [Top EXCEPT !.leaf = @ + 1]
<1>1. PICK q, f, rest : q = path /\ f = g /\ rest = Append(Front(stack), f)
  OBVIOUS
<1>2. /\ pc = "walk" /\ stack # <<>> /\ Top.leaf <= Len(FilesOf(Top.folder))
      /\ req' = req /\ turn' = turn /\ folders' = folders /\ processed' = processed
      /\ Report("file", q)
      /\ \/ Enough /\ Stop
         \/ ~Enough /\ stack' = rest /\ pc' = pc /\ rc' = rc
  BY <1>1 DEF WalkFile, maps
<1>3. PICK s, c, x, l : s = Len(stack) /\ c = s - 1 /\ x = Node(Top.path, Top.folder) /\ l = Top.leaf
  OBVIOUS
<1>4. /\ l \in DOMAIN Leaves[x.node] /\ l \in Nat \ {0}
      /\ x.path = Top.path /\ x.node = Top.folder
      /\ q = LeafPath(x, l) /\ q \in Seq(Names)
  BY <1>1, <1>2, <1>3, AtFile
<1>5. /\ stack \in Seq(WalkFrames) /\ s \in Nat \ {0} /\ DOMAIN stack = 1 .. s
      /\ Top = stack[s] /\ Top \in WalkFrames /\ Top.folder \in processed
  BY <1>2, <1>3, WalkTop
<1>6. /\ f \in WalkFrames /\ f.path = x.path /\ f.folder = x.node /\ f.depth = Top.depth
      /\ f.leaf = l + 1 /\ f.kid = Top.kid
  <2>1. PICK w, m : w = Top /\ m = w.leaf + 1
    OBVIOUS
  <2>2. f = [w EXCEPT !.leaf = m] /\ w \in WalkFrames /\ m = l + 1 /\ m \in Nat
    BY <1>1, <1>3, <1>4, <1>5, <2>1
  <2>3. /\ f \in WalkFrames /\ f.path = w.path /\ f.folder = w.folder /\ f.depth = w.depth
        /\ f.leaf = m /\ f.kid = w.kid
    BY ONLY <2>2 DEF WalkFrames
  <2> QED
    BY <1>4, <2>1, <2>2, <2>3
<1> HIDE DEF path, g
<1>7. /\ rest \in Seq(WalkFrames) /\ Len(rest) = s /\ DOMAIN rest = 1 .. s
      /\ \A i \in 1 .. s - 1 : rest[i] = stack[i]
      /\ rest[s] = f
  <2>1. stack \in Seq(WalkFrames) /\ stack # <<>> /\ f \in WalkFrames /\ s = Len(stack) /\ rest = Append(Front(stack), f)
    BY <1>1, <1>2, <1>3, <1>5, <1>6
  <2>2. rest \in Seq(WalkFrames)
    BY ONLY <2>1, RestOp
  <2>3. Len(rest) = s /\ DOMAIN rest = 1 .. s
    BY ONLY <2>1, RestOp
  <2>4. rest[s] = f
    BY ONLY <2>1, RestOp
  <2>5. \A i \in 1 .. s - 1 : rest[i] = stack[i]
    BY ONLY <2>1, RestOp
  <2> QED
    BY <2>2, <2>3, <2>4, <2>5
<1>8. WalkInv /\ KidsOK /\ Told /\ turn # 0 /\ Walking /\ rc = "none"
  BY <1>2 DEF ToldInv, WalkInv, Told, Walking
<1>9. KidsOK'
  BY <1>2, <1>8 DEF KidsOK
<1>11. Looking' /\ Told'
  <2>1. PICK base \in Folders, b \in 0 .. Len(visited) : Going(req, turn, Path, base, visited, b, stack)
    BY <1>8 DEF Walking
  <2>2. PICK p, n, V, e : p = Path /\ n = req.depth /\ V = Since(visited, b) /\ e = FileEntry(q)
    OBVIOUS
  <2>3. /\ InCall(p, base, n, V, stack, s, c, x) /\ p \in Seq(Names) /\ n \in Nat
    BY <1>2, <1>3, <2>1, <2>2, CallOp
  <2>4. l = stack[s].leaf
    BY <1>3, <1>5
  <2>5. e \notin V /\ e \in Entries(p, base, n)
    BY <1>4, <2>2, <2>3, <2>4, FileNew
  <2>6. /\ Once(visited, b) /\ Counted(visited, b, req, turn - 1) /\ V \subseteq Asked(req, p)
        /\ e \in Asked(req, p)
    BY <2>1, <2>2, <2>5 DEF Going
  <2>7. e = [kind |-> "file", path |-> q]
    BY <2>2 DEF FileEntry
  <2>8. /\ b \in 0 .. Len(visited') /\ Since(visited', b) = V \cup {e} /\ Once(visited', b)
        /\ Counted(visited', b, req, turn - 1)
        /\ Enough /\ Stop => Looking' /\ Told'
        /\ ~Enough /\ pc' = "walk" /\ rc' = rc /\ Walking' => Looking' /\ Told'
    BY <1>2, <1>4, <2>2, <2>5, <2>6, <2>7, WalkReports
  <2>9. CASE ~Enough /\ stack' = rest /\ pc' = pc /\ rc' = rc
    <3>1. /\ c \in Nat /\ s \in 1 .. n
      BY <2>3, TopCall
    <3>2. s \in 1 .. s /\ (\A i \in 1 .. c : i \in 1 .. s - 1) /\ \A i \in 1 .. s : i \in 1 .. s - 1 \/ i = s
      BY <1>3, <1>5, <3>1
    <3>3. PICK st2 : st2 = stack'
      OBVIOUS
    <3>4. FilePast(stack, s, c, x, l, st2)
      BY <1>3, <1>4, <1>5, <1>6, <1>7, <2>4, <2>9, <3>2, <3>3 DEF FilePast
    <3>5. Calls(p, base, n, V \cup {FileEntry(q)}, st2) /\ Seen(p, base, n, V \cup {FileEntry(q)}, st2)
      BY <1>4, <2>3, <3>4, SeenFile
    <3>6. Going(req, turn, p, base, visited', b, st2)
      BY <2>1, <2>2, <2>6, <2>8, <3>5, GoingNext
    <3>7. \A i \in DOMAIN st2 : st2[i].folder \in processed'
      <4>1. \A i \in DOMAIN stack : stack[i].folder \in processed'
        BY <1>2, <1>8 DEF Walking
      <4> QED
        BY <1>2, <1>4, <1>5, <1>6, <1>7, <2>9, <3>2, <3>3, <4>1
    <3>8. Path' = Path
      BY <1>2 DEF Path
    <3>9. Walking'
      BY <1>2, <1>8, <2>2, <2>8, <3>3, <3>6, <3>7, <3>8 DEF Walking
    <3> QED
      BY <1>2, <2>8, <2>9, <3>9
  <2> QED
    BY <1>2, <2>8, <2>9
<1> QED
  BY <1>9, <1>11

LEMMA ToldReturns ==
  ASSUME Rooted, Distinct, ToldInv, WalkReturns
  PROVE  KidsOK' /\ Looking' /\ Told'
<1>1. /\ pc = "walk" /\ stack # <<>>
      /\ Top.kid > Len(ChildrenOf(Top.folder)) /\ Top.leaf > Len(FilesOf(Top.folder))
      /\ stack' = Front(stack) /\ pc' = pc
      /\ req' = req /\ turn' = turn /\ folders' = folders /\ processed' = processed
      /\ visited' = visited /\ matched' = matched /\ rc' = rc
  BY DEF WalkReturns, maps
<1>2. PICK s, c, x, st2 : s = Len(stack) /\ c = s - 1 /\ x = Node(Top.path, Top.folder) /\ st2 = stack'
  OBVIOUS
<1>3. /\ stack \in Seq(WalkFrames) /\ s \in Nat \ {0} /\ DOMAIN stack = 1 .. s
      /\ Top = stack[s] /\ Top.folder \in Folders
      /\ ChildrenOf(Top.folder) = Kids[Top.folder] /\ FilesOf(Top.folder) = Leaves[Top.folder]
      /\ Top.kid \in Nat /\ Top.leaf \in Nat
  BY <1>1, <1>2, WalkTop
<1>4. WalkInv /\ KidsOK /\ Told /\ turn # 0 /\ Walking /\ rc = "none" /\ (req.cmd = "find" => Finding)
  BY <1>1 DEF ToldInv, WalkInv, Told, Walking
<1>5. KidsOK'
  BY <1>1, <1>4 DEF KidsOK
<1>6. PICK base \in Folders, b \in 0 .. Len(visited) : Going(req, turn, Path, base, visited, b, stack)
  BY <1>4 DEF Walking
<1>7. PICK p, n, V : p = Path /\ n = req.depth /\ V = Since(visited, b)
  OBVIOUS
<1>8. /\ InCall(p, base, n, V, stack, s, c, x) /\ p \in Seq(Names) /\ n \in Nat
  BY <1>1, <1>2, <1>6, <1>7, CallOp
<1>9. DOMAIN st2 = 1 .. c /\ \A i \in 1 .. c : st2[i] = stack[i]
  <2>1. PICK z : z = Front(stack)
    OBVIOUS
  <2>2. DOMAIN z = 1 .. s - 1 /\ \A i \in 1 .. s - 1 : z[i] = stack[i]
    BY <1>1, <1>2, <1>3, <2>1, FrontOp
  <2> QED
    BY <1>1, <1>2, <2>1, <2>2
<1>10. Past(stack, s, c, x, st2)
  <2>1. x.node = Top.folder
    BY <1>2 DEF Node
  <2>2. /\ Kids[Top.folder] \in Seq([name : STRING, node : Folders])
        /\ Leaves[Top.folder] \in Seq([name : STRING, node : Files])
    BY <1>3, KidsType
  <2>3. \A k \in DOMAIN Kids[Top.folder] : k < Top.kid
    BY <1>1, <1>3, <2>2
  <2>4. \A l \in DOMAIN Leaves[Top.folder] : l < Top.leaf
    BY <1>1, <1>3, <2>2
  <2> QED
    BY <1>3, <1>9, <2>1, <2>3, <2>4 DEF Past
<1>11. Calls(p, base, n, V, st2) /\ Seen(p, base, n, V, st2)
  BY <1>8, <1>10, SeenReturn
<1>12. Going(req, turn, p, base, visited, b, st2)
  BY <1>6, <1>7, <1>11 DEF Going
<1>13. \A i \in DOMAIN st2 : st2[i].folder \in processed'
  <2>1. \A i \in 1 .. c : i \in 1 .. s
    BY <1>2, <1>3
  <2> QED
    BY <1>1, <1>3, <1>4, <1>9, <2>1 DEF Walking
<1>14. Path' = Path
  BY <1>1 DEF Path
<1>15. Walking'
  BY <1>1, <1>2, <1>4, <1>7, <1>12, <1>13, <1>14 DEF Walking
<1>16. req.cmd = "find" => Finding'
  BY <1>1, <1>4 DEF Finding
<1>17. Looking'
  BY <1>1 DEF Looking
<1>18. Told'
  BY <1>1, <1>4, <1>15, <1>16 DEF Told, PCs
<1> QED
  BY <1>5, <1>17, <1>18

\* When the first call returns, what the path asks for was visited.
LEMMA ToldWalkDone ==
  ASSUME Rooted, Distinct, ToldInv, WalkDone
  PROVE  KidsOK' /\ Looking' /\ Told'
<1>1. /\ pc = "walk" /\ stack = <<>> /\ pc' = "next"
      /\ req' = req /\ turn' = turn /\ folders' = folders /\ processed' = processed
      /\ visited' = visited /\ matched' = matched /\ rc' = rc
  BY DEF WalkDone, maps
<1>2. WalkInv /\ KidsOK /\ Told /\ turn # 0 /\ Walking /\ rc = "none" /\ (req.cmd = "find" => Finding)
  BY <1>1 DEF ToldInv, WalkInv, Told, Walking
<1>3. /\ req \in Requests /\ turn \in Nat \ {0} /\ Path \in Seq(Names) /\ Path = req.paths[turn]
      /\ req.depth \in Nat /\ Len(visited) \in Nat
  BY <1>2, TurnOp
<1>4. PICK base \in Folders, b \in 0 .. Len(visited) : Going(req, turn, Path, base, visited, b, stack)
  BY <1>2 DEF Walking
<1>5. PICK p, n, V, S : p = Path /\ n = req.depth /\ V = Since(visited, b) /\ S = Start(req, Path)
  OBVIOUS
<1>6. /\ Once(visited, b) /\ Counted(visited, b, req, turn - 1)
      /\ Asked(req, p) = S \cup Entries(p, base, n) /\ S \subseteq V /\ V \subseteq Asked(req, p)
      /\ Seen(p, base, n, V, <<>>)
  BY <1>1, <1>4, <1>5 DEF Going
<1>7. V = S \cup Entries(p, base, n)
  BY <1>3, <1>5, <1>6, SeenEnd
<1>8. Since(visited, b) = Asked(req, req.paths[turn])
  BY <1>3, <1>5, <1>6, <1>7
<1>9. Counted(visited, Len(visited), req, turn)
  BY <1>3, <1>6, <1>8, CountedNext
<1>10. KidsOK'
  BY <1>1, <1>2 DEF KidsOK
<1>11. req.cmd = "find" => Finding'
  BY <1>1, <1>2 DEF Finding
<1>12. Looking'
  BY <1>1 DEF Looking
<1>13. Told'
  BY <1>1, <1>2, <1>9, <1>11 DEF Told, PCs
<1> QED
  BY <1>10, <1>12, <1>13

LEMMA ToldKeeps ==
  ASSUME Rooted, Distinct
  PROVE  ToldInv /\ [WalkNext]_vars => ToldInv'
<1> SUFFICES ASSUME ToldInv, [WalkNext]_vars
             PROVE  ToldInv'
  OBVIOUS
<1>1. WalkInv'
  BY WalkKeeps DEF ToldInv
<1>2. KidsOK' /\ Looking' /\ Told'
  <2>1. CASE NextPath
    BY <2>1, ToldNextPath
  <2>2. CASE Return \/ BadPattern
    BY <2>2, ToldReturn, ToldBad
  <2>3. CASE LookupStep \/ LookupFails
    BY <2>3, ToldLookup
  <2>4. CASE StartWalk
    BY <2>4, ToldStart
  <2>5. CASE Missing
    BY <2>5, ToldMissing
  <2>6. CASE WalkChild
    BY <2>6, ToldChild
  <2>7. CASE WalkFile
    BY <2>7, ToldFile
  <2>8. CASE WalkReturns
    BY <2>8, ToldReturns
  <2>9. CASE WalkDone
    BY <2>9, ToldWalkDone
  <2>10. CASE UNCHANGED vars
    <3>1. /\ req' = req /\ folders' = folders /\ processed' = processed /\ pc' = pc /\ turn' = turn
          /\ at' = at /\ stack' = stack /\ visited' = visited /\ matched' = matched /\ rc' = rc
      BY <2>10 DEF vars
    <3>2. Path' = Path
      BY <3>1 DEF Path
    <3>3. KidsOK' /\ Looking'
      BY <3>1, <3>2 DEF ToldInv, KidsOK, Looking
    <3>4. Walking => Walking'
      BY <3>1, <3>2 DEF Walking
    <3>5. Finding => Finding'
      BY <3>1 DEF Finding
    <3> QED
      BY <3>1, <3>3, <3>4, <3>5 DEF ToldInv, Told
  <2> QED
    BY <2>1, <2>2, <2>3, <2>4, <2>5, <2>6, <2>7, <2>8, <2>9, <2>10 DEF WalkNext
<1> QED
  BY <1>1, <1>2 DEF ToldInv

LEMMA FindFinite ==
  ASSUME Distinct, NEW r, r.cmd = "find", r.depth \in Nat, NEW p \in Seq(Names), p # <<>>, p[1] = "/"
  PROVE  IsFiniteSet(Asked(r, p))
<1>1. Asked(r, p) = IF Named(p) # {} THEN UNION {Entries(p, f, r.depth) : f \in Named(p)} ELSE {}
  BY DEF Asked
<1>2. CASE Named(p) = {}
  BY <1>1, <1>2, FS_EmptySet
<1>3. CASE Named(p) # {}
  <2>1. PICK f : f \in Named(p)
    BY <1>3
  <2>2. Len(p) - 1 \in Nat /\ Node(p, f) \in Tree(Len(p) - 1)
    BY <2>1, NamedOp
  <2>3. ASSUME NEW g \in Named(p) PROVE g = f
    <3>1. Node(p, g) \in Tree(Len(p) - 1)
      BY NamedOp
    <3>2. Node(p, g).path = Node(p, f).path
      BY DEF Node
    <3>3. Node(p, g) = Node(p, f)
      BY <2>2, <3>1, <3>2, TreeUnique
    <3> QED
      BY <3>3 DEF Node
  <2>4. Named(p) = {f}
    BY <2>1, <2>3
  <2>5. Asked(r, p) = Entries(p, f, r.depth)
    BY <1>1, <2>4
  <2>6. f \in Folders
    <3>1. PICK d : d = Len(p) - 1
      OBVIOUS
    <3>2. d \in Nat /\ Node(p, f) \in Level(Slash, RootFolder)[d]
      BY <2>2, <3>1 DEF Tree
    <3>3. Node(p, f).node \in Folders
      BY <3>2, SlashOp, LevelType
    <3> QED
      BY <3>3 DEF Node
  <2> QED
    BY <2>5, <2>6, FiniteEntries
<1> QED
  BY <1>2, <1>3

\* What was visited is what was asked for.
LEMMA CountedSame ==
  ASSUME NEW S, NEW s \in Seq(S), NEW r, NEW t \in Nat, Counted(s, Len(s), r, t)
  PROVE  \A e : e \in ToSet(s) <=> \E i \in 1 .. t : e \in Asked(r, r.paths[i])
<1> SUFFICES ASSUME NEW e
             PROVE  e \in ToSet(s) <=> \E i \in 1 .. t : e \in Asked(r, r.paths[i])
  OBVIOUS
<1>1. Len(s) \in Nat /\ DOMAIN s = 1 .. Len(s)
  OBVIOUS
<1>2. e \in ToSet(s) <=> \E j \in 1 .. Len(s) : s[j] = e
  BY <1>1 DEF ToSet
<1>3. Times(s, Len(s), e) = Asks(r, t, e)
  BY DEF Counted
<1>4. Times(s, Len(s), e) # 0 <=> \E j \in 1 .. Len(s) : s[j] = e
  BY <1>1, TimesOp
<1>5. Asks(r, t, e) # 0 <=> \E i \in 1 .. t : e \in Asked(r, r.paths[i])
  BY AsksOp
<1> QED
  BY <1>2, <1>3, <1>4, <1>5

LEMMA ToldVisits ==
  ASSUME Rooted, ToldInv
  PROVE  VisitsExact
<1> DEFINE asked == [i \in DOMAIN req.paths |-> Asked(req, req.paths[i])]
<1> SUFFICES ASSUME rc = "0", ~(req.cmd = "find" /\ matched >= req.max)
             PROVE  /\ ToSet(visited) \subseteq UNION Range(asked)
                    /\ \A e \in UNION Range(asked) :
                         Cardinality({j \in DOMAIN visited : visited[j] = e})
                           = Cardinality({i \in DOMAIN asked : e \in asked[i]})
  BY DEF VisitsExact
<1>1. req \in Requests /\ visited \in Seq(Visits)
  BY DEF ToldInv, WalkInv, Shape
<1>2. PICK n : n = Len(req.paths)
  OBVIOUS
<1>3. n \in Nat /\ DOMAIN req.paths = 1 .. n
  BY <1>1, <1>2, RequestOp
<1>4. DOMAIN visited = 1 .. Len(visited)
  BY <1>1
<1>5. Counted(visited, Len(visited), req, n)
  BY <1>2 DEF ToldInv, Told, Done
<1>6. ToSet(visited) \subseteq UNION Range(asked)
  <2>1. \A e \in ToSet(visited) : \E i \in 1 .. n : e \in Asked(req, req.paths[i])
    BY <1>1, <1>3, <1>5, CountedSame
  <2> QED
    BY <1>3, <2>1 DEF Range
<1>7. ASSUME NEW e
      PROVE  Cardinality({j \in DOMAIN visited : visited[j] = e})
               = Cardinality({i \in DOMAIN asked : e \in asked[i]})
  <2>1. {i \in DOMAIN asked : e \in asked[i]} = {i \in 1 .. n : e \in Asked(req, req.paths[i])}
    BY <1>3
  <2>2. {j \in DOMAIN visited : visited[j] = e} = {j \in 1 .. Len(visited) : visited[j] = e}
    BY <1>4
  <2>3. Times(visited, Len(visited), e) = Asks(req, n, e)
    BY <1>5 DEF Counted
  <2> HIDE DEF asked
  <2> QED
    BY <2>1, <2>2, <2>3 DEF Times, Asks
<1> QED
  BY <1>6, <1>7

LEMMA ToldCount ==
  ASSUME Rooted, Distinct, ToldInv
  PROVE  CountExact
<1> SUFFICES ASSUME req.cmd = "find", rc = "0"
             PROVE  LET found == {e \in Asked(req, req.paths[1]) : Last(e.path) \in Matching}
                    IN  matched = IF Cardinality(found) < req.max THEN Cardinality(found) ELSE req.max
  BY DEF CountExact
<1>1. req \in Requests /\ visited \in Seq(Visits)
  BY DEF ToldInv, WalkInv, Shape
<1>2. PICK A, V, p, max : A = Asked(req, req.paths[1]) /\ V = ToSet(visited) /\ p = req.paths[1] /\ max = req.max
  OBVIOUS
<1>3. max \in Nat /\ req.depth \in Nat /\ Len(req.paths) = 1 /\ p \in Seq(Names) /\ p # <<>> /\ p[1] = "/"
  <2>1. Len(req.paths) = 1 /\ DOMAIN req.paths = 1 .. Len(req.paths) /\ req.max \in Nat /\ req.depth \in Nat
    BY <1>1, RequestOp
  <2>2. 1 \in DOMAIN req.paths
    BY <2>1
  <2>3. p \in Seq(Names) /\ Len(p) \in Nat \ {0} /\ p[1] = "/"
    BY <1>1, <1>2, <2>2, RequestOp
  <2>4. p # <<>>
    BY <2>3
  <2> QED
    BY <1>2, <2>1, <2>3, <2>4
<1>4. IsFiniteSet(A)
  BY <1>2, <1>3, FindFinite
<1>5. IsFiniteSet(Hits(A)) /\ Cardinality(Hits(A)) \in Nat
  <2>1. Hits(A) \subseteq A
    BY DEF Hits
  <2>2. IsFiniteSet(Hits(A))
    BY <1>4, <2>1, FS_Subset
  <2> QED
    BY <2>2, FS_CardinalityType
<1>6. matched = Cardinality(Hits(V)) /\ matched <= max
  BY <1>2 DEF ToldInv, Told, Finding
<1>7. matched = IF Cardinality(Hits(A)) < max THEN Cardinality(Hits(A)) ELSE max
  <2>1. CASE Counted(visited, Len(visited), req, Len(req.paths))
    <3>1. \A e : e \in V <=> \E i \in 1 .. 1 : e \in Asked(req, req.paths[i])
      BY <1>1, <1>2, <1>3, <2>1, CountedSame
    <3>2. \A e : e \in V <=> e \in A
      <4>1. 1 .. 1 = {1}
        OBVIOUS
      <4> QED
        BY <1>2, <3>1, <4>1
    <3>3. V = A
      BY <3>2
    <3> QED
      BY <1>3, <1>5, <1>6, <3>3
  <2>2. CASE matched >= max /\ V \subseteq A
    <3>1. Hits(V) \subseteq Hits(A)
      BY <2>2 DEF Hits
    <3>2. Cardinality(Hits(V)) <= Cardinality(Hits(A)) /\ Cardinality(Hits(V)) \in Nat
      BY <1>5, <3>1, FS_Subset, FS_CardinalityType
    <3> QED
      BY <1>3, <1>5, <1>6, <2>2, <3>2
  <2>3. \/ Counted(visited, Len(visited), req, Len(req.paths))
        \/ matched >= max /\ V \subseteq A
    BY <1>2 DEF ToldInv, Told, Done
  <2> QED
    BY <2>1, <2>2, <2>3
<1>8. Hits(A) = {e \in Asked(req, req.paths[1]) : Last(e.path) \in Matching}
  BY <1>2 DEF Hits
<1> QED
  BY <1>2, <1>7, <1>8

\* A command that reports success has reported each folder and file under the paths it
\* was given, down to the depth it was given, once for each time it was asked for, and
\* nothing else: whatever the tree, the paths, and the folders registered before
\* (vfs.cpp:129-172), while any number of workers copy.
THEOREM VisitsAreExact ==
  ASSUME Rooted, Distinct
  PROVE  DumpSpec => []VisitsExact
<1>1. Init => ToldInv
  BY WalkInit, ToldInit DEF ToldInv
<1>2. ToldInv /\ [WalkNext]_vars => ToldInv'
  BY ToldKeeps
<1>3. ToldInv => VisitsExact
  BY ToldVisits
<1>4. DumpSpec => WalkSpec
  BY DumpWalks DEF DumpSpec
<1> QED
  BY <1>1, <1>2, <1>3, <1>4, PTL DEF WalkSpec

\* find prints as many matches as the tree has under its path, or as many as it may
\* (find.cpp:60-72).
THEOREM CountIsExact ==
  ASSUME Rooted, Distinct
  PROVE  DumpSpec => []CountExact
<1>1. Init => ToldInv
  BY WalkInit, ToldInit DEF ToldInv
<1>2. ToldInv /\ [WalkNext]_vars => ToldInv'
  BY ToldKeeps
<1>3. ToldInv => CountExact
  BY ToldCount
<1>4. DumpSpec => WalkSpec
  BY DumpWalks DEF DumpSpec
<1> QED
  BY <1>1, <1>2, <1>3, <1>4, PTL DEF WalkSpec

-----------------------------------------------------------------------------
(* The queue.                                                              *)

\* A function over 1..n is a sequence, and what Append makes of it.
LEMMA AppendIs ==
  ASSUME NEW n \in Nat, NEW s, s = [k \in 1 .. n |-> s[k]], NEW e
  PROVE  Append(s, e) = [k \in 1 .. n + 1 |-> IF k <= n THEN s[k] ELSE e]
<1> DEFINE S == {s[k] : k \in 1 .. n} \cup {e}
<1>1. s \in Seq(S) /\ e \in S
  <2>1. \A k \in 1 .. n : s[k] \in S
    OBVIOUS
  <2> QED
    BY <2>1, IsASeq
<1> HIDE DEF S
<1>2. Len(s) = n
  BY <1>1
<1> QED
  BY <1>1, <1>2

LEMMA InOrderIs ==
  ASSUME NEW S, IsFiniteSet(S)
  PROVE  /\ Cardinality(S) \in Nat
         /\ InOrder(S) = [k \in 1 .. Cardinality(S) |-> InOrder(S)[k]]
         /\ Len(InOrder(S)) = Cardinality(S)
<1>1. Cardinality(S) \in Nat
  BY FS_CardinalityType
<1>2. InOrder(S) = [k \in 1 .. Cardinality(S) |-> InOrder(S)[k]]
  <2> DEFINE nth(k) == CHOOSE i \in S : Cardinality({j \in S : j < i}) = k - 1
  <2>1. InOrder(S) = [k \in 1 .. Cardinality(S) |-> nth(k)]
    BY DEF InOrder
  <2> HIDE DEF nth
  <2> QED
    BY <2>1
<1>3. InOrder(S) \in Seq({InOrder(S)[k] : k \in 1 .. Cardinality(S)})
  BY <1>1, <1>2, IsASeq
<1>4. Len(InOrder(S)) = Cardinality(S)
  BY <1>1, <1>2, <1>3
<1> QED
  BY <1>1, <1>2, <1>4

\* No numbers.
LEMMA InOrderEmpty == Cardinality({}) = 0 /\ InOrder({}) = <<>>
BY FS_EmptySet DEF InOrder

\* A number above all that are in the set comes after them.
LEMMA InOrderAppend ==
  ASSUME NEW i \in Nat, NEW S \in SUBSET (1 .. i)
  PROVE  LET T == S \cup {i + 1}
         IN  /\ IsFiniteSet(S) /\ IsFiniteSet(T)
             /\ Cardinality(T) = Cardinality(S) + 1
             /\ InOrder(T) = Append(InOrder(S), i + 1)
             /\ \A k \in 1 .. Cardinality(S) : InOrder(T)[k] = InOrder(S)[k]
             /\ InOrder(T)[Cardinality(S) + 1] = i + 1
<1> DEFINE T == S \cup {i + 1}
           n == Cardinality(S)
           Less(R, x) == {j \in R : j < x}
<1>1. IsFiniteSet(S) /\ i + 1 \notin S
  <2>1. IsFiniteSet(1 .. i)
    BY FS_Interval
  <2>2. IsFiniteSet(S)
    BY <2>1, FS_Subset
  <2>3. i + 1 \notin 1 .. i
    OBVIOUS
  <2> QED
    BY <2>2, <2>3
<1>2. IsFiniteSet(T) /\ Cardinality(T) = n + 1 /\ n \in Nat
  BY <1>1, FS_AddElement, FS_CardinalityType
<1>3. \A x \in S : Less(T, x) = Less(S, x)
  OBVIOUS
<1>4. Less(T, i + 1) = S
  <2>1. \A j \in S : j < i + 1
    OBVIOUS
  <2>2. ~(i + 1 < i + 1)
    OBVIOUS
  <2> QED
    BY <2>1, <2>2
<1>5. \A x \in S : Cardinality(Less(S, x)) \in Nat /\ Cardinality(Less(S, x)) < n
  <2> SUFFICES ASSUME NEW x \in S
               PROVE  Cardinality(Less(S, x)) \in Nat /\ Cardinality(Less(S, x)) < n
    OBVIOUS
  <2>1. Less(S, x) \in SUBSET S /\ x \notin Less(S, x)
    OBVIOUS
  <2> HIDE DEF Less
  <2>2. /\ IsFiniteSet(Less(S, x)) /\ Cardinality(Less(S, x)) <= n
        /\ n = Cardinality(Less(S, x)) => S = Less(S, x)
    BY <1>1, <2>1, FS_Subset
  <2>3. Cardinality(Less(S, x)) \in Nat
    BY <2>2, FS_CardinalityType
  <2> QED
    BY <1>2, <2>1, <2>2, <2>3
<1>6. ASSUME NEW k \in 1 .. n PROVE InOrder(T)[k] = InOrder(S)[k]
  <2> DEFINE m == k - 1
  <2>1. m # n
    BY <1>2
  <2>2. \A x : (x \in S /\ Cardinality(Less(S, x)) = m)
                <=> (x \in T /\ Cardinality(Less(T, x)) = m)
    BY <1>3, <1>4, <2>1
  <2>3. (CHOOSE x \in S : Cardinality(Less(S, x)) = m)
          = (CHOOSE x \in T : Cardinality(Less(T, x)) = m)
    BY <2>2, Zenon
  <2>4. k \in 1 .. Cardinality(T)
    BY <1>2
  <2> QED
    BY <2>3, <2>4 DEF InOrder
<1>7. InOrder(T)[n + 1] = i + 1
  <2>1. \A x \in T : Cardinality(Less(T, x)) = n <=> x = i + 1
    BY <1>2, <1>3, <1>4, <1>5
  <2>2. (CHOOSE x \in T : Cardinality(Less(T, x)) = n) = i + 1
    BY <2>1
  <2>3. n + 1 \in 1 .. Cardinality(T) /\ (n + 1) - 1 = n
    BY <1>2
  <2>4. InOrder(T)[n + 1] = CHOOSE x \in T : Cardinality(Less(T, x)) = (n + 1) - 1
    BY <2>3 DEF InOrder
  <2> QED
    BY <2>2, <2>3, <2>4
<1> HIDE DEF n, Less
<1>8. InOrder(T) = [k \in 1 .. n + 1 |-> IF k <= n THEN InOrder(S)[k] ELSE i + 1]
  <2>1. InOrder(T) = [k \in 1 .. n + 1 |-> InOrder(T)[k]]
    BY <1>2, InOrderIs
  <2>2. \A k \in 1 .. n + 1 :
          InOrder(T)[k] = IF k <= n THEN InOrder(S)[k] ELSE i + 1
    BY <1>2, <1>6, <1>7
  <2> HIDE DEF T
  <2> QED
    BY <2>1, <2>2
<1>9. InOrder(S) = [k \in 1 .. n |-> InOrder(S)[k]]
  BY <1>1, InOrderIs DEF n
<1>10. InOrder(T) = Append(InOrder(S), i + 1)
  <2> DEFINE s == InOrder(S)
             e == i + 1
  <2>1. s = [k \in 1 .. n |-> s[k]]
    BY <1>9
  <2>2. InOrder(T) = [k \in 1 .. n + 1 |-> IF k <= n THEN s[k] ELSE e]
    BY <1>8
  <2> HIDE DEF s, e
  <2>3. Append(s, e) = [k \in 1 .. n + 1 |-> IF k <= n THEN s[k] ELSE e]
    BY <1>2, <2>1, AppendIs DEF n
  <2> QED
    BY <2>2, <2>3 DEF s, e
<1> QED
  BY <1>1, <1>2, <1>6, <1>7, <1>10 DEF n

\* InOrder has every number of the set, once.
LEMMA InOrderOnto ==
  ASSUME NEW n \in Nat, NEW S \in SUBSET (1 .. n)
  PROVE  /\ {InOrder(S)[k] : k \in 1 .. Cardinality(S)} = S
         /\ \A k, l \in 1 .. Cardinality(S) : InOrder(S)[k] = InOrder(S)[l] => k = l
<1> DEFINE Onto(R) ==
             /\ {InOrder(R)[k] : k \in 1 .. Cardinality(R)} = R
             /\ \A k, l \in 1 .. Cardinality(R) : InOrder(R)[k] = InOrder(R)[l] => k = l
           T == {m \in Nat : \A R \in SUBSET (1 .. m) : Onto(R)}
<1>1. 0 \in T
  <2>1. \A R \in SUBSET (1 .. 0) : R = {}
    OBVIOUS
  <2>2. 1 .. 0 = {}
    OBVIOUS
  <2>3. Onto({})
    BY <2>2, InOrderEmpty
  <2> HIDE DEF Onto
  <2> QED
    BY <2>1, <2>3
<1>2. ASSUME NEW m \in T PROVE m + 1 \in T
  <2>1. m \in Nat /\ m + 1 \in Nat
    OBVIOUS
  <2>2. ASSUME NEW R \in SUBSET (1 .. m + 1) PROVE Onto(R)
    <3>1. CASE m + 1 \notin R
      <4>1. R \in SUBSET (1 .. m)
        BY <2>1, <3>1
      <4> HIDE DEF Onto
      <4> QED
        BY <4>1
    <3>2. CASE m + 1 \in R
      <4>1. PICK Q : Q = R \ {m + 1}
        OBVIOUS
      <4>2. Q \in SUBSET (1 .. m) /\ R = Q \cup {m + 1} /\ m + 1 \notin Q
        BY <2>1, <3>2, <4>1
      <4>3. Onto(Q)
        <5> HIDE DEF Onto
        <5> QED
          BY <4>2
      <4>4. /\ IsFiniteSet(Q) /\ Cardinality(R) = Cardinality(Q) + 1
            /\ \A k \in 1 .. Cardinality(Q) : InOrder(R)[k] = InOrder(Q)[k]
            /\ InOrder(R)[Cardinality(Q) + 1] = m + 1
        <5>1. m \in Nat /\ Q \in SUBSET (1 .. m)
          BY <2>1, <4>2
        <5>2. /\ IsFiniteSet(Q) /\ Cardinality(Q \cup {m + 1}) = Cardinality(Q) + 1
              /\ \A k \in 1 .. Cardinality(Q) : InOrder(Q \cup {m + 1})[k] = InOrder(Q)[k]
              /\ InOrder(Q \cup {m + 1})[Cardinality(Q) + 1] = m + 1
          BY ONLY <5>1, InOrderAppend
        <5> QED
          BY <4>2, <5>2
      <4>5. PICK c : c = Cardinality(Q)
        OBVIOUS
      <4>6. c \in Nat
        BY <4>4, <4>5, FS_CardinalityType
      <4>7. \A k \in 1 .. c : InOrder(Q)[k] \in Q
        BY <4>3, <4>5
      <4>8. \A k \in 1 .. c + 1 : k \in 1 .. c \/ k = c + 1
        BY <4>6
      <4>9. \A k, l \in 1 .. c + 1 : InOrder(R)[k] = InOrder(R)[l] => k = l
        <5>1. \A k \in 1 .. c : InOrder(R)[k] \in Q /\ InOrder(R)[k] # m + 1
          BY <4>2, <4>4, <4>5, <4>7
        <5>2. \A k, l \in 1 .. c : InOrder(R)[k] = InOrder(R)[l] => k = l
          BY <4>3, <4>4, <4>5
        <5>3. InOrder(R)[c + 1] = m + 1
          BY <4>4, <4>5
        <5> QED
          BY <4>8, <5>1, <5>2, <5>3
      <4>10. {InOrder(R)[k] : k \in 1 .. c + 1} = R
        <5>1. {InOrder(Q)[k] : k \in 1 .. c} = Q
          BY <4>3, <4>5
        <5>2. \A k \in 1 .. c : k \in 1 .. c + 1
          BY <4>6
        <5>3. c + 1 \in 1 .. c + 1
          BY <4>6
        <5>4. /\ \A k \in 1 .. c : InOrder(R)[k] = InOrder(Q)[k]
              /\ InOrder(R)[c + 1] = m + 1
          BY <4>4, <4>5
        <5>5. \A k \in 1 .. c + 1 : InOrder(R)[k] \in R
          BY <4>2, <4>7, <4>8, <5>4
        <5>6. ASSUME NEW x \in R PROVE \E k \in 1 .. c + 1 : InOrder(R)[k] = x
          <6>1. CASE x = m + 1
            BY <5>3, <5>4, <6>1
          <6>2. CASE x \in Q
            <7>1. PICK k \in 1 .. c : InOrder(Q)[k] = x
              BY <5>1, <6>2
            <7> QED
              BY <5>2, <5>4, <7>1
          <6> QED
            BY <4>2, <6>1, <6>2
        <5>7. {InOrder(R)[k] : k \in 1 .. c + 1} \subseteq R
          BY <5>5
        <5>8. R \subseteq {InOrder(R)[k] : k \in 1 .. c + 1}
          BY <5>6
        <5> QED
          BY <5>7, <5>8
      <4> QED
        BY <4>4, <4>5, <4>9, <4>10
    <3> QED
      BY <3>1, <3>2
  <2> HIDE DEF Onto
  <2> QED
    BY <2>1, <2>2
<1>3. T = Nat
  <2> HIDE DEF T
  <2>1. T \in SUBSET Nat
    BY DEF T
  <2> QED
    BY <1>1, <1>2, <2>1, SetInduction
<1>4. n \in T
  <2> HIDE DEF T
  <2> QED
    BY <1>3
<1> QED
  BY <1>4

\* The visits that queue a file, and the paths they queue.
JobsOf(r, v) == {j \in DOMAIN v : r.cmd = "dump" /\ v[j].kind = "file"}
QueueOf(r, v) ==
  [i \in DOMAIN InOrder(JobsOf(r, v)) |-> v[InOrder(JobsOf(r, v))[i]].path]

LEMMA QueueOp ==
  ASSUME NEW r, NEW v \in Seq(Visits)
  PROVE  /\ QueueOf(r, v) \in Seq(Seq(Names)) /\ Len(QueueOf(r, v)) \in Nat
         /\ DOMAIN QueueOf(r, v) = 1 .. Len(QueueOf(r, v))
         /\ Len(QueueOf(r, v)) = Cardinality(JobsOf(r, v))
         /\ \A i \in 1 .. Len(QueueOf(r, v)) : /\ InOrder(JobsOf(r, v))[i] \in JobsOf(r, v)
                                               /\ QueueOf(r, v)[i] = v[InOrder(JobsOf(r, v))[i]].path
         /\ \A j \in JobsOf(r, v) : \E i \in 1 .. Len(QueueOf(r, v)) : InOrder(JobsOf(r, v))[i] = j
         /\ \A k, l \in 1 .. Len(QueueOf(r, v)) :
              InOrder(JobsOf(r, v))[k] = InOrder(JobsOf(r, v))[l] => k = l
<1> DEFINE S == JobsOf(r, v)
           q == QueueOf(r, v)
           o == InOrder(S)
           n == Cardinality(S)
<1>1. DOMAIN v = 1 .. Len(v) /\ Len(v) \in Nat /\ S \in SUBSET (1 .. Len(v))
  BY DEF JobsOf
<1>2. IsFiniteSet(S)
  <2>1. IsFiniteSet(1 .. Len(v))
    BY <1>1, FS_Interval
  <2> HIDE DEF S
  <2> QED
    BY <1>1, <2>1, FS_Subset
<1>3. n \in Nat /\ DOMAIN o = 1 .. n
  <2> HIDE DEF S
  <2>1. n \in Nat /\ o = [k \in 1 .. n |-> o[k]]
    BY <1>2, InOrderIs
  <2> QED
    BY <2>1
<1>4. /\ {o[k] : k \in 1 .. n} = S
      /\ \A k, l \in 1 .. n : o[k] = o[l] => k = l
  <2> HIDE DEF S
  <2> QED
    BY <1>1, InOrderOnto
<1>5. q = [i \in 1 .. n |-> v[o[i]].path]
  BY <1>3 DEF QueueOf
<1>6. \A j \in S : v[j].path \in Seq(Names)
  <2>1. \A j \in DOMAIN v : v[j] \in Visits
    BY ElementOp
  <2> QED
    BY <2>1 DEF JobsOf, Visits
<1> HIDE DEF S, o, n, q
<1>7. q \in Seq(Seq(Names)) /\ Len(q) = n /\ DOMAIN q = 1 .. n
  <2>1. \A i \in 1 .. n : v[o[i]].path \in Seq(Names)
    BY <1>4, <1>6
  <2>2. q \in [1 .. n -> Seq(Names)]
    BY <1>5, <2>1
  <2> QED
    BY <1>3, <2>2
<1>8. \A i \in 1 .. n : o[i] \in S /\ q[i] = v[o[i]].path
  BY <1>4, <1>5
<1>9. \A j \in S : \E i \in 1 .. n : o[i] = j
  BY <1>4
<1> QED
  BY <1>3, <1>4, <1>7, <1>8, <1>9 DEF q, S, o, n

\* What one more visit does to the queue.
LEMMA QueueNext ==
  ASSUME NEW r, NEW v \in Seq(Visits), NEW e \in Visits
  PROVE  QueueOf(r, Append(v, e)) =
           IF r.cmd = "dump" /\ e.kind = "file" THEN Append(QueueOf(r, v), e.path) ELSE QueueOf(r, v)
<1> DEFINE u == Append(v, e)
           S == JobsOf(r, v)
           T == JobsOf(r, u)
           n == Cardinality(S)
<1>1. /\ DOMAIN v = 1 .. Len(v) /\ Len(v) \in Nat /\ DOMAIN u = 1 .. Len(v) + 1
      /\ \A i \in 1 .. Len(v) : u[i] = v[i]
      /\ u[Len(v) + 1] = e
  BY AppendOp
<1> HIDE DEF u
<1>2. S \in SUBSET (1 .. Len(v)) /\ n \in Nat /\ IsFiniteSet(S)
  <2>1. S \in SUBSET (1 .. Len(v))
    BY <1>1 DEF JobsOf
  <2>2. IsFiniteSet(1 .. Len(v))
    BY <1>1, FS_Interval
  <2> HIDE DEF S
  <2>3. IsFiniteSet(S)
    BY <2>1, <2>2, FS_Subset
  <2> QED
    BY <2>1, <2>3, FS_CardinalityType
<1>3. DOMAIN InOrder(S) = 1 .. n /\ \A i \in 1 .. n : InOrder(S)[i] \in S
  <2>1. DOMAIN InOrder(S) = 1 .. n
    <3> HIDE DEF S
    <3>1. n \in Nat /\ InOrder(S) = [k \in 1 .. n |-> InOrder(S)[k]]
      BY <1>2, InOrderIs
    <3> QED
      BY <3>1
  <2>2. {InOrder(S)[k] : k \in 1 .. Cardinality(S)} = S
    <3> HIDE DEF S
    <3> QED
      BY <1>1, <1>2, InOrderOnto
  <2> HIDE DEF S
  <2> QED
    BY <2>1, <2>2
<1>4. CASE r.cmd = "dump" /\ e.kind = "file"
  <2>1. T = S \cup {Len(v) + 1}
    BY <1>1, <1>4 DEF JobsOf
  <2>2. /\ IsFiniteSet(T) /\ Cardinality(T) = n + 1
        /\ \A k \in 1 .. n : InOrder(T)[k] = InOrder(S)[k]
        /\ InOrder(T)[n + 1] = Len(v) + 1
    <3> HIDE DEF S, T
    <3> QED
      BY <1>1, <1>2, <2>1, InOrderAppend
  <2>3. DOMAIN InOrder(T) = 1 .. n + 1
    <3> HIDE DEF S, T
    <3>1. InOrder(T) = [k \in 1 .. n + 1 |-> InOrder(T)[k]]
      BY <2>2, InOrderIs
    <3> QED
      BY <3>1
  <2>4. QueueOf(r, u) = [k \in 1 .. n + 1 |-> u[InOrder(T)[k]].path]
    BY <2>3 DEF QueueOf
  <2>5. QueueOf(r, v) = [k \in 1 .. n |-> v[InOrder(S)[k]].path]
    BY <1>3 DEF QueueOf
  <2>6. PICK s : s = QueueOf(r, v)
    OBVIOUS
  <2>7. \A i \in S : i \in 1 .. Len(v)
    BY <1>1 DEF JobsOf
  <2>8. ASSUME NEW k \in 1 .. n + 1
        PROVE  u[InOrder(T)[k]].path = IF k <= n THEN s[k] ELSE e.path
    <3> HIDE DEF S, T, n
    <3>1. CASE k \in 1 .. n
      <4>1. InOrder(T)[k] = InOrder(S)[k] /\ InOrder(S)[k] \in S
        BY <1>3, <2>2, <3>1
      <4>2. u[InOrder(S)[k]] = v[InOrder(S)[k]]
        BY <1>1, <2>7, <4>1
      <4>3. s[k] = v[InOrder(S)[k]].path
        BY <2>5, <2>6, <3>1
      <4>4. k <= n
        BY <1>2, <3>1
      <4> QED
        BY <4>1, <4>2, <4>3, <4>4
    <3>2. CASE k = n + 1
      BY <1>1, <1>2, <2>2, <3>2
    <3>3. k \in 1 .. n \/ k = n + 1
      BY <1>2
    <3> QED
      BY <3>1, <3>2, <3>3
  <2> HIDE DEF n, S, T
  <2>9. QueueOf(r, u) = [k \in 1 .. n + 1 |-> IF k <= n THEN s[k] ELSE e.path]
    BY <2>4, <2>8
  <2>10. s = [k \in 1 .. n |-> s[k]]
    BY <2>5, <2>6
  <2>11. Append(s, e.path) = [k \in 1 .. n + 1 |-> IF k <= n THEN s[k] ELSE e.path]
    BY <1>2, <2>10, AppendIs
  <2> QED
    BY <1>4, <2>6, <2>9, <2>11 DEF u
<1>5. CASE ~(r.cmd = "dump" /\ e.kind = "file")
  <2>1. T = S
    BY <1>1, <1>5 DEF JobsOf
  <2>2. \A i \in S : u[i] = v[i]
    BY <1>1 DEF JobsOf
  <2>3. QueueOf(r, u) = [k \in 1 .. n |-> u[InOrder(S)[k]].path]
    BY <1>3, <2>1 DEF QueueOf
  <2>4. QueueOf(r, v) = [k \in 1 .. n |-> v[InOrder(S)[k]].path]
    BY <1>3 DEF QueueOf
  <2> HIDE DEF S, T, n
  <2>5. \A k \in 1 .. n : u[InOrder(S)[k]].path = v[InOrder(S)[k]].path
    BY <1>3, <2>2
  <2>6. QueueOf(r, u) = QueueOf(r, v)
    BY <2>3, <2>4, <2>5
  <2> QED
    BY <1>5, <2>6 DEF u
<1> QED
  BY <1>4, <1>5

-----------------------------------------------------------------------------
(* What a step of the walk does to the visits.                             *)

\* One more visit, and what it makes of the matches.
Visit(kind, path, v, m) ==
  /\ v = Append(visited, [kind |-> kind, path |-> path]) /\ path \in Seq(Names)
  /\ m = matched \/ m = matched + 1

Moves ==
  \/ visited' = visited /\ matched' = matched
  \/ \E path : Visit("folder", path, visited', matched')
  \/ \E path : Visit("file", path, visited', matched') /\ (pc' # "done" \/ req.cmd # "dump")
  \/ /\ \E d, e \in Visits : visited' = Append(Append(visited, d), e)
     /\ matched' = matched /\ pc' # "done"

LEMMA AnyDirGrows ==
  ASSUME MapsOK, NEW path, ProcessDir(path)
  PROVE  Grows
<1>1. CASE path \in DOMAIN folders
  <2>1. path \in Seq(Names)
    BY <1>1 DEF MapsOK
  <2> QED
    BY <2>1, ProcessDirKeeps
<1>2. CASE path \notin DOMAIN folders
  <2>1. UNCHANGED maps
    BY <1>2 DEF ProcessDir
  <2> QED
    BY <2>1, ProcessDirKeeps
<1> QED
  BY <1>1, <1>2

LEMMA SameGrows ==
  ASSUME UNCHANGED maps
  PROVE  Grows
BY DEF maps, Grows

LEMMA ReportVisits ==
  ASSUME NEW kind, NEW path \in Seq(Names), Report(kind, path)
  PROVE  Visit(kind, path, visited', matched')
BY DEF Report, Visit

LEMMA StopTells ==
  ASSUME Stop
  PROVE  pc' \in PCs /\ rc' \in {"0", "1"}
BY DEF Stop, PCs

LEMMA EnterTells ==
  ASSUME NEW path, NEW depth, NEW rest, NEW known, Enter(path, depth, rest, known)
  PROVE  pc' \in PCs /\ rc' \in {rc, "0", "1"}
BY StopTells DEF Enter, PCs

\* What a step of the walk tells: what it does to the maps, the visits and the places.
LEMMA WalkMoves ==
  ASSUME WalkInv, WalkNext
  PROVE  /\ pc # "done" /\ req' = req /\ Grows /\ visited \in Seq(Visits)
         /\ Moves
         /\ pc' \in PCs /\ rc' \in {rc, "0", "1"} /\ at' \in {at, 0, at + 1}
<1>1. visited \in Seq(Visits) /\ MapsOK /\ Shape
  BY DEF WalkInv, Shape
<1>2. CASE NextPath \/ BadPattern \/ Return \/ LookupFails \/ WalkReturns \/ WalkDone
  <2>1. UNCHANGED maps /\ visited' = visited /\ matched' = matched
    BY <1>2 DEF NextPath, BadPattern, Return, LookupFails, WalkReturns, WalkDone
  <2>2. Grows
    BY <2>1, SameGrows
  <2>3. /\ pc # "done" /\ req' = req
        /\ pc' \in PCs /\ rc' \in {rc, "0", "1"} /\ at' \in {at, 0, at + 1}
    BY <1>2 DEF NextPath, BadPattern, Return, LookupFails, WalkReturns, WalkDone, PCs
  <2> QED
    BY <1>1, <2>1, <2>2, <2>3 DEF Moves
<1>3. CASE LookupStep
  <2>1. Grows
    BY <1>1, <1>3, AnyDirGrows DEF LookupStep
  <2> QED
    BY <1>1, <1>3, <2>1 DEF LookupStep, Moves, PCs
<1>4. CASE StartWalk
  <2>1. pc = "found" /\ req' = req /\ UNCHANGED maps /\ at' = at
    BY <1>4 DEF StartWalk
  <2>2. Grows
    BY <2>1, SameGrows
  <2>3. Path \in Seq(Names)
    BY <1>1, <2>1, PathType
  <2>4. CASE CreateFails
    BY <1>1, <2>1, <2>2, <2>4, StopTells DEF CreateFails, Moves
  <2>5. CASE /\ IF req.cmd = "dump" THEN Report("folder", Path) ELSE UNCHANGED <<visited, matched>>
             /\ Enter(Path, req.depth, <<>>, folders)
    <3>1. Moves
      BY <2>3, <2>5, ReportVisits DEF Moves
    <3>2. pc' \in PCs /\ rc' \in {rc, "0", "1"}
      BY <2>5, EnterTells
    <3> QED
      BY <1>1, <2>1, <2>2, <3>1, <3>2
  <2> QED
    BY <1>4, <2>4, <2>5 DEF StartWalk
<1>5. CASE Missing
  <2>1. pc = "missing" /\ req' = req /\ UNCHANGED maps /\ at' = at
    BY <1>5 DEF Missing
  <2>2. Grows
    BY <2>1, SameGrows
  <2>3. CASE CreateFails
    BY <1>1, <2>1, <2>2, <2>3, StopTells DEF CreateFails, Moves
  <2>4. CASE /\ visited' = visited /\ matched' = matched /\ pc' \in {"done", "next"} /\ rc' \in {rc, "1"}
    BY <1>1, <2>1, <2>2, <2>4 DEF Moves, PCs
  <2>5. CASE /\ req.cmd = "dump" /\ Path \in DOMAIN files
             /\ visited' = visited \o <<[kind |-> "folder", path |-> Front(Path)],
                                        [kind |-> "file", path |-> Path]>>
             /\ pc' = "next"
             /\ UNCHANGED <<stack, matched, rc>>
    <3> DEFINE d == [kind |-> "folder", path |-> Front(Path)]
               e == [kind |-> "file", path |-> Path]
    <3>1. d \in Visits /\ e \in Visits
      <4>1. Path \in Seq(Names)
        BY <1>1, <2>5 DEF MapsOK
      <4>2. Path # <<>>
        <5>1. req.paths \in Seq(Seq(STRING) \ {<<>>}) /\ turn \in 1 .. Len(req.paths)
          BY <1>1, <2>1, WalkAssumption DEF Shape
        <5> QED
          BY <5>1 DEF Path
      <4>3. Front(Path) \in Seq(Names)
        BY <4>1, <4>2, FrontLast
      <4> QED
        BY <4>1, <4>3 DEF Visits
    <3> HIDE DEF d, e
    <3>2. visited' = Append(Append(visited, d), e)
      BY <1>1, <2>5, <3>1 DEF d, e
    <3>3. Moves
      BY <2>5, <3>1, <3>2 DEF Moves
    <3> QED
      BY <1>1, <2>1, <2>2, <2>5, <3>3 DEF PCs
  <2> QED
    BY <1>5, <2>3, <2>4, <2>5 DEF Missing
<1>6. CASE WalkChild
  <2> DEFINE path == Append(Top.path, ChildrenOf(Top.folder)[Top.kid].name)
             rest == Append(Front(stack), [Top EXCEPT !.kid = @ + 1])
  <2>1. /\ pc = "walk" /\ stack # <<>> /\ Top.kid <= Len(ChildrenOf(Top.folder))
        /\ req' = req /\ at' = at /\ ProcessDir(path)
        /\ \/ CreateFails
           \/ /\ Report("folder", path)
              /\ \/ Enough /\ Stop
                 \/ ~Enough /\ Enter(path, Top.depth - 1, rest, folders')
    BY <1>6 DEF WalkChild
  <2>2. path \in Seq(Names)
    <3>1. /\ Top.path \in Seq(Names) /\ Top.folder \in Folders /\ Top.kid \in Nat \ {0}
      BY <2>1, TopFolder
    <3>2. ChildrenOf(Top.folder) = Kids[Top.folder]
      <4>1. Len(<<>>) = 0
        OBVIOUS
      <4> QED
        BY <2>1, <3>1, <4>1 DEF ChildrenOf
    <3>3. Kids[Top.folder] \in Seq([name : STRING, node : Folders])
      BY <3>1, KidsType
    <3>4. Top.kid \in DOMAIN Kids[Top.folder]
      BY <2>1, <3>1, <3>2, <3>3
    <3>5. ChildrenOf(Top.folder)[Top.kid].name \in Names
      BY <3>1, <3>2, <3>4, KidsType
    <3> QED
      BY <3>1, <3>5, AppendOp
  <2> HIDE DEF path, rest
  <2>3. Grows
    BY <1>1, <2>1, AnyDirGrows
  <2>4. CASE CreateFails
    BY <1>1, <2>1, <2>3, <2>4, StopTells DEF CreateFails, Moves
  <2>5. CASE /\ Report("folder", path)
             /\ Stop \/ Enter(path, Top.depth - 1, rest, folders')
    <3>1. Moves
      BY <2>2, <2>5, ReportVisits DEF Moves
    <3>2. pc' \in PCs /\ rc' \in {rc, "0", "1"}
      BY <2>5, StopTells, EnterTells
    <3> QED
      BY <1>1, <2>1, <2>3, <3>1, <3>2
  <2> QED
    BY <2>1, <2>4, <2>5
<1>7. CASE WalkFile
  <2> DEFINE path == Append(Top.path, FilesOf(Top.folder)[Top.leaf].name)
  <2>1. /\ pc = "walk" /\ stack # <<>> /\ Top.leaf <= Len(FilesOf(Top.folder))
        /\ req' = req /\ at' = at /\ UNCHANGED maps /\ Report("file", path)
        /\ \/ Enough /\ Stop
           \/ pc' = pc /\ rc' = rc
    BY <1>7 DEF WalkFile
  <2>2. path \in Seq(Names)
    <3>1. /\ Top.path \in Seq(Names) /\ Top.folder \in Folders /\ Top.leaf \in Nat \ {0}
      BY <2>1, TopFolder
    <3>2. FilesOf(Top.folder) = Leaves[Top.folder]
      <4>1. Len(<<>>) = 0
        OBVIOUS
      <4> QED
        BY <2>1, <3>1, <4>1 DEF FilesOf
    <3>3. Leaves[Top.folder] \in Seq([name : STRING, node : Files])
      BY <3>1, KidsType
    <3>4. Top.leaf \in DOMAIN Leaves[Top.folder]
      BY <2>1, <3>1, <3>2, <3>3
    <3>5. FilesOf(Top.folder)[Top.leaf].name \in Names
      BY <3>1, <3>2, <3>4, KidsType
    <3> QED
      BY <3>1, <3>5, AppendOp
  <2> HIDE DEF path
  <2>3. Grows
    BY <2>1, SameGrows
  <2>4. pc' # "done" \/ req.cmd # "dump"
    BY <2>1 DEF Enough
  <2>5. Moves
    BY <2>1, <2>2, <2>4, ReportVisits DEF Moves
  <2>6. pc' \in PCs /\ rc' \in {rc, "0", "1"}
    BY <2>1, StopTells DEF PCs
  <2> QED
    BY <1>1, <2>1, <2>3, <2>5, <2>6
<1> QED
  BY <1>2, <1>3, <1>4, <1>5, <1>6, <1>7 DEF WalkNext

-----------------------------------------------------------------------------
(* The workers.                                                            *)

\* The rest of the types of Walk.
Basics ==
  /\ pc \in PCs /\ at \in Nat /\ rc \in {"none", "0", "1"}
  /\ matched \in 0 .. Len(visited)

\* Who has which job.
Hands ==
  /\ started \in 0 .. Len(Queued)
  /\ job \in [Workers -> 0 .. started]
  /\ wpc \in [Workers -> {"idle", "test", "seek", "read", "close"}]
  /\ \A w \in Workers : wpc[w] = "idle" <=> job[w] = 0
  /\ \A v, w \in Workers : job[v] = job[w] /\ job[v] # 0 => v = w
  /\ running = {job[w] : w \in Workers} \ {0}
  /\ outcome \in {"busy", "ok", "failed"}
  /\ outcome # "busy" => running = {} /\ pc = "done"
  /\ outcome = "ok" => started = Len(Queued) /\ rc = "0"

Numbers ==
  /\ offset \in [Workers -> Nat]
  /\ pos \in [Files -> Nat]
  /\ DOMAIN disk \subseteq {Queued[i] : i \in 1 .. started}
  /\ put \in [Workers -> Nat]
  /\ failed \subseteq {Queued[i] : i \in 1 .. started}

LEMMA QueuedIs == Queued = QueueOf(req, visited)
BY DEF Queued, QueueOf, JobsOf

\* What is queued stays in its place.
LEMMA QueueGrows ==
  ASSUME visited \in Seq(Visits), Moves, req' = req
  PROVE  /\ Queued \in Seq(Seq(Names)) /\ Len(Queued) \in Nat /\ Len(Queued') \in Nat
         /\ DOMAIN Queued = 1 .. Len(Queued)
         /\ Len(Queued) <= Len(Queued')
         /\ \A i \in 1 .. Len(Queued) : Queued'[i] = Queued[i]
<1> DEFINE Grown(q, z) ==
             Len(q) <= Len(z) /\ \A i \in 1 .. Len(q) : z[i] = q[i]
<1>1. /\ Queued = QueueOf(req, visited) /\ Queued' = QueueOf(req, visited')
  BY QueuedIs DEF Queued, QueueOf, JobsOf
<1>2. ASSUME NEW v \in Seq(Visits), NEW e \in Visits
      PROVE  /\ Append(v, e) \in Seq(Visits)
             /\ QueueOf(req, Append(v, e)) \in Seq(Seq(Names))
             /\ Grown(QueueOf(req, v), QueueOf(req, Append(v, e)))
  <2>1. Append(v, e) \in Seq(Visits)
    OBVIOUS
  <2>2. QueueOf(req, v) \in Seq(Seq(Names)) /\ QueueOf(req, Append(v, e)) \in Seq(Seq(Names))
    BY <2>1, QueueOp
  <2>3. QueueOf(req, Append(v, e)) \in {QueueOf(req, v), Append(QueueOf(req, v), e.path)}
    BY QueueNext
  <2>4. PICK q : q = QueueOf(req, v)
    OBVIOUS
  <2>5. q \in Seq(Seq(Names)) /\ e.path \in Seq(Names)
    BY <2>2, <2>4 DEF Visits
  <2>6. Grown(q, Append(q, e.path)) /\ Grown(q, q)
    BY <2>5
  <2> HIDE DEF Grown
  <2> QED
    BY <2>1, <2>2, <2>3, <2>4, <2>6
<1>3. Queued \in Seq(Seq(Names)) /\ QueueOf(req, visited) \in Seq(Seq(Names))
  BY <1>1, QueueOp
<1>4. CASE visited' = visited
  BY <1>1, <1>3, <1>4
<1>5. CASE \E e \in Visits : visited' = Append(visited, e)
  <2>1. PICK e \in Visits : visited' = Append(visited, e)
    BY <1>5
  <2>2. /\ QueueOf(req, Append(visited, e)) \in Seq(Seq(Names))
        /\ Grown(QueueOf(req, visited), QueueOf(req, Append(visited, e)))
    BY <1>2
  <2>3. Queued' \in Seq(Seq(Names)) /\ Grown(Queued, Queued')
    BY <1>1, <2>1, <2>2
  <2> QED
    BY <1>3, <2>3
<1>6. CASE \E d, e \in Visits : visited' = Append(Append(visited, d), e)
  <2>1. PICK d \in Visits, e \in Visits : visited' = Append(Append(visited, d), e)
    BY <1>6
  <2>2. PICK q, z, y : q = QueueOf(req, visited) /\ z = QueueOf(req, Append(visited, d)) /\ y = Queued'
    OBVIOUS
  <2>3. Append(visited, d) \in Seq(Visits) /\ z \in Seq(Seq(Names)) /\ Grown(q, z)
    BY <1>2, <2>2
  <2>4. y \in Seq(Seq(Names)) /\ Grown(z, y)
    BY <1>1, <1>2, <2>1, <2>2, <2>3
  <2>5. Len(q) \in Nat /\ Len(z) \in Nat /\ Len(y) \in Nat
    BY <1>3, <2>2, <2>3, <2>4
  <2>6. Len(q) <= Len(y) /\ \A i \in 1 .. Len(q) : y[i] = q[i]
    <3>1. Len(q) <= Len(y)
      BY <2>3, <2>4, <2>5
    <3>2. ASSUME NEW i \in 1 .. Len(q) PROVE y[i] = q[i]
      <4>1. i \in 1 .. Len(z)
        BY <2>3, <2>5
      <4> QED
        BY <2>3, <2>4, <4>1
    <3> QED
      BY <3>1, <3>2
  <2>7. q = Queued
    BY <1>1, <2>2
  <2>8. DOMAIN Queued = 1 .. Len(Queued)
    BY <1>3
  <2> QED
    BY <1>3, <2>2, <2>5, <2>6, <2>7, <2>8
<1>7. \/ visited' = visited
      \/ \E e \in Visits : visited' = Append(visited, e)
      \/ \E d, e \in Visits : visited' = Append(Append(visited, d), e)
  <2>1. \A path \in Seq(Names) :
          [kind |-> "folder", path |-> path] \in Visits /\ [kind |-> "file", path |-> path] \in Visits
    BY DEF Visits
  <2> QED
    BY <2>1 DEF Moves, Visit
<1> QED
  BY <1>4, <1>5, <1>6, <1>7

LEMMA BasicsKeep ==
  ASSUME WalkInv, Basics, [WalkNext]_vars
  PROVE  Basics'
<1>1. CASE UNCHANGED vars
  BY <1>1 DEF vars, Basics
<1>2. CASE WalkNext
  <2>1. /\ Moves /\ visited \in Seq(Visits)
        /\ pc' \in PCs /\ rc' \in {rc, "0", "1"} /\ at' \in {at, 0, at + 1}
    BY <1>2, WalkMoves
  <2>2. pc' \in PCs /\ at' \in Nat /\ rc' \in {"none", "0", "1"}
    BY <2>1 DEF Basics
  <2>3. PICK n : n = Len(visited)
    OBVIOUS
  <2>4. n \in Nat /\ matched \in 0 .. n
    BY <2>1, <2>3 DEF Basics
  <2>5. matched' \in 0 .. Len(visited')
    <3>1. CASE visited' = visited /\ matched' = matched
      BY <2>3, <2>4, <3>1
    <3>2. ASSUME NEW e \in Visits, visited' = Append(visited, e), matched' \in {matched, matched + 1}
          PROVE  matched' \in 0 .. Len(visited')
      <4>1. Len(visited') = n + 1
        BY <2>1, <2>3, <3>2
      <4> QED
        BY <2>4, <3>2, <4>1
    <3>3. ASSUME NEW d \in Visits, NEW e \in Visits, visited' = Append(Append(visited, d), e), matched' = matched
          PROVE  matched' \in 0 .. Len(visited')
      <4>1. Len(visited') = n + 2
        BY <2>1, <2>3, <3>3
      <4> QED
        BY <2>4, <3>3, <4>1
    <3>4. \A path \in Seq(Names) :
            [kind |-> "folder", path |-> path] \in Visits /\ [kind |-> "file", path |-> path] \in Visits
      BY DEF Visits
    <3> QED
      BY <2>1, <3>1, <3>2, <3>3, <3>4 DEF Moves, Visit
  <2> QED
    BY <2>2, <2>5 DEF Basics
<1> QED
  BY <1>1, <1>2

LEMMA WalkTypes ==
  ASSUME WalkInv, Basics
  PROVE  TypeOK
<1>1. Shape /\ MapsOK
  BY DEF WalkInv
<1>2. ASSUME NEW p \in DOMAIN files PROVE files[p] \in Files
  <2>1. PICK q \in DOMAIN folders : \E i \in DOMAIN Leaves[folders[q]] :
          files[p] = Leaves[folders[q]][i].node
    BY <1>1 DEF MapsOK, Within
  <2>2. PICK i \in DOMAIN Leaves[folders[q]] : files[p] = Leaves[folders[q]][i].node
    BY <2>1
  <2>3. Leaves[folders[q]] \in Seq([name : STRING, node : Files])
    BY <1>1, KidsType DEF MapsOK
  <2>4. Leaves[folders[q]][i] \in [name : STRING, node : Files]
    BY <2>3, ElementOp
  <2> QED
    BY <2>2, <2>4
<1>3. processed \subseteq Folders
  BY <1>1 DEF MapsOK
<1>4. \A i \in DOMAIN stack : stack[i] \in Frames
  <2>1. stack \in Seq(WalkFrames) /\ WalkFrames = Frames
    BY <1>1 DEF Shape, WalkFrames, Frames
  <2> QED
    BY <2>1, ElementOp
<1>5. \A i \in DOMAIN visited : visited[i].kind \in {"folder", "file"}
  <2>1. \A i \in DOMAIN visited : visited[i] \in Visits
    BY <1>1, ElementOp DEF Shape
  <2> QED
    BY <2>1 DEF Visits
<1> QED
  BY <1>1, <1>2, <1>3, <1>4, <1>5 DEF TypeOK, Shape, MapsOK, Basics

-----------------------------------------------------------------------------
(* Steps of the workers.                                                   *)

WorkInv == Basics /\ Hands /\ Numbers

\* The walk only lengthens the queue.
LEMMA WorkWalk ==
  ASSUME WalkInv, WorkInv, WalkStep
  PROVE  WorkInv'
<1>1. /\ WalkNext /\ started' = started /\ running' = running /\ outcome' = outcome
      /\ job' = job /\ wpc' = wpc /\ offset' = offset /\ pos' = pos /\ disk' = disk
      /\ put' = put /\ failed' = failed
  BY DEF WalkStep, workerVars
<1>2. pc # "done" /\ req' = req /\ Moves /\ visited \in Seq(Visits)
  BY <1>1, WalkMoves
<1>3. /\ Len(Queued) \in Nat /\ Len(Queued') \in Nat /\ Len(Queued) <= Len(Queued')
      /\ \A i \in 1 .. Len(Queued) : Queued'[i] = Queued[i]
  BY <1>2, QueueGrows
<1>4. PICK n, m : n = Len(Queued) /\ m = Len(Queued')
  OBVIOUS
<1>5. started \in 0 .. n /\ n \in Nat /\ m \in Nat /\ n <= m
  BY <1>3, <1>4 DEF WorkInv, Hands
<1>6. started \in 0 .. m
  BY <1>5
<1>7. outcome = "busy" /\ outcome' = "busy"
  BY <1>1, <1>2 DEF WorkInv, Hands
<1>8. Hands'
  BY <1>1, <1>4, <1>6, <1>7 DEF WorkInv, Hands
<1>9. Numbers'
  <2>1. \A i \in 1 .. started : i \in 1 .. Len(Queued)
    BY <1>4, <1>5
  <2>2. \A i \in 1 .. started : Queued'[i] = Queued[i]
    BY <1>3, <2>1
  <2> QED
    BY <1>1, <2>2 DEF WorkInv, Numbers
<1>10. Basics'
  BY <1>1, BasicsKeep DEF WorkInv
<1> QED
  BY <1>8, <1>9, <1>10 DEF WorkInv

\* What is left alone.
LEMMA SameQueue ==
  ASSUME UNCHANGED vars
  PROVE  Queued' = Queued /\ (Basics => Basics') /\ files' = files /\ pc' = pc /\ rc' = rc
BY DEF vars, Queued, Basics

LEMMA WorkReturns ==
  ASSUME WorkInv, Returns
  PROVE  WorkInv'
<1>1. /\ pc = "done" /\ UNCHANGED vars /\ job' = job /\ wpc' = wpc /\ offset' = offset /\ pos' = pos
      /\ disk' = disk /\ put' = put /\ failed' = failed
      /\ started' = started /\ running' = running /\ running = {}
      /\ \/ rc = "0" /\ outcome' = "ok" /\ started = Len(Queued)
         \/ outcome' = "failed"
  BY DEF Returns, workerVars, Pool!Succeed, Pool!Fail
<1>2. Queued' = Queued /\ Basics' /\ pc' = pc /\ rc' = rc
  BY <1>1, SameQueue DEF WorkInv
<1>3. Hands'
  BY <1>1, <1>2 DEF WorkInv, Hands
<1>4. Numbers'
  BY <1>1, <1>2 DEF WorkInv, Numbers
<1> QED
  BY <1>2, <1>3, <1>4 DEF WorkInv

\* A file is added to the disk.
LEMMA OverOp ==
  ASSUME NEW f, NEW d, NEW x, NEW g, g = [p \in DOMAIN f \cup {d} |-> IF p = d THEN x ELSE f[p]]
  PROVE  /\ DOMAIN g = DOMAIN f \cup {d}
         /\ g[d] = x
         /\ \A p \in DOMAIN f : p # d => g[p] = f[p]
OBVIOUS

\* The next job is nobody's.
LEMMA WorkOpen ==
  ASSUME WorkInv, NEW w \in Workers, Open(w), Len(Queued) \in Nat
  PROVE  WorkInv'
<1>1. /\ UNCHANGED vars /\ pos' = pos /\ wpc[w] = "idle"
      /\ outcome = "busy" /\ outcome' = "busy" /\ started < Len(Queued) /\ started' = started + 1
      /\ running' = running \cup {started + 1}
      /\ job' = [job EXCEPT ![w] = started + 1]
      /\ offset' = [offset EXCEPT ![w] = 0]
      /\ put' = [put EXCEPT ![w] = 0]
      /\ failed' \in {failed, failed \cup {Queued[started + 1]}}
  BY DEF Open, Pool!Start
<1> DEFINE Adds(d) == disk' = [p \in DOMAIN disk \cup {d} |-> IF p = d THEN <<>> ELSE disk[p]]
<1>2. \/ wpc' = [wpc EXCEPT ![w] = "test"] /\ Adds(Queued[started + 1])
      \/ wpc' = [wpc EXCEPT ![w] = "close"] /\ disk' = disk
  BY DEF Open, Goto
<1>3. Queued' = Queued /\ Basics' /\ pc' = pc /\ rc' = rc
  BY <1>1, SameQueue DEF WorkInv
<1>4. started \in Nat /\ started' \in 0 .. Len(Queued) /\ started + 1 # 0 /\ started + 1 \in 0 .. started + 1
  BY <1>1 DEF WorkInv, Hands
<1>5. \A v \in Workers : job[v] \in 0 .. started /\ job[v] # started + 1
  BY <1>4 DEF WorkInv, Hands
<1>6. /\ job[w] = 0
      /\ job'[w] = started + 1 /\ \A v \in Workers : v # w => job'[v] = job[v]
  BY <1>1 DEF WorkInv, Hands
<1>7. job' \in [Workers -> 0 .. started']
  <2>1. \A v \in Workers : job[v] \in 0 .. started + 1
    BY <1>4, <1>5
  <2> QED
    BY <1>1, <1>4, <2>1 DEF WorkInv, Hands
<1>8. /\ wpc' \in [Workers -> {"idle", "test", "seek", "read", "close"}]
      /\ wpc'[w] # "idle" /\ \A v \in Workers : v # w => wpc'[v] = wpc[v]
  BY <1>2 DEF WorkInv, Hands
<1>9. running' = {job'[v] : v \in Workers} \ {0}
  <2>1. running = {job[v] : v \in Workers} \ {0}
    BY DEF WorkInv, Hands
  <2>2. ASSUME NEW i PROVE i \in running' <=> i \in {job'[v] : v \in Workers} \ {0}
    BY <1>1, <1>4, <1>6, <2>1
  <2> QED
    BY <2>2
<1>10. Hands'
  BY <1>1, <1>3, <1>4, <1>5, <1>6, <1>7, <1>8, <1>9 DEF WorkInv, Hands
<1>11. Numbers'
  <2>1. offset' \in [Workers -> Nat] /\ put' \in [Workers -> Nat]
    BY <1>1 DEF WorkInv, Numbers
  <2>2. DOMAIN disk' \subseteq DOMAIN disk \cup {Queued[started + 1]}
    BY <1>2, OverOp
  <2>3. \A i \in 1 .. started : i \in 1 .. started + 1
    BY <1>4
  <2>4. started + 1 \in 1 .. started + 1
    BY <1>4
  <2>5. DOMAIN disk' \subseteq {Queued[i] : i \in 1 .. started + 1}
    BY <2>2, <2>3, <2>4 DEF WorkInv, Numbers
  <2>6. failed' \subseteq {Queued[i] : i \in 1 .. started + 1}
    BY <1>1, <2>3, <2>4 DEF WorkInv, Numbers
  <2> QED
    BY <1>1, <1>3, <2>1, <2>5, <2>6 DEF WorkInv, Numbers
<1> QED
  BY <1>3, <1>10, <1>11 DEF WorkInv

LEMMA WorkClose ==
  ASSUME WorkInv, NEW w \in Workers, Close(w)
  PROVE  WorkInv'
<1>1. /\ UNCHANGED vars /\ offset' = offset /\ pos' = pos /\ disk' = disk
      /\ put' = put /\ failed' = failed
      /\ wpc[w] = "close" /\ wpc' = [wpc EXCEPT ![w] = "idle"]
      /\ outcome = "busy" /\ outcome' = "busy" /\ started' = started
      /\ running' = running \ {job[w]}
      /\ job' = [job EXCEPT ![w] = 0]
  BY DEF Close, Goto, Pool!Finish
<1>2. Queued' = Queued /\ Basics' /\ pc' = pc /\ rc' = rc
  BY <1>1, SameQueue DEF WorkInv
<1>3. job[w] # 0 /\ job'[w] = 0 /\ \A v \in Workers : v # w => job'[v] = job[v] /\ wpc'[v] = wpc[v]
  BY <1>1 DEF WorkInv, Hands
<1>4. running' = {job'[v] : v \in Workers} \ {0}
  <2>1. running = {job[v] : v \in Workers} \ {0}
    BY DEF WorkInv, Hands
  <2>2. \A v \in Workers : v # w /\ job[v] # 0 => job[v] # job[w]
    BY DEF WorkInv, Hands
  <2>3. ASSUME NEW i PROVE i \in running' <=> i \in {job'[v] : v \in Workers} \ {0}
    BY <1>1, <1>3, <2>1, <2>2
  <2> QED
    BY <2>3
<1>5. job' \in [Workers -> 0 .. started']
  <2>1. started \in Nat
    BY DEF WorkInv, Hands
  <2> QED
    BY <1>1, <2>1 DEF WorkInv, Hands
<1>6. wpc' \in [Workers -> {"idle", "test", "seek", "read", "close"}] /\ wpc'[w] = "idle"
  BY <1>1 DEF WorkInv, Hands
<1>7. Hands'
  BY <1>1, <1>2, <1>3, <1>4, <1>5, <1>6 DEF WorkInv, Hands
<1> QED
  BY <1>1, <1>2, <1>7 DEF WorkInv, Numbers

\* A step of the copy loop changes nothing of who has what.
LEMMA HandsStay ==
  ASSUME WorkInv, UNCHANGED vars, UNCHANGED <<started, running, outcome, job>>, NEW w \in Workers,
         NEW to \in {"test", "seek", "read", "close"}, wpc[w] # "idle", wpc' = [wpc EXCEPT ![w] = to]
  PROVE  Hands' /\ Basics' /\ Queued' = Queued
<1>1. Queued' = Queued /\ Basics' /\ pc' = pc /\ rc' = rc
  BY SameQueue DEF WorkInv
<1>2. /\ wpc' \in [Workers -> {"idle", "test", "seek", "read", "close"}]
      /\ \A v \in Workers : wpc'[v] = "idle" <=> wpc[v] = "idle"
  BY DEF WorkInv, Hands
<1> QED
  BY <1>1, <1>2 DEF WorkInv, Hands

LEMMA WorkTest ==
  ASSUME WorkInv, NEW w \in Workers, Test(w)
  PROVE  WorkInv'
<1>1. /\ UNCHANGED vars /\ UNCHANGED <<started, running, outcome, job>>
      /\ offset' = offset /\ pos' = pos /\ disk' = disk /\ put' = put /\ failed' = failed
      /\ wpc[w] # "idle" /\ \E to \in {"test", "seek", "read", "close"} : wpc' = [wpc EXCEPT ![w] = to]
  BY DEF Test, Goto
<1>2. Hands' /\ Basics' /\ Queued' = Queued
  BY <1>1, HandsStay
<1> QED
  BY <1>1, <1>2 DEF WorkInv, Numbers

LEMMA WorkSeek ==
  ASSUME WorkInv, NEW w \in Workers, Seek(w)
  PROVE  WorkInv'
<1>1. /\ UNCHANGED vars /\ UNCHANGED <<started, running, outcome, job>>
      /\ offset' = offset /\ disk' = disk /\ put' = put /\ failed' = failed
      /\ wpc[w] # "idle" /\ \E to \in {"test", "seek", "read", "close"} : wpc' = [wpc EXCEPT ![w] = to]
      /\ pos' = [pos EXCEPT ![Source(w)] = offset[w]]
  BY DEF Seek, Goto
<1>2. Hands' /\ Basics' /\ Queued' = Queued
  BY <1>1, HandsStay
<1>3. pos' \in [Files -> Nat]
  BY <1>1 DEF WorkInv, Numbers
<1> QED
  BY <1>1, <1>2, <1>3 DEF WorkInv, Numbers

\* How much a read says it has read, and the buffer that goes with it.
LEMMA GotOp ==
  ASSUME req \in Requests, NEW f \in Files, NEW p \in Nat
  PROVE  /\ Got(f, p) \in Nat /\ p + Chunk \in Nat
         /\ Buffer(f, p) \in Seq(Nat) /\ Len(Buffer(f, p)) = Got(f, p)
         /\ \A i \in 1 .. Got(f, p) : Buffer(f, p)[i] = IF p + i <= req.left[f] THEN p + i ELSE Junk
<1>1. req.left[f] \in Nat /\ Size[f] \in Nat /\ Chunk \in Nat
  BY DumpAssumption
<1>2. PICK e : e = IF f \in Ciphered THEN Size[f] ELSE req.left[f]
  OBVIOUS
<1>3. Got(f, p) = IF f \in Bare \/ p + Chunk <= e THEN Chunk ELSE IF p < e THEN e - p ELSE 0
  BY <1>2 DEF Got
<1>4. Got(f, p) \in Nat /\ p + Chunk \in Nat
  BY <1>1, <1>2, <1>3
<1>5. PICK g : g = Got(f, p)
  OBVIOUS
<1>6. Buffer(f, p) = [i \in 1 .. g |-> IF p + i <= req.left[f] THEN p + i ELSE Junk]
  BY <1>5 DEF Buffer
<1>7. \A i \in 1 .. g : (IF p + i <= req.left[f] THEN p + i ELSE Junk) \in Nat
  BY <1>4, <1>5 DEF Junk
<1>8. Buffer(f, p) \in Seq(Nat) /\ Len(Buffer(f, p)) = g
  BY <1>4, <1>5, <1>6, <1>7
<1> QED
  BY <1>4, <1>5, <1>6, <1>8

\* The host takes some of the buffer; if not all, the file is told of.
LEMMA PutsOp ==
  ASSUME NEW w \in Workers, NEW bytes \in Seq(Nat), Puts(w, bytes)
  PROVE  \E k \in 0 .. Len(bytes) :
           /\ disk' = [disk EXCEPT ![Dest(w)] = Written(@, put[w], SubSeq(bytes, 1, k))]
           /\ put' = [put EXCEPT ![w] = @ + k]
           /\ IF k = Len(bytes) THEN failed' = failed ELSE failed' = failed \cup {Dest(w)}
BY DEF Puts

LEMMA WorkRead ==
  ASSUME WorkInv, req \in Requests, NEW w \in Workers, ReadAndWrite(w), Source(w) \in Files,
         job[w] \in 1 .. started
  PROVE  WorkInv'
<1> DEFINE f == Source(w)
           p == pos[f]
<1>1. /\ UNCHANGED vars /\ UNCHANGED <<started, running, outcome, job>>
      /\ wpc[w] # "idle" /\ \E to \in {"test", "seek", "read", "close"} : wpc' = [wpc EXCEPT ![w] = to]
      /\ pos' = [pos EXCEPT ![f] = @ + Chunk]
      /\ Puts(w, Buffer(f, p))
      /\ offset' = [offset EXCEPT ![w] = @ + Got(f, p)]
  BY DEF ReadAndWrite, Goto
<1>2. Hands' /\ Basics' /\ Queued' = Queued
  BY <1>1, HandsStay
<1>3. p \in Nat
  BY DEF WorkInv, Numbers
<1>4. Got(f, p) \in Nat /\ p + Chunk \in Nat /\ Buffer(f, p) \in Seq(Nat)
  BY <1>3, GotOp
<1> HIDE DEF f
<1>5. pos' \in [Files -> Nat] /\ offset' \in [Workers -> Nat]
  <2>1. offset[w] + Got(f, p) \in Nat
    BY <1>4 DEF WorkInv, Numbers
  <2>2. pos \in [Files -> Nat] /\ offset \in [Workers -> Nat]
    BY DEF WorkInv, Numbers
  <2>3. pos' \in [Files -> Nat]
    BY <1>1, <1>4, <2>2
  <2>4. offset' \in [Workers -> Nat]
    BY <1>1, <2>1, <2>2
  <2> QED
    BY <2>3, <2>4
<1>6. PICK k \in 0 .. Len(Buffer(f, p)) :
        /\ disk' = [disk EXCEPT ![Dest(w)] = Written(@, put[w], SubSeq(Buffer(f, p), 1, k))]
        /\ put' = [put EXCEPT ![w] = @ + k]
        /\ IF k = Len(Buffer(f, p)) THEN failed' = failed ELSE failed' = failed \cup {Dest(w)}
  BY <1>1, <1>4, PutsOp
<1>7. DOMAIN disk' = DOMAIN disk
  BY <1>6
<1>8. put' \in [Workers -> Nat]
  <2>1. k \in Nat
    BY <1>4
  <2>2. put[w] + k \in Nat /\ put \in [Workers -> Nat]
    BY <2>1 DEF WorkInv, Numbers
  <2> QED
    BY <1>6, <2>2
<1>9. failed' \subseteq {Queued[i] : i \in 1 .. started}
  BY <1>6 DEF Dest, WorkInv, Numbers
<1> QED
  BY <1>1, <1>2, <1>5, <1>7, <1>8, <1>9 DEF WorkInv, Numbers

-----------------------------------------------------------------------------
(* The queue and the files it leads to.                                    *)

\* A queued path is one that was visited as a file.
LEMMA QueueReady ==
  ASSUME WalkInv
  PROVE  /\ Len(Queued) \in Nat /\ DOMAIN Queued = 1 .. Len(Queued)
         /\ \A i \in 1 .. Len(Queued) :
              /\ Queued[i] \in Seq(Names) /\ Queued[i] \in DOMAIN files
              /\ \E j \in DOMAIN visited :
                   req.cmd = "dump" /\ visited[j].kind = "file" /\ visited[j].path = Queued[i]
         /\ req.cmd = "dump" => \A j \in DOMAIN visited : visited[j].kind = "file" =>
              \E i \in 1 .. Len(Queued) : Queued[i] = visited[j].path
<1> DEFINE o == InOrder(JobsOf(req, visited))
<1>1. visited \in Seq(Visits) /\ MapsOK
  BY DEF WalkInv, Shape
<1>2. Queued = QueueOf(req, visited)
  BY QueuedIs
<1>3. /\ Len(Queued) \in Nat /\ DOMAIN Queued = 1 .. Len(Queued)
      /\ \A i \in 1 .. Len(Queued) : o[i] \in JobsOf(req, visited) /\ Queued[i] = visited[o[i]].path
      /\ \A j \in JobsOf(req, visited) : \E i \in 1 .. Len(Queued) : o[i] = j
  <2>1. /\ Len(QueueOf(req, visited)) \in Nat
        /\ DOMAIN QueueOf(req, visited) = 1 .. Len(QueueOf(req, visited))
        /\ \A i \in 1 .. Len(QueueOf(req, visited)) :
             o[i] \in JobsOf(req, visited) /\ QueueOf(req, visited)[i] = visited[o[i]].path
        /\ \A j \in JobsOf(req, visited) : \E i \in 1 .. Len(QueueOf(req, visited)) : o[i] = j
    BY <1>1, QueueOp
  <2> HIDE DEF o
  <2> QED
    BY <1>2, <2>1
<1> HIDE DEF o
<1>4. ASSUME NEW i \in 1 .. Len(Queued)
      PROVE  /\ Queued[i] \in Seq(Names) /\ Queued[i] \in DOMAIN files
             /\ \E j \in DOMAIN visited :
                  req.cmd = "dump" /\ visited[j].kind = "file" /\ visited[j].path = Queued[i]
  <2>1. PICK j : j = o[i]
    OBVIOUS
  <2>2. j \in DOMAIN visited /\ req.cmd = "dump" /\ visited[j].kind = "file" /\ Queued[i] = visited[j].path
    BY <1>3, <2>1 DEF JobsOf
  <2>3. visited[j].path \in DOMAIN files
    BY <2>2 DEF WalkInv, JobsReady
  <2> QED
    BY <1>1, <2>2, <2>3 DEF MapsOK
<1>5. ASSUME req.cmd = "dump", NEW j \in DOMAIN visited, visited[j].kind = "file"
      PROVE  \E i \in 1 .. Len(Queued) : Queued[i] = visited[j].path
  <2>1. j \in JobsOf(req, visited)
    BY <1>5 DEF JobsOf
  <2> QED
    BY <1>3, <2>1
<1> QED
  BY <1>3, <1>4, <1>5

LEMMA FileType ==
  ASSUME MapsOK, NEW p \in DOMAIN files
  PROVE  files[p] \in Files
<1>1. PICK q \in DOMAIN folders : \E i \in DOMAIN Leaves[folders[q]] :
        files[p] = Leaves[folders[q]][i].node
  BY DEF MapsOK, Within
<1>2. PICK i \in DOMAIN Leaves[folders[q]] : files[p] = Leaves[folders[q]][i].node
  BY <1>1
<1>3. Leaves[folders[q]] \in Seq([name : STRING, node : Files])
  BY KidsType DEF MapsOK
<1>4. Leaves[folders[q]][i] \in [name : STRING, node : Files]
  BY <1>3, ElementOp
<1> QED
  BY <1>2, <1>4

\* A worker at work has a job of the queue.
LEMMA HasJob ==
  ASSUME WalkInv, Hands, NEW w \in Workers, job[w] # 0
  PROVE  /\ job[w] \in 1 .. started /\ job[w] \in 1 .. Len(Queued) /\ job[w] \in running
         /\ Dest(w) \in DOMAIN files /\ Source(w) \in Files
<1>1. Len(Queued) \in Nat /\ \A i \in 1 .. Len(Queued) : Queued[i] \in DOMAIN files
  BY QueueReady
<1>2. PICK n, j : n = Len(Queued) /\ j = job[w]
  OBVIOUS
<1>3. n \in Nat /\ started \in 0 .. n /\ j \in 0 .. started /\ j # 0
  BY <1>1, <1>2 DEF Hands
<1>4. j \in 1 .. started /\ j \in 1 .. n
  BY <1>3
<1>5. j \in running
  BY <1>2, <1>3 DEF Hands
<1>6. Dest(w) \in DOMAIN files
  BY <1>1, <1>2, <1>4 DEF Dest
<1>7. Source(w) \in Files
  BY <1>6, FileType DEF Source, WalkInv
<1> QED
  BY <1>2, <1>4, <1>5, <1>6, <1>7

LEMMA WorkInit ==
  ASSUME DumpInit
  PROVE  WorkInv
<1>1. /\ Init /\ started = 0 /\ running = {} /\ outcome = "busy"
      /\ job = [w \in Workers |-> 0] /\ wpc = [w \in Workers |-> "idle"]
      /\ offset = [w \in Workers |-> 0] /\ pos = [f \in Files |-> 0]
      /\ DOMAIN disk = {} /\ put = [w \in Workers |-> 0] /\ failed = {}
  BY DEF DumpInit
<1>2. Len(Queued) \in Nat
  BY <1>1, WalkInit, QueueReady
<1>3. Basics
  <2>1. Len(<<>>) = 0 /\ 0 \in 0 .. 0
    OBVIOUS
  <2> QED
    BY <1>1, <2>1 DEF Init, Basics, PCs
<1>4. Hands
  <2>1. 0 \in 0 .. Len(Queued) /\ 0 \in 0 .. 0
    BY <1>2
  <2>2. running = {job[w] : w \in Workers} \ {0}
    BY <1>1
  <2> QED
    BY <1>1, <2>1, <2>2 DEF Hands
<1>5. Numbers
  BY <1>1 DEF Numbers
<1> QED
  BY <1>3, <1>4, <1>5 DEF WorkInv

\* Every step of a worker is one of these, and leaves the walk alone.
LEMMA WorkerLeaves ==
  ASSUME NEW w \in Workers, WorkerStep(w)
  PROVE  UNCHANGED vars
BY DEF WorkerStep, Open, Test, Seek, ReadAndWrite, Close

LEMMA WorkKeeps ==
  ASSUME WalkInv, WorkInv, [DumpNext]_dumpVars
  PROVE  WorkInv'
<1>1. CASE WalkStep
  BY <1>1, WorkWalk
<1>2. CASE Returns
  BY <1>2, WorkReturns
<1>3. ASSUME NEW w \in Workers, WorkerStep(w)
      PROVE  WorkInv'
  <2>1. CASE Open(w)
    BY <2>1, WorkOpen, QueueReady
  <2>2. CASE Test(w)
    BY <2>2, WorkTest
  <2>3. CASE Seek(w)
    BY <2>3, WorkSeek
  <2>4. CASE ReadAndWrite(w)
    <3>1. wpc[w] # "idle"
      BY <2>4 DEF ReadAndWrite, Goto
    <3>2. Source(w) \in Files /\ job[w] \in 1 .. started
      BY <3>1, HasJob DEF WorkInv, Hands
    <3> QED
      BY <2>4, <3>2, WorkRead DEF WalkInv, Shape
  <2>5. CASE Close(w)
    BY <2>5, WorkClose
  <2> QED
    BY <1>3, <2>1, <2>2, <2>3, <2>4, <2>5 DEF WorkerStep
<1>4. CASE UNCHANGED dumpVars
  <2>1. /\ UNCHANGED vars /\ job' = job /\ wpc' = wpc /\ offset' = offset /\ pos' = pos
        /\ disk' = disk /\ started' = started /\ running' = running /\ outcome' = outcome
        /\ put' = put /\ failed' = failed
    BY <1>4 DEF dumpVars, workerVars
  <2>2. Queued' = Queued /\ Basics' /\ pc' = pc /\ rc' = rc
    BY <2>1, SameQueue DEF WorkInv
  <2>3. Hands'
    BY <2>1, <2>2 DEF WorkInv, Hands
  <2>4. Numbers'
    BY <2>1, <2>2 DEF WorkInv, Numbers
  <2> QED
    BY <2>2, <2>3, <2>4 DEF WorkInv
<1> QED
  BY <1>1, <1>2, <1>3, <1>4 DEF DumpNext, RunStep

LEMMA DumpSteps == [DumpNext]_dumpVars => [WalkNext]_vars
BY DEF DumpNext, RunStep, WalkStep, Returns, WorkerStep, Open, Test, Seek, ReadAndWrite, Close, dumpVars

LEMMA WorkTypes ==
  ASSUME WalkInv, WorkInv
  PROVE  DumpTypeOK
<1>1. TypeOK
  BY WalkTypes DEF WorkInv
<1>2. Len(Queued) \in Nat /\ DOMAIN Queued = 1 .. Len(Queued)
  BY QueueReady
<1>3. started \in 0 .. Len(Queued) /\ \A i \in 1 .. started : i \in 1 .. Len(Queued)
  <2>1. PICK n : n = Len(Queued)
    OBVIOUS
  <2>2. started \in 0 .. n /\ n \in Nat
    BY <1>2, <2>1 DEF WorkInv, Hands
  <2> QED
    BY <2>1, <2>2
<1>4. DOMAIN disk \subseteq ToSet(Queued) /\ failed \subseteq ToSet(Queued)
  BY <1>2, <1>3 DEF WorkInv, Numbers, ToSet
<1>5. running \subseteq 1 .. started
  <2>1. \A w \in Workers : job[w] \in 0 .. started
    BY DEF WorkInv, Hands
  <2>2. \A i \in 0 .. started : i # 0 => i \in 1 .. started
    BY <1>3
  <2> QED
    BY <2>1, <2>2 DEF WorkInv, Hands
<1> QED
  BY <1>1, <1>3, <1>4, <1>5 DEF DumpTypeOK, WorkInv, Hands, Numbers

\* The state of a command, its queue and its workers has its type, for any tree,
\* requests, workers and sizes, also when one file is copied by two workers.
THEOREM DumpTypes == DumpSpec => []DumpTypeOK
<1>1. DumpInit => WalkInv /\ WorkInv
  BY WorkInit, WalkInit DEF DumpInit
<1>2. WalkInv /\ WorkInv /\ [DumpNext]_dumpVars => (WalkInv /\ WorkInv)'
  BY WorkKeeps, WalkKeeps, DumpSteps
<1>3. WalkInv /\ WorkInv => DumpTypeOK
  BY WorkTypes
<1> QED
  BY <1>1, <1>2, <1>3, PTL DEF DumpSpec

-----------------------------------------------------------------------------
(* Each file is queued once.                                               *)

\* No two paths of a dump ask for one file.
Disjoint ==
  \A r \in Requests : r.cmd = "dump" =>
    \A i, j \in DOMAIN r.paths : \A p :
      FileEntry(p) \in Asked(r, r.paths[i]) /\ FileEntry(p) \in Asked(r, r.paths[j]) => i = j

FilesOnce ==
  req.cmd = "dump" =>
    \A i, j \in DOMAIN visited : visited[i].kind = "file" /\ visited[i] = visited[j] => i = j

\* A walk that goes on, or has done all.
Settled == pc # "done" \/ rc = "0"

\* Two among the first b visits are counted twice.
LEMMA CountsTwo ==
  ASSUME NEW b \in Nat, NEW s, NEW i \in 1 .. b, NEW j \in 1 .. b, i # j, NEW e, s[i] = e, s[j] = e
  PROVE  Times(s, b, e) \in Nat /\ Times(s, b, e) >= 2
<1> DEFINE S == {k \in 1 .. b : s[k] = e}
<1>1. IsFiniteSet(S) /\ {i, j} \subseteq S
  <2>1. IsFiniteSet(1 .. b)
    BY FS_Interval
  <2>2. S \subseteq 1 .. b
    OBVIOUS
  <2> HIDE DEF S
  <2>3. IsFiniteSet(S)
    BY <2>1, <2>2, FS_Subset
  <2> QED
    BY <2>3 DEF S
<1>2. Times(s, b, e) = Cardinality(S)
  BY DEF Times
<1>3. Cardinality({i, j}) = 2
  <2>1. IsFiniteSet({i}) /\ Cardinality({i}) = 1
    BY FS_Singleton
  <2>2. j \notin {i} /\ {i} \cup {j} = {i, j}
    OBVIOUS
  <2>3. Cardinality({i} \cup {j}) = Cardinality({i}) + 1
    BY <2>1, <2>2, FS_AddElement
  <2> QED
    BY <2>1, <2>2, <2>3
<1> HIDE DEF S
<1>4. Cardinality(S) \in Nat /\ Cardinality({i, j}) <= Cardinality(S)
  BY <1>1, FS_Subset, FS_CardinalityType
<1> QED
  BY <1>2, <1>3, <1>4

\* Of a file at most one path asks.
LEMMA AsksOnce ==
  ASSUME Disjoint, NEW r \in Requests, r.cmd = "dump", NEW t \in Nat, 1 .. t \subseteq DOMAIN r.paths, NEW p
  PROVE  Asks(r, t, FileEntry(p)) \in Nat /\ Asks(r, t, FileEntry(p)) <= 1
<1> DEFINE S == {i \in 1 .. t : FileEntry(p) \in Asked(r, r.paths[i])}
<1>1. Asks(r, t, FileEntry(p)) = Cardinality(S)
  BY DEF Asks
<1>2. \A i, j \in S : i = j
  BY DEF Disjoint
<1>3. S = {} \/ \E i : S = {i}
  <2> SUFFICES ASSUME S # {} PROVE \E i : S = {i}
    OBVIOUS
  <2>1. PICK i : i \in S
    OBVIOUS
  <2>2. \A j \in S : j = i
    BY <1>2, <2>1
  <2> HIDE DEF S
  <2>3. S = {i}
    BY <2>1, <2>2
  <2> QED
    BY <2>3
<1> HIDE DEF S
<1>4. CASE S = {}
  BY <1>1, <1>4, FS_EmptySet
<1>5. CASE \E i : S = {i}
  <2>1. PICK i : S = {i}
    BY <1>5
  <2>2. Cardinality({i}) = 1
    BY FS_Singleton
  <2> QED
    BY <1>1, <2>1, <2>2
<1> QED
  BY <1>3, <1>4, <1>5

\* Those visited for the first t paths, and those for the next one.
LEMMA OnceOf ==
  ASSUME Disjoint, NEW r \in Requests, r.cmd = "dump", NEW s \in Seq(Visits), NEW t \in Nat,
         1 .. t \subseteq DOMAIN r.paths, NEW b \in 0 .. Len(s), Counted(s, b, r, t), Once(s, b),
         b # Len(s) => t + 1 \in DOMAIN r.paths /\ Since(s, b) \subseteq Asked(r, r.paths[t + 1])
  PROVE  \A i, j \in DOMAIN s : s[i].kind = "file" /\ s[i] = s[j] => i = j
<1>1. Len(s) \in Nat /\ DOMAIN s = 1 .. Len(s) /\ b \in Nat
  OBVIOUS
<1>2. ASSUME NEW i \in 1 .. Len(s), s[i].kind = "file"
      PROVE  s[i] = FileEntry(s[i].path)
  <2>1. s[i] \in Visits
    BY <1>1, ElementOp
  <2> QED
    BY <1>2, <2>1 DEF Visits, FileEntry
<1>3. ASSUME NEW i \in 1 .. b, NEW j \in 1 .. Len(s), s[i].kind = "file", s[i] = s[j], i # j
      PROVE  FALSE
  <2>1. PICK p : s[i] = FileEntry(p)
    <3>1. PICK n : n = Len(s)
      OBVIOUS
    <3>2. n \in Nat /\ b \in 0 .. n
      BY <1>1, <3>1
    <3>3. i \in 1 .. n
      BY <3>2
    <3>4. i \in 1 .. Len(s) /\ s[i].kind = "file"
      BY <1>3, <3>1, <3>3
    <3> QED
      BY <1>2, <3>4
  <2>2. PICK e : e = FileEntry(p)
    OBVIOUS
  <2>3. Times(s, b, e) = Asks(r, t, e)
    BY DEF Counted
  <2>4. Asks(r, t, e) \in Nat /\ Asks(r, t, e) <= 1
    BY <2>2, AsksOnce
  <2>5. CASE j \in 1 .. b
    <3>1. Times(s, b, e) \in Nat /\ Times(s, b, e) >= 2
      BY <1>1, <1>3, <2>1, <2>2, <2>5, CountsTwo
    <3> QED
      BY <2>3, <2>4, <3>1
  <2>6. CASE j \notin 1 .. b
    <3>1. j \in b + 1 .. Len(s) /\ b # Len(s)
      BY <1>1, <2>6
    <3>2. e \in Since(s, b)
      BY <1>3, <2>1, <2>2, <3>1 DEF Since
    <3>3. t + 1 \in DOMAIN r.paths /\ e \in Asked(r, r.paths[t + 1])
      BY <3>1, <3>2
    <3>4. Times(s, b, e) # 0
      <4>1. \E k \in 1 .. b : s[k] = e
        BY <2>1, <2>2
      <4> QED
        BY <1>1, <4>1, TimesOp
    <3>5. PICK k \in 1 .. t : e \in Asked(r, r.paths[k])
      BY <2>3, <3>4, AsksOp
    <3>6. k = t + 1
      BY <2>2, <3>3, <3>5 DEF Disjoint
    <3> QED
      BY <3>6
  <2> QED
    BY <2>5, <2>6
<1>4. ASSUME NEW i \in b + 1 .. Len(s), NEW j \in b + 1 .. Len(s), s[i] = s[j]
      PROVE  i = j
  BY <1>4 DEF Once
<1>5. \A i \in 1 .. Len(s) : i \in 1 .. b \/ i \in b + 1 .. Len(s)
  BY <1>1
<1> SUFFICES ASSUME NEW i \in 1 .. Len(s), NEW j \in 1 .. Len(s), s[i].kind = "file", s[i] = s[j]
             PROVE  i = j
  BY <1>1
<1> QED
  BY <1>3, <1>4, <1>5

LEMMA ToldOnce ==
  ASSUME Rooted, Disjoint, ToldInv, Settled
  PROVE  FilesOnce
<1> SUFFICES ASSUME req.cmd = "dump"
             PROVE  \A i, j \in DOMAIN visited : visited[i].kind = "file" /\ visited[i] = visited[j] => i = j
  BY DEF FilesOnce
<1>1. /\ req \in Requests /\ visited \in Seq(Visits) /\ Len(visited) \in Nat
      /\ Len(req.paths) \in Nat /\ DOMAIN req.paths = 1 .. Len(req.paths) /\ turn \in 0 .. Len(req.paths)
  <2>1. req \in Requests /\ visited \in Seq(Visits) /\ turn \in 0 .. Len(req.paths)
    BY DEF ToldInv, WalkInv, Shape
  <2>2. Len(req.paths) \in Nat /\ DOMAIN req.paths = 1 .. Len(req.paths)
    BY <2>1, RequestOp
  <2> QED
    BY <2>1, <2>2
<1>2. PICK n : n = Len(req.paths)
  OBVIOUS
<1>3. n \in Nat /\ turn \in 0 .. n /\ DOMAIN req.paths = 1 .. n
  BY <1>1, <1>2
<1>4. ASSUME NEW t \in 0 .. n, Counted(visited, Len(visited), req, t)
      PROVE  \A i, j \in DOMAIN visited : visited[i].kind = "file" /\ visited[i] = visited[j] => i = j
  <2>1. PICK b : b = Len(visited)
    OBVIOUS
  <2>2. /\ b \in 0 .. Len(visited) /\ Once(visited, b) /\ Counted(visited, b, req, t)
        /\ t \in Nat /\ 1 .. t \subseteq DOMAIN req.paths
    BY <1>1, <1>3, <1>4, <2>1 DEF Once
  <2> QED
    BY <1>1, <2>1, <2>2, OnceOf
<1>5. CASE pc = "next"
  BY <1>3, <1>4, <1>5 DEF ToldInv, Told
<1>6. CASE pc \in {"lookup", "found", "missing"}
  <2>1. turn # 0 /\ Counted(visited, Len(visited), req, turn - 1)
    BY <1>6 DEF ToldInv, Told, WalkInv, Shape
  <2>2. turn - 1 \in 0 .. n
    BY <1>3, <2>1
  <2> QED
    BY <1>4, <2>1, <2>2
<1>7. CASE pc = "walk"
  <2>1. Walking
    BY <1>7 DEF ToldInv, Told
  <2>2. PICK base \in Folders, b \in 0 .. Len(visited) : Going(req, turn, Path, base, visited, b, stack)
    BY <2>1 DEF Walking
  <2>3. /\ Once(visited, b) /\ Counted(visited, b, req, turn - 1)
        /\ Since(visited, b) \subseteq Asked(req, req.paths[turn])
    BY <2>2 DEF Going, Path
  <2>4. PICK t : t = turn - 1
    OBVIOUS
  <2>5. t \in Nat /\ t + 1 = turn /\ turn \in 1 .. n /\ 1 .. t \subseteq 1 .. n
    BY <1>3, <2>1, <2>4 DEF Walking
  <2>6. Counted(visited, b, req, t)
    BY <2>3, <2>4
  <2>7. t + 1 \in DOMAIN req.paths /\ Since(visited, b) \subseteq Asked(req, req.paths[t + 1])
    BY <1>3, <2>3, <2>5
  <2>8. 1 .. t \subseteq DOMAIN req.paths
    BY <1>3, <2>5
  <2> QED
    BY <1>1, <2>3, <2>5, <2>6, <2>7, <2>8, OnceOf
<1>8. CASE rc = "0"
  <2>1. Counted(visited, Len(visited), req, n)
    BY <1>2, <1>8 DEF ToldInv, Told, Done
  <2> QED
    BY <1>3, <1>4, <2>1
<1> QED
  BY <1>5, <1>6, <1>7, <1>8 DEF ToldInv, Told, PCs, Settled

\* A dump that fails visits no more files.
LEMMA OnceKeeps ==
  ASSUME WalkInv, FilesOnce, [WalkNext]_vars, Settled' => FilesOnce'
  PROVE  FilesOnce'
<1>1. CASE UNCHANGED vars
  BY <1>1 DEF vars, FilesOnce
<1>2. CASE WalkNext
  <2>1. Moves /\ req' = req /\ visited \in Seq(Visits)
    BY <1>2, WalkMoves
  <2> SUFFICES ASSUME ~Settled', req.cmd = "dump"
               PROVE  FilesOnce'
    BY <2>1 DEF FilesOnce
  <2>2. CASE visited' = visited
    BY <2>1, <2>2 DEF FilesOnce
  <2>3. CASE \E path : Visit("folder", path, visited', matched')
    <3>1. PICK path : Visit("folder", path, visited', matched')
      BY <2>3
    <3>2. PICK e : e = [kind |-> "folder", path |-> path]
      OBVIOUS
    <3>3. visited' = Append(visited, e) /\ e.kind = "folder" /\ e \in Visits
      BY <3>1, <3>2 DEF Visit, Visits
    <3>4. /\ DOMAIN visited = 1 .. Len(visited) /\ Len(visited) \in Nat
          /\ DOMAIN visited' = 1 .. Len(visited) + 1
          /\ \A i \in 1 .. Len(visited) : visited'[i] = visited[i]
          /\ visited'[Len(visited) + 1] = e
      BY <2>1, <3>3, AppendOp
    <3>5. ASSUME NEW i \in DOMAIN visited', NEW j \in DOMAIN visited', visited'[i].kind = "file",
                 visited'[i] = visited'[j]
          PROVE  i = j
      <4>1. \A k \in DOMAIN visited' : visited'[k].kind = "file" => k \in DOMAIN visited
        BY <3>3, <3>4
      <4>2. i \in DOMAIN visited /\ j \in DOMAIN visited
        BY <3>5, <4>1
      <4>3. visited[i] = visited'[i] /\ visited[j] = visited'[j]
        BY <3>4, <4>2
      <4> QED
        BY <3>5, <4>2, <4>3 DEF FilesOnce
    <3> QED
      BY <2>1, <3>5 DEF FilesOnce
  <2> QED
    BY <2>1, <2>2, <2>3 DEF Moves, Settled
<1> QED
  BY <1>1, <1>2

\* Where each file is queued once, no two jobs have one file.
LEMMA QueueOnce ==
  ASSUME WalkInv, FilesOnce
  PROVE  \A i, j \in 1 .. Len(Queued) : Queued[i] = Queued[j] => i = j
<1> DEFINE o == InOrder(JobsOf(req, visited))
<1>1. visited \in Seq(Visits)
  BY DEF WalkInv, Shape
<1>2. Queued = QueueOf(req, visited)
  BY QueuedIs
<1>3. /\ \A i \in 1 .. Len(Queued) : o[i] \in JobsOf(req, visited) /\ Queued[i] = visited[o[i]].path
      /\ \A i, j \in 1 .. Len(Queued) : o[i] = o[j] => i = j
  <2>1. /\ \A i \in 1 .. Len(QueueOf(req, visited)) :
             o[i] \in JobsOf(req, visited) /\ QueueOf(req, visited)[i] = visited[o[i]].path
        /\ \A i, j \in 1 .. Len(QueueOf(req, visited)) : o[i] = o[j] => i = j
    BY <1>1, QueueOp
  <2> HIDE DEF o
  <2> QED
    BY <1>2, <2>1
<1> HIDE DEF o
<1> SUFFICES ASSUME NEW i \in 1 .. Len(Queued), NEW j \in 1 .. Len(Queued), Queued[i] = Queued[j]
             PROVE  i = j
  OBVIOUS
<1>4. PICK k, l : k = o[i] /\ l = o[j]
  OBVIOUS
<1>5. k \in JobsOf(req, visited) /\ l \in JobsOf(req, visited) /\ visited[k].path = visited[l].path
  BY <1>3, <1>4
<1>6. /\ k \in DOMAIN visited /\ l \in DOMAIN visited /\ req.cmd = "dump"
      /\ visited[k].kind = "file" /\ visited[l].kind = "file"
  BY <1>5 DEF JobsOf
<1>7. visited[k] = visited[l]
  <2>1. visited[k] \in Visits /\ visited[l] \in Visits
    BY <1>1, <1>6, ElementOp
  <2> QED
    BY <1>5, <1>6, <2>1 DEF Visits
<1>8. k = l
  BY <1>6, <1>7 DEF FilesOnce
<1> QED
  BY <1>3, <1>4, <1>8

\* Different paths lead to different files.
LEMMA FileApart ==
  ASSUME MapsOK, NEW p \in DOMAIN files, NEW q \in DOMAIN files, files[p] = files[q]
  PROVE  p = q
<1>1. PICK x \in DOMAIN folders : \E i \in DOMAIN Leaves[folders[x]] :
        p = Append(x, Leaves[folders[x]][i].name) /\ files[p] = Leaves[folders[x]][i].node
  BY DEF MapsOK, Within
<1>2. PICK i \in DOMAIN Leaves[folders[x]] :
        p = Append(x, Leaves[folders[x]][i].name) /\ files[p] = Leaves[folders[x]][i].node
  BY <1>1
<1>3. PICK y \in DOMAIN folders : \E j \in DOMAIN Leaves[folders[y]] :
        q = Append(y, Leaves[folders[y]][j].name) /\ files[q] = Leaves[folders[y]][j].node
  BY DEF MapsOK, Within
<1>4. PICK j \in DOMAIN Leaves[folders[y]] :
        q = Append(y, Leaves[folders[y]][j].name) /\ files[q] = Leaves[folders[y]][j].node
  BY <1>3
<1>5. folders[x] = folders[y] /\ i = j
  BY <1>2, <1>4, TreeAssumption DEF MapsOK
<1>6. x = y
  BY <1>5 DEF MapsOK
<1> QED
  BY <1>2, <1>4, <1>5, <1>6

-----------------------------------------------------------------------------
(* The copy loop.                                                          *)

\* The first n bytes of a copy, when the archive has a of them.
Content(a, n) == [i \in 1 .. n |-> IF i <= a THEN i ELSE Junk]

\* The offsets a copy loop comes to, by the layers under the file.
Reached(f, a, n) ==
  /\ n \in Nat
  /\ f \in Bare => n < Size[f] + Chunk /\ \E k \in 0 .. Size[f] : n = k * Chunk
  /\ f \in Ciphered \ Bare => n <= Size[f]
  /\ f \notin Ciphered => n <= a

\* What a worker that writes a file has written.
Copying(w) ==
  LET f == Source(w)
  IN  /\ Reached(f, req.left[f], offset[w])
      /\ Dest(w) \notin failed => put[w] = offset[w] /\ disk[Dest(w)] = Content(req.left[f], offset[w])
      /\ wpc[w] \in {"seek", "read"} => offset[w] < Size[f]
      /\ wpc[w] = "read" => pos[f] = offset[w]
      /\ wpc[w] = "close" => offset[w] >= Size[f]

\* A copy that came to the end of its file.
Ended(f, a, n) == n \in Lengths(f) /\ (f \notin Ciphered => a = Size[f])

Copied(i) ==
  Queued[i] \notin failed =>
    LET f == files[Queued[i]]
    IN  \E n : Ended(f, req.left[f], n) /\ disk[Queued[i]] = Content(req.left[f], n)

Copies ==
  /\ \A w \in Workers : wpc[w] \in {"test", "seek", "read"} => Dest(w) \in DOMAIN disk
  /\ \A w \in Workers : job[w] # 0 /\ Dest(w) \in DOMAIN disk => Copying(w)
  /\ \A i \in 1 .. started : Queued[i] \in DOMAIN disk /\ i \notin running => Copied(i)

\* No two jobs write one file.
Apart == \A i, j \in 1 .. Len(Queued) : Queued[i] = Queued[j] => i = j

LEMMA OthersApart ==
  ASSUME WalkInv, Hands, Apart, NEW v \in Workers, NEW w \in Workers, v # w, job[v] # 0, job[w] # 0
  PROVE  Dest(v) # Dest(w) /\ Source(v) # Source(w)
<1>1. job[v] \in 1 .. Len(Queued) /\ job[w] \in 1 .. Len(Queued) /\ job[v] # job[w]
  BY HasJob DEF Hands
<1>2. Dest(v) # Dest(w)
  BY <1>1 DEF Apart, Dest
<1>3. Dest(v) \in DOMAIN files /\ Dest(w) \in DOMAIN files
  BY HasJob
<1> QED
  BY <1>2, <1>3, FileApart DEF Source, WalkInv

\* What is written after what is there.
LEMMA WrittenOp ==
  ASSUME req \in Requests, NEW f \in Files, NEW n \in Nat
  PROVE  Written(Content(req.left[f], n), n, Buffer(f, n)) = Content(req.left[f], n + Got(f, n))
<1> DEFINE old == Content(req.left[f], n)
           more == Buffer(f, n)
           g == Got(f, n)
<1>1. req.left[f] \in Nat /\ g \in Nat
  BY GotOp, DumpAssumption
<1>2. Len(old) = n /\ Len(more) = g
  <2>1. \A i \in 1 .. n : (IF i <= req.left[f] THEN i ELSE Junk) \in Nat
    BY DEF Junk
  <2>2. old \in Seq(Nat)
    BY <2>1 DEF Content
  <2> QED
    BY <2>2, GotOp DEF Content
<1>3. \A i \in 1 .. n : old[i] = IF i <= req.left[f] THEN i ELSE Junk
  BY DEF Content
<1>4. \A i \in 1 .. g : more[i] = IF n + i <= req.left[f] THEN n + i ELSE Junk
  BY GotOp
<1> HIDE DEF old, more, g
<1>5. PICK length : length = IF n + Len(more) > Len(old) THEN n + Len(more) ELSE Len(old)
  OBVIOUS
<1>6. length = n + g
  BY <1>1, <1>2, <1>5
<1>7. Written(old, n, more) =
        [i \in 1 .. length |-> IF i \in n + 1 .. n + Len(more) THEN more[i - n]
                               ELSE IF i <= Len(old) THEN old[i] ELSE Junk]
  BY <1>5 DEF Written
<1>8. ASSUME NEW i \in 1 .. length
      PROVE  (IF i \in n + 1 .. n + Len(more) THEN more[i - n]
              ELSE IF i <= Len(old) THEN old[i] ELSE Junk) = IF i <= req.left[f] THEN i ELSE Junk
  <2>1. CASE i \in n + 1 .. n + g
    <3>1. i - n \in 1 .. g /\ n + (i - n) = i
      BY <1>1, <2>1
    <3>2. more[i - n] = IF i <= req.left[f] THEN i ELSE Junk
      BY <1>4, <3>1
    <3> QED
      BY <1>2, <2>1, <3>2
  <2>2. CASE i \notin n + 1 .. n + g
    <3>1. i \in 1 .. n /\ i <= n
      BY <1>1, <1>6, <2>2
    <3> QED
      BY <1>2, <1>3, <2>2, <3>1
  <2> QED
    BY <2>1, <2>2
<1>9. Written(old, n, more) = [i \in 1 .. length |-> IF i <= req.left[f] THEN i ELSE Junk]
  BY <1>7, <1>8
<1> QED
  BY <1>6, <1>9 DEF Content, old, more, g

\* The loop begins at 0.
LEMMA ReachedFirst ==
  ASSUME req \in Requests, NEW f \in Files
  PROVE  Reached(f, req.left[f], 0) /\ Content(req.left[f], 0) = <<>>
<1>1. Size[f] \in Nat /\ req.left[f] \in Nat /\ Chunk \in Nat \ {0}
  BY DumpAssumption
<1>2. 0 \in 0 .. Size[f] /\ 0 = 0 * Chunk /\ 0 < Size[f] + Chunk
  BY <1>1
<1>3. Reached(f, req.left[f], 0)
  BY <1>1, <1>2 DEF Reached
<1> QED
  BY <1>3 DEF Content

\* One chunk more than k of them.
LEMMA ChunkMore ==
  ASSUME NEW k \in Nat, NEW c \in Nat \ {0}
  PROVE  k <= k * c /\ (k + 1) * c = k * c + c
OBVIOUS

\* ... and goes on, while it is before the end, by what the layers say.
LEMMA ReachedNext ==
  ASSUME req \in Requests, NEW f \in Files, NEW n, Reached(f, req.left[f], n), n < Size[f]
  PROVE  Reached(f, req.left[f], n + Got(f, n))
<1>1. PICK s, a, c : s = Size[f] /\ a = req.left[f] /\ c = Chunk
  OBVIOUS
<1>2. s \in Nat /\ a \in 0 .. s /\ c \in Nat \ {0} /\ Bare \subseteq Ciphered
  BY <1>1, DumpAssumption
<1>3. n \in Nat /\ n < s
  BY <1>1 DEF Reached
<1>4. CASE f \in Bare
  <2>1. Got(f, n) = c
    BY <1>1, <1>4 DEF Got
  <2>2. PICK k \in 0 .. s : n = k * c
    BY <1>1, <1>4 DEF Reached
  <2>3. k \in Nat /\ k <= k * c /\ (k + 1) * c = k * c + c
    BY <1>2, <2>2, ChunkMore
  <2>4. k + 1 \in 0 .. s /\ n + c = (k + 1) * c
    BY <1>2, <1>3, <2>2, <2>3
  <2>5. n + c \in Nat /\ n + c < s + c
    BY <1>2, <1>3
  <2> QED
    BY <1>1, <1>2, <1>4, <2>1, <2>4, <2>5 DEF Reached
<1>5. CASE f \in Ciphered \ Bare
  <2>1. Got(f, n) = IF n + c <= s THEN c ELSE IF n < s THEN s - n ELSE 0
    BY <1>1, <1>5 DEF Got
  <2>2. n + Got(f, n) \in Nat /\ n + Got(f, n) <= s
    BY <1>2, <1>3, <2>1
  <2> QED
    BY <1>1, <1>5, <2>2 DEF Reached
<1>6. CASE f \notin Ciphered
  <2>1. f \notin Bare
    BY <1>2, <1>6
  <2>2. Got(f, n) = IF n + c <= a THEN c ELSE IF n < a THEN a - n ELSE 0
    BY <1>1, <1>6, <2>1 DEF Got
  <2>3. n <= a
    BY <1>1, <1>6 DEF Reached
  <2>4. n + Got(f, n) \in Nat /\ n + Got(f, n) <= a
    BY <1>2, <1>3, <2>2, <2>3
  <2> QED
    BY <1>1, <1>6, <2>1, <2>4 DEF Reached
<1> QED
  BY <1>4, <1>5, <1>6

LEMMA ReachedEnd ==
  ASSUME req \in Requests, NEW f \in Files, NEW n, Reached(f, req.left[f], n), n >= Size[f]
  PROVE  Ended(f, req.left[f], n)
<1>1. PICK s, a, c : s = Size[f] /\ a = req.left[f] /\ c = Chunk
  OBVIOUS
<1>2. s \in Nat /\ a \in 0 .. s /\ c \in Nat \ {0} /\ Bare \subseteq Ciphered
  BY <1>1, DumpAssumption
<1>3. n \in Nat /\ n >= s
  BY <1>1 DEF Reached
<1>4. CASE f \in Bare
  <2>1. n < s + c /\ \E k \in 0 .. s : n = k * c
    BY <1>1, <1>4 DEF Reached
  <2>2. n \in s .. s + c - 1
    BY <1>2, <1>3, <2>1
  <2> QED
    BY <1>1, <1>2, <1>4, <2>1, <2>2 DEF Ended, Lengths
<1>5. CASE f \in Ciphered \ Bare
  <2>1. n = s
    BY <1>1, <1>2, <1>3, <1>5 DEF Reached
  <2> QED
    BY <1>1, <1>5, <2>1 DEF Ended, Lengths
<1>6. CASE f \notin Ciphered
  <2>1. n <= a
    BY <1>1, <1>6 DEF Reached
  <2>2. n = s /\ a = s
    BY <1>2, <1>3, <2>1
  <2> QED
    BY <1>1, <1>2, <1>6, <2>2 DEF Ended, Lengths
<1> QED
  BY <1>4, <1>5, <1>6

CopyInv == WorkInv /\ Copies

\* The walk moves no job.
LEMMA CopyWalk ==
  ASSUME WalkInv, CopyInv, WalkStep
  PROVE  Copies'
<1>1. /\ WalkNext /\ started' = started /\ running' = running
      /\ job' = job /\ wpc' = wpc /\ offset' = offset /\ pos' = pos /\ disk' = disk
      /\ put' = put /\ failed' = failed
  BY DEF WalkStep, workerVars
<1>2. req' = req /\ Moves /\ visited \in Seq(Visits) /\ Grows
  BY <1>1, WalkMoves
<1>3. Len(Queued) \in Nat /\ \A i \in 1 .. Len(Queued) : Queued'[i] = Queued[i]
  BY <1>2, QueueGrows
<1>4. \A i \in 1 .. Len(Queued) : files'[Queued[i]] = files[Queued[i]]
  BY <1>2, QueueReady DEF Grows
<1>5. ASSUME NEW w \in Workers, job[w] # 0
      PROVE  Dest(w)' = Dest(w) /\ Source(w)' = Source(w)
  <2>1. job[w] \in 1 .. Len(Queued)
    BY <1>5, HasJob DEF CopyInv, WorkInv
  <2> QED
    BY <1>1, <1>3, <1>4, <2>1 DEF Dest, Source
<1>6. \A w \in Workers : wpc[w] # "idle" => job[w] # 0
  BY DEF CopyInv, WorkInv, Hands
<1>7. ASSUME NEW w \in Workers, wpc'[w] \in {"test", "seek", "read"} PROVE Dest(w)' \in DOMAIN disk'
  BY <1>1, <1>5, <1>6, <1>7 DEF CopyInv, Copies
<1>8. ASSUME NEW w \in Workers, job'[w] # 0, Dest(w)' \in DOMAIN disk' PROVE Copying(w)'
  <2>1. Copying(w) /\ Dest(w)' = Dest(w) /\ Source(w)' = Source(w)
    BY <1>1, <1>5, <1>8 DEF CopyInv, Copies
  <2> QED
    BY <1>1, <1>2, <2>1 DEF Copying
<1>9. ASSUME NEW i \in 1 .. started', Queued'[i] \in DOMAIN disk', i \notin running' PROVE Copied(i)'
  <2>1. PICK n : n = Len(Queued)
    OBVIOUS
  <2>2. n \in Nat /\ started \in 0 .. n
    BY <1>3, <2>1 DEF CopyInv, WorkInv, Hands
  <2>3. i \in 1 .. n
    BY <1>1, <2>2
  <2>4. Queued'[i] = Queued[i] /\ files'[Queued[i]] = files[Queued[i]]
    BY <1>3, <1>4, <2>1, <2>3
  <2>5. Copied(i)
    BY <1>1, <1>9, <2>4 DEF CopyInv, Copies
  <2> QED
    BY <1>1, <1>2, <2>4, <2>5 DEF Copied
<1> QED
  BY <1>7, <1>8, <1>9 DEF Copies

\* Of another worker's job nothing changes.
LEMMA CopySame ==
  ASSUME NEW v \in Workers, Copying(v), req' = req, Dest(v)' = Dest(v), Source(v)' = Source(v),
         offset'[v] = offset[v], wpc'[v] = wpc[v], disk'[Dest(v)] = disk[Dest(v)],
         put'[v] = put[v], failed \subseteq failed',
         wpc[v] = "read" => pos'[Source(v)] = pos[Source(v)]
  PROVE  Copying(v)'
BY DEF Copying

\* The first bytes are none.
LEMMA CopyOpen ==
  ASSUME WalkInv, CopyInv, Apart, NEW w \in Workers, Open(w)
  PROVE  Copies'
<1> DEFINE Adds(d) == disk' = [p \in DOMAIN disk \cup {d} |-> IF p = d THEN <<>> ELSE disk[p]]
           new == started + 1
<1>1. /\ UNCHANGED vars /\ pos' = pos /\ wpc[w] = "idle"
      /\ started < Len(Queued) /\ started' = new /\ running' = running \cup {new}
      /\ job' = [job EXCEPT ![w] = new]
      /\ offset' = [offset EXCEPT ![w] = 0] /\ put' = [put EXCEPT ![w] = 0]
      /\ failed \subseteq failed'
  BY DEF Open, Pool!Start
<1>2. \/ wpc' = [wpc EXCEPT ![w] = "test"] /\ Adds(Queued[new])
      \/ wpc' = [wpc EXCEPT ![w] = "close"] /\ disk' = disk
  BY DEF Open, Goto
<1>3. Queued' = Queued /\ files' = files /\ req' = req
  BY <1>1, SameQueue DEF vars
<1>4. /\ Hands /\ Numbers /\ Copies /\ Len(Queued) \in Nat
      /\ \A i \in 1 .. Len(Queued) : Queued[i] \in DOMAIN files
  BY QueueReady DEF CopyInv, WorkInv
<1>5. /\ new \in 1 .. Len(Queued) /\ new # 0 /\ \A i \in 1 .. started : i \in 1 .. Len(Queued) /\ i # new
      /\ \A i \in 1 .. new : i = new \/ i \in 1 .. started
  <2>1. PICK n : n = Len(Queued)
    OBVIOUS
  <2>2. n \in Nat /\ started \in 0 .. n /\ started < n
    BY <1>1, <1>4, <2>1 DEF Hands
  <2>3. /\ new \in 1 .. n /\ new # 0 /\ \A i \in 1 .. started : i \in 1 .. n /\ i # new
        /\ \A i \in 1 .. new : i = new \/ i \in 1 .. started
    BY <2>2
  <2> QED
    BY <2>1, <2>3
<1> HIDE DEF new
<1>6. \A i \in 1 .. started : Queued[i] # Queued[new]
  BY <1>5 DEF Apart
<1>7. Queued[new] \notin DOMAIN disk
  BY <1>4, <1>6 DEF Numbers
<1>8. \A p \in DOMAIN disk : p \in DOMAIN disk' /\ disk'[p] = disk[p]
  <2>1. CASE Adds(Queued[new])
    BY <1>7, <2>1, OverOp
  <2>2. CASE disk' = disk
    BY <2>2
  <2> HIDE DEF Adds
  <2> QED
    BY <1>2, <2>1, <2>2
<1>9. \A p \in DOMAIN disk' : p = Queued[new] \/ p \in DOMAIN disk
  <2>1. CASE Adds(Queued[new])
    BY <2>1, OverOp
  <2>2. CASE disk' = disk
    BY <2>2
  <2> HIDE DEF Adds
  <2> QED
    BY <1>2, <2>1, <2>2
<1>10. /\ job'[w] = new /\ offset'[w] = 0 /\ put'[w] = 0 /\ wpc'[w] \in {"test", "close"}
       /\ \A v \in Workers : v # w =>
            job'[v] = job[v] /\ offset'[v] = offset[v] /\ put'[v] = put[v] /\ wpc'[v] = wpc[v]
  <2>1. /\ job \in [Workers -> 0 .. started] /\ offset \in [Workers -> Nat] /\ put \in [Workers -> Nat]
        /\ wpc \in [Workers -> {"idle", "test", "seek", "read", "close"}]
    BY <1>4 DEF Hands, Numbers
  <2>2. /\ job'[w] = new /\ offset'[w] = 0 /\ put'[w] = 0
        /\ \A v \in Workers : v # w => job'[v] = job[v] /\ offset'[v] = offset[v] /\ put'[v] = put[v]
    BY <1>1, <2>1
  <2>3. wpc'[w] \in {"test", "close"} /\ \A v \in Workers : v # w => wpc'[v] = wpc[v]
    BY <1>2, <2>1
  <2> QED
    BY <2>2, <2>3
<1>11. /\ Dest(w)' = Queued[new] /\ Source(w)' = files[Queued[new]]
       /\ \A v \in Workers : v # w => Dest(v)' = Dest(v) /\ Source(v)' = Source(v)
  BY <1>3, <1>10 DEF Dest, Source
<1>12. ASSUME NEW v \in Workers, v # w, job[v] # 0 PROVE Dest(v) # Queued[new]
  <2>1. job[v] \in 1 .. started
    BY <1>4, <1>12, HasJob
  <2> QED
    BY <1>6, <2>1 DEF Dest
<1>13. ASSUME Adds(Queued[new])
       PROVE  Copying(w)' /\ Dest(w)' \in DOMAIN disk'
  <2>1. Queued[new] \in DOMAIN disk' /\ disk'[Queued[new]] = <<>>
    BY <1>13, OverOp
  <2>2. wpc'[w] = "test"
    <3>1. disk' # disk
      BY <1>7, <2>1
    <3> QED
      BY <1>2, <1>4, <3>1 DEF Hands
  <2>3. Copying(w)'
    <3>1. files[Queued[new]] \in Files
      BY <1>4, <1>5, FileType DEF WalkInv
    <3>2. Reached(files[Queued[new]], req.left[files[Queued[new]]], 0)
          /\ Content(req.left[files[Queued[new]]], 0) = <<>>
      BY <3>1, ReachedFirst DEF WalkInv, Shape
    <3> QED
      BY <1>3, <1>10, <1>11, <2>1, <2>2, <3>2 DEF Copying
  <2> QED
    BY <1>11, <2>1, <2>3
<1>14. ASSUME NEW v \in Workers, job'[v] # 0, Dest(v)' \in DOMAIN disk' PROVE Copying(v)'
  <2>1. CASE v = w
    <3>1. Adds(Queued[new])
      <4> HIDE DEF Adds
      <4> QED
        BY <1>2, <1>7, <1>11, <1>14, <2>1
    <3> HIDE DEF Adds
    <3> QED
      BY <1>13, <2>1, <3>1
  <2>2. CASE v # w
    <3>1. job[v] # 0 /\ Dest(v)' = Dest(v) /\ Source(v)' = Source(v)
      BY <1>10, <1>11, <1>14, <2>2
    <3>2. Dest(v) \in DOMAIN disk
      BY <1>9, <1>12, <1>14, <2>2, <3>1
    <3>3. Copying(v)
      BY <1>4, <3>1, <3>2 DEF Copies
    <3>4. disk'[Dest(v)] = disk[Dest(v)] /\ pos'[Source(v)] = pos[Source(v)]
      BY <1>1, <1>8, <3>2
    <3> QED
      BY <1>1, <1>3, <1>10, <2>2, <3>1, <3>3, <3>4, CopySame
  <2> QED
    BY <2>1, <2>2
<1>15. ASSUME NEW v \in Workers, wpc'[v] \in {"test", "seek", "read"} PROVE Dest(v)' \in DOMAIN disk'
  <2>1. CASE v = w
    <3>1. wpc'[w] # "close"
      BY <1>15, <2>1
    <3>2. Adds(Queued[new])
      <4>1. wpc' = [wpc EXCEPT ![w] = "close"] => wpc'[w] = "close"
        BY <1>4 DEF Hands
      <4> HIDE DEF Adds
      <4> QED
        BY <1>2, <3>1, <4>1
    <3> HIDE DEF Adds
    <3> QED
      BY <1>13, <2>1, <3>2
  <2>2. CASE v # w
    <3>1. Dest(v) \in DOMAIN disk
      BY <1>4, <1>10, <1>15, <2>2 DEF Copies
    <3> QED
      BY <1>8, <1>11, <2>2, <3>1
  <2> QED
    BY <2>1, <2>2
<1>16. ASSUME NEW i \in 1 .. started', Queued'[i] \in DOMAIN disk', i \notin running' PROVE Copied(i)'
  <2>1. i # new /\ i \in 1 .. started /\ i \notin running
    BY <1>1, <1>5, <1>16
  <2>2. Queued[i] \in DOMAIN disk
    BY <1>3, <1>6, <1>9, <1>16, <2>1
  <2>3. Copied(i)
    BY <1>4, <2>1, <2>2 DEF Copies
  <2> QED
    BY <1>1, <1>3, <1>8, <2>2, <2>3 DEF Copied
<1> QED
  BY <1>14, <1>15, <1>16 DEF Copies

\* What the steps of a copy loop share: only the worker moves, and only its file.
LoopStep(w) ==
  /\ UNCHANGED vars /\ UNCHANGED <<started, running, outcome, job>>
  /\ \A v \in Workers : v # w => offset'[v] = offset[v] /\ put'[v] = put[v] /\ wpc'[v] = wpc[v]
  /\ failed \subseteq failed'
  /\ DOMAIN disk' = DOMAIN disk
  /\ \A p \in DOMAIN disk : p # Dest(w) => disk'[p] = disk[p]
  /\ \A f \in Files : f # Source(w) => pos'[f] = pos[f]

LEMMA LoopCopies ==
  ASSUME WalkInv, CopyInv, Apart, NEW w \in Workers, job[w] # 0, LoopStep(w),
         wpc'[w] \in {"test", "seek", "read"} => Dest(w) \in DOMAIN disk,
         Dest(w) \in DOMAIN disk => Copying(w)'
  PROVE  Copies'
<1>1. /\ Hands /\ Copies /\ Numbers /\ MapsOK
      /\ started' = started /\ running' = running /\ job' = job /\ DOMAIN disk' = DOMAIN disk
  BY DEF CopyInv, WorkInv, WalkInv, LoopStep
<1>2. Queued' = Queued /\ files' = files /\ req' = req
  BY SameQueue DEF LoopStep, vars
<1>3. \A v \in Workers : Dest(v)' = Dest(v) /\ Source(v)' = Source(v)
  BY <1>1, <1>2 DEF Dest, Source
<1>4. ASSUME NEW v \in Workers, wpc'[v] \in {"test", "seek", "read"} PROVE Dest(v)' \in DOMAIN disk'
  <2>1. CASE v = w
    BY <1>1, <1>3, <1>4, <2>1
  <2>2. CASE v # w
    BY <1>1, <1>3, <1>4, <2>2 DEF Copies, LoopStep
  <2> QED
    BY <2>1, <2>2
<1>5. ASSUME NEW v \in Workers, job'[v] # 0, Dest(v)' \in DOMAIN disk' PROVE Copying(v)'
  <2>1. CASE v = w
    BY <1>1, <1>3, <1>5, <2>1
  <2>2. CASE v # w
    <3>1. job[v] # 0 /\ Dest(v) \in DOMAIN disk /\ Copying(v)
      BY <1>1, <1>3, <1>5 DEF Copies
    <3>2. Dest(v) # Dest(w) /\ Source(v) # Source(w) /\ Source(v) \in Files
      BY <1>1, <2>2, <3>1, OthersApart, HasJob
    <3>3. /\ offset'[v] = offset[v] /\ wpc'[v] = wpc[v] /\ disk'[Dest(v)] = disk[Dest(v)]
          /\ pos'[Source(v)] = pos[Source(v)] /\ put'[v] = put[v] /\ failed \subseteq failed'
      BY <2>2, <3>1, <3>2 DEF LoopStep
    <3> QED
      BY <1>2, <1>3, <3>1, <3>3, CopySame
  <2> QED
    BY <2>1, <2>2
<1>6. ASSUME NEW i \in 1 .. started', Queued'[i] \in DOMAIN disk', i \notin running' PROVE Copied(i)'
  <2>1. Copied(i) /\ Queued[i] \in DOMAIN disk
    BY <1>1, <1>2, <1>6 DEF Copies
  <2>2. Queued[i] # Dest(w)
    <3>1. job[w] \in 1 .. Len(Queued) /\ job[w] \in running /\ Len(Queued) \in Nat
      BY <1>1, HasJob, QueueReady
    <3>2. i \in 1 .. Len(Queued)
      <4>1. PICK n : n = Len(Queued)
        OBVIOUS
      <4>2. n \in Nat /\ started \in 0 .. n
        BY <1>1, <3>1, <4>1 DEF Hands
      <4> QED
        BY <1>1, <4>1, <4>2
    <3>3. i # job[w]
      BY <1>1, <1>6, <3>1
    <3> QED
      BY <3>1, <3>2, <3>3 DEF Apart, Dest
  <2>3. disk'[Queued[i]] = disk[Queued[i]]
    BY <2>1, <2>2 DEF LoopStep
  <2>4. failed \subseteq failed'
    BY DEF LoopStep
  <2> QED
    BY <1>2, <2>1, <2>3, <2>4 DEF Copied
<1> QED
  BY <1>4, <1>5, <1>6 DEF Copies

LEMMA AtWork ==
  ASSUME WalkInv, CopyInv, NEW w \in Workers, wpc[w] # "idle"
  PROVE  /\ req \in Requests /\ job[w] # 0 /\ Source(w) \in Files /\ Dest(w) \in DOMAIN files
         /\ wpc[w] \in {"test", "seek", "read"} => Dest(w) \in DOMAIN disk /\ Copying(w)
         /\ offset[w] \in Nat /\ pos[Source(w)] \in Nat
         /\ offset \in [Workers -> Nat] /\ pos \in [Files -> Nat] /\ put \in [Workers -> Nat]
         /\ wpc \in [Workers -> {"idle", "test", "seek", "read", "close"}]
<1>1. req \in Requests /\ job[w] # 0 /\ Hands /\ Numbers /\ Copies
  BY DEF CopyInv, WorkInv, WalkInv, Shape, Hands
<1>2. Source(w) \in Files /\ Dest(w) \in DOMAIN files
  BY <1>1, HasJob
<1>3. wpc[w] \in {"test", "seek", "read"} => Dest(w) \in DOMAIN disk /\ Copying(w)
  BY <1>1 DEF Copies
<1> QED
  BY <1>1, <1>2, <1>3 DEF Numbers, Hands

LEMMA CopyTest ==
  ASSUME WalkInv, CopyInv, Apart, NEW w \in Workers, Test(w)
  PROVE  Copies'
<1>1. /\ UNCHANGED vars /\ UNCHANGED <<started, running, outcome, job>>
      /\ offset' = offset /\ pos' = pos /\ disk' = disk /\ wpc[w] = "test"
      /\ put' = put /\ failed' = failed
      /\ \/ wpc' = [wpc EXCEPT ![w] = "seek"] /\ offset[w] < Size[Source(w)]
         \/ wpc' = [wpc EXCEPT ![w] = "close"] /\ offset[w] >= Size[Source(w)]
  BY DEF Test, Goto
<1>2. /\ job[w] # 0 /\ Source(w) \in Files /\ Dest(w) \in DOMAIN disk /\ Copying(w)
      /\ wpc \in [Workers -> {"idle", "test", "seek", "read", "close"}]
  BY <1>1, AtWork
<1>3. LoopStep(w)
  BY <1>1, <1>2 DEF LoopStep
<1>4. Queued' = Queued /\ files' = files /\ req' = req
  BY <1>1, SameQueue DEF vars
<1>5. Dest(w)' = Dest(w) /\ Source(w)' = Source(w)
  BY <1>1, <1>4 DEF Dest, Source
<1>6. \/ wpc'[w] = "seek" /\ offset[w] < Size[Source(w)]
      \/ wpc'[w] = "close" /\ offset[w] >= Size[Source(w)]
  BY <1>1, <1>2
<1>7. Copying(w)'
  BY <1>1, <1>2, <1>4, <1>5, <1>6 DEF Copying
<1> QED
  BY <1>2, <1>3, <1>7, LoopCopies

LEMMA CopySeek ==
  ASSUME WalkInv, CopyInv, Apart, NEW w \in Workers, Seek(w)
  PROVE  Copies'
<1>1. /\ UNCHANGED vars /\ UNCHANGED <<started, running, outcome, job>>
      /\ offset' = offset /\ disk' = disk /\ wpc[w] = "seek" /\ put' = put /\ failed' = failed
      /\ wpc' = [wpc EXCEPT ![w] = "read"]
      /\ pos' = [pos EXCEPT ![Source(w)] = offset[w]]
  BY DEF Seek, Goto
<1>2. /\ job[w] # 0 /\ Source(w) \in Files /\ Dest(w) \in DOMAIN disk /\ Copying(w)
      /\ wpc \in [Workers -> {"idle", "test", "seek", "read", "close"}]
      /\ pos \in [Files -> Nat]
  BY <1>1, AtWork
<1>3. LoopStep(w) /\ pos'[Source(w)] = offset[w] /\ wpc'[w] = "read"
  BY <1>1, <1>2 DEF LoopStep
<1>4. Queued' = Queued /\ files' = files /\ req' = req
  BY <1>1, SameQueue DEF vars
<1>5. Dest(w)' = Dest(w) /\ Source(w)' = Source(w)
  BY <1>1, <1>4 DEF Dest, Source
<1>6. Copying(w)'
  BY <1>1, <1>2, <1>3, <1>4, <1>5 DEF Copying
<1> QED
  BY <1>2, <1>3, <1>6, LoopCopies

LEMMA CopyRead ==
  ASSUME WalkInv, CopyInv, Apart, NEW w \in Workers, ReadAndWrite(w)
  PROVE  Copies'
<1> DEFINE f == Source(w)
           n == offset[w]
           g == Got(f, n)
           bytes == Buffer(f, n)
<1>1. /\ UNCHANGED vars /\ UNCHANGED <<started, running, outcome, job>>
      /\ wpc[w] = "read" /\ wpc' = [wpc EXCEPT ![w] = "test"]
      /\ pos' = [pos EXCEPT ![f] = @ + Chunk]
      /\ Puts(w, Buffer(f, pos[f]))
      /\ offset' = [offset EXCEPT ![w] = @ + Got(f, pos[f])]
  BY DEF ReadAndWrite, Goto
<1>2. /\ req \in Requests /\ job[w] # 0 /\ f \in Files /\ Dest(w) \in DOMAIN disk /\ Copying(w)
      /\ offset \in [Workers -> Nat] /\ pos \in [Files -> Nat] /\ put \in [Workers -> Nat] /\ n \in Nat
      /\ wpc \in [Workers -> {"idle", "test", "seek", "read", "close"}]
  BY <1>1, AtWork
<1>3. /\ pos[f] = n /\ n < Size[f] /\ Reached(f, req.left[f], n)
      /\ Dest(w) \notin failed => put[w] = n /\ disk[Dest(w)] = Content(req.left[f], n)
  BY <1>1, <1>2 DEF Copying
<1>4. g \in Nat /\ bytes \in Seq(Nat) /\ Len(bytes) = g
  BY <1>2, GotOp
<1>5. Reached(f, req.left[f], n + g) /\ Written(Content(req.left[f], n), n, bytes) = Content(req.left[f], n + g)
  BY <1>2, <1>3, ReachedNext, WrittenOp
<1> HIDE DEF f, g, n, bytes
<1>6. PICK k \in 0 .. g :
        /\ disk' = [disk EXCEPT ![Dest(w)] = Written(@, put[w], SubSeq(bytes, 1, k))]
        /\ put' = [put EXCEPT ![w] = @ + k]
        /\ IF k = g THEN failed' = failed ELSE failed' = failed \cup {Dest(w)}
  <2>1. Puts(w, bytes)
    BY <1>1, <1>3 DEF bytes
  <2> QED
    BY <1>4, <2>1, PutsOp
<1>7. /\ DOMAIN disk' = DOMAIN disk /\ failed \subseteq failed'
      /\ \A p \in DOMAIN disk : p # Dest(w) => disk'[p] = disk[p]
  BY <1>6
<1>8. Dest(w) \notin failed' => put'[w] = n + g /\ disk'[Dest(w)] = Content(req.left[f], n + g)
  <2> SUFFICES ASSUME Dest(w) \notin failed'
               PROVE  put'[w] = n + g /\ disk'[Dest(w)] = Content(req.left[f], n + g)
    OBVIOUS
  <2>1. k = g /\ Dest(w) \notin failed
    BY <1>6
  <2>2. SubSeq(bytes, 1, g) = bytes
    BY <1>4
  <2> QED
    BY <1>2, <1>3, <1>5, <1>6, <2>1, <2>2
<1>9. offset'[w] = n + g /\ \A v \in Workers : v # w => offset'[v] = offset[v] /\ put'[v] = put[v]
  BY <1>1, <1>2, <1>3, <1>6 DEF n, g
<1>10. wpc'[w] = "test" /\ \A v \in Workers : v # w => wpc'[v] = wpc[v]
  BY <1>1, <1>2
<1>11. \A x \in Files : x # Source(w) => pos'[x] = pos[x]
  BY <1>1, <1>2 DEF f
<1>12. LoopStep(w)
  BY <1>1, <1>7, <1>9, <1>10, <1>11 DEF LoopStep
<1>13. Queued' = Queued /\ files' = files /\ req' = req
  BY <1>1, SameQueue DEF vars
<1>14. Dest(w)' = Dest(w) /\ Source(w)' = f
  BY <1>1, <1>13 DEF Dest, Source, f
<1>15. Copying(w)'
  BY <1>5, <1>8, <1>9, <1>10, <1>13, <1>14 DEF Copying
<1> QED
  BY <1>2, <1>12, <1>15, LoopCopies

\* A file that is closed was copied to its end.
LEMMA CopyClose ==
  ASSUME WalkInv, CopyInv, Apart, NEW w \in Workers, Close(w)
  PROVE  Copies'
<1>1. /\ UNCHANGED vars /\ offset' = offset /\ pos' = pos /\ disk' = disk
      /\ put' = put /\ failed' = failed
      /\ wpc[w] = "close" /\ wpc' = [wpc EXCEPT ![w] = "idle"]
      /\ started' = started /\ running' = running \ {job[w]}
      /\ job' = [job EXCEPT ![w] = 0]
  BY DEF Close, Goto, Pool!Finish
<1>2. /\ Hands /\ Copies /\ job[w] # 0
      /\ wpc \in [Workers -> {"idle", "test", "seek", "read", "close"}]
      /\ job \in [Workers -> 0 .. started]
  BY <1>1, AtWork DEF CopyInv, WorkInv, Hands
<1>3. Queued' = Queued /\ files' = files /\ req' = req
  BY <1>1, SameQueue DEF vars
<1>4. /\ job'[w] = 0 /\ wpc'[w] = "idle"
      /\ \A v \in Workers : v # w => job'[v] = job[v] /\ wpc'[v] = wpc[v]
  BY <1>1, <1>2
<1>5. \A v \in Workers : v # w => Dest(v)' = Dest(v) /\ Source(v)' = Source(v)
  BY <1>3, <1>4 DEF Dest, Source
<1>6. ASSUME NEW v \in Workers, wpc'[v] \in {"test", "seek", "read"} PROVE Dest(v)' \in DOMAIN disk'
  <2>1. v # w
    BY <1>4, <1>6
  <2> QED
    BY <1>1, <1>2, <1>4, <1>5, <1>6, <2>1 DEF Copies
<1>7. ASSUME NEW v \in Workers, job'[v] # 0, Dest(v)' \in DOMAIN disk' PROVE Copying(v)'
  <2>1. v # w
    BY <1>4, <1>7
  <2>2. Copying(v) /\ Dest(v)' = Dest(v) /\ Source(v)' = Source(v)
    BY <1>1, <1>2, <1>4, <1>5, <1>7, <2>1 DEF Copies
  <2> QED
    BY <1>1, <1>3, <1>4, <2>1, <2>2 DEF Copying
<1>8. ASSUME NEW i \in 1 .. started', Queued'[i] \in DOMAIN disk', i \notin running' PROVE Copied(i)'
  <2>1. i \in 1 .. started /\ Queued[i] \in DOMAIN disk
    BY <1>1, <1>3, <1>8
  <2>2. CASE i = job[w]
    <3>1. Queued[i] = Dest(w)
      BY <2>2 DEF Dest
    <3>2. Copying(w)
      BY <1>2, <2>1, <3>1 DEF Copies
    <3>3. Source(w) \in Files /\ Source(w) = files[Queued[i]]
      BY <1>1, <3>1, AtWork DEF Source
    <3>4. PICK n : n = offset[w]
      OBVIOUS
    <3>5. Ended(Source(w), req.left[Source(w)], n)
      BY <1>1, <3>2, <3>3, <3>4, AtWork, ReachedEnd DEF Copying
    <3>6. Queued[i] \notin failed => disk[Queued[i]] = Content(req.left[Source(w)], n)
      BY <3>1, <3>2, <3>4 DEF Copying
    <3> QED
      BY <1>1, <1>3, <3>3, <3>5, <3>6 DEF Copied
  <2>3. CASE i # job[w]
    <3>1. i \notin running
      BY <1>1, <1>8, <2>3
    <3>2. Copied(i)
      BY <1>2, <2>1, <3>1 DEF Copies
    <3> QED
      BY <1>1, <1>3, <3>2 DEF Copied
  <2> QED
    BY <2>2, <2>3
<1> QED
  BY <1>6, <1>7, <1>8 DEF Copies

LEMMA CopyKeeps ==
  ASSUME WalkInv, CopyInv, FilesOnce, [DumpNext]_dumpVars
  PROVE  CopyInv'
<1>1. WorkInv'
  BY WorkKeeps DEF CopyInv
<1>2. Apart
  BY QueueOnce DEF Apart
<1>3. CASE WalkStep
  BY <1>1, <1>3, CopyWalk DEF CopyInv
<1>4. CASE Returns \/ UNCHANGED dumpVars
  <2>1. /\ UNCHANGED vars /\ job' = job /\ wpc' = wpc /\ offset' = offset /\ pos' = pos
        /\ disk' = disk /\ started' = started /\ running' = running
        /\ put' = put /\ failed' = failed
    BY <1>4 DEF Returns, workerVars, dumpVars, Pool!Succeed, Pool!Fail
  <2>2. Queued' = Queued /\ files' = files /\ req' = req
    BY <2>1, SameQueue DEF vars
  <2>3. /\ \A w \in Workers : Dest(w)' = Dest(w) /\ (Copying(w) => Copying(w)')
        /\ \A i \in 1 .. started : Copied(i) => Copied(i)'
    BY <2>1, <2>2 DEF Dest, Source, Copying, Copied
  <2>4. Copies'
    BY <2>1, <2>2, <2>3 DEF CopyInv, Copies
  <2> QED
    BY <1>1, <2>4 DEF CopyInv
<1>5. ASSUME NEW w \in Workers, WorkerStep(w)
      PROVE  CopyInv'
  <2>1. Copies'
    BY <1>2, <1>5, CopyOpen, CopyTest, CopySeek, CopyRead, CopyClose DEF WorkerStep
  <2> QED
    BY <1>1, <2>1 DEF CopyInv
<1> QED
  BY <1>3, <1>4, <1>5 DEF DumpNext, RunStep

LEMMA CopyInit ==
  ASSUME DumpInit
  PROVE  CopyInv /\ FilesOnce
<1>1. WorkInv
  BY WorkInit
<1>2. /\ wpc = [w \in Workers |-> "idle"] /\ job = [w \in Workers |-> 0] /\ started = 0
      /\ visited = <<>>
  BY DEF DumpInit, Init
<1>3. 1 .. 0 = {} /\ DOMAIN <<>> = {}
  OBVIOUS
<1>4. Copies
  BY <1>2, <1>3 DEF Copies
<1>5. FilesOnce
  BY <1>2, <1>3 DEF FilesOnce
<1> QED
  BY <1>1, <1>4, <1>5 DEF CopyInv

-----------------------------------------------------------------------------
(* What is on the disk when dump reports.                                  *)

\* The file a job copies is the one the archive has for its path.
LEMMA JobFile ==
  ASSUME Distinct, WalkInv, NEW i \in 1 .. Len(Queued)
  PROVE  files[Queued[i]] \in FileAt(Queued[i])
<1>1. PICK path : path = Queued[i]
  OBVIOUS
<1>2. PICK j \in DOMAIN visited : req.cmd = "dump" /\ visited[j].kind = "file" /\ visited[j].path = path
  BY <1>1, QueueReady
<1>3. /\ Front(path) \in DOMAIN folders
      /\ \E l \in ToSet(Leaves[folders[Front(path)]]) : l.name = Last(path) /\ l.node = files[path]
  BY <1>2 DEF WalkInv, JobsReady
<1>4. PICK l \in ToSet(Leaves[folders[Front(path)]]) : l.name = Last(path) /\ l.node = files[path]
  BY <1>3
<1>5. Named(Front(path)) = {folders[Front(path)]}
  BY <1>3, FolderNamed DEF WalkInv
<1>6. l \in UNION {ToSet(Leaves[f]) : f \in Named(Front(path))}
  BY <1>5
<1>7. files[path] \in FileAt(path)
  BY <1>4, <1>6 DEF FileAt
<1> QED
  BY <1>1, <1>7

\* A file that no worker has, and that the host took in full, was copied to its end.
LEMMA DoneDumped ==
  ASSUME Distinct, WalkInv, CopyInv, running = {}
  PROVE  \A path \in DOMAIN disk \ failed : Dumped(path)
<1> SUFFICES ASSUME NEW path \in DOMAIN disk \ failed
             PROVE  Dumped(path)
  OBVIOUS
<1>1. PICK i \in 1 .. started : path = Queued[i]
  BY DEF CopyInv, WorkInv, Numbers
<1>2. PICK n : Ended(files[path], req.left[files[path]], n) /\ disk[path] = Content(req.left[files[path]], n)
  BY <1>1 DEF CopyInv, Copies, Copied
<1>3. i \in 1 .. Len(Queued)
  <2>1. PICK n1 : n1 = Len(Queued)
    OBVIOUS
  <2>2. n1 \in Nat /\ started \in 0 .. n1
    BY <2>1, QueueReady DEF CopyInv, WorkInv, Hands
  <2>3. i \in 1 .. n1
    BY <2>2
  <2> QED
    BY <2>1, <2>3
<1>4. files[path] \in FileAt(path)
  BY <1>1, <1>3, JobFile
<1> QED
  BY <1>2, <1>4 DEF Dumped, Content, Ended

\* When dump reports, success or not, every file on the disk was copied to its end,
\* but those the host refused: no worker is in the middle of one, none has read with
\* a position another one moved, and none has taken a file that was cut for whole,
\* unless it is encrypted (thread_pool.hpp:51-90, dump.cpp:39-66, io.cpp:90-125).
\* Disjoint is what the code needs for it: a file that two paths of the command line
\* ask for has one position for both.
THEOREM FilesAreCopied ==
  ASSUME Rooted, Distinct, Disjoint
  PROVE  DumpSpec => []NothingHalf
<1>1. DumpInit => ToldInv /\ FilesOnce /\ CopyInv
  BY WalkInit, ToldInit, CopyInit DEF ToldInv, DumpInit
<1>2. ToldInv /\ [DumpNext]_dumpVars => ToldInv'
  BY ToldKeeps, DumpSteps
<1>3. ToldInv /\ Settled => FilesOnce
  BY ToldOnce
<1>4. ToldInv /\ FilesOnce /\ [DumpNext]_dumpVars /\ (Settled' => FilesOnce') => FilesOnce'
  BY OnceKeeps, DumpSteps DEF ToldInv
<1>5. ToldInv /\ FilesOnce /\ CopyInv /\ [DumpNext]_dumpVars => CopyInv'
  BY CopyKeeps DEF ToldInv
<1>6. ToldInv /\ CopyInv => NothingHalf
  <2> SUFFICES ASSUME ToldInv, CopyInv, outcome # "busy"
               PROVE  \A path \in DOMAIN disk \ failed : Dumped(path)
    BY DEF NothingHalf
  <2>1. running = {} /\ WalkInv
    BY DEF CopyInv, WorkInv, Hands, ToldInv
  <2> QED
    BY <2>1, DoneDumped
<1> QED
  BY <1>1, <1>2, <1>3, <1>4, <1>5, <1>6, PTL DEF DumpSpec

-----------------------------------------------------------------------------
(* Every file is opened, unless the host refuses it or its path is a        *)
(* folder's.                                                               *)

\* dump creates folders of the tree only.
FoldersThere ==
  req.cmd = "dump" =>
    \A j \in DOMAIN visited : visited[j].kind = "folder" => visited[j].path \in DOMAIN folders

LEMMA FolderThere ==
  ASSUME visited \in Seq(Visits), FoldersThere, Grows, req' = req,
         NEW e \in Visits, visited' = Append(visited, e),
         e.kind = "folder" => e.path \in DOMAIN folders'
  PROVE  FoldersThere'
<1>1. Longer(visited, e, visited')
  BY AppendLonger
<1>2. \A j \in DOMAIN visited' : visited'[j] = e \/ (j \in DOMAIN visited /\ visited'[j] = visited[j])
  BY <1>1 DEF Longer
<1> QED
  BY <1>2 DEF FoldersThere, Grows

LEMMA TherePart ==
  ASSUME visited \in Seq(Visits), FoldersThere, Grows, req' = req, visited' = visited
  PROVE  FoldersThere'
BY DEF FoldersThere, Grows

LEMMA ThereKeeps ==
  ASSUME Rooted, Distinct, ToldInv, ToldInv', FoldersThere, WalkNext
  PROVE  FoldersThere'
<1>1. WalkInv /\ visited \in Seq(Visits) /\ Looking
  BY DEF ToldInv, WalkInv, Shape
<1>2. Grows /\ req' = req
  BY <1>1, WalkMoves
<1>3. CASE visited' = visited
  BY <1>1, <1>2, <1>3, TherePart
<1>4. CASE StartWalk /\ visited' # visited
  <2>1. PICK e : e = [kind |-> "folder", path |-> Path]
    OBVIOUS
  <2>2. pc = "found" /\ visited' = Append(visited, e)
    BY <1>4, <2>1 DEF StartWalk, CreateFails, Report
  <2>3. Path \in DOMAIN folders
    BY <1>1, <2>2 DEF Looking
  <2>4. e \in Visits /\ e.path \in DOMAIN folders'
    BY <1>1, <1>2, <2>1, <2>3 DEF Visits, WalkInv, MapsOK, Grows
  <2> QED
    BY <1>1, <1>2, <2>2, <2>4, FolderThere
<1>5. CASE WalkChild /\ visited' # visited
  <2>1. PICK q, e : q = Append(Top.path, ChildrenOf(Top.folder)[Top.kid].name) /\ e = [kind |-> "folder", path |-> q]
    OBVIOUS
  <2>2. /\ pc = "walk" /\ stack # <<>> /\ Top.kid <= Len(ChildrenOf(Top.folder))
        /\ visited' = Append(visited, e)
    BY <1>5, <2>1 DEF WalkChild, CreateFails, Report
  <2>3. q \in DOMAIN folders
    <3>1. PICK x, k : x = Node(Top.path, Top.folder) /\ k = Top.kid
      OBVIOUS
    <3>2. q = KidOf(x, k).path /\ KidOf(x, k).path \in DOMAIN folders
      BY <2>1, <2>2, <3>1, AtChild
    <3> QED
      BY <3>2
  <2>4. e \in Visits /\ e.path \in DOMAIN folders'
    BY <1>1, <1>2, <2>1, <2>3 DEF Visits, WalkInv, MapsOK, Grows
  <2> QED
    BY <1>1, <1>2, <2>2, <2>4, FolderThere
<1>6. CASE WalkFile /\ visited' # visited
  <2>1. PICK e : e = [kind |-> "file", path |-> Append(Top.path, FilesOf(Top.folder)[Top.leaf].name)]
    OBVIOUS
  <2>2. visited' = Append(visited, e) /\ e.kind # "folder"
    BY <1>6, <2>1 DEF WalkFile, Report
  <2>3. e \in Visits
    <3>1. visited' \in Seq(Visits)
      BY DEF ToldInv, WalkInv, Shape
    <3>2. Len(visited) + 1 \in 1 .. Len(visited') /\ visited'[Len(visited) + 1] = e
      BY <1>1, <2>2
    <3> QED
      BY <3>1, <3>2
  <2> QED
    BY <1>1, <1>2, <2>2, <2>3, FolderThere
<1>7. CASE Missing /\ visited' # visited
  <2> DEFINE d == [kind |-> "folder", path |-> Front(Path)]
             e == [kind |-> "file", path |-> Path]
  <2>1. /\ pc = "missing" /\ req.cmd = "dump" /\ visited' = visited \o <<d, e>>
        /\ folders' = folders
    BY <1>7 DEF Missing, CreateFails, maps
  <2>2. PICK v, a, b, n : v = visited /\ a = d /\ b = e /\ n = Len(visited)
    OBVIOUS
  <2>3. /\ n \in Nat /\ DOMAIN visited = 1 .. n /\ DOMAIN visited' = 1 .. n + 2
        /\ visited'[n + 1] = a /\ visited'[n + 2] = b
        /\ \A j \in 1 .. n : visited'[j] = visited[j]
    <3>1. v \in Seq(Visits) /\ visited' = v \o <<a, b>> /\ n = Len(v)
      BY <1>1, <2>1, <2>2
    <3>2. n \in Nat /\ DOMAIN v = 1 .. n /\ Len(<<a, b>>) = 2 /\ <<a, b>>[1] = a /\ <<a, b>>[2] = b
      BY <3>1
    <3>3. v \o <<a, b>> = [j \in 1 .. n + 2 |-> IF j <= n THEN v[j] ELSE <<a, b>>[j - n]]
      BY <3>1, <3>2
    <3> QED
      BY <2>2, <3>1, <3>2, <3>3
  <2>4. Front(Path) \in DOMAIN folders'
    <3>1. n + 2 \in DOMAIN visited' /\ visited'[n + 2].kind = "file" /\ visited'[n + 2].path = Path
      BY <2>2, <2>3
    <3>2. req'.cmd = "dump" /\ JobsReady'
      BY <1>2, <2>1 DEF ToldInv, WalkInv
    <3>3. Front(visited'[n + 2].path) \in DOMAIN folders'
      BY <3>1, <3>2 DEF JobsReady
    <3> QED
      BY <3>1, <3>3
  <2>5. ASSUME NEW j \in DOMAIN visited', visited'[j].kind = "folder"
        PROVE  visited'[j].path \in DOMAIN folders'
    <3>1. CASE j \in 1 .. n
      BY <2>1, <2>3, <2>5, <3>1 DEF FoldersThere
    <3>2. CASE j = n + 1
      BY <2>2, <2>3, <2>4, <3>2
    <3>3. j # n + 2
      BY <2>2, <2>3, <2>5
    <3> QED
      BY <2>3, <3>1, <3>2, <3>3
  <2> QED
    BY <2>5 DEF FoldersThere
<1>8. ASSUME NextPath \/ BadPattern \/ Return \/ LookupStep \/ LookupFails \/ WalkReturns \/ WalkDone
      PROVE  visited' = visited
  BY <1>8 DEF NextPath, BadPattern, Return, LookupStep, LookupFails, WalkReturns, WalkDone
<1> QED
  BY <1>3, <1>4, <1>5, <1>6, <1>7, <1>8 DEF WalkNext

\* A folder dump has created is in the tree.
LEMMA CreatedInTree ==
  ASSUME MapsOK, FoldersThere, req.cmd = "dump", NEW p \in Created
  PROVE  p \in Seq(Names) /\ (p # <<>> => \E y \in Tree(Len(p) - 1) : y.path = p)
<1>1. PICK e, k : e \in ToSet(visited) /\ k \in 0 .. Len(e.path) /\ e.kind = "folder" /\ p = SubSeq(e.path, 1, k)
  BY DEF Created
<1>2. PICK q : q = e.path /\ q \in DOMAIN folders
  BY <1>1 DEF FoldersThere, ToSet
<1>3. q \in Seq(Names) /\ Len(q) \in Nat \ {0} /\ Node(q, folders[q]) \in Tree(Len(q) - 1)
  BY <1>2, MapInTree DEF MapsOK
<1>4. k \in 0 .. Len(q) /\ p = SubSeq(q, 1, k)
  BY <1>1, <1>2
<1>5. p \in Seq(Names) /\ Len(p) = k
  BY <1>3, <1>4
<1>6. ASSUME p # <<>> PROVE \E y \in Tree(Len(p) - 1) : y.path = p
  <2>1. PICK d, m : d = Len(q) - 1 /\ m = k - 1
    OBVIOUS
  <2>2. k # 0
    BY <1>3, <1>4, <1>6
  <2>3. d \in Nat /\ m \in Nat /\ m <= d /\ m + 1 = k
    BY <1>3, <1>4, <2>1, <2>2
  <2>4. PICK x : x = Node(q, folders[q])
    OBVIOUS
  <2>5. x \in Tree(d) /\ x.path = q
    BY <1>3, <2>1, <2>4 DEF Node
  <2>6. \E y \in Tree(m) : y.path = SubSeq(x.path, 1, m + 1)
    BY <2>3, <2>5, TreePrefix
  <2> QED
    BY <1>4, <1>5, <2>1, <2>3, <2>5, <2>6
<1> QED
  BY <1>5, <1>6

\* A path of Created, if it is not empty and starts at the root, is a folder's.
LEMMA CreatedNamed ==
  ASSUME MapsOK, FoldersThere, req.cmd = "dump", NEW p \in Created, p # <<>>, p[1] = "/"
  PROVE  Named(p) # {}
<1>1. p \in Seq(Names) /\ \E y \in Tree(Len(p) - 1) : y.path = p
  BY CreatedInTree
<1>2. PICK y \in Tree(Len(p) - 1) : y.path = p
  BY <1>1
<1>3. Len(p) - 1 \in Nat
  BY <1>1
<1>4. y = Node(p, y.node)
  BY <1>2, <1>3, TreeType
<1> QED
  BY <1>1, <1>2, <1>4, NamedOp

\* The folder a job writes to is there.
LEMMA FolderReady ==
  ASSUME WalkInv, NEW i \in 1 .. Len(Queued)
  PROVE  Front(Queued[i]) \in Created
<1>1. PICK path : path = Queued[i]
  OBVIOUS
<1>2. /\ path \in Seq(Names)
      /\ \E j \in DOMAIN visited : req.cmd = "dump" /\ visited[j].kind = "file" /\ visited[j].path = path
  BY <1>1, QueueReady
<1>3. PICK j \in DOMAIN visited : req.cmd = "dump" /\ visited[j].kind = "file" /\ visited[j].path = path
  BY <1>2
<1>4. PICK up : up = Front(path)
  OBVIOUS
<1>5. /\ up \in DOMAIN folders
      /\ \E l \in ToSet(Leaves[folders[up]]) : l.name = Last(path)
      /\ \E k \in 1 .. j - 1 : visited[k].kind = "folder" /\ IsPrefix(up, visited[k].path)
  BY <1>3, <1>4 DEF WalkInv, JobsReady
<1>6. MapsOK /\ visited \in Seq(Visits)
  BY DEF WalkInv, Shape
<1>7. up \in Seq(Names) /\ Len(up) \in Nat \ {0} /\ Node(up, folders[up]) \in Tree(Len(up) - 1)
  BY <1>5, <1>6, MapInTree DEF MapsOK
<1>10. up \in Created
  <2>1. PICK k \in 1 .. j - 1 : visited[k].kind = "folder" /\ IsPrefix(up, visited[k].path)
    BY <1>5
  <2>2. k \in DOMAIN visited
    BY <1>3, <1>6
  <2>3. PICK e, n : e = visited[k] /\ n = Len(up)
    OBVIOUS
  <2>4. e \in ToSet(visited) /\ e.kind = "folder" /\ e.path \in Seq(Names)
    <3>1. visited[k] \in Visits
      BY <1>6, <2>2, ElementOp
    <3> QED
      BY <2>1, <2>2, <2>3, <3>1 DEF ToSet, Visits
  <2>5. n <= Len(e.path) /\ SubSeq(up, 1, n) = SubSeq(e.path, 1, n)
    BY <2>1, <2>3 DEF IsPrefix
  <2>6. n \in 0 .. Len(e.path) /\ SubSeq(up, 1, n) = up
    BY <1>7, <2>3, <2>4, <2>5
  <2>7. up = SubSeq(e.path, 1, n)
    BY <2>5, <2>6
  <2> QED
    BY <2>4, <2>6, <2>7 DEF Created
<1> QED
  BY <1>1, <1>4, <1>10

\* What the queue holds has an element, and starts at the root.
LEMMA QueueRooted ==
  ASSUME WalkInv, NEW i \in 1 .. Len(Queued)
  PROVE  Queued[i] # <<>> /\ Queued[i][1] = "/"
<1>1. PICK path : path = Queued[i]
  OBVIOUS
<1>2. path \in Seq(Names)
  BY <1>1, QueueReady
<1>3. PICK j \in DOMAIN visited : req.cmd = "dump" /\ visited[j].kind = "file" /\ visited[j].path = path
  BY <1>1, QueueReady
<1>4. PICK up : up = Front(path)
  OBVIOUS
<1>5. up \in DOMAIN folders /\ MapsOK
  BY <1>3, <1>4 DEF WalkInv, JobsReady
<1>6. up \in Seq(Names) /\ Len(up) \in Nat \ {0} /\ up[1] = "/"
  BY <1>5, MapInTree DEF MapsOK
<1>7. path # <<>>
  <2>1. CASE path = <<>>
    <3>1. Len(Front(path)) = 0
      BY <2>1 DEF Front
    <3> QED
      BY <1>4, <1>6, <3>1
  <2> QED
    BY <2>1
<1>8. path = Append(up, Last(path))
  BY <1>2, <1>4, <1>7, FrontLast
<1>9. path[1] = "/"
  BY <1>6, <1>8
<1> QED
  BY <1>1, <1>7, <1>9

\* Every file a worker took is on the disk, or the host refused it, or it is a folder.
Opened == \A i \in 1 .. started : Queued[i] \in DOMAIN disk \cup failed \cup Created

\* What dump has created stays.
LEMMA CreatedStays ==
  ASSUME visited \in Seq(Visits), Moves
  PROVE  Created \subseteq Created'
<1>1. ToSet(visited) \subseteq ToSet(visited')
  <2>1. ASSUME NEW s \in Seq(Visits), NEW e PROVE ToSet(s) \subseteq ToSet(Append(s, e))
    <3>1. DOMAIN s = 1 .. Len(s) /\ Len(s) \in Nat
      OBVIOUS
    <3>2. \A i \in DOMAIN s : i \in DOMAIN Append(s, e) /\ Append(s, e)[i] = s[i]
      BY <3>1
    <3> QED
      BY <3>2 DEF ToSet
  <2>2. CASE visited' = visited
    BY <2>2
  <2>3. CASE \E e : visited' = Append(visited, e)
    BY <2>1, <2>3
  <2>4. ASSUME NEW d \in Visits, NEW e \in Visits, visited' = Append(Append(visited, d), e)
        PROVE  ToSet(visited) \subseteq ToSet(visited')
    <3>1. Append(visited, d) \in Seq(Visits)
      OBVIOUS
    <3>2. ToSet(visited) \subseteq ToSet(Append(visited, d))
      BY <2>1
    <3>3. ToSet(Append(visited, d)) \subseteq ToSet(Append(Append(visited, d), e))
      BY <2>1, <3>1
    <3> QED
      BY <2>4, <3>2, <3>3
  <2>5. visited' = visited \/ (\E e : visited' = Append(visited, e))
        \/ (\E d, e \in Visits : visited' = Append(Append(visited, d), e))
    BY DEF Moves, Visit
  <2> QED
    BY <2>2, <2>3, <2>4, <2>5
<1> QED
  BY <1>1 DEF Created

LEMMA OpenedKeeps ==
  ASSUME WalkInv, WorkInv, Opened, [DumpNext]_dumpVars
  PROVE  Opened'
<1>1. Len(Queued) \in Nat /\ started \in 0 .. Len(Queued)
  BY QueueReady DEF WorkInv, Hands
<1>2. CASE WalkStep
  <2>1. /\ WalkNext /\ started' = started /\ disk' = disk /\ failed' = failed
    BY <1>2 DEF WalkStep, workerVars
  <2>2. req' = req /\ Moves /\ visited \in Seq(Visits)
    BY <2>1, WalkMoves
  <2>3. \A i \in 1 .. Len(Queued) : Queued'[i] = Queued[i]
    BY <2>2, QueueGrows
  <2>4. \A i \in 1 .. started : i \in 1 .. Len(Queued)
    BY <1>1
  <2>5. Created \subseteq Created'
    BY <2>2, CreatedStays
  <2> QED
    BY <2>1, <2>3, <2>4, <2>5 DEF Opened
<1>3. ASSUME UNCHANGED vars PROVE Queued' = Queued /\ Created' = Created
  BY <1>3, SameQueue DEF vars, Created
<1>4. CASE Returns \/ UNCHANGED dumpVars
  <2>1. UNCHANGED vars /\ started' = started /\ disk' = disk /\ failed' = failed
    BY <1>4 DEF Returns, workerVars, dumpVars, Pool!Succeed, Pool!Fail
  <2> QED
    BY <1>3, <2>1 DEF Opened
<1>5. ASSUME NEW w \in Workers, Open(w)
      PROVE  Opened'
  <2>1. UNCHANGED vars /\ started < Len(Queued) /\ started' = started + 1
    BY <1>5 DEF Open, Pool!Start
  <2>2. PICK dest : dest = Queued[started + 1]
    OBVIOUS
  <2>3. started + 1 \in 1 .. Len(Queued)
    BY <1>1, <2>1
  <2>4. Front(dest) \in Created
    BY <2>2, <2>3, FolderReady
  <2>5. DOMAIN disk \subseteq DOMAIN disk' /\ failed \subseteq failed'
    BY <1>5 DEF Open
  <2>6. dest \in DOMAIN disk' \cup failed' \cup Created
    <3>1. CASE dest \in Created
      BY <3>1
    <3>2. CASE dest \notin Created
      BY <1>5, <2>2, <2>4, <3>2 DEF Open
    <3> QED
      BY <3>1, <3>2
  <2>7. \A i \in 1 .. started + 1 : i \in 1 .. started \/ i = started + 1
    BY <1>1
  <2> QED
    BY <1>3, <2>1, <2>2, <2>5, <2>6, <2>7 DEF Opened
<1>6. ASSUME NEW w \in Workers, Test(w) \/ Seek(w) \/ ReadAndWrite(w) \/ Close(w)
      PROVE  Opened'
  <2>1. UNCHANGED vars /\ started' = started /\ DOMAIN disk' = DOMAIN disk /\ failed \subseteq failed'
    BY <1>6 DEF Test, Seek, ReadAndWrite, Puts, Close, Pool!Finish
  <2> QED
    BY <1>3, <2>1 DEF Opened
<1> QED
  BY <1>2, <1>4, <1>5, <1>6 DEF DumpNext, RunStep, WorkerStep

\* A dump that succeeds has taken every file it was asked for, and no other.
LEMMA AllDumped ==
  ASSUME Rooted, ToldInv, WorkInv, FoldersThere, Opened, req.cmd = "dump", outcome = "ok"
  PROVE  /\ DOMAIN disk \cup failed \subseteq AskedFiles
         /\ \A path \in AskedFiles : path \in DOMAIN disk \cup failed \/ Named(path) # {}
<1> DEFINE asked == UNION {Asked(req, req.paths[i]) : i \in DOMAIN req.paths}
<1>1. started = Len(Queued) /\ rc = "0"
  BY DEF WorkInv, Hands
<1>2. WalkInv /\ MapsOK /\ req \in Requests /\ visited \in Seq(Visits)
  BY DEF ToldInv, WalkInv, Shape
<1>3. PICK n : n = Len(req.paths)
  OBVIOUS
<1>4. n \in Nat /\ DOMAIN req.paths = 1 .. n
  BY <1>2, <1>3, RequestOp
<1>5. Counted(visited, Len(visited), req, n)
  BY <1>1, <1>3 DEF ToldInv, Told, Done
<1>6. \A e : e \in ToSet(visited) <=> \E i \in 1 .. n : e \in Asked(req, req.paths[i])
  BY <1>2, <1>4, <1>5, CountedSame
<1>7. ToSet(visited) = asked /\ AskedFiles = {e.path : e \in {x \in asked : x.kind = "file"}}
  BY <1>4, <1>6 DEF AskedFiles
<1> HIDE DEF asked
<1>8. DOMAIN disk \cup failed \subseteq {Queued[i] : i \in 1 .. Len(Queued)}
  BY <1>1 DEF WorkInv, Numbers
<1>9. \A i \in 1 .. Len(Queued) : Queued[i] \in DOMAIN disk \cup failed \cup Created
  BY <1>1 DEF Opened
<1>10. ASSUME NEW p
       PROVE  /\ (\E i \in 1 .. Len(Queued) : Queued[i] = p)
                 <=> \E j \in DOMAIN visited : visited[j].kind = "file" /\ visited[j].path = p
  BY <1>2, QueueReady
<1>11. ASSUME NEW p
       PROVE  p \in AskedFiles <=> \E i \in 1 .. Len(Queued) : Queued[i] = p
  BY <1>7, <1>10 DEF ToSet
<1>12. DOMAIN disk \cup failed \subseteq AskedFiles
  BY <1>8, <1>11
<1>13. ASSUME NEW path \in AskedFiles, path \notin DOMAIN disk \cup failed
       PROVE  Named(path) # {}
  <2>1. PICK i \in 1 .. Len(Queued) : Queued[i] = path
    BY <1>11
  <2>2. path \in Created
    BY <1>9, <1>13, <2>1
  <2>3. path # <<>> /\ path[1] = "/"
    BY <1>2, <2>1, QueueRooted
  <2> QED
    BY <1>2, <2>2, <2>3, CreatedNamed
<1> QED
  BY <1>12, <1>13

\* A dump that reports success has put every file it was asked for on the disk, copied
\* to its end, and nothing else, but for what the host refused and a file whose path is
\* a folder's: whatever the tree, the paths, the sizes of the files and of the buffer,
\* the layers under each file and what the archive has lost of it, the number of
\* workers, and what they have done when the walk ends (dump.cpp:39-92,
\* thread_pool.hpp:43-90, vfs.cpp:147-172, io.cpp:90-125).
THEOREM DumpIsExact ==
  ASSUME Rooted, Distinct, Disjoint
  PROVE  DumpSpec => []DumpExact
<1>1. DumpInit => ToldInv /\ FilesOnce /\ CopyInv /\ FoldersThere /\ Opened
  <2> SUFFICES ASSUME DumpInit PROVE ToldInv /\ FilesOnce /\ CopyInv /\ FoldersThere /\ Opened
    OBVIOUS
  <2>1. visited = <<>> /\ started = 0 /\ Init
    BY DEF DumpInit, Init
  <2>2. DOMAIN <<>> = {} /\ 1 .. 0 = {}
    OBVIOUS
  <2>3. FoldersThere /\ Opened
    BY <2>1, <2>2 DEF FoldersThere, Opened
  <2> QED
    BY <2>1, <2>3, WalkInit, ToldInit, CopyInit DEF ToldInv
<1>2. ToldInv /\ [DumpNext]_dumpVars => ToldInv'
  BY ToldKeeps, DumpSteps
<1>3. ToldInv /\ Settled => FilesOnce
  BY ToldOnce
<1>4. ToldInv /\ FilesOnce /\ [DumpNext]_dumpVars /\ (Settled' => FilesOnce') => FilesOnce'
  BY OnceKeeps, DumpSteps DEF ToldInv
<1>5. ToldInv /\ FilesOnce /\ CopyInv /\ [DumpNext]_dumpVars => CopyInv'
  BY CopyKeeps DEF ToldInv
<1>6. ToldInv /\ ToldInv' /\ FoldersThere /\ [DumpNext]_dumpVars => FoldersThere'
  <2>1. ToldInv /\ FoldersThere /\ UNCHANGED vars => FoldersThere'
    BY DEF vars, FoldersThere
  <2> QED
    BY <2>1, ThereKeeps, DumpSteps
<1>7. ToldInv /\ CopyInv /\ Opened /\ [DumpNext]_dumpVars => Opened'
  BY OpenedKeeps DEF ToldInv, CopyInv
<1>8. ToldInv /\ CopyInv /\ FoldersThere /\ Opened => DumpExact
  <2> SUFFICES ASSUME ToldInv, CopyInv, FoldersThere, Opened, req.cmd = "dump", outcome = "ok"
               PROVE  /\ DOMAIN disk \cup failed \subseteq AskedFiles
                      /\ \A path \in AskedFiles : path \in DOMAIN disk \cup failed \/ Named(path) # {}
                      /\ \A path \in DOMAIN disk \ failed : Dumped(path)
    BY DEF DumpExact
  <2>1. running = {} /\ WalkInv /\ WorkInv
    BY DEF CopyInv, WorkInv, Hands, ToldInv
  <2>2. \A path \in DOMAIN disk \ failed : Dumped(path)
    BY <2>1, DoneDumped
  <2> QED
    BY <2>1, <2>2, AllDumped
<1> QED
  BY <1>1, <1>2, <1>3, <1>4, <1>5, <1>6, <1>7, <1>8, PTL DEF DumpSpec
=============================================================================
