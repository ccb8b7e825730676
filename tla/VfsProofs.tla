------------------------------ MODULE VfsProofs ------------------------------
(***************************************************************************)
(* Theorems about Vfs, for every archive, any number of threads and calls, *)
(* and whether or not directories are read twice at the same time.         *)
(***************************************************************************)
EXTENDS Vfs, FiniteSetTheorems, SequenceTheorems, TLAPS

\* What Append does to a sequence, and Front and Last to what it makes.
LEMMA AppendOp ==
  ASSUME NEW S, NEW s \in Seq(S), NEW e \in S
  PROVE  /\ Append(s, e) \in Seq(S)
         /\ Len(s) \in Nat /\ DOMAIN s = 1 .. Len(s)
         /\ Len(Append(s, e)) = Len(s) + 1
         /\ DOMAIN Append(s, e) = 1 .. Len(s) + 1
         /\ \A i \in 1 .. Len(s) : Append(s, e)[i] = s[i]
         /\ Append(s, e)[Len(s) + 1] = e
OBVIOUS

\* What Front and Last give of a path that was extended.
LEMMA PathOp ==
  ASSUME NEW S, NEW p \in Seq(S), NEW n \in S
  PROVE  /\ Append(p, n) \in Seq(S) /\ Append(p, n) # <<>>
         /\ Front(Append(p, n)) = p /\ Last(Append(p, n)) = n
<1>1. Len(Append(p, n)) = Len(p) + 1 /\ Append(p, n)[Len(p) + 1] = n
  OBVIOUS
<1>2. SubSeq(Append(p, n), 1, Len(p)) = p
  OBVIOUS
<1> QED
  BY <1>1, <1>2 DEF Front, Last

\* What writing an element does to a sequence.
LEMMA ReplaceOp ==
  ASSUME NEW S, NEW s \in Seq(S), NEW i \in DOMAIN s, NEW e \in S
  PROVE  /\ [s EXCEPT ![i] = e] \in Seq(S)
         /\ Len([s EXCEPT ![i] = e]) = Len(s)
         /\ DOMAIN [s EXCEPT ![i] = e] = DOMAIN s
         /\ \A k \in DOMAIN s : [s EXCEPT ![i] = e][k] = IF k = i THEN e ELSE s[k]
OBVIOUS

-----------------------------------------------------------------------------
\* The steps of a handler that change no object and no path.
Quiet(t) ==
  \/ \E op \in {"getattr", "readdir"}, path \in Askable : Call(t, op, path)
  \/ FindFolder(t) \/ FindFile(t) \/ Return(t) \/ CheckProcessed(t) \/ FilesFilled(t)
  \/ PublishBegins(t) \/ FoldersPublished(t) \/ FilesPublished(t)
  \/ ListBegins(t) \/ ListFolders(t) \/ ListFiles(t) \/ Crash(t)

\* The steps that change an object, or make one.
Builds(t) == LockDir(t) \/ FillFile(t) \/ FillFolder(t) \/ Filled(t)

\* Every step is of one of four kinds.
LEMMA NextKinds ==
  Next => \E t \in Threads : Quiet(t) \/ Builds(t) \/ PublishFolder(t) \/ PublishFile(t)
BY DEF Next, Handle, Quiet, Builds

\* A quiet step registers nothing and changes no object.
LEMMA QuietLeaves ==
  ASSUME NEW t \in Threads, Quiet(t)
  PROVE  UNCHANGED <<heap, folders, files>>
BY DEF Quiet, Call, FindFolder, FindFile, Return, CheckProcessed, FilesFilled,
       PublishBegins, FoldersPublished, FilesPublished, ListBegins, ListFolders,
       ListFiles, Crash, maps

\* Filling a folder registers nothing.
LEMMA BuildsLeaves ==
  ASSUME NEW t \in Threads, Builds(t)
  PROVE  UNCHANGED <<folders, files>>
BY DEF Builds, LockDir, FillFile, FillFolder, Filled, maps

\* A path that has led to a node leads to it for ever (vfs.hpp:144-152).
THEOREM NodesAreKept == Spec => NodesStay
<1> DEFINE Stay == /\ \A p \in DOMAIN folders : p \in DOMAIN folders' /\ folders'[p] = folders[p]
                   /\ \A p \in DOMAIN files : p \in DOMAIN files' /\ files'[p] = files[p]
<1>1. [Next]_vars => [Stay]_vars
  <2> SUFFICES ASSUME Next PROVE Stay
    OBVIOUS
  <2>1. UNCHANGED <<folders, files>> => Stay
    OBVIOUS
  <2>2. ASSUME NEW t \in Threads, PublishFolder(t) PROVE Stay
    <3>1. PICK path, node : files' = files /\ folders' = TryEmplace(folders, path, node)
      BY <2>2 DEF PublishFolder
    <3>2. \A p \in DOMAIN folders : p \in DOMAIN folders' /\ folders'[p] = folders[p]
      BY <3>1 DEF TryEmplace
    <3> QED
      BY <3>1, <3>2
  <2>3. ASSUME NEW t \in Threads, PublishFile(t) PROVE Stay
    <3>1. PICK path, node : folders' = folders /\ files' = TryEmplace(files, path, node)
      BY <2>3 DEF PublishFile
    <3>2. \A p \in DOMAIN files : p \in DOMAIN files' /\ files'[p] = files[p]
      BY <3>1 DEF TryEmplace
    <3> QED
      BY <3>1, <3>2
  <2> QED
    BY <2>1, <2>2, <2>3, NextKinds, QuietLeaves, BuildsLeaves
<1> QED
  BY <1>1, PTL DEF Spec, NodesStay

-----------------------------------------------------------------------------
\* No object loses its container, an entry of its vectors or its place.
Grows(h, g) ==
  \A o \in DOMAIN h :
    /\ o \in DOMAIN g /\ g[o].cont = h[o].cont
    /\ Len(h[o].children) <= Len(g[o].children) /\ Len(h[o].files) <= Len(g[o].files)

\* The vectors of an object.
LEMMA ObjectType ==
  ASSUME NEW x \in Object
  PROVE  /\ x.children \in Seq(Nat) /\ x.files \in Seq(Nat)
         /\ Len(x.children) \in Nat /\ Len(x.files) \in Nat
BY DEF Object

\* An object that stands for the same container and has the children it had.
LEMMA ObjectChanged ==
  ASSUME NEW h, HeapOK(h), NEW o \in DOMAIN h, NEW new \in Object,
         new.cont = h[o].cont, new.name = h[o].name, new.children = h[o].children,
         Len(h[o].files) <= Len(new.files),
         \A k \in DOMAIN new.files : new.files[k] \in DOMAIN Archive[new.cont].files
  PROVE  HeapOK([h EXCEPT ![o] = new]) /\ Grows(h, [h EXCEPT ![o] = new])
<1> DEFINE g == [h EXCEPT ![o] = new]
<1>1. h \in Seq(Object)
  BY DEF HeapOK
<1>2. /\ g \in Seq(Object) /\ DOMAIN g = DOMAIN h
      /\ \A k \in DOMAIN h : g[k] = IF k = o THEN new ELSE h[k]
  BY <1>1, ReplaceOp
<1>3. \A k \in DOMAIN h : /\ g[k].cont = h[k].cont /\ g[k].name = h[k].name
                           /\ g[k].children = h[k].children
  BY <1>2
<1>4. \A k \in DOMAIN h : Len(h[k].children) \in Nat /\ Len(h[k].files) \in Nat
  BY <1>1 DEF Object
<1> HIDE DEF g
<1>5. HeapOK(g)
  <2>1. ASSUME NEW k \in DOMAIN g, NEW i \in DOMAIN g[k].children
        PROVE  /\ g[k].children[i] \in DOMAIN g
               /\ MadeOf(g[k].cont, g[g[k].children[i]].name, g[g[k].children[i]].cont)
    BY <1>2, <1>3, <2>1 DEF HeapOK
  <2>2. ASSUME NEW k \in DOMAIN g, NEW i \in DOMAIN g[k].files
        PROVE  g[k].files[i] \in DOMAIN Archive[g[k].cont].files
    BY <1>2, <2>2 DEF HeapOK
  <2> QED
    BY <1>2, <2>1, <2>2 DEF HeapOK
<1>6. Grows(h, g)
  BY <1>2, <1>3, <1>4 DEF Grows
<1> QED
  BY <1>5, <1>6 DEF g

\* An object that gets a new child made of an entry of its container.
LEMMA ChildMade ==
  ASSUME NEW h, HeapOK(h), NEW o \in DOMAIN h, NEW new \in Object, NEW child \in Object,
         new.cont = h[o].cont, new.name = h[o].name,
         new.children = Append(h[o].children, Len(h) + 1),
         Len(h[o].files) <= Len(new.files),
         \A k \in DOMAIN new.files : new.files[k] \in DOMAIN Archive[new.cont].files,
         child.children = <<>>, child.files = <<>>,
         MadeOf(h[o].cont, child.name, child.cont)
  PROVE  /\ HeapOK(Append([h EXCEPT ![o] = new], child))
         /\ Grows(h, Append([h EXCEPT ![o] = new], child))
<1> DEFINE r == [h EXCEPT ![o] = new]
           g == Append(r, child)
           n == Len(h) + 1
<1>1. h \in Seq(Object) /\ Len(h) \in Nat /\ DOMAIN h = 1 .. Len(h)
  BY DEF HeapOK
<1>2. /\ r \in Seq(Object) /\ Len(r) = Len(h)
      /\ \A k \in DOMAIN h : r[k] = IF k = o THEN new ELSE h[k]
  BY <1>1, ReplaceOp
<1>3. /\ g \in Seq(Object) /\ DOMAIN g = 1 .. n /\ g[n] = child
      /\ \A k \in DOMAIN h : g[k] = IF k = o THEN new ELSE h[k]
  BY <1>1, <1>2, AppendOp
<1>4. \A k \in DOMAIN h : /\ g[k].cont = h[k].cont /\ g[k].name = h[k].name
  BY <1>3
<1>5. \A k \in DOMAIN h : h[k].children \in Seq(Nat) /\ h[k].files \in Seq(Nat)
  <2>1. \A k \in DOMAIN h : h[k] \in Object
    BY <1>1
  <2> QED
    BY <2>1, ObjectType
<1>6. /\ Len(new.children) = Len(h[o].children) + 1
      /\ DOMAIN new.children = 1 .. Len(h[o].children) + 1
      /\ DOMAIN h[o].children = 1 .. Len(h[o].children)
      /\ \A i \in DOMAIN h[o].children : new.children[i] = h[o].children[i]
      /\ new.children[Len(h[o].children) + 1] = n
  BY <1>1, <1>5, AppendOp
<1>7. DOMAIN <<>> = {}
  OBVIOUS
<1> HIDE DEF g, r
<1>8. HeapOK(g)
  <2>1. ASSUME NEW k \in DOMAIN g, NEW i \in DOMAIN g[k].children
        PROVE  /\ g[k].children[i] \in DOMAIN g
               /\ MadeOf(g[k].cont, g[g[k].children[i]].name, g[g[k].children[i]].cont)
    <3>1. CASE k = n
      BY <1>3, <1>7, <2>1, <3>1
    <3>2. CASE k \in DOMAIN h /\ i \in DOMAIN h[k].children
      <4>1. g[k].children[i] = h[k].children[i]
        BY <1>3, <1>6, <3>2
      <4>2. h[k].children[i] \in DOMAIN h
        BY <3>2 DEF HeapOK
      <4>3. MadeOf(h[k].cont, h[h[k].children[i]].name, h[h[k].children[i]].cont)
        BY <3>2 DEF HeapOK
      <4> QED
        BY <1>1, <1>3, <1>4, <3>2, <4>1, <4>2, <4>3
    <3>3. CASE k = o /\ i = Len(h[o].children) + 1
      <4>1. g[k].children[i] = n
        BY <1>3, <1>6, <3>3
      <4> QED
        BY <1>1, <1>3, <1>4, <3>3, <4>1
    <3> QED
      BY <1>1, <1>3, <1>5, <1>6, <2>1, <3>1, <3>2, <3>3, SMTT(30)
  <2>2. ASSUME NEW k \in DOMAIN g, NEW i \in DOMAIN g[k].files
        PROVE  g[k].files[i] \in DOMAIN Archive[g[k].cont].files
    BY <1>1, <1>3, <1>7, <2>2 DEF HeapOK
  <2> QED
    BY <1>3, <2>1, <2>2 DEF HeapOK
<1>9. Grows(h, g)
  <2> SUFFICES ASSUME NEW k \in DOMAIN h
               PROVE  /\ k \in DOMAIN g /\ g[k].cont = h[k].cont
                      /\ Len(h[k].children) <= Len(g[k].children)
                      /\ Len(h[k].files) <= Len(g[k].files)
    BY DEF Grows
  <2>1. Len(h[k].children) \in Nat /\ Len(h[k].files) \in Nat
    BY <1>5
  <2>2. CASE k = o
    BY <1>1, <1>3, <1>6, <2>1, <2>2
  <2>3. CASE k # o
    BY <1>1, <1>3, <2>1, <2>3
  <2> QED
    BY <2>2, <2>3
<1> QED
  BY <1>8, <1>9 DEF g, r

\* The node a thread at work has is an object.
LEMMA NodeOf ==
  ASSUME TypeOK, NEW t \in Threads, pc[t] \in AtWork
  PROVE  /\ dir[t] \in DOMAIN heap /\ heap[dir[t]] \in Object
         /\ heap[dir[t]].cont \in Containers
         /\ ask[t].path \in DOMAIN folders /\ dir[t] = folders[ask[t].path]
         /\ Len(heap[dir[t]].children) \in Nat /\ Len(heap[dir[t]].files) \in Nat
<1>1. ask[t].path \in DOMAIN folders /\ dir[t] = folders[ask[t].path]
  BY DEF TypeOK, ThreadOK
<1>2. dir[t] \in DOMAIN heap
  BY <1>1 DEF TypeOK, MapsOK
<1>3. heap[dir[t]] \in Object
  BY <1>2 DEF TypeOK, HeapOK
<1>4. heap[dir[t]].cont \in Containers
  BY <1>3 DEF Object
<1> QED
  BY <1>1, <1>2, <1>3, <1>4, ObjectType

\* Entry i of a container, when there is one.
LEMMA EntryOf ==
  ASSUME NEW c \in Containers, NEW i \in Nat \ {0}
  PROVE  /\ i <= Len(Archive[c].files) =>
              /\ i \in DOMAIN Archive[c].files
              /\ Archive[c].files[i] \in Entry
         /\ i <= Len(Archive[c].folders) =>
              /\ i \in DOMAIN Archive[c].folders
              /\ Archive[c].folders[i] \in SubFolder
BY VfsAssumption

\* Folder::process makes children of the entries of its container, and keeps
\* only files of its container.
LEMMA BuildsStep ==
  ASSUME TypeOK, NEW t \in Threads, Builds(t)
  PROVE  HeapOK(heap') /\ Grows(heap, heap')
<1> DEFINE o == dir[t]
           c == heap[o].cont
           i == next[t] + 1
<1>1. pc[t] \in AtWork
  BY DEF Builds, LockDir, FillFile, FillFolder, Filled, Goto, AtWork
<1>2. /\ o \in DOMAIN heap /\ heap[o] \in Object /\ c \in Containers
      /\ Len(heap[o].files) \in Nat
  BY <1>1, NodeOf
<1>3. HeapOK(heap) /\ i \in Nat \ {0}
  BY DEF TypeOK
<1>4. \A k \in DOMAIN heap[o].files : heap[o].files[k] \in DOMAIN Archive[c].files
  BY <1>2, <1>3 DEF HeapOK
<1> HIDE DEF o, c, i
<1>5. CASE LockDir(t)
  <2> DEFINE new == [heap[o] EXCEPT !.holder = t]
  <2>1. heap' = [heap EXCEPT ![o] = new]
    BY <1>5 DEF LockDir, o
  <2>2. new \in Object /\ new.cont = c /\ new.name = heap[o].name
        /\ new.children = heap[o].children /\ new.files = heap[o].files
    BY <1>2 DEF Object, c
  <2> HIDE DEF new
  <2>3. /\ Len(heap[o].files) <= Len(new.files)
        /\ \A k \in DOMAIN new.files : new.files[k] \in DOMAIN Archive[new.cont].files
    BY <1>2, <1>4, <2>2
  <2> QED
    BY <1>2, <1>3, <2>1, <2>2, <2>3, ObjectChanged DEF c
<1>6. CASE Filled(t)
  <2> DEFINE new == [heap[o] EXCEPT !.processed = TRUE, !.holder = Nobody]
  <2>1. heap' = [heap EXCEPT ![o] = new]
    BY <1>6 DEF Filled, o
  <2>2. new \in Object /\ new.cont = c /\ new.name = heap[o].name
        /\ new.children = heap[o].children /\ new.files = heap[o].files
    BY <1>2 DEF Object, c
  <2> HIDE DEF new
  <2>3. /\ Len(heap[o].files) <= Len(new.files)
        /\ \A k \in DOMAIN new.files : new.files[k] \in DOMAIN Archive[new.cont].files
    BY <1>2, <1>4, <2>2
  <2> QED
    BY <1>2, <1>3, <2>1, <2>2, <2>3, ObjectChanged DEF c
<1>7. CASE FillFile(t)
  <2> DEFINE entry == Archive[c].files[i]
             open == Opens(entry, keys)
             kept == IF Kept(entry, keys) THEN Append(heap[o].files, i) ELSE heap[o].files
  <2>1. /\ i <= Len(Archive[c].files)
        /\ heap' = IF open
                     THEN Append([heap EXCEPT ![o].files = kept,
                                              ![o].children = Append(@, Len(heap) + 1)],
                                 NewFolder(entry.stem, entry.inside))
                     ELSE [heap EXCEPT ![o].files = kept]
    BY <1>7 DEF FillFile, o, c, i
  <2>2. i \in DOMAIN Archive[c].files /\ entry \in Entry
    BY <1>2, <1>3, <2>1, EntryOf
  <2>3. /\ kept \in Seq(Nat) /\ Len(heap[o].files) <= Len(kept)
        /\ \A k \in DOMAIN kept : kept[k] \in DOMAIN Archive[c].files
    <3>1. kept = heap[o].files \/ kept = Append(heap[o].files, i)
      OBVIOUS
    <3> HIDE DEF kept
    <3>2. heap[o].files \in Seq(Nat) /\ i \in Nat
      BY <1>2, <1>3, ObjectType
    <3>3. CASE kept = heap[o].files
      BY <1>2, <1>4, <3>2, <3>3
    <3>4. CASE kept = Append(heap[o].files, i)
      <4>1. /\ kept \in Seq(Nat) /\ Len(kept) = Len(heap[o].files) + 1
            /\ DOMAIN kept = 1 .. Len(heap[o].files) + 1
            /\ DOMAIN heap[o].files = 1 .. Len(heap[o].files)
            /\ \A k \in 1 .. Len(heap[o].files) : kept[k] = heap[o].files[k]
            /\ kept[Len(heap[o].files) + 1] = i
        BY <3>2, <3>4, AppendOp
      <4> QED
        BY <1>2, <1>4, <2>2, <4>1, SMTT(30)
    <3> QED
      BY <3>1, <3>3, <3>4
  <2> HIDE DEF kept, entry
  <2>4. CASE open
    <3> DEFINE kids == Append(heap[o].children, Len(heap) + 1)
               new == [heap[o] EXCEPT !.files = kept, !.children = kids]
               child == NewFolder(entry.stem, entry.inside)
    <3>1. heap' = Append([heap EXCEPT ![o] = new], child)
      BY <2>1, <2>4
    <3>2. kids \in Seq(Nat)
      BY <1>2, <1>3, ObjectType DEF HeapOK
    <3> HIDE DEF kids
    <3>3. /\ new \in Object /\ new.cont = c /\ new.name = heap[o].name
          /\ new.children = kids /\ new.files = kept
      BY <1>2, <2>3, <3>2 DEF Object, c
    <3>4. entry.stem \in STRING /\ entry.inside \in Containers
      BY <2>2, <2>4 DEF Entry, Opens
    <3>5. /\ child \in Object /\ child.children = <<>> /\ child.files = <<>>
          /\ child.name = entry.stem /\ child.cont = entry.inside
      BY <3>4 DEF NewFolder, Object
    <3>6. MadeOf(c, child.name, child.cont)
      BY <2>2, <3>5 DEF MadeOf, entry
    <3> HIDE DEF new, child
    <3> QED
      BY <1>2, <1>3, <2>3, <3>1, <3>3, <3>5, <3>6, ChildMade DEF c, kids
  <2>5. CASE ~open
    <3> DEFINE new == [heap[o] EXCEPT !.files = kept]
    <3>1. heap' = [heap EXCEPT ![o] = new]
      BY <2>1, <2>5
    <3>2. /\ new \in Object /\ new.cont = c /\ new.name = heap[o].name
          /\ new.children = heap[o].children /\ new.files = kept
      BY <1>2, <2>3 DEF Object, c
    <3> HIDE DEF new
    <3> QED
      BY <1>2, <1>3, <2>3, <3>1, <3>2, ObjectChanged DEF c
  <2> QED
    BY <2>4, <2>5
<1>8. CASE FillFolder(t)
  <2> DEFINE entry == Archive[c].folders[i]
             kids == Append(heap[o].children, Len(heap) + 1)
             new == [heap[o] EXCEPT !.children = kids]
             child == NewFolder(entry.name, entry.inside)
  <2>1. /\ i <= Len(Archive[c].folders)
        /\ heap' = Append([heap EXCEPT ![o] = new], child)
    BY <1>8 DEF FillFolder, o, c, i
  <2>2. /\ i \in DOMAIN Archive[c].folders /\ entry \in SubFolder
    BY <1>2, <1>3, <2>1, EntryOf
  <2>3. kids \in Seq(Nat)
    BY <1>2, <1>3, ObjectType DEF HeapOK
  <2> HIDE DEF kids
  <2>4. /\ new \in Object /\ new.cont = c /\ new.name = heap[o].name
        /\ new.children = kids
        /\ new.files = heap[o].files
    BY <1>2, <2>3 DEF Object, c
  <2>5. /\ child \in Object /\ child.children = <<>> /\ child.files = <<>>
        /\ child.name = entry.name /\ child.cont = entry.inside
    BY <2>2 DEF NewFolder, Object, SubFolder
  <2>6. MadeOf(c, child.name, child.cont)
    BY <2>2, <2>5 DEF MadeOf
  <2> HIDE DEF new, child
  <2>7. /\ Len(heap[o].files) <= Len(new.files)
        /\ \A k \in DOMAIN new.files : new.files[k] \in DOMAIN Archive[new.cont].files
    BY <1>2, <1>4, <2>4
  <2> QED
    BY <1>2, <1>3, <2>1, <2>4, <2>5, <2>6, <2>7, ChildMade DEF c, kids
<1> QED
  BY <1>5, <1>6, <1>7, <1>8 DEF Builds

-----------------------------------------------------------------------------
\* Paths stay where they are.
Stays == \A p \in DOMAIN folders : p \in DOMAIN folders' /\ folders'[p] = folders[p]

\* What a thread knows stays true while objects grow and paths stay.
LEMMA ThreadKeeps ==
  ASSUME TypeOK, NEW t \in Threads, Grows(heap, heap'), HeapOK(heap'), Stays,
         pc'[t] = pc[t], ask'[t] = ask[t], dir'[t] = dir[t], end'[t] = end[t]
  PROVE  ThreadOK(t)'
<1>1. CASE pc[t] \notin AtWork
  BY <1>1 DEF ThreadOK, AtWork
<1>2. CASE pc[t] \in AtWork
  <2>1. /\ dir[t] \in DOMAIN heap /\ ask[t].path \in DOMAIN folders
        /\ dir[t] = folders[ask[t].path]
        /\ Len(heap[dir[t]].children) \in Nat /\ Len(heap[dir[t]].files) \in Nat
    BY <1>2, NodeOf
  <2>2. /\ dir[t] \in DOMAIN heap'
        /\ Len(heap[dir[t]].children) <= Len(heap'[dir[t]].children)
        /\ Len(heap[dir[t]].files) <= Len(heap'[dir[t]].files)
    BY <2>1 DEF Grows
  <2>3. heap'[dir[t]] \in Object
    BY <2>2 DEF HeapOK
  <2>4. Len(heap'[dir[t]].children) \in Nat /\ Len(heap'[dir[t]].files) \in Nat
    BY <2>3, ObjectType
  <2>5. ask[t].path \in DOMAIN folders' /\ dir[t] = folders'[ask[t].path]
    BY <2>1 DEF Stays
  <2>6. end[t] \in Nat /\ ThreadOK(t)
    BY DEF TypeOK
  <2>7. pc[t] \in {"pubdirs", "listdirs"} => end[t] <= Len(heap'[dir[t]].children)
    BY <2>1, <2>2, <2>4, <2>6 DEF ThreadOK
  <2>8. pc[t] \in {"pubfiles", "listfiles"} => end[t] <= Len(heap'[dir[t]].files)
    BY <2>1, <2>2, <2>4, <2>6 DEF ThreadOK
  <2> QED
    BY <2>5, <2>7, <2>8 DEF ThreadOK
<1> QED
  BY <1>1, <1>2

\* A heap that stays as it is grows, too.
LEMMA NothingGrows == HeapOK(heap) => Grows(heap, heap)
<1> SUFFICES ASSUME HeapOK(heap), NEW o \in DOMAIN heap
             PROVE  Len(heap[o].children) \in Nat /\ Len(heap[o].files) \in Nat
  BY DEF Grows
<1>1. heap[o] \in Object
  BY DEF HeapOK
<1> QED
  BY <1>1, ObjectType

\* The names an archive has in a container are strings.
LEMMA NamesAreStrings == \A c \in Containers : NamesIn(c) \subseteq STRING
<1> SUFFICES ASSUME NEW c \in Containers, NEW n \in NamesIn(c) PROVE n \in STRING
  OBVIOUS
<1>1. /\ \A i \in DOMAIN Archive[c].files : Archive[c].files[i] \in Entry
      /\ \A i \in DOMAIN Archive[c].folders : Archive[c].folders[i] \in SubFolder
  BY VfsAssumption
<1>2. CASE \E i \in DOMAIN Archive[c].files :
             n = Archive[c].files[i].name \/ n = Archive[c].files[i].stem
  <2>1. PICK e \in Entry : n = e.name \/ n = e.stem
    BY <1>1, <1>2
  <2> QED
    BY <2>1 DEF Entry
<1>3. CASE \E i \in DOMAIN Archive[c].folders : n = Archive[c].folders[i].name
  <2>1. PICK e \in SubFolder : n = e.name
    BY <1>1, <1>3
  <2> QED
    BY <2>1 DEF SubFolder
<1> QED
  BY <1>2, <1>3 DEF NamesIn

\* An object is named as the entry it was made of.
LEMMA MadeStrings ==
  ASSUME NEW c \in Containers, NEW name, NEW inside, MadeOf(c, name, inside)
  PROVE  name \in STRING
<1>1. CASE \E i \in DOMAIN Archive[c].files : Archive[c].files[i].stem = name
  <2>1. PICK e \in Entry : name = e.stem
    BY <1>1, VfsAssumption
  <2> QED
    BY <2>1 DEF Entry
<1>2. CASE \E i \in DOMAIN Archive[c].folders : Archive[c].folders[i].name = name
  <2>1. PICK e \in SubFolder : name = e.name
    BY <1>2, VfsAssumption
  <2> QED
    BY <2>1 DEF SubFolder
<1> QED
  BY <1>1, <1>2 DEF MadeOf

\* The paths a host asks for are paths.
LEMMA AskablePaths == TypeOK => Askable \subseteq Seq(STRING)
<1> SUFFICES ASSUME TypeOK, NEW path \in Askable PROVE path \in Seq(STRING)
  OBVIOUS
<1>1. CASE path = <<>>
  BY <1>1 DEF TypeOK, MapsOK
<1>2. CASE path # <<>>
  <2>1. PICK p \in DOMAIN folders : \E n \in NamesIn(heap[folders[p]].cont) : path = Append(p, n)
    BY <1>2 DEF Askable
  <2>2. p \in Seq(STRING) /\ folders[p] \in DOMAIN heap
    BY DEF TypeOK, MapsOK
  <2>3. heap[folders[p]] \in Object
    BY <2>2 DEF TypeOK, HeapOK
  <2>4. heap[folders[p]].cont \in Containers
    BY <2>3 DEF Object
  <2>5. PICK n \in STRING : path = Append(p, n)
    BY <2>1, <2>4, NamesAreStrings
  <2> QED
    BY <2>2, <2>5, PathOp
<1> QED
  BY <1>1, <1>2

\* TypeOK, but for what a thread knows of its node.
Typed ==
  /\ crashed \in BOOLEAN
  /\ pc \in [Threads -> PCs]
  /\ ask \in [Threads -> [op : {"none", "getattr", "readdir"}, path : Seq(STRING)]]
  /\ dir \in [Threads -> Nat]
  /\ next \in [Threads -> Nat] /\ end \in [Threads -> Nat]
  /\ calls \in [Threads -> Nat]

\* A step that changes no object and no path leaves the types as they are.
LEMMA QuietTypes ==
  ASSUME TypeOK, NEW t \in Threads, Quiet(t)
  PROVE  Typed'
<1> USE DEF TypeOK, Typed, PCs, Goto, maps
<1>1. ASSUME NEW op \in {"getattr", "readdir"}, NEW path \in Askable, Call(t, op, path)
      PROVE  Typed'
  <2>1. path \in Seq(STRING)
    BY AskablePaths
  <2> QED
    BY <1>1, <2>1 DEF Call
<1>2. CASE FindFolder(t)
  <2>1. ask[t].op = "readdir" /\ ask[t].path \in DOMAIN folders => folders[ask[t].path] \in Nat
    BY DEF MapsOK, HeapOK
  <2>2. dir' \in [Threads -> Nat]
    BY <1>2, <2>1 DEF FindFolder
  <2> QED
    BY <1>2, <2>2 DEF FindFolder
<1>3. CASE FindFile(t) \/ CheckProcessed(t) \/ FilesPublished(t) \/ ListFiles(t) \/ Crash(t)
  BY <1>3 DEF FindFile, CheckProcessed, FilesPublished, ListFiles, Crash
<1>4. CASE Return(t)
  <2>1. <<>> \in Seq(STRING)
    BY DEF MapsOK
  <2> QED
    BY <1>4, <2>1 DEF Return, NoAsk
<1>5. CASE FilesFilled(t)
  BY <1>5 DEF FilesFilled
<1>6. CASE PublishBegins(t) \/ FoldersPublished(t) \/ ListBegins(t) \/ ListFolders(t)
  <2>1. pc[t] \in AtWork
    BY <1>6 DEF PublishBegins, FoldersPublished, ListBegins, ListFolders, AtWork
  <2>2. Len(heap[dir[t]].children) \in Nat /\ Len(heap[dir[t]].files) \in Nat
    BY <2>1, NodeOf
  <2>3. PICK n \in Nat : next' = [next EXCEPT ![t] = 0] /\ end' = [end EXCEPT ![t] = n]
    BY <1>6, <2>2 DEF PublishBegins, FoldersPublished, ListBegins, ListFolders, Iterate
  <2>4. next' \in [Threads -> Nat] /\ end' \in [Threads -> Nat]
    BY <2>3
  <2> QED
    BY <1>6, <2>4 DEF PublishBegins, FoldersPublished, ListBegins, ListFolders
<1> QED
  BY <1>1, <1>2, <1>3, <1>4, <1>5, <1>6 DEF Quiet

\* The thread that takes such a step keeps to its node.
LEMMA QuietThread ==
  ASSUME TypeOK, NEW t \in Threads, Quiet(t)
  PROVE  ThreadOK(t)'
<1> USE DEF ThreadOK, AtWork, Goto, maps
<1>1. heap' = heap /\ folders' = folders
  BY QuietLeaves
<1>2. /\ pc[t] \in PCs /\ pc \in [Threads -> PCs] /\ ask[t].path \in Seq(STRING)
      /\ dir \in [Threads -> Nat] /\ end \in [Threads -> Nat] /\ ThreadOK(t)
  BY DEF TypeOK
<1>3. ASSUME NEW op \in {"getattr", "readdir"}, NEW path \in Askable, Call(t, op, path)
      PROVE  ThreadOK(t)'
  BY <1>2, <1>3 DEF Call
<1>4. CASE FindFolder(t)
  BY <1>1, <1>2, <1>4 DEF FindFolder
<1>5. CASE FindFile(t) \/ Return(t) \/ ListFiles(t)
  BY <1>2, <1>5 DEF FindFile, Return, ListFiles
<1>6. CASE CheckProcessed(t) \/ FilesFilled(t) \/ FilesPublished(t)
  BY <1>1, <1>2, <1>6 DEF CheckProcessed, FilesFilled, FilesPublished
<1>7. CASE PublishBegins(t) \/ FoldersPublished(t) \/ ListBegins(t) \/ ListFolders(t)
  <2>1. pc[t] \in AtWork
    BY <1>7 DEF PublishBegins, FoldersPublished, ListBegins, ListFolders
  <2>2. Len(heap[dir[t]].children) \in Nat /\ Len(heap[dir[t]].files) \in Nat
    BY <2>1, NodeOf
  <2> QED
    BY <1>1, <1>2, <1>7, <2>1, <2>2
    DEF PublishBegins, FoldersPublished, ListBegins, ListFolders, Iterate
<1>8. CASE Crash(t)
  BY <1>1, <1>2, <1>8 DEF Crash
<1> QED
  BY <1>3, <1>4, <1>5, <1>6, <1>7, <1>8 DEF Quiet

\* No handler's step touches what another thread has.
LEMMA OthersKeep ==
  ASSUME TypeOK, NEW t \in Threads, NEW u \in Threads, u # t,
         Quiet(t) \/ Builds(t) \/ PublishFolder(t) \/ PublishFile(t)
  PROVE  /\ pc'[u] = pc[u] /\ ask'[u] = ask[u]
         /\ dir'[u] = dir[u] /\ end'[u] = end[u]
<1> USE DEF TypeOK, Goto
<1>1. CASE PublishFolder(t) \/ PublishFile(t)
  BY <1>1 DEF PublishFolder, PublishFile
<1>2. CASE Builds(t)
  BY <1>2 DEF Builds, LockDir, FillFile, FillFolder, Filled
<1>3. ASSUME NEW op, NEW path, Call(t, op, path)
      PROVE  pc'[u] = pc[u] /\ ask'[u] = ask[u] /\ dir'[u] = dir[u] /\ end'[u] = end[u]
  BY <1>3 DEF Call
<1>4. CASE FindFolder(t) \/ FindFile(t) \/ Return(t) \/ CheckProcessed(t) \/ FilesFilled(t)
  BY <1>4 DEF FindFolder, FindFile, Return, CheckProcessed, FilesFilled
<1>5. CASE \/ PublishBegins(t) \/ FoldersPublished(t) \/ FilesPublished(t)
           \/ ListBegins(t) \/ ListFolders(t) \/ ListFiles(t) \/ Crash(t)
  BY <1>5 DEF PublishBegins, FoldersPublished, FilesPublished, ListBegins, ListFolders,
              ListFiles, Crash, Iterate
<1> QED
  BY <1>1, <1>2, <1>3, <1>4, <1>5 DEF Quiet


-----------------------------------------------------------------------------
\* A step that fills a folder keeps the types, and loads keys of the archive only.
LEMMA BuildsTypes ==
  ASSUME TypeOK, NEW t \in Threads, Builds(t)
  PROVE  Typed' /\ ThreadOK(t)' /\ keys' \subseteq Keys
<1> USE DEF Goto, maps
<1>1. /\ pc \in [Threads -> PCs] /\ next \in [Threads -> Nat] /\ keys \subseteq Keys
      /\ ask[t].path \in DOMAIN folders /\ dir[t] = folders[ask[t].path]
      /\ dir[t] \in DOMAIN heap /\ heap[dir[t]].cont \in Containers
  <2>1. pc[t] \in AtWork
    BY DEF Builds, LockDir, FillFile, FillFolder, Filled, AtWork
  <2> QED
    BY <2>1, NodeOf DEF TypeOK, MapsOK
<1>2. next' \in [Threads -> Nat]
  <2>1. \/ next' = [next EXCEPT ![t] = 0]
        \/ next' = next
        \/ next' = [next EXCEPT ![t] = next[t] + 1]
    BY DEF Builds, LockDir, FillFile, FillFolder, Filled
  <2>2. next[t] + 1 \in Nat
    BY <1>1
  <2> QED
    BY <1>1, <2>1, <2>2
<1>3. Typed'
  BY <1>2 DEF TypeOK, Typed, PCs, Builds, LockDir, FillFile, FillFolder, Filled
<1>4. ThreadOK(t)'
  BY <1>1 DEF TypeOK, ThreadOK, Builds, LockDir, FillFile, FillFolder, Filled
<1>5. ASSUME FillFile(t) PROVE keys' \subseteq Keys
  <2> DEFINE c == heap[dir[t]].cont
             entry == Archive[c].files[next[t] + 1]
  <2>1. keys' = keys \/ (Opens(entry, keys) /\ keys' = keys \cup Archive[entry.inside].tickets)
    BY <1>5 DEF FillFile
  <2>2. next[t] + 1 <= Len(Archive[c].files)
    BY <1>5 DEF FillFile
  <2>3. c \in Containers /\ next[t] + 1 \in Nat \ {0}
    BY <1>1
  <2> HIDE DEF c
  <2>4. entry \in Entry
    BY <2>2, <2>3, EntryOf
  <2> HIDE DEF entry
  <2>5. Opens(entry, keys) => entry.inside \in Containers
    BY <2>4 DEF Opens, Entry
  <2>6. \A d \in Containers : Archive[d].tickets \subseteq Keys
    BY DEF Keys
  <2> QED
    BY <1>1, <2>1, <2>5, <2>6
<1>6. ASSUME ~FillFile(t) PROVE keys' \subseteq Keys
  <2>1. keys' = keys
    BY <1>6 DEF Builds, LockDir, FillFolder, Filled
  <2> QED
    BY <1>1, <2>1
<1> QED
  BY <1>3, <1>4, <1>5, <1>6

\* A path is registered under a registered folder, for a child of its node.
LEMMA FolderChild ==
  ASSUME TypeOK, NEW t \in Threads, PublishFolder(t)
  PROVE  \E child \in DOMAIN heap :
           /\ folders' = TryEmplace(folders, Append(ask[t].path, heap[child].name), child)
           /\ ask[t].path \in DOMAIN folders /\ folders[ask[t].path] \in DOMAIN heap
           /\ Append(ask[t].path, heap[child].name) \in Seq(STRING)
           /\ Append(ask[t].path, heap[child].name) # <<>>
           /\ Front(Append(ask[t].path, heap[child].name)) = ask[t].path
           /\ MadeOf(heap[folders[ask[t].path]].cont,
                     Last(Append(ask[t].path, heap[child].name)), heap[child].cont)
<1> DEFINE o == dir[t]
           child == heap[o].children[next[t] + 1]
<1>1. pc[t] = "pubdirs" /\ next[t] < end[t] /\ next[t] \in Nat /\ end[t] \in Nat
  BY DEF TypeOK, PublishFolder, Goto, Advance
<1>2. /\ o \in DOMAIN heap /\ ask[t].path \in DOMAIN folders /\ o = folders[ask[t].path]
      /\ Len(heap[o].children) \in Nat /\ heap[o] \in Object
  BY <1>1, NodeOf DEF AtWork
<1>3. end[t] <= Len(heap[o].children)
  BY <1>1 DEF TypeOK, ThreadOK
<1>4. next[t] + 1 \in DOMAIN heap[o].children
  <2>1. heap[o].children \in Seq(Nat)
    BY <1>2, ObjectType
  <2> QED
    BY <1>1, <1>2, <1>3, <2>1
<1>5. child \in DOMAIN heap /\ MadeOf(heap[o].cont, heap[child].name, heap[child].cont)
  BY <1>2, <1>4 DEF TypeOK, HeapOK
<1>6. heap[child].name \in STRING
  BY <1>2, <1>5, MadeStrings DEF Object
<1>7. ask[t].path \in Seq(STRING)
  BY <1>2 DEF TypeOK, MapsOK
<1>8. folders' = TryEmplace(folders, Append(ask[t].path, heap[child].name), child)
  BY DEF PublishFolder
<1> HIDE DEF o, child
<1>9. /\ Append(ask[t].path, heap[child].name) \in Seq(STRING)
      /\ Append(ask[t].path, heap[child].name) # <<>>
      /\ Front(Append(ask[t].path, heap[child].name)) = ask[t].path
      /\ Last(Append(ask[t].path, heap[child].name)) = heap[child].name
  BY <1>6, <1>7, PathOp
<1> QED
  BY <1>2, <1>5, <1>8, <1>9

\* The same for a file: it is an entry of its folder's container.
LEMMA FileEntry ==
  ASSUME TypeOK, NEW t \in Threads, PublishFile(t)
  PROVE  \E c \in Containers : \E i \in DOMAIN Archive[c].files :
           LET path == Append(ask[t].path, Archive[c].files[i].name)
           IN  /\ files' = TryEmplace(files, path, [cont |-> c, entry |-> i])
               /\ ask[t].path \in DOMAIN folders /\ heap[folders[ask[t].path]].cont = c
               /\ path \in Seq(STRING) /\ path # <<>>
               /\ Front(path) = ask[t].path /\ Last(path) = Archive[c].files[i].name
<1> DEFINE o == dir[t]
           c == heap[o].cont
           i == heap[o].files[next[t] + 1]
           path == Append(ask[t].path, Archive[c].files[i].name)
<1>1. pc[t] = "pubfiles" /\ next[t] < end[t] /\ next[t] \in Nat /\ end[t] \in Nat
  BY DEF TypeOK, PublishFile, Goto, Advance
<1>2. /\ o \in DOMAIN heap /\ ask[t].path \in DOMAIN folders /\ o = folders[ask[t].path]
      /\ Len(heap[o].files) \in Nat /\ heap[o] \in Object /\ c \in Containers
  BY <1>1, NodeOf DEF AtWork
<1>3. end[t] <= Len(heap[o].files)
  BY <1>1 DEF TypeOK, ThreadOK
<1>4. next[t] + 1 \in DOMAIN heap[o].files
  <2>1. heap[o].files \in Seq(Nat)
    BY <1>2, ObjectType
  <2> QED
    BY <1>1, <1>2, <1>3, <2>1
<1>5. i \in DOMAIN Archive[c].files
  BY <1>2, <1>4 DEF TypeOK, HeapOK
<1>6. Archive[c].files[i].name \in STRING
  <2>1. Archive[c].files[i] \in Entry
    BY <1>2, <1>5, VfsAssumption
  <2> QED
    BY <2>1 DEF Entry
<1>7. ask[t].path \in Seq(STRING)
  BY <1>2 DEF TypeOK, MapsOK
<1>8. files' = TryEmplace(files, path, [cont |-> c, entry |-> i])
  BY DEF PublishFile
<1>9. heap[folders[ask[t].path]].cont = c
  BY <1>2
<1> HIDE DEF o, c, i
<1>10. /\ path \in Seq(STRING) /\ path # <<>>
       /\ Front(path) = ask[t].path /\ Last(path) = Archive[c].files[i].name
  BY <1>6, <1>7, PathOp
<1> QED
  BY <1>2, <1>5, <1>8, <1>9, <1>10

\* No step takes an object or a path away.
LEMMA StepKeeps ==
  ASSUME TypeOK, NEW t \in Threads,
         Quiet(t) \/ Builds(t) \/ PublishFolder(t) \/ PublishFile(t)
  PROVE  HeapOK(heap') /\ Grows(heap, heap') /\ Stays
<1>1. HeapOK(heap) /\ Grows(heap, heap)
  BY NothingGrows DEF TypeOK
<1>2. CASE Quiet(t)
  BY <1>1, <1>2, QuietLeaves DEF Stays
<1>3. CASE Builds(t)
  BY <1>3, BuildsStep, BuildsLeaves DEF Stays
<1>4. CASE PublishFolder(t)
  <2>1. heap' = heap
    BY <1>4 DEF PublishFolder
  <2>2. PICK path, node : folders' = TryEmplace(folders, path, node)
    BY <1>4 DEF PublishFolder
  <2>3. Stays
    BY <2>2 DEF Stays, TryEmplace
  <2> QED
    BY <1>1, <2>1, <2>3
<1>5. CASE PublishFile(t)
  BY <1>1, <1>5 DEF PublishFile, Stays
<1> QED
  BY <1>2, <1>3, <1>4, <1>5

\* A path is never registered without a node.
LEMMA MapsStep ==
  ASSUME TypeOK, NEW t \in Threads,
         Quiet(t) \/ Builds(t) \/ PublishFolder(t) \/ PublishFile(t)
  PROVE  MapsOK'
<1>1. /\ MapsOK /\ Grows(heap, heap') /\ Stays
  BY StepKeeps DEF TypeOK
<1>2. UNCHANGED options
  BY DEF Quiet, Call, FindFolder, FindFile, Return, CheckProcessed, FilesFilled,
         PublishBegins, FoldersPublished, FilesPublished, ListBegins, ListFolders,
         ListFiles, Crash, Builds, LockDir, FillFile, FillFolder, Filled,
         PublishFolder, PublishFile, maps
<1>3. keys' \subseteq Keys
  <2>1. CASE Builds(t)
    BY <2>1, BuildsTypes
  <2>2. CASE ~Builds(t)
    <3>1. keys' = keys
      BY <2>2 DEF Quiet, Call, FindFolder, FindFile, Return, CheckProcessed, FilesFilled,
           PublishBegins, FoldersPublished, FilesPublished, ListBegins, ListFolders,
           ListFiles, Crash, PublishFolder, PublishFile
    <3> QED
      BY <1>1, <3>1 DEF MapsOK
  <2> QED
    BY <2>1, <2>2
<1>4. keep_raw' \in BOOLEAN /\ serial' \in BOOLEAN
  BY <1>1, <1>2 DEF MapsOK, options
<1>5. CASE Quiet(t) \/ Builds(t)
  <2>1. folders' = folders /\ files' = files
    BY <1>5, QuietLeaves, BuildsLeaves
  <2> QED
    BY <1>1, <1>3, <1>4, <2>1 DEF MapsOK, Grows
<1>6. CASE PublishFolder(t)
  <2>1. PICK child \in DOMAIN heap :
          /\ folders' = TryEmplace(folders, Append(ask[t].path, heap[child].name), child)
          /\ Append(ask[t].path, heap[child].name) \in Seq(STRING)
    BY <1>6, FolderChild
  <2>2. heap' = heap /\ files' = files
    BY <1>6 DEF PublishFolder
  <2> QED
    BY <1>1, <1>3, <1>4, <2>1, <2>2 DEF MapsOK, TryEmplace
<1>7. CASE PublishFile(t)
  <2>1. PICK path, node : path \in Seq(STRING) /\ files' = TryEmplace(files, path, node)
    BY <1>7, FileEntry
  <2>2. heap' = heap /\ folders' = folders
    BY <1>7 DEF PublishFile
  <2> QED
    BY <1>1, <1>3, <1>4, <2>1, <2>2 DEF MapsOK, TryEmplace
<1> QED
  BY <1>5, <1>6, <1>7

\* A step that registers a node keeps the types.
LEMMA PublishTypes ==
  ASSUME TypeOK, NEW t \in Threads, PublishFolder(t) \/ PublishFile(t)
  PROVE  Typed' /\ ThreadOK(t)'
<1>1. /\ pc' = pc /\ next' = [next EXCEPT ![t] = next[t] + 1]
      /\ UNCHANGED <<crashed, ask, dir, end, calls>>
  BY DEF TypeOK, PublishFolder, PublishFile, Goto, Advance
<1>2. next[t] + 1 \in Nat
  BY DEF TypeOK
<1>3. next' \in [Threads -> Nat]
  BY <1>1, <1>2 DEF TypeOK
<1>4. Typed'
  BY <1>1, <1>3 DEF TypeOK, Typed
<1>5. ThreadOK(t)'
  BY <1>1, StepKeeps, ThreadKeeps
<1> QED
  BY <1>4, <1>5

\* The file system starts with its root.
LEMMA TypeInit == Init => TypeOK
<1> SUFFICES ASSUME Init PROVE TypeOK
  OBVIOUS
<1> DEFINE root == NewFolder("/", Root)
<1>1. /\ root \in Object /\ root.children = <<>> /\ root.files = <<>>
  <2>1. Root \in Containers /\ "/" \in STRING \cup {"/"}
    BY VfsAssumption
  <2>2. <<>> \in Seq(Nat)
    OBVIOUS
  <2> QED
    BY <2>1, <2>2 DEF NewFolder, Object
<1> HIDE DEF root
<1>2. heap = <<root>>
  BY DEF Init, root
<1>3. heap \in Seq(Object) /\ DOMAIN heap = {1} /\ heap[1] = root
  BY <1>1, <1>2
<1>4. HeapOK(heap)
  BY <1>1, <1>3 DEF HeapOK
<1>5. Archive[Root].tickets \subseteq Keys
  BY VfsAssumption DEF Keys
<1>6. <<>> \in Seq(STRING)
  OBVIOUS
<1>7. MapsOK
  BY <1>3, <1>5, <1>6 DEF MapsOK, Init
<1>8. \A t \in Threads : ThreadOK(t)
  BY DEF Init, ThreadOK, AtWork
<1>9. ask \in [Threads -> [op : {"none", "getattr", "readdir"}, path : Seq(STRING)]]
  BY <1>6 DEF Init, NoAsk
<1>10. Typed
  BY <1>9 DEF Init, Typed, PCs
<1> QED
  BY <1>4, <1>7, <1>8, <1>10 DEF TypeOK, Typed

\* The heap holds well-formed objects only, the paths lead to objects of it,
\* and no loop over a node's vector, however often another thread appends to
\* it, goes past the elements it holds; that its iterators may dangle then is
\* Crash (vfs.cpp:83-127, fuse.cpp:110-130).
THEOREM TypeCorrect == Spec => []TypeOK
<1>1. TypeOK /\ [Next]_vars => TypeOK'
  <2>1. ASSUME TypeOK, Next PROVE TypeOK'
    <3>1. PICK t \in Threads : Quiet(t) \/ Builds(t) \/ PublishFolder(t) \/ PublishFile(t)
      BY <2>1, NextKinds
    <3>2. Typed' /\ ThreadOK(t)'
      BY <2>1, <3>1, QuietTypes, QuietThread, BuildsTypes, PublishTypes
    <3>3. HeapOK(heap') /\ MapsOK'
      BY <2>1, <3>1, StepKeeps, MapsStep
    <3>4. ASSUME NEW u \in Threads, u # t PROVE ThreadOK(u)'
      BY <2>1, <3>1, <3>4, StepKeeps, OthersKeep, ThreadKeeps
    <3> QED
      BY <3>2, <3>3, <3>4 DEF TypeOK, Typed
  <2>2. ASSUME TypeOK, UNCHANGED vars PROVE TypeOK'
    BY <2>2 DEF TypeOK, MapsOK, ThreadOK, vars
  <2> QED
    BY <2>1, <2>2
<1> QED
  BY <1>1, TypeInit, PTL DEF Spec


-----------------------------------------------------------------------------
\* A registered path leads to an object made under the name of its last part.
LEMMA FaithfulStep ==
  ASSUME TypeOK, PathsFaithful, NEW t \in Threads,
         Quiet(t) \/ Builds(t) \/ PublishFolder(t) \/ PublishFile(t)
  PROVE  PathsFaithful'
<1>1. Grows(heap, heap') /\ Stays /\ DOMAIN folders \subseteq DOMAIN folders'
  BY StepKeeps DEF Stays
<1>2. \A p \in DOMAIN folders : folders[p] \in DOMAIN heap
  BY DEF TypeOK, MapsOK
<1>3. \A p \in DOMAIN folders :
        folders'[p] = folders[p] /\ heap'[folders[p]].cont = heap[folders[p]].cont
  BY <1>1, <1>2 DEF Stays, Grows
<1>4. ASSUME NEW p \in DOMAIN folders \ {<<>>}
      PROVE  /\ Front(p) \in DOMAIN folders'
             /\ MadeOf(heap'[folders'[Front(p)]].cont, Last(p), heap'[folders'[p]].cont)
  <2>1. /\ Front(p) \in DOMAIN folders
        /\ MadeOf(heap[folders[Front(p)]].cont, Last(p), heap[folders[p]].cont)
    BY DEF PathsFaithful
  <2> QED
    BY <1>1, <1>3, <2>1
<1>5. ASSUME NEW p \in DOMAIN files
      PROVE  /\ Front(p) \in DOMAIN folders'
             /\ heap'[folders'[Front(p)]].cont = files[p].cont
             /\ Archive[files[p].cont].files[files[p].entry].name = Last(p)
  <2>1. /\ Front(p) \in DOMAIN folders /\ heap[folders[Front(p)]].cont = files[p].cont
        /\ Archive[files[p].cont].files[files[p].entry].name = Last(p)
    BY DEF PathsFaithful
  <2> QED
    BY <1>1, <1>3, <2>1
<1>6. CASE Quiet(t) \/ Builds(t)
  <2>1. folders' = folders /\ files' = files
    BY <1>6, QuietLeaves, BuildsLeaves
  <2> QED
    BY <1>4, <1>5, <2>1 DEF PathsFaithful
<1>7. CASE PublishFolder(t)
  <2>1. PICK child \in DOMAIN heap :
          LET path == Append(ask[t].path, heap[child].name)
          IN  /\ folders' = TryEmplace(folders, path, child)
              /\ ask[t].path \in DOMAIN folders /\ Front(path) = ask[t].path
              /\ MadeOf(heap[folders[ask[t].path]].cont, Last(path), heap[child].cont)
    BY <1>7, FolderChild
  <2> DEFINE path == Append(ask[t].path, heap[child].name)
  <2>2. heap' = heap /\ files' = files
    BY <1>7 DEF PublishFolder
  <2>3. DOMAIN folders' = DOMAIN folders \cup {path}
    BY <2>1 DEF TryEmplace
  <2>4. path \notin DOMAIN folders => folders'[path] = child
    BY <2>1 DEF TryEmplace
  <2>5. /\ ask[t].path \in DOMAIN folders /\ Front(path) = ask[t].path
        /\ MadeOf(heap[folders[ask[t].path]].cont, Last(path), heap[child].cont)
    BY <2>1
  <2> HIDE DEF path
  <2>6. ASSUME NEW p \in DOMAIN folders' \ {<<>>}
        PROVE  /\ Front(p) \in DOMAIN folders'
               /\ MadeOf(heap'[folders'[Front(p)]].cont, Last(p), heap'[folders'[p]].cont)
    <3>1. CASE p \in DOMAIN folders
      BY <1>4, <3>1
    <3>2. CASE p \notin DOMAIN folders
      <4>1. p = path
        BY <2>3, <3>2
      <4> QED
        BY <1>1, <1>3, <2>2, <2>4, <2>5, <3>2, <4>1
    <3> QED
      BY <3>1, <3>2
  <2> QED
    BY <1>5, <2>2, <2>6 DEF PathsFaithful
<1>8. CASE PublishFile(t)
  <2> DEFINE into(c, i) ==
          LET path == Append(ask[t].path, Archive[c].files[i].name)
          IN  /\ files' = TryEmplace(files, path, [cont |-> c, entry |-> i])
              /\ ask[t].path \in DOMAIN folders /\ heap[folders[ask[t].path]].cont = c
              /\ Front(path) = ask[t].path /\ Last(path) = Archive[c].files[i].name
  <2>1. PICK c \in Containers : \E i \in DOMAIN Archive[c].files : into(c, i)
    BY <1>8, FileEntry
  <2>2. PICK i \in DOMAIN Archive[c].files : into(c, i)
    BY <2>1
  <2> DEFINE path == Append(ask[t].path, Archive[c].files[i].name)
             file == [cont |-> c, entry |-> i]
  <2>3. heap' = heap /\ folders' = folders
    BY <1>8 DEF PublishFile
  <2>4. /\ DOMAIN files' = DOMAIN files \cup {path}
        /\ \A p \in DOMAIN files : files'[p] = files[p]
        /\ path \notin DOMAIN files => files'[path] = file
    BY <2>2 DEF TryEmplace
  <2>5. /\ ask[t].path \in DOMAIN folders /\ heap[folders[ask[t].path]].cont = c
        /\ Front(path) = ask[t].path /\ Last(path) = Archive[c].files[i].name
    BY <2>2
  <2>6. file.cont = c /\ file.entry = i
    OBVIOUS
  <2> HIDE DEF path, file
  <2>7. ASSUME NEW p \in DOMAIN files'
        PROVE  /\ Front(p) \in DOMAIN folders'
               /\ heap'[folders'[Front(p)]].cont = files'[p].cont
               /\ Archive[files'[p].cont].files[files'[p].entry].name = Last(p)
    <3>1. CASE p \in DOMAIN files
      BY <1>5, <2>4, <3>1
    <3>2. CASE p \notin DOMAIN files
      BY <2>3, <2>4, <2>5, <2>6, <3>2
    <3> QED
      BY <3>1, <3>2
  <2> QED
    BY <1>4, <2>3, <2>7 DEF PathsFaithful
<1> QED
  BY <1>6, <1>7, <1>8

\* Whoever fills the folders, in whatever order, a path leads where the archive
\* says it does (vfs.cpp:26-43, 83-127, vfs.hpp:144-152).
THEOREM PathsAreFaithful == Spec => []PathsFaithful
<1>1. Init => PathsFaithful
  BY DEF Init, PathsFaithful
<1>2. PathsFaithful /\ TypeOK /\ [Next]_vars => PathsFaithful'
  <2>1. ASSUME PathsFaithful, TypeOK, Next PROVE PathsFaithful'
    BY <2>1, NextKinds, FaithfulStep
  <2>2. ASSUME PathsFaithful, UNCHANGED vars PROVE PathsFaithful'
    BY <2>2 DEF PathsFaithful, vars
  <2> QED
    BY <2>1, <2>2
<1> QED
  BY <1>1, <1>2, TypeCorrect, PTL DEF Spec

-----------------------------------------------------------------------------
(* The numbers of a set in ascending order.                                 *)

\* A function over 1..n is a sequence, and what Append makes of it.
LEMMA AppendIs ==
  ASSUME NEW n \in Nat, NEW s, s = [k \in 1 .. n |-> s[k]], NEW e
  PROVE  Append(s, e) = [k \in 1 .. n + 1 |-> IF k <= n THEN s[k] ELSE e]
<1> DEFINE S == {s[k] : k \in 1 .. n} \cup {e}
<1>1. s \in Seq(S) /\ e \in S
  <2>1. \A k \in 1 .. n : s[k] \in S
    OBVIOUS
  <2> QED
    BY <2>1, IsASeq
<1> HIDE DEF S
<1>2. Len(s) = n
  BY <1>1
<1> QED
  BY <1>1, <1>2

LEMMA InOrderIs ==
  ASSUME NEW S, IsFiniteSet(S)
  PROVE  /\ Cardinality(S) \in Nat
         /\ InOrder(S) = [k \in 1 .. Cardinality(S) |-> InOrder(S)[k]]
         /\ Len(InOrder(S)) = Cardinality(S)
<1>1. Cardinality(S) \in Nat
  BY FS_CardinalityType
<1>2. InOrder(S) = [k \in 1 .. Cardinality(S) |-> InOrder(S)[k]]
  <2> DEFINE nth(k) == CHOOSE i \in S : Cardinality({j \in S : j < i}) = k - 1
  <2>1. InOrder(S) = [k \in 1 .. Cardinality(S) |-> nth(k)]
    BY DEF InOrder
  <2> HIDE DEF nth
  <2> QED
    BY <2>1
<1>3. InOrder(S) \in Seq({InOrder(S)[k] : k \in 1 .. Cardinality(S)})
  BY <1>1, <1>2, IsASeq
<1>4. Len(InOrder(S)) = Cardinality(S)
  BY <1>1, <1>2, <1>3
<1> QED
  BY <1>1, <1>2, <1>4

\* No numbers.
LEMMA InOrderEmpty == Cardinality({}) = 0 /\ InOrder({}) = <<>>
BY FS_EmptySet DEF InOrder

\* A number above all that are in the set comes after them.
LEMMA InOrderAppend ==
  ASSUME NEW i \in Nat, NEW S \in SUBSET (1 .. i)
  PROVE  LET T == S \cup {i + 1}
         IN  /\ IsFiniteSet(S) /\ IsFiniteSet(T)
             /\ Cardinality(T) = Cardinality(S) + 1
             /\ InOrder(T) = Append(InOrder(S), i + 1)
             /\ \A k \in 1 .. Cardinality(S) : InOrder(T)[k] = InOrder(S)[k]
             /\ InOrder(T)[Cardinality(S) + 1] = i + 1
<1> DEFINE T == S \cup {i + 1}
           n == Cardinality(S)
           Below(R, x) == {j \in R : j < x}
<1>1. IsFiniteSet(S) /\ i + 1 \notin S
  <2>1. IsFiniteSet(1 .. i)
    BY FS_Interval
  <2>2. IsFiniteSet(S)
    BY <2>1, FS_Subset
  <2>3. i + 1 \notin 1 .. i
    OBVIOUS
  <2> QED
    BY <2>2, <2>3
<1>2. IsFiniteSet(T) /\ Cardinality(T) = n + 1 /\ n \in Nat
  BY <1>1, FS_AddElement, FS_CardinalityType
<1>3. \A x \in S : Below(T, x) = Below(S, x)
  OBVIOUS
<1>4. Below(T, i + 1) = S
  <2>1. \A j \in S : j < i + 1
    OBVIOUS
  <2>2. ~(i + 1 < i + 1)
    OBVIOUS
  <2> QED
    BY <2>1, <2>2
<1>5. \A x \in S : Cardinality(Below(S, x)) \in Nat /\ Cardinality(Below(S, x)) < n
  <2> SUFFICES ASSUME NEW x \in S
               PROVE  Cardinality(Below(S, x)) \in Nat /\ Cardinality(Below(S, x)) < n
    OBVIOUS
  <2>1. Below(S, x) \in SUBSET S /\ x \notin Below(S, x)
    OBVIOUS
  <2> HIDE DEF Below
  <2>2. /\ IsFiniteSet(Below(S, x)) /\ Cardinality(Below(S, x)) <= n
        /\ n = Cardinality(Below(S, x)) => S = Below(S, x)
    BY <1>1, <2>1, FS_Subset
  <2>3. Cardinality(Below(S, x)) \in Nat
    BY <2>2, FS_CardinalityType
  <2> QED
    BY <1>2, <2>1, <2>2, <2>3
<1>6. ASSUME NEW k \in 1 .. n PROVE InOrder(T)[k] = InOrder(S)[k]
  <2> DEFINE m == k - 1
  <2>1. m # n
    BY <1>2
  <2>2. \A x : (x \in S /\ Cardinality(Below(S, x)) = m)
                <=> (x \in T /\ Cardinality(Below(T, x)) = m)
    BY <1>3, <1>4, <2>1
  <2>3. (CHOOSE x \in S : Cardinality(Below(S, x)) = m)
          = (CHOOSE x \in T : Cardinality(Below(T, x)) = m)
    BY <2>2, Zenon
  <2>4. k \in 1 .. Cardinality(T)
    BY <1>2
  <2> QED
    BY <2>3, <2>4 DEF InOrder
<1>7. InOrder(T)[n + 1] = i + 1
  <2>1. \A x \in T : Cardinality(Below(T, x)) = n <=> x = i + 1
    BY <1>2, <1>3, <1>4, <1>5
  <2>2. (CHOOSE x \in T : Cardinality(Below(T, x)) = n) = i + 1
    BY <2>1
  <2>3. n + 1 \in 1 .. Cardinality(T) /\ (n + 1) - 1 = n
    BY <1>2
  <2>4. InOrder(T)[n + 1] = CHOOSE x \in T : Cardinality(Below(T, x)) = (n + 1) - 1
    BY <2>3 DEF InOrder
  <2> QED
    BY <2>2, <2>3, <2>4
<1> HIDE DEF n, Below
<1>8. InOrder(T) = [k \in 1 .. n + 1 |-> IF k <= n THEN InOrder(S)[k] ELSE i + 1]
  <2>1. InOrder(T) = [k \in 1 .. n + 1 |-> InOrder(T)[k]]
    BY <1>2, InOrderIs
  <2>2. \A k \in 1 .. n + 1 :
          InOrder(T)[k] = IF k <= n THEN InOrder(S)[k] ELSE i + 1
    BY <1>2, <1>6, <1>7
  <2> HIDE DEF T
  <2> QED
    BY <2>1, <2>2
<1>9. InOrder(S) = [k \in 1 .. n |-> InOrder(S)[k]]
  BY <1>1, InOrderIs DEF n
<1>10. InOrder(T) = Append(InOrder(S), i + 1)
  <2> DEFINE s == InOrder(S)
             e == i + 1
  <2>1. s = [k \in 1 .. n |-> s[k]]
    BY <1>9
  <2>2. InOrder(T) = [k \in 1 .. n + 1 |-> IF k <= n THEN s[k] ELSE e]
    BY <1>8
  <2> HIDE DEF s, e
  <2>3. Append(s, e) = [k \in 1 .. n + 1 |-> IF k <= n THEN s[k] ELSE e]
    BY <1>2, <2>1, AppendIs DEF n
  <2> QED
    BY <2>2, <2>3 DEF s, e
<1> QED
  BY <1>1, <1>2, <1>6, <1>7, <1>10 DEF n

-----------------------------------------------------------------------------
(* What an object holds when the first entries of its container were gone    *)
(* through, once, with every key they need.                                  *)

\* The entries up to i that are shown as folders, and as files.
OpenedTo(c, i) == {j \in 1 .. i : Opens(Archive[c].files[j], Keys)}
KeptTo(raw, c, i) == {j \in 1 .. i : raw \/ ~Opens(Archive[c].files[j], Keys)}

\* The name of the k-th child after i files and any number of folders.
KidName(c, i, k) ==
  LET n == Cardinality(OpenedTo(c, i))
  IN  IF k <= n THEN Archive[c].files[InOrder(OpenedTo(c, i))[k]].stem
      ELSE Archive[c].folders[k - n].name

\* Object o holds what the first i files and d folders of its container give.
HoldsTo(h, raw, o, i, d) ==
  LET c == h[o].cont
  IN  /\ h[o].files = InOrder(KeptTo(raw, c, i))
      /\ Len(h[o].children) = Cardinality(OpenedTo(c, i)) + d
      /\ \A k \in DOMAIN h[o].children : h[h[o].children[k]].name = KidName(c, i, k)

FilesIn(h, o) == Len(Archive[h[o].cont].files)
FoldersIn(h, o) == Len(Archive[h[o].cont].folders)
Empty(h, raw, o) == ~h[o].processed /\ HoldsTo(h, raw, o, 0, 0)
Full(h, raw, o) == h[o].processed /\ HoldsTo(h, raw, o, FilesIn(h, o), FoldersIn(h, o))

LEMMA OpenedStep ==
  ASSUME NEW c, NEW i \in Nat
  PROVE  /\ OpenedTo(c, i) \in SUBSET (1 .. i) /\ IsFiniteSet(OpenedTo(c, i))
         /\ OpenedTo(c, i + 1) = IF Opens(Archive[c].files[i + 1], Keys)
                                   THEN OpenedTo(c, i) \cup {i + 1} ELSE OpenedTo(c, i)
         /\ OpenedTo(c, 0) = {}
<1>1. OpenedTo(c, i) \in SUBSET (1 .. i) /\ OpenedTo(c, 0) = {}
  BY DEF OpenedTo
<1>2. IsFiniteSet(OpenedTo(c, i))
  BY <1>1, FS_Interval, FS_Subset
<1>3. 1 .. i + 1 = (1 .. i) \cup {i + 1} /\ i + 1 \notin 1 .. i
  OBVIOUS
<1>4. OpenedTo(c, i + 1) = IF Opens(Archive[c].files[i + 1], Keys)
                             THEN OpenedTo(c, i) \cup {i + 1} ELSE OpenedTo(c, i)
  BY <1>3 DEF OpenedTo
<1> QED
  BY <1>1, <1>2, <1>4

LEMMA KeptStep ==
  ASSUME NEW raw \in BOOLEAN, NEW c, NEW i \in Nat
  PROVE  /\ KeptTo(raw, c, i) \in SUBSET (1 .. i) /\ IsFiniteSet(KeptTo(raw, c, i))
         /\ raw \/ ~Opens(Archive[c].files[i + 1], Keys) =>
              KeptTo(raw, c, i + 1) = KeptTo(raw, c, i) \cup {i + 1}
         /\ ~raw /\ Opens(Archive[c].files[i + 1], Keys) =>
              KeptTo(raw, c, i + 1) = KeptTo(raw, c, i)
         /\ KeptTo(raw, c, 0) = {}
<1>1. KeptTo(raw, c, i) \in SUBSET (1 .. i) /\ KeptTo(raw, c, 0) = {}
  BY DEF KeptTo
<1>2. IsFiniteSet(KeptTo(raw, c, i))
  BY <1>1, FS_Interval, FS_Subset
<1>3. 1 .. i + 1 = (1 .. i) \cup {i + 1} /\ i + 1 \notin 1 .. i
  OBVIOUS
<1>4. /\ raw \/ ~Opens(Archive[c].files[i + 1], Keys) =>
           KeptTo(raw, c, i + 1) = KeptTo(raw, c, i) \cup {i + 1}
      /\ ~raw /\ Opens(Archive[c].files[i + 1], Keys) =>
           KeptTo(raw, c, i + 1) = KeptTo(raw, c, i)
  BY <1>3 DEF KeptTo
<1> QED
  BY <1>1, <1>2, <1>4

\* The next entry leaves the children there are as they are named, and its own
\* is named by its stem.
LEMMA KidNames ==
  ASSUME NEW c, NEW i \in Nat
  PROVE  LET n == Cardinality(OpenedTo(c, i))
         IN  /\ n \in Nat
             /\ \A k \in 1 .. n : KidName(c, i + 1, k) = KidName(c, i, k)
             /\ Opens(Archive[c].files[i + 1], Keys) =>
                  /\ Cardinality(OpenedTo(c, i + 1)) = n + 1
                  /\ KidName(c, i + 1, n + 1) = Archive[c].files[i + 1].stem
             /\ ~Opens(Archive[c].files[i + 1], Keys) =>
                  Cardinality(OpenedTo(c, i + 1)) = n
<1> DEFINE S == OpenedTo(c, i)
           n == Cardinality(S)
<1>1. n \in Nat /\ S \in SUBSET (1 .. i)
  BY OpenedStep, FS_CardinalityType
<1>2. CASE Opens(Archive[c].files[i + 1], Keys)
  <2>1. OpenedTo(c, i + 1) = S \cup {i + 1}
    BY <1>2, OpenedStep
  <2>2. /\ Cardinality(S \cup {i + 1}) = n + 1
        /\ \A k \in 1 .. n : InOrder(S \cup {i + 1})[k] = InOrder(S)[k]
        /\ InOrder(S \cup {i + 1})[n + 1] = i + 1
    BY <1>1, InOrderAppend
  <2>3. \A k \in 1 .. n : k <= n /\ k <= n + 1
    BY <1>1
  <2>4. n + 1 <= n + 1
    BY <1>1
  <2> HIDE DEF S
  <2> QED
    BY <1>1, <1>2, <2>1, <2>2, <2>3, <2>4 DEF KidName, S
<1>3. CASE ~Opens(Archive[c].files[i + 1], Keys)
  <2>1. OpenedTo(c, i + 1) = S
    BY <1>3, OpenedStep
  <2> QED
    BY <1>1, <1>3, <2>1 DEF KidName
<1> QED
  BY <1>2, <1>3

\* The d-th folder comes after the files.
LEMMA FolderName ==
  ASSUME NEW c, NEW i \in Nat, NEW d \in Nat \ {0}
  PROVE  KidName(c, i, Cardinality(OpenedTo(c, i)) + d) = Archive[c].folders[d].name
<1> DEFINE n == Cardinality(OpenedTo(c, i))
<1>1. n \in Nat
  BY OpenedStep, FS_CardinalityType
<1>2. ~(n + d <= n) /\ (n + d) - n = d
  BY <1>1
<1> QED
  BY <1>2 DEF KidName

\* The sequences of such an object, when it is well-formed.
LEMMA HeldVectors ==
  ASSUME NEW h, HeapOK(h), NEW o \in DOMAIN h
  PROVE  /\ h[o].files \in Seq(Nat) /\ h[o].children \in Seq(Nat)
         /\ DOMAIN h[o].children = 1 .. Len(h[o].children) /\ Len(h[o].children) \in Nat
         /\ DOMAIN h[o].files = 1 .. Len(h[o].files) /\ Len(h[o].files) \in Nat
         /\ \A k \in DOMAIN h[o].children : h[o].children[k] \in DOMAIN h
         /\ h[o].cont \in Containers
<1>1. h[o] \in Object
  BY DEF HeapOK
<1>2. h[o].files \in Seq(Nat) /\ h[o].children \in Seq(Nat) /\ h[o].cont \in Containers
  BY <1>1 DEF Object
<1> QED
  BY <1>2 DEF HeapOK

\* The next file keeps or drops the entry, and makes a child of it or not.
LEMMA FileHeld ==
  ASSUME NEW h, HeapOK(h), NEW raw \in BOOLEAN, NEW o \in DOMAIN h, NEW i \in Nat, NEW g,
         HoldsTo(h, raw, o, i, 0), g[o].cont = h[o].cont,
         \A a \in DOMAIN h : g[a].name = h[a].name,
         LET entry == Archive[h[o].cont].files[i + 1]
             open == Opens(entry, Keys)
         IN  /\ g[o].files = IF raw \/ ~open THEN Append(h[o].files, i + 1) ELSE h[o].files
             /\ open => /\ g[o].children = Append(h[o].children, Len(h) + 1)
                        /\ g[Len(h) + 1].name = entry.stem
             /\ ~open => g[o].children = h[o].children
  PROVE  HoldsTo(g, raw, o, i + 1, 0)
<1> DEFINE c == h[o].cont
           entry == Archive[c].files[i + 1]
           n == Cardinality(OpenedTo(c, i))
<1>1. /\ h[o].files \in Seq(Nat) /\ h[o].children \in Seq(Nat)
      /\ DOMAIN h[o].children = 1 .. n /\ Len(h[o].children) = n /\ n \in Nat
      /\ \A k \in 1 .. n : h[o].children[k] \in DOMAIN h
      /\ h[o].files = InOrder(KeptTo(raw, c, i))
      /\ \A k \in 1 .. n : h[h[o].children[k]].name = KidName(c, i, k)
  BY HeldVectors, KidNames DEF HoldsTo
<1>2. g[o].files = InOrder(KeptTo(raw, c, i + 1))
  <2>1. CASE raw \/ ~Opens(entry, Keys)
    <3>1. KeptTo(raw, c, i + 1) = KeptTo(raw, c, i) \cup {i + 1}
      BY <2>1, KeptStep
    <3>2. KeptTo(raw, c, i) \in SUBSET (1 .. i)
      BY KeptStep
    <3>3. InOrder(KeptTo(raw, c, i) \cup {i + 1}) = Append(h[o].files, i + 1)
      BY <1>1, <3>2, InOrderAppend
    <3> QED
      BY <2>1, <3>1, <3>3
  <2>2. CASE ~(raw \/ ~Opens(entry, Keys))
    <3>1. KeptTo(raw, c, i + 1) = KeptTo(raw, c, i)
      BY <2>2, KeptStep
    <3>2. g[o].files = h[o].files
      BY <2>2
    <3> QED
      BY <1>1, <3>1, <3>2
  <2> QED
    BY <2>1, <2>2
<1>3. CASE Opens(entry, Keys)
  <2>1. /\ Cardinality(OpenedTo(c, i + 1)) = n + 1
        /\ KidName(c, i + 1, n + 1) = entry.stem
        /\ \A k \in 1 .. n : KidName(c, i + 1, k) = KidName(c, i, k)
    BY <1>3, KidNames
  <2>2. /\ g[o].children = Append(h[o].children, Len(h) + 1)
        /\ g[Len(h) + 1].name = entry.stem
    BY <1>3
  <2>3. Len(h) + 1 \in Nat
    BY DEF HeapOK
  <2>4. /\ Len(g[o].children) = n + 1 /\ DOMAIN g[o].children = 1 .. n + 1
        /\ \A k \in 1 .. n : g[o].children[k] = h[o].children[k]
        /\ g[o].children[n + 1] = Len(h) + 1
    BY <1>1, <2>2, <2>3, AppendOp
  <2>5. \A k \in 1 .. n + 1 : k \in 1 .. n \/ k = n + 1
    BY <1>1
  <2>6. \A k \in 1 .. n + 1 : g[g[o].children[k]].name = KidName(c, i + 1, k)
    BY <1>1, <2>1, <2>2, <2>4, <2>5
  <2>7. n + 1 + 0 = n + 1
    BY <1>1
  <2> QED
    BY <1>2, <2>1, <2>4, <2>6, <2>7 DEF HoldsTo
<1>4. CASE ~Opens(entry, Keys)
  <2>1. /\ Cardinality(OpenedTo(c, i + 1)) = n
        /\ \A k \in 1 .. n : KidName(c, i + 1, k) = KidName(c, i, k)
        /\ g[o].children = h[o].children /\ n + 0 = n
    BY <1>1, <1>4, KidNames
  <2>2. \A k \in 1 .. n : g[g[o].children[k]].name = KidName(c, i + 1, k)
    BY <1>1, <2>1
  <2> QED
    BY <1>1, <1>2, <2>1, <2>2 DEF HoldsTo
<1> QED
  BY <1>3, <1>4

\* The next folder is a child.
LEMMA FolderHeld ==
  ASSUME NEW h, HeapOK(h), NEW raw \in BOOLEAN, NEW o \in DOMAIN h, NEW i \in Nat, NEW d \in Nat, NEW g,
         HoldsTo(h, raw, o, i, d), g[o].cont = h[o].cont,
         \A a \in DOMAIN h : g[a].name = h[a].name,
         g[o].files = h[o].files,
         g[o].children = Append(h[o].children, Len(h) + 1),
         g[Len(h) + 1].name = Archive[h[o].cont].folders[d + 1].name
  PROVE  HoldsTo(g, raw, o, i, d + 1)
<1> DEFINE c == h[o].cont
           n == Cardinality(OpenedTo(c, i))
<1>1. /\ h[o].children \in Seq(Nat) /\ n \in Nat
      /\ DOMAIN h[o].children = 1 .. n + d /\ Len(h[o].children) = n + d
      /\ \A k \in 1 .. n + d : h[o].children[k] \in DOMAIN h
      /\ h[o].files = InOrder(KeptTo(raw, c, i))
      /\ \A k \in 1 .. n + d : h[h[o].children[k]].name = KidName(c, i, k)
  BY HeldVectors, KidNames DEF HoldsTo
<1>2. n + (d + 1) = n + d + 1 /\ n + d \in Nat /\ d + 1 \in Nat \ {0}
  BY <1>1
<1>3. KidName(c, i, n + d + 1) = Archive[c].folders[d + 1].name
  BY <1>2, FolderName
<1>4. Len(h) + 1 \in Nat
  BY DEF HeapOK
<1>5. /\ Len(g[o].children) = n + d + 1 /\ DOMAIN g[o].children = 1 .. n + d + 1
      /\ \A k \in 1 .. n + d : g[o].children[k] = h[o].children[k]
      /\ g[o].children[n + d + 1] = Len(h) + 1
  BY <1>1, <1>4, AppendOp
<1>6. \A k \in 1 .. n + d + 1 : k \in 1 .. n + d \/ k = n + d + 1
  BY <1>2
<1>7. \A k \in 1 .. n + d + 1 : g[g[o].children[k]].name = KidName(c, i, k)
  BY <1>1, <1>3, <1>5, <1>6
<1> QED
  BY <1>1, <1>2, <1>5, <1>7 DEF HoldsTo

\* What an object holds does not depend on the others.
Same(h, g, o) ==
  /\ g[o].cont = h[o].cont /\ g[o].files = h[o].files /\ g[o].children = h[o].children
  /\ \A a \in DOMAIN h : g[a].name = h[a].name

LEMMA HeldStays ==
  ASSUME NEW h, HeapOK(h), NEW g, NEW o \in DOMAIN h, Same(h, g, o),
         NEW raw \in BOOLEAN, NEW i, NEW d, HoldsTo(h, raw, o, i, d)
  PROVE  HoldsTo(g, raw, o, i, d)
<1>1. \A k \in DOMAIN h[o].children : h[o].children[k] \in DOMAIN h
  BY HeldVectors
<1> QED
  BY <1>1 DEF HoldsTo, Same

\* A folder that was just made holds nothing.
LEMMA NothingHeld ==
  ASSUME NEW h, NEW raw \in BOOLEAN, NEW o, h[o].files = <<>>, h[o].children = <<>>
  PROVE  HoldsTo(h, raw, o, 0, 0)
<1>1. OpenedTo(h[o].cont, 0) = {} /\ KeptTo(raw, h[o].cont, 0) = {}
  BY OpenedStep, KeptStep
<1>2. Len(h[o].children) = 0 + 0 /\ DOMAIN h[o].children = {}
  OBVIOUS
<1> QED
  BY <1>1, <1>2, InOrderEmpty DEF HoldsTo

\* The names wrap_readdir gives out of a node.
FolderNames(h, o) ==
  [k \in 1 .. Len(h[o].children) |-> h[h[o].children[k]].name]
FileNames(h, o) ==
  [k \in 1 .. Len(h[o].files) |-> Archive[h[o].cont].files[h[o].files[k]].name]

LEMMA NamesStay ==
  ASSUME NEW h, HeapOK(h), NEW g, NEW o \in DOMAIN h, Same(h, g, o)
  PROVE  FolderNames(g, o) = FolderNames(h, o) /\ FileNames(g, o) = FileNames(h, o)
<1>1. \A k \in 1 .. Len(h[o].children) : h[o].children[k] \in DOMAIN h
  BY HeldVectors
<1>2. \A k \in 1 .. Len(h[o].children) :
        g[g[o].children[k]].name = h[h[o].children[k]].name
  BY <1>1 DEF Same
<1> QED
  BY <1>2 DEF FolderNames, FileNames, Same

\* Two sequences in a row.
LEMMA ConcatIs ==
  ASSUME NEW n \in Nat, NEW m \in Nat, NEW s, NEW r,
         s = [k \in 1 .. n |-> s[k]], r = [k \in 1 .. m |-> r[k]]
  PROVE  s \o r = [k \in 1 .. n + m |-> IF k <= n THEN s[k] ELSE r[k - n]]
<1> DEFINE S == {s[k] : k \in 1 .. n} \cup {r[k] : k \in 1 .. m}
<1>1. s \in Seq(S)
  <2>1. \A k \in 1 .. n : s[k] \in S
    OBVIOUS
  <2> QED
    BY <2>1, IsASeq
<1>2. r \in Seq(S)
  <2>1. \A k \in 1 .. m : r[k] \in S
    OBVIOUS
  <2> QED
    BY <2>1, IsASeq
<1> HIDE DEF S
<1>3. Len(s) = n /\ Len(r) = m
  BY <1>1, <1>2
<1> QED
  BY <1>1, <1>2, <1>3

\* A full node gives out what its container lists.
LEMMA FullListing ==
  ASSUME TypeOK, NEW o \in DOMAIN heap, Full(heap, keep_raw, o)
  PROVE  FolderNames(heap, o) \o FileNames(heap, o) = Listing(heap[o].cont)
<1> DEFINE c == heap[o].cont
           N == Len(Archive[c].files)
           M == Len(Archive[c].folders)
           opened == OpenedTo(c, N)
           n == Cardinality(opened)
           A == [k \in DOMAIN InOrder(opened) |-> Archive[c].files[InOrder(opened)[k]].stem]
           B == [k \in DOMAIN Archive[c].folders |-> Archive[c].folders[k].name]
           kept == KeptTo(keep_raw, c, N)
           C == [k \in DOMAIN InOrder(kept) |-> Archive[c].files[InOrder(kept)[k]].name]
<1>1. HeapOK(heap) /\ c \in Containers
  BY HeldVectors DEF TypeOK
<1>2. /\ N \in Nat /\ DOMAIN Archive[c].files = 1 .. N
      /\ M \in Nat /\ DOMAIN Archive[c].folders = 1 .. M
  BY <1>1, VfsAssumption
<1>3. /\ opened = {i \in DOMAIN Archive[c].files : Opens(Archive[c].files[i], Keys)}
      /\ kept = {i \in DOMAIN Archive[c].files : Kept(Archive[c].files[i], Keys)}
  BY <1>2 DEF OpenedTo, KeptTo, Kept
<1>4. /\ n \in Nat /\ IsFiniteSet(kept)
      /\ InOrder(opened) = [k \in 1 .. n |-> InOrder(opened)[k]]
      /\ InOrder(kept) = [k \in 1 .. Cardinality(kept) |-> InOrder(kept)[k]]
      /\ Cardinality(kept) \in Nat
      /\ Len(InOrder(kept)) = Cardinality(kept)
  <2>1. IsFiniteSet(opened)
    BY <1>2, OpenedStep
  <2>2. keep_raw \in BOOLEAN
    BY DEF TypeOK, MapsOK
  <2>3. IsFiniteSet(kept)
    BY <1>2, <2>2, KeptStep
  <2> HIDE DEF opened, kept
  <2> QED
    BY <2>1, <2>3, InOrderIs
<1> HIDE DEF N, M, opened, kept
<1>5. Listing(c) = A \o B \o C
  BY <1>3 DEF Listing
<1>6. /\ heap[o].files = InOrder(kept)
      /\ Len(heap[o].children) = n + M /\ DOMAIN heap[o].children = 1 .. n + M
      /\ \A k \in 1 .. n + M : heap[heap[o].children[k]].name = KidName(c, N, k)
  BY <1>1, HeldVectors DEF Full, HoldsTo, FilesIn, FoldersIn, N, M, opened, kept
<1>7. FileNames(heap, o) = C
  <2>1. DOMAIN InOrder(kept) = 1 .. Len(heap[o].files)
    BY <1>4, <1>6
  <2> QED
    BY <1>6, <2>1 DEF FileNames
<1>8. A \o B = [k \in 1 .. n + M |-> IF k <= n THEN A[k] ELSE B[k - n]]
  <2>1. A = [k \in 1 .. n |-> A[k]] /\ B = [k \in 1 .. M |-> B[k]]
    BY <1>2, <1>4 DEF M
  <2> HIDE DEF A, B
  <2>2. n \in Nat /\ M \in Nat
    BY <1>2, <1>4 DEF M
  <2> HIDE DEF n
  <2> QED
    BY <2>1, <2>2, ConcatIs
<1>9. FolderNames(heap, o) = A \o B
  <2>1. \A k \in 1 .. n + M :
          heap[heap[o].children[k]].name = IF k <= n THEN A[k] ELSE B[k - n]
    <3> SUFFICES ASSUME NEW k \in 1 .. n + M
                 PROVE  KidName(c, N, k) = IF k <= n THEN A[k] ELSE B[k - n]
      BY <1>6
    <3>1. CASE k <= n
      <4>1. k \in DOMAIN InOrder(opened)
        BY <1>2, <1>4, <3>1 DEF M
      <4> QED
        BY <3>1, <4>1 DEF KidName, opened
    <3>2. CASE ~(k <= n)
      <4>1. k - n \in DOMAIN Archive[c].folders
        BY <1>2, <1>4, <3>2 DEF M
      <4> QED
        BY <3>2, <4>1 DEF KidName, opened
    <3> QED
      BY <3>1, <3>2
  <2> HIDE DEF A, B
  <2> QED
    BY <1>6, <1>8, <2>1 DEF FolderNames
<1> QED
  BY <1>5, <1>7, <1>9

-----------------------------------------------------------------------------
(* The steps of Folder::process, as what they do to its node.               *)

\* Only object o changes, and nothing changes its name or container.
Within(h, g, o) ==
  /\ o \in DOMAIN h
  /\ \A a \in DOMAIN h :
       /\ a \in DOMAIN g /\ g[a].name = h[a].name /\ g[a].cont = h[a].cont
       /\ a # o => g[a] = h[a]

\* No object is made, or one, and it is a child of o.
NoChild(h, g, o) == DOMAIN g = DOMAIN h /\ g[o].children = h[o].children
NewChild(h, g, o, child) ==
  /\ DOMAIN g = DOMAIN h \cup {Len(h) + 1} /\ Len(h) + 1 \notin DOMAIN h
  /\ g[o].children = Append(h[o].children, Len(h) + 1)
  /\ g[Len(h) + 1] = child

LEMMA ChangeOp ==
  ASSUME NEW h, HeapOK(h), NEW o \in DOMAIN h, NEW new,
         new.name = h[o].name, new.cont = h[o].cont
  PROVE  LET g == [h EXCEPT ![o] = new]
         IN  Within(h, g, o) /\ DOMAIN g = DOMAIN h /\ g[o] = new
<1>1. h \in Seq(Object)
  BY DEF HeapOK
<1> QED
  BY <1>1 DEF Within

LEMMA MakeOp ==
  ASSUME NEW h, HeapOK(h), NEW o \in DOMAIN h, NEW new, NEW child,
         new.name = h[o].name, new.cont = h[o].cont,
         new.children = Append(h[o].children, Len(h) + 1)
  PROVE  LET g == Append([h EXCEPT ![o] = new], child)
         IN  Within(h, g, o) /\ g[o] = new /\ NewChild(h, g, o, child)
<1> DEFINE r == [h EXCEPT ![o] = new]
           n == Len(h)
<1>1. h \in Seq(Object) /\ n \in Nat /\ DOMAIN h = 1 .. n
  BY DEF HeapOK
<1>2. r = [k \in 1 .. n |-> r[k]] /\ \A k \in 1 .. n : r[k] = IF k = o THEN new ELSE h[k]
  BY <1>1
<1> HIDE DEF r, n
<1>3. Append(r, child) = [k \in 1 .. n + 1 |-> IF k <= n THEN r[k] ELSE child]
  BY <1>1, <1>2, AppendIs
<1> DEFINE g == Append(r, child)
<1>4. /\ DOMAIN g = DOMAIN h \cup {n + 1} /\ n + 1 \notin DOMAIN h
      /\ g[n + 1] = child /\ \A k \in DOMAIN h : g[k] = r[k]
  <2>1. 1 .. n + 1 = (1 .. n) \cup {n + 1} /\ n + 1 \notin 1 .. n /\ ~(n + 1 <= n)
        /\ \A k \in 1 .. n : k <= n /\ k \in 1 .. n + 1
    BY <1>1
  <2> QED
    BY <1>1, <1>3, <2>1
<1> HIDE DEF g
<1>5. Within(h, g, o) /\ g[o] = new
  BY <1>1, <1>2, <1>4 DEF Within
<1>6. NewChild(h, g, o, child)
  BY <1>4, <1>5 DEF NewChild, n
<1> QED
  BY <1>5, <1>6 DEF g, r

\* Where a thread that fills a folder is.
LEMMA BuilderAt ==
  ASSUME TypeOK, NEW t \in Threads, Builds(t)
  PROVE  /\ pc[t] \in AtWork /\ dir[t] \in DOMAIN heap /\ heap[dir[t]] \in Object
         /\ heap[dir[t]].cont \in Containers /\ next[t] \in Nat
         /\ HeapOK(heap)
<1>1. pc[t] \in AtWork
  BY DEF Builds, LockDir, FillFile, FillFolder, Filled, Goto, AtWork
<1> QED
  BY <1>1, NodeOf DEF TypeOK

LEMMA LockOp ==
  ASSUME TypeOK, NEW t \in Threads, LockDir(t)
  PROVE  /\ Within(heap, heap', dir[t]) /\ NoChild(heap, heap', dir[t])
         /\ heap'[dir[t]].files = heap[dir[t]].files
         /\ heap'[dir[t]].processed = heap[dir[t]].processed
<1> DEFINE o == dir[t]
           new == [heap[o] EXCEPT !.holder = t]
<1>1. o \in DOMAIN heap /\ heap[o] \in Object /\ HeapOK(heap)
  BY BuilderAt DEF Builds
<1>2. heap' = [heap EXCEPT ![o] = new]
  BY DEF LockDir
<1>3. /\ new.name = heap[o].name /\ new.cont = heap[o].cont /\ new.files = heap[o].files
      /\ new.children = heap[o].children /\ new.processed = heap[o].processed
  BY <1>1 DEF Object
<1> HIDE DEF o, new
<1>4. Within(heap, heap', o) /\ DOMAIN heap' = DOMAIN heap /\ heap'[o] = new
  BY <1>1, <1>2, <1>3, ChangeOp
<1> QED
  BY <1>3, <1>4 DEF NoChild, o

LEMMA FilledOp ==
  ASSUME TypeOK, NEW t \in Threads, Filled(t)
  PROVE  /\ Within(heap, heap', dir[t]) /\ NoChild(heap, heap', dir[t])
         /\ heap'[dir[t]].files = heap[dir[t]].files
         /\ heap'[dir[t]].processed
<1> DEFINE o == dir[t]
           new == [heap[o] EXCEPT !.processed = TRUE, !.holder = Nobody]
<1>1. o \in DOMAIN heap /\ heap[o] \in Object /\ HeapOK(heap)
  BY BuilderAt DEF Builds
<1>2. heap' = [heap EXCEPT ![o] = new]
  BY DEF Filled
<1>3. /\ new.name = heap[o].name /\ new.cont = heap[o].cont /\ new.files = heap[o].files
      /\ new.children = heap[o].children /\ new.processed
  BY <1>1 DEF Object
<1> HIDE DEF o, new
<1>4. Within(heap, heap', o) /\ DOMAIN heap' = DOMAIN heap /\ heap'[o] = new
  BY <1>1, <1>2, <1>3, ChangeOp
<1> QED
  BY <1>3, <1>4 DEF NoChild, o

LEMMA FileOp ==
  ASSUME TypeOK, NEW t \in Threads, FillFile(t)
  PROVE  LET o == dir[t]
             i == next[t] + 1
             entry == Archive[heap[o].cont].files[i]
         IN  /\ Within(heap, heap', o)
             /\ heap'[o].files =
                  IF Kept(entry, keys) THEN Append(heap[o].files, i) ELSE heap[o].files
             /\ heap'[o].processed = heap[o].processed
             /\ Opens(entry, keys) =>
                  NewChild(heap, heap', o, NewFolder(entry.stem, entry.inside))
             /\ ~Opens(entry, keys) => NoChild(heap, heap', o)
<1> DEFINE o == dir[t]
           i == next[t] + 1
           entry == Archive[heap[o].cont].files[i]
           kept == IF Kept(entry, keys) THEN Append(heap[o].files, i) ELSE heap[o].files
           child == NewFolder(entry.stem, entry.inside)
<1>1. o \in DOMAIN heap /\ heap[o] \in Object /\ HeapOK(heap)
  BY BuilderAt DEF Builds
<1>2. heap' = IF Opens(entry, keys)
                THEN Append([heap EXCEPT ![o].files = kept,
                                         ![o].children = Append(@, Len(heap) + 1)], child)
                ELSE [heap EXCEPT ![o].files = kept]
  BY DEF FillFile
<1> HIDE DEF o, i, entry, kept, child
<1>3. CASE Opens(entry, keys)
  <2> DEFINE kids == Append(heap[o].children, Len(heap) + 1)
             new == [heap[o] EXCEPT !.files = kept, !.children = kids]
  <2>1. heap' = Append([heap EXCEPT ![o] = new], child)
    BY <1>2, <1>3
  <2> HIDE DEF kids
  <2>2. /\ new.name = heap[o].name /\ new.cont = heap[o].cont /\ new.files = kept
        /\ new.children = kids /\ new.processed = heap[o].processed
    BY <1>1 DEF Object
  <2> HIDE DEF new
  <2>3. Within(heap, heap', o) /\ heap'[o] = new /\ NewChild(heap, heap', o, child)
    BY <1>1, <2>1, <2>2, MakeOp DEF kids
  <2> QED
    BY <1>3, <2>2, <2>3 DEF o, i, entry, kept, child
<1>4. CASE ~Opens(entry, keys)
  <2> DEFINE new == [heap[o] EXCEPT !.files = kept]
  <2>1. heap' = [heap EXCEPT ![o] = new]
    BY <1>2, <1>4
  <2>2. /\ new.name = heap[o].name /\ new.cont = heap[o].cont /\ new.files = kept
        /\ new.children = heap[o].children /\ new.processed = heap[o].processed
    BY <1>1 DEF Object
  <2> HIDE DEF new
  <2>3. Within(heap, heap', o) /\ heap'[o] = new /\ NoChild(heap, heap', o)
    BY <1>1, <2>1, <2>2, ChangeOp DEF NoChild
  <2> QED
    BY <1>4, <2>2, <2>3 DEF o, i, entry, kept, child
<1> QED
  BY <1>3, <1>4

LEMMA FolderOp ==
  ASSUME TypeOK, NEW t \in Threads, FillFolder(t)
  PROVE  LET o == dir[t]
             entry == Archive[heap[o].cont].folders[next[t] + 1]
         IN  /\ Within(heap, heap', o)
             /\ heap'[o].files = heap[o].files
             /\ heap'[o].processed = heap[o].processed
             /\ NewChild(heap, heap', o, NewFolder(entry.name, entry.inside))
<1> DEFINE o == dir[t]
           entry == Archive[heap[o].cont].folders[next[t] + 1]
           child == NewFolder(entry.name, entry.inside)
           kids == Append(heap[o].children, Len(heap) + 1)
           new == [heap[o] EXCEPT !.children = kids]
<1>1. o \in DOMAIN heap /\ heap[o] \in Object /\ HeapOK(heap)
  BY BuilderAt DEF Builds
<1>2. heap' = Append([heap EXCEPT ![o] = new], child)
  BY DEF FillFolder
<1> HIDE DEF o, entry, child, kids
<1>3. /\ new.name = heap[o].name /\ new.cont = heap[o].cont /\ new.files = heap[o].files
      /\ new.children = kids /\ new.processed = heap[o].processed
  BY <1>1 DEF Object
<1> HIDE DEF new
<1>4. Within(heap, heap', o) /\ heap'[o] = new /\ NewChild(heap, heap', o, child)
  <2>1. new.children = Append(heap[o].children, Len(heap) + 1)
    BY <1>3 DEF kids
  <2> DEFINE g == Append([heap EXCEPT ![o] = new], child)
  <2>2. Within(heap, g, o) /\ g[o] = new /\ NewChild(heap, g, o, child)
    BY <1>1, <1>3, <2>1, MakeOp
  <2> QED
    BY <1>2, <2>2
<1> QED
  BY <1>3, <1>4 DEF o, entry, child

-----------------------------------------------------------------------------
(* The objects are a tree, and a path leads to each at most.                *)

Child(h, o, x) == \E k \in DOMAIN h[o].children : h[o].children[k] = x
OneParent(h) == \A o, a \in DOMAIN h : \A x : Child(h, o, x) /\ Child(h, a, x) => o = a
RootIsTop(h) == \A o \in DOMAIN h : ~Child(h, o, 1)
PathsAlong(h, fs) ==
  /\ <<>> \in DOMAIN fs /\ fs[<<>>] = 1
  /\ \A p \in DOMAIN fs \ {<<>>} :
       \E q \in DOMAIN fs : p = Append(q, h[fs[p]].name) /\ Child(h, fs[q], fs[p])

\* No two paths lead to one node.
OnePath(fs) == \A p, q \in DOMAIN fs : fs[p] = fs[q] => p = q

Tree ==
  /\ OneParent(heap) /\ RootIsTop(heap)
  /\ PathsAlong(heap, folders) /\ OnePath(folders)

\* What a step of Folder::process does to the children.
LEMMA BuildsOp ==
  ASSUME TypeOK, NEW t \in Threads, Builds(t)
  PROVE  /\ Within(heap, heap', dir[t])
         /\ \/ NoChild(heap, heap', dir[t])
            \/ \E child : /\ NewChild(heap, heap', dir[t], child)
                          /\ child.children = <<>> /\ child.files = <<>> /\ ~child.processed
<1>1. CASE LockDir(t) \/ Filled(t)
  BY <1>1, LockOp, FilledOp
<1>2. CASE FillFile(t)
  <2> DEFINE entry == Archive[heap[dir[t]].cont].files[next[t] + 1]
             child == NewFolder(entry.stem, entry.inside)
  <2>1. /\ Within(heap, heap', dir[t])
        /\ NoChild(heap, heap', dir[t]) \/ NewChild(heap, heap', dir[t], child)
    BY <1>2, FileOp
  <2>2. child.children = <<>> /\ child.files = <<>> /\ ~child.processed
    BY DEF NewFolder
  <2> HIDE DEF child
  <2> QED
    BY <2>1, <2>2
<1>3. CASE FillFolder(t)
  <2> DEFINE entry == Archive[heap[dir[t]].cont].folders[next[t] + 1]
             child == NewFolder(entry.name, entry.inside)
  <2>1. Within(heap, heap', dir[t]) /\ NewChild(heap, heap', dir[t], child)
    BY <1>3, FolderOp
  <2>2. child.children = <<>> /\ child.files = <<>> /\ ~child.processed
    BY DEF NewFolder
  <2> HIDE DEF child
  <2> QED
    BY <2>1, <2>2
<1> QED
  BY <1>1, <1>2, <1>3 DEF Builds

\* No child is lost, and a new one is a new object.
LEMMA ChildrenAfter ==
  ASSUME NEW h, HeapOK(h), NEW g, NEW o, Within(h, g, o),
         \/ NoChild(h, g, o)
         \/ \E child : NewChild(h, g, o, child) /\ child.children = <<>>
  PROVE  /\ \A a \in DOMAIN h : \A x : Child(h, a, x) => Child(g, a, x) /\ x \in DOMAIN h
         /\ \A a \in DOMAIN g : \A x : Child(g, a, x) =>
              \/ a \in DOMAIN h /\ Child(h, a, x)
              \/ a = o /\ x = Len(h) + 1 /\ x \notin DOMAIN h
<1> DEFINE n == Len(h)
<1>1. o \in DOMAIN h /\ n \in Nat
  BY DEF Within, HeapOK
<1>2. \A a \in DOMAIN h : \A x : Child(h, a, x) => x \in DOMAIN h
  BY HeldVectors DEF Child
<1>3. CASE NoChild(h, g, o)
  <2>1. DOMAIN g = DOMAIN h /\ \A a \in DOMAIN h : g[a].children = h[a].children
    BY <1>3 DEF NoChild, Within
  <2> QED
    BY <1>2, <2>1 DEF Child
<1>4. ASSUME NEW child, NewChild(h, g, o, child), child.children = <<>>
      PROVE  /\ \A a \in DOMAIN h : \A x : Child(h, a, x) => Child(g, a, x)
             /\ \A a \in DOMAIN g : \A x : Child(g, a, x) =>
                  \/ a \in DOMAIN h /\ Child(h, a, x)
                  \/ a = o /\ x = n + 1 /\ x \notin DOMAIN h
  <2>1. /\ DOMAIN g = DOMAIN h \cup {n + 1} /\ n + 1 \notin DOMAIN h
        /\ g[o].children = Append(h[o].children, n + 1) /\ g[n + 1].children = <<>>
        /\ \A a \in DOMAIN h : a # o => g[a].children = h[a].children
    BY <1>4 DEF NewChild, Within
  <2> DEFINE m == Len(h[o].children)
  <2>2. h[o].children \in Seq(Nat) /\ m \in Nat /\ n + 1 \in Nat /\ DOMAIN h[o].children = 1 .. m
    BY <1>1, HeldVectors
  <2>3. /\ DOMAIN g[o].children = 1 .. m + 1 /\ g[o].children[m + 1] = n + 1
        /\ \A k \in 1 .. m : g[o].children[k] = h[o].children[k]
    BY <2>1, <2>2, AppendOp
  <2>4. \A k \in 1 .. m + 1 : k \in 1 .. m \/ k = m + 1
    BY <2>2
  <2>5. \A x : Child(g, o, x) <=> (Child(h, o, x) \/ x = n + 1)
    <3>1. 1 .. m \in SUBSET (1 .. m + 1) /\ m + 1 \in 1 .. m + 1
      BY <2>2
    <3> HIDE DEF m, n
    <3> QED
      BY <2>2, <2>3, <2>4, <3>1 DEF Child
  <2>6. \A x : ~Child(g, n + 1, x)
    BY <2>1 DEF Child
  <2>7. \A a \in DOMAIN h : a # o => \A x : Child(g, a, x) <=> Child(h, a, x)
    BY <2>1 DEF Child
  <2> QED
    BY <1>1, <2>1, <2>5, <2>6, <2>7
<1> QED
  BY <1>2, <1>3, <1>4

\* What add_folder registers.
LEMMA PublishOp ==
  ASSUME TypeOK, NEW t \in Threads, PublishFolder(t)
  PROVE  LET o == dir[t]
             k == next[t] + 1
             child == heap[o].children[k]
             path == Append(ask[t].path, heap[child].name)
         IN  /\ o \in DOMAIN heap /\ ask[t].path \in DOMAIN folders
             /\ o = folders[ask[t].path]
             /\ k \in DOMAIN heap[o].children /\ child \in DOMAIN heap
             /\ DOMAIN folders' = DOMAIN folders \cup {path}
             /\ \A p \in DOMAIN folders : folders'[p] = folders[p]
             /\ path \notin DOMAIN folders => folders'[path] = child
             /\ next' = [next EXCEPT ![t] = k]
             /\ UNCHANGED <<heap, files, options, keys, pc, ask, dir, end, reply>>
<1> DEFINE o == dir[t]
           k == next[t] + 1
           child == heap[o].children[k]
           path == Append(ask[t].path, heap[child].name)
<1>1. pc[t] = "pubdirs" /\ next[t] < end[t] /\ next[t] \in Nat /\ end[t] \in Nat /\ pc' = pc
  BY DEF TypeOK, PublishFolder, Goto, Advance
<1>2. /\ o \in DOMAIN heap /\ ask[t].path \in DOMAIN folders /\ o = folders[ask[t].path]
      /\ Len(heap[o].children) \in Nat /\ HeapOK(heap)
  BY <1>1, NodeOf DEF AtWork, TypeOK
<1>3. end[t] <= Len(heap[o].children)
  BY <1>1 DEF TypeOK, ThreadOK
<1>4. k \in DOMAIN heap[o].children
  <2>1. k \in 1 .. Len(heap[o].children)
    BY <1>1, <1>2, <1>3
  <2> QED
    BY <1>2, <2>1, HeldVectors
<1>5. child \in DOMAIN heap
  BY <1>2, <1>4, HeldVectors
<1>6. folders' = TryEmplace(folders, path, child)
  BY DEF PublishFolder
<1>7. next' = [next EXCEPT ![t] = k]
  BY DEF PublishFolder, Advance
<1> HIDE DEF o, k, child, path
<1>8. /\ DOMAIN folders' = DOMAIN folders \cup {path}
      /\ \A p \in DOMAIN folders : folders'[p] = folders[p]
      /\ path \notin DOMAIN folders => folders'[path] = child
  BY <1>6 DEF TryEmplace
<1> QED
  BY <1>1, <1>2, <1>4, <1>5, <1>7, <1>8 DEF PublishFolder, o, k, child, path

LEMMA TreeStep ==
  ASSUME TypeOK, Tree, NEW t \in Threads,
         Quiet(t) \/ Builds(t) \/ PublishFolder(t) \/ PublishFile(t)
  PROVE  Tree'
<1>1. CASE Quiet(t) \/ PublishFile(t)
  <2>1. heap' = heap /\ folders' = folders
    BY <1>1, QuietLeaves DEF PublishFile
  <2> QED
    BY <2>1 DEF Tree
<1>2. CASE Builds(t)
  <2>1. folders' = folders /\ HeapOK(heap) /\ dir[t] \in DOMAIN heap
    BY <1>2, BuildsLeaves, BuilderAt
  <2>2. Within(heap, heap', dir[t])
    BY <1>2, BuildsOp
  <2>3. /\ \A a \in DOMAIN heap : \A x : Child(heap, a, x) => Child(heap', a, x) /\ x \in DOMAIN heap
        /\ \A a \in DOMAIN heap' : \A x : Child(heap', a, x) =>
             \/ a \in DOMAIN heap /\ Child(heap, a, x)
             \/ a = dir[t] /\ x = Len(heap) + 1 /\ x \notin DOMAIN heap
    BY <1>2, <2>1, <2>2, BuildsOp, ChildrenAfter
  <2>4. OneParent(heap')
    BY <2>1, <2>3 DEF Tree, OneParent
  <2>5. RootIsTop(heap')
    <3>1. 1 \in DOMAIN heap
      BY DEF Tree, PathsAlong, TypeOK, MapsOK
    <3> QED
      BY <2>3, <3>1 DEF Tree, RootIsTop
  <2>6. PathsAlong(heap', folders)
    <3>1. \A p \in DOMAIN folders : /\ folders[p] \in DOMAIN heap
                                    /\ heap'[folders[p]].name = heap[folders[p]].name
      BY <2>2 DEF TypeOK, MapsOK, Within
    <3> QED
      BY <2>3, <3>1 DEF Tree, PathsAlong
  <2> QED
    BY <2>1, <2>4, <2>5, <2>6 DEF Tree
<1>3. CASE PublishFolder(t)
  <2> DEFINE o == dir[t]
             k == next[t] + 1
             child == heap[o].children[k]
             path == Append(ask[t].path, heap[child].name)
  <2>1. /\ o \in DOMAIN heap /\ ask[t].path \in DOMAIN folders
        /\ o = folders[ask[t].path]
        /\ k \in DOMAIN heap[o].children
        /\ DOMAIN folders' = DOMAIN folders \cup {path}
        /\ \A p \in DOMAIN folders : folders'[p] = folders[p]
        /\ path \notin DOMAIN folders => folders'[path] = child
        /\ heap' = heap
    BY <1>3, PublishOp
  <2>2. Child(heap, o, child)
    BY <2>1 DEF Child
  <2>3. path = Append(ask[t].path, heap[child].name)
    OBVIOUS
  <2> HIDE DEF o, k, child, path
  <2>4. PathsAlong(heap, folders')
    <3>1. ASSUME NEW p \in DOMAIN folders' \ {<<>>}
          PROVE  \E q \in DOMAIN folders' :
                   p = Append(q, heap[folders'[p]].name) /\ Child(heap, folders'[q], folders'[p])
      <4>1. CASE p \in DOMAIN folders
        <5>1. PICK q \in DOMAIN folders :
                p = Append(q, heap[folders[p]].name) /\ Child(heap, folders[q], folders[p])
          BY <4>1 DEF Tree, PathsAlong
        <5> QED
          BY <2>1, <4>1, <5>1
      <4>2. CASE p \notin DOMAIN folders
        <5>1. p = path /\ folders'[p] = child
          BY <2>1, <4>2
        <5> QED
          BY <2>1, <2>2, <2>3, <5>1
      <4> QED
        BY <4>1, <4>2
    <3> QED
      BY <2>1, <3>1 DEF Tree, PathsAlong
  <2>5. ASSUME NEW q \in DOMAIN folders, folders[q] = child
        PROVE  q = path
    <3>1. q # <<>>
      BY <2>1, <2>2, <2>5 DEF Tree, RootIsTop, PathsAlong
    <3>2. PICK r \in DOMAIN folders : q = Append(r, heap[child].name) /\ Child(heap, folders[r], child)
      BY <2>5, <3>1 DEF Tree, PathsAlong
    <3>3. folders[r] \in DOMAIN heap
      BY DEF TypeOK, MapsOK
    <3>4. folders[r] = o
      BY <2>1, <2>2, <3>2, <3>3 DEF Tree, OneParent
    <3>5. r = ask[t].path
      BY <2>1, <3>4 DEF Tree, OnePath
    <3> QED
      BY <2>3, <3>2, <3>5
  <2>6. OnePath(folders')
    <3> SUFFICES ASSUME NEW p \in DOMAIN folders', NEW q \in DOMAIN folders',
                        folders'[p] = folders'[q]
                 PROVE  p = q
      BY DEF OnePath
    <3>1. CASE path \in DOMAIN folders
      <4>1. p \in DOMAIN folders /\ q \in DOMAIN folders
        BY <2>1, <3>1
      <4> QED
        BY <2>1, <4>1 DEF Tree, OnePath
    <3>2. CASE path \notin DOMAIN folders
      <4>1. CASE p \in DOMAIN folders /\ q \in DOMAIN folders
        BY <2>1, <4>1 DEF Tree, OnePath
      <4>2. CASE p = path /\ q \in DOMAIN folders
        BY <2>1, <2>5, <3>2, <4>2
      <4>3. CASE q = path /\ p \in DOMAIN folders
        BY <2>1, <2>5, <3>2, <4>3
      <4> QED
        BY <2>1, <4>1, <4>2, <4>3
    <3> QED
      BY <3>1, <3>2
  <2> QED
    BY <2>1, <2>4, <2>6 DEF Tree
<1> QED
  BY <1>1, <1>2, <1>3

LEMMA TreeInit == Init => Tree
<1> SUFFICES ASSUME Init PROVE Tree
  OBVIOUS
<1>1. /\ DOMAIN heap = {1} /\ heap[1].children = <<>>
      /\ DOMAIN folders = {<<>>} /\ folders[<<>>] = 1
  BY DEF Init, NewFolder
<1>2. \A x : ~Child(heap, 1, x)
  BY <1>1 DEF Child
<1> QED
  BY <1>1, <1>2 DEF Tree, OneParent, RootIsTop, PathsAlong, OnePath

\* Two different paths lead to two different nodes, so that no folder is shared
\* by two directories of the file system (vfs.cpp:26-43, vfs.hpp:144-152).
THEOREM OnePathPerNode == Spec => []OnePath(folders)
<1>1. Tree /\ TypeOK /\ [Next]_vars => Tree'
  <2>1. ASSUME Tree, TypeOK, Next PROVE Tree'
    BY <2>1, NextKinds, TreeStep
  <2>2. ASSUME Tree, UNCHANGED vars PROVE Tree'
    BY <2>2 DEF Tree, vars
  <2> QED
    BY <2>1, <2>2
<1>2. Tree => OnePath(folders)
  BY DEF Tree
<1> QED
  BY <1>1, <1>2, TreeInit, TypeCorrect, PTL DEF Spec

-----------------------------------------------------------------------------
(* The keys a container is tried with.                                      *)

KeysLoaded(known) == \A o \in DOMAIN heap : known[heap[o].cont] \subseteq keys

\* A container is opened with the keys that are loaded as it would be with all
\* the archive carries.
LEMMA EntryLoads ==
  ASSUME NEW known \in [Containers -> SUBSET Keys], LoadedBefore(known),
         TypeOK, KeysLoaded(known), NEW t \in Threads, FillFile(t)
  PROVE  LET c == heap[dir[t]].cont
             entry == Archive[c].files[next[t] + 1]
         IN  /\ Opens(entry, keys) <=> Opens(entry, Keys)
             /\ Opens(entry, keys) =>
                  /\ entry.inside \in Containers
                  /\ known[entry.inside] \subseteq known[c] \cup Archive[entry.inside].tickets
<1> DEFINE c == heap[dir[t]].cont
           i == next[t] + 1
           entry == Archive[c].files[i]
<1>1. dir[t] \in DOMAIN heap /\ c \in Containers /\ i \in Nat \ {0}
  BY BuilderAt DEF Builds
<1>2. i <= Len(Archive[c].files)
  BY DEF FillFile
<1>3. known[c] \subseteq keys /\ keys \subseteq Keys
  BY <1>1 DEF KeysLoaded, TypeOK, MapsOK
<1> HIDE DEF c, i
<1>4. i \in DOMAIN Archive[c].files /\ entry \in Entry
  BY <1>1, <1>2, EntryOf
<1>5. entry.inside # NoContainer =>
        /\ entry.inside \in Containers
        /\ known[entry.inside] \subseteq known[c] \cup Archive[entry.inside].tickets
        /\ Archive[entry.inside].needs \subseteq Keys =>
             Archive[entry.inside].needs \subseteq known[c]
  BY <1>1, <1>4 DEF LoadedBefore, Entry
<1> HIDE DEF entry
<1>6. Opens(entry, keys) <=> Opens(entry, Keys)
  BY <1>3, <1>5 DEF Opens
<1> QED
  BY <1>5, <1>6 DEF Opens, c, i, entry

LEMMA LoadedStep ==
  ASSUME NEW known \in [Containers -> SUBSET Keys], LoadedBefore(known),
         TypeOK, KeysLoaded(known), NEW t \in Threads,
         Quiet(t) \/ Builds(t) \/ PublishFolder(t) \/ PublishFile(t)
  PROVE  KeysLoaded(known)'
<1>1. CASE Quiet(t) \/ PublishFolder(t) \/ PublishFile(t)
  <2>1. heap' = heap
    BY <1>1, QuietLeaves DEF PublishFolder, PublishFile
  <2>2. keys' = keys
    BY <1>1 DEF Quiet, Call, FindFolder, FindFile, Return, CheckProcessed, FilesFilled,
         PublishBegins, FoldersPublished, FilesPublished, ListBegins, ListFolders,
         ListFiles, Crash, PublishFolder, PublishFile
  <2> QED
    BY <2>1, <2>2 DEF KeysLoaded
<1>2. CASE LockDir(t) \/ Filled(t)
  <2>1. Within(heap, heap', dir[t]) /\ NoChild(heap, heap', dir[t])
    BY <1>2, LockOp, FilledOp
  <2>2. keys' = keys
    BY <1>2 DEF LockDir, Filled
  <2> QED
    BY <2>1, <2>2 DEF KeysLoaded, Within, NoChild
<1>3. ASSUME NEW name, NEW inside, keys \subseteq keys',
             NewChild(heap, heap', dir[t], NewFolder(name, inside)),
             Within(heap, heap', dir[t]), known[inside] \subseteq keys'
      PROVE  KeysLoaded(known)'
  <2>1. NewFolder(name, inside).cont = inside
    BY DEF NewFolder
  <2> QED
    BY <1>3, <2>1 DEF KeysLoaded, Within, NewChild
<1>4. CASE FillFile(t)
  <2> DEFINE c == heap[dir[t]].cont
             entry == Archive[c].files[next[t] + 1]
  <2>1. /\ dir[t] \in DOMAIN heap /\ known[c] \subseteq keys
        /\ keys' = IF Opens(entry, keys) THEN keys \cup Archive[entry.inside].tickets ELSE keys
    BY <1>4, BuilderAt DEF Builds, KeysLoaded, FillFile
  <2>2. Within(heap, heap', dir[t])
    BY <1>4, FileOp
  <2>3. CASE Opens(entry, keys)
    <3>1. NewChild(heap, heap', dir[t], NewFolder(entry.stem, entry.inside))
      BY <1>4, <2>3, FileOp
    <3>2. known[entry.inside] \subseteq known[c] \cup Archive[entry.inside].tickets
      BY <1>4, <2>3, EntryLoads
    <3> HIDE DEF entry, c
    <3> QED
      BY <1>3, <2>1, <2>2, <2>3, <3>1, <3>2
  <2>4. CASE ~Opens(entry, keys)
    <3>1. NoChild(heap, heap', dir[t])
      BY <1>4, <2>4, FileOp
    <3> QED
      BY <2>1, <2>2, <2>4, <3>1 DEF KeysLoaded, Within, NoChild
  <2> QED
    BY <2>3, <2>4
<1>5. CASE FillFolder(t)
  <2> DEFINE c == heap[dir[t]].cont
             i == next[t] + 1
             entry == Archive[c].folders[i]
  <2>1. /\ dir[t] \in DOMAIN heap /\ c \in Containers /\ i \in Nat \ {0}
        /\ known[c] \subseteq keys /\ i <= Len(Archive[c].folders) /\ keys' = keys
    <3>1. dir[t] \in DOMAIN heap /\ c \in Containers /\ next[t] \in Nat
      BY <1>5, BuilderAt DEF Builds
    <3>2. i <= Len(Archive[c].folders) /\ keys' = keys
      BY <1>5 DEF FillFolder
    <3> QED
      BY <3>1, <3>2 DEF KeysLoaded
  <2>2. /\ Within(heap, heap', dir[t])
        /\ NewChild(heap, heap', dir[t], NewFolder(entry.name, entry.inside))
    BY <1>5, FolderOp
  <2> HIDE DEF c, i
  <2>3. i \in DOMAIN Archive[c].folders
    BY <2>1, EntryOf
  <2>4. known[entry.inside] \subseteq known[c]
    BY <2>1, <2>3 DEF LoadedBefore
  <2> HIDE DEF entry
  <2> QED
    BY <1>3, <2>1, <2>2, <2>4
<1> QED
  BY <1>1, <1>2, <1>4, <1>5 DEF Builds

-----------------------------------------------------------------------------
(* What a handler has answered so far.                                      *)

\* Only readdir works on a folder, and it answers when it is through.
ReaderOK(t) ==
  /\ pc[t] \in AtWork => ask[t].op = "readdir"
  /\ pc[t] \notin {"listfiles", "reply"} => reply[t] = NoReply
  /\ pc[t] = "listfiles" => reply[t].rc = "none"
  /\ reply[t].rc = "listing" =>
       /\ pc[t] = "reply" /\ ask[t].op = "readdir"
       /\ ask[t].path \in DOMAIN folders /\ dir[t] = folders[ask[t].path]

Readers == DOMAIN reply = Threads /\ \A t \in Threads : ReaderOK(t)

\* No handler's step touches what another thread has.
LEMMA OthersRest ==
  ASSUME TypeOK, Readers, NEW t \in Threads, NEW u \in Threads, u # t,
         Quiet(t) \/ Builds(t) \/ PublishFolder(t) \/ PublishFile(t)
  PROVE  next'[u] = next[u] /\ reply'[u] = reply[u]
<1> USE DEF TypeOK, Readers
<1>1. CASE PublishFolder(t) \/ PublishFile(t)
  BY <1>1 DEF PublishFolder, PublishFile, Advance
<1>2. CASE Builds(t)
  BY <1>2 DEF Builds, LockDir, FillFile, FillFolder, Filled
<1>3. ASSUME NEW op, NEW path, Call(t, op, path)
      PROVE  next'[u] = next[u] /\ reply'[u] = reply[u]
  BY <1>3 DEF Call
<1>4. CASE FindFolder(t) \/ FindFile(t)
  BY <1>4 DEF FindFolder, FindFile, Answer
<1>5. CASE Return(t) \/ CheckProcessed(t) \/ FilesFilled(t)
  BY <1>5 DEF Return, CheckProcessed, FilesFilled
<1>6. CASE PublishBegins(t) \/ FoldersPublished(t) \/ FilesPublished(t)
  BY <1>6 DEF PublishBegins, FoldersPublished, FilesPublished, Iterate
<1>7. CASE ListBegins(t) \/ ListFolders(t) \/ ListFiles(t) \/ Crash(t)
  BY <1>7 DEF ListBegins, ListFolders, ListFiles, Crash, Iterate, Fill
<1> QED
  BY <1>1, <1>2, <1>3, <1>4, <1>5, <1>6, <1>7 DEF Quiet

\* Where a handler begins, and where it ends without a listing.
Outside == {"idle", "folder", "file", "check", "reply"}

\* The steps up to the processed flag, and back.
LEMMA OutsideStep ==
  ASSUME TypeOK, Readers, NEW t \in Threads,
         \/ \E op \in {"getattr", "readdir"}, path \in Askable : Call(t, op, path)
         \/ FindFolder(t) \/ FindFile(t) \/ Return(t)
  PROVE  /\ pc'[t] \in Outside /\ pc[t] \in {"idle", "folder", "file", "reply"}
         /\ reply'[t].rc # "listing" /\ DOMAIN reply' = Threads
         /\ ReaderOK(t)'
<1> USE DEF Goto, Outside, NoReply
<1>1. /\ pc \in [Threads -> PCs] /\ ReaderOK(t) /\ DOMAIN reply = Threads
      /\ ask \in [Threads -> [op : {"none", "getattr", "readdir"}, path : Seq(STRING)]]
  BY DEF TypeOK, Readers
<1>2. ASSUME NEW op \in {"getattr", "readdir"}, NEW path \in Askable, Call(t, op, path)
      PROVE  /\ pc'[t] = "folder" /\ pc[t] = "idle" /\ reply' = reply /\ reply[t] = NoReply
  BY <1>1, <1>2 DEF Call, ReaderOK
<1>3. ASSUME FindFolder(t)
      PROVE  /\ pc'[t] \in {"reply", "file", "check"} /\ pc[t] = "folder" /\ reply[t] = NoReply
             /\ DOMAIN reply' = Threads
             /\ pc'[t] # "reply" => reply' = reply
             /\ reply'[t].rc # "listing"
             /\ pc'[t] = "check" => ask'[t].op = "readdir"
  BY <1>1, <1>3 DEF FindFolder, Answer, ReaderOK
<1>4. ASSUME FindFile(t)
      PROVE  /\ pc'[t] = "reply" /\ pc[t] = "file" /\ DOMAIN reply' = Threads
             /\ reply'[t].rc # "listing"
  BY <1>1, <1>4 DEF FindFile, Answer, ReaderOK
<1>5. ASSUME Return(t)
      PROVE  /\ pc'[t] = "idle" /\ pc[t] = "reply" /\ DOMAIN reply' = Threads
             /\ reply'[t] = NoReply
  BY <1>1, <1>5 DEF Return
<1>6. NoReply.rc = "none"
  OBVIOUS
<1> QED
  BY <1>1, <1>2, <1>3, <1>4, <1>5, <1>6 DEF ReaderOK, AtWork

LEMMA ReaderStep ==
  ASSUME TypeOK, Readers, NEW t \in Threads,
         Quiet(t) \/ Builds(t) \/ PublishFolder(t) \/ PublishFile(t)
  PROVE  Readers'
<1>1. ASSUME NEW u \in Threads, u # t PROVE ReaderOK(u)'
  <2>1. /\ pc'[u] = pc[u] /\ ask'[u] = ask[u] /\ dir'[u] = dir[u] /\ reply'[u] = reply[u]
        /\ Stays /\ ReaderOK(u)
    BY <1>1, OthersKeep, OthersRest, StepKeeps DEF Readers
  <2> QED
    BY <2>1 DEF ReaderOK, Stays
<1>2. /\ pc \in [Threads -> PCs] /\ ReaderOK(t) /\ DOMAIN reply = Threads /\ ThreadOK(t)
  BY DEF TypeOK, Readers
<1>3. CASE \/ \E op \in {"getattr", "readdir"}, path \in Askable : Call(t, op, path)
           \/ FindFolder(t) \/ FindFile(t) \/ Return(t)
  BY <1>1, <1>3, OutsideStep DEF Readers
<1>4. CASE Builds(t) \/ PublishFolder(t) \/ PublishFile(t)
  <2>1. /\ ask' = ask /\ reply' = reply /\ pc[t] \in AtWork /\ pc'[t] \in AtWork
        /\ pc[t] \notin {"listfiles", "reply"} /\ pc'[t] \notin {"listfiles", "reply"}
    BY <1>2, <1>4 DEF Builds, LockDir, FillFile, FillFolder, Filled, PublishFolder,
         PublishFile, Goto, AtWork
  <2>2. NoReply.rc = "none"
    BY DEF NoReply
  <2> QED
    BY <1>1, <1>2, <2>1, <2>2 DEF ReaderOK, Readers
<1>5. CASE \/ CheckProcessed(t) \/ FilesFilled(t) \/ PublishBegins(t) \/ FoldersPublished(t)
           \/ FilesPublished(t) \/ ListBegins(t)
  <2>1. /\ ask' = ask /\ reply' = reply /\ pc[t] \in AtWork /\ pc'[t] \in AtWork
        /\ pc[t] \notin {"listfiles", "reply"} /\ pc'[t] \notin {"listfiles", "reply"}
    BY <1>2, <1>5 DEF CheckProcessed, FilesFilled, PublishBegins, FoldersPublished,
         FilesPublished, ListBegins, Goto, AtWork
  <2>2. NoReply.rc = "none"
    BY DEF NoReply
  <2> QED
    BY <1>1, <1>2, <2>1, <2>2 DEF ReaderOK, Readers
<1>6. CASE ListFolders(t)
  <2>1. /\ ask' = ask /\ pc[t] = "listdirs" /\ pc'[t] = "listfiles" /\ reply[t] = NoReply
    BY <1>2, <1>6 DEF ListFolders, Goto, ReaderOK
  <2>2. DOMAIN reply' = Threads /\ reply'[t].rc = "none"
    BY <1>2, <1>6, <2>1 DEF ListFolders, Fill, NoReply
  <2> QED
    BY <1>1, <1>2, <2>1, <2>2 DEF ReaderOK, Readers, AtWork
<1>7. CASE ListFiles(t)
  <2>1. /\ ask' = ask /\ dir' = dir /\ folders' = folders /\ pc[t] = "listfiles" /\ pc'[t] = "reply"
    BY <1>2, <1>7 DEF ListFiles, Goto, maps
  <2>2. DOMAIN reply' = Threads
    BY <1>2, <1>7 DEF ListFiles
  <2> QED
    BY <1>1, <1>2, <2>1, <2>2 DEF ReaderOK, Readers, AtWork, ThreadOK
<1>8. CASE Crash(t)
  BY <1>1, <1>2, <1>8 DEF Crash, ReaderOK, Readers, maps
<1> QED
  BY <1>3, <1>4, <1>5, <1>6, <1>7, <1>8 DEF Quiet

LEMMA ReaderInit == Init => Readers
<1>1. NoReply.rc = "none"
  BY DEF NoReply
<1> QED
  BY <1>1 DEF Init, Readers, ReaderOK, AtWork

-----------------------------------------------------------------------------
(* What holds when no directory is read twice at the same time.             *)

OneReader ==
  \A t, u \in Threads :
    t # u /\ ask[t].op = "readdir" /\ ask[u].op = "readdir" => ask[t].path # ask[u].path

\* The first n children, or files, of the node at path p are registered.
FoldersFound(h, fs, p, o, n) ==
  \A k \in 1 .. n : Append(p, h[h[o].children[k]].name) \in DOMAIN fs
FilesFound(h, ms, p, o, n) ==
  \A k \in 1 .. n : Append(p, Archive[h[o].cont].files[h[o].files[k]].name) \in DOMAIN ms
Published(h, fs, ms, p, o) ==
  /\ FoldersFound(h, fs, p, o, Len(h[o].children))
  /\ FilesFound(h, ms, p, o, Len(h[o].files))

\* How far a handler is with its node.
FillState(t) ==
  LET o == dir[t]
  IN  /\ pc[t] = "lock" => Empty(heap, keep_raw, o)
      /\ pc[t] = "fill" =>
           /\ next[t] <= FilesIn(heap, o) /\ ~heap[o].processed
           /\ HoldsTo(heap, keep_raw, o, next[t], 0)
      /\ pc[t] = "fillfolders" =>
           /\ next[t] <= FoldersIn(heap, o) /\ ~heap[o].processed
           /\ HoldsTo(heap, keep_raw, o, FilesIn(heap, o), next[t])
      /\ pc[t] \in {"filled", "pubdirs", "pubfiles", "list", "listdirs", "listfiles"}
           => Full(heap, keep_raw, o)

PublishState(t) ==
  LET o == dir[t]
      p == ask[t].path
  IN  /\ pc[t] = "pubdirs" =>
           /\ next[t] <= end[t] /\ end[t] = Len(heap[o].children)
           /\ FoldersFound(heap, folders, p, o, next[t])
      /\ pc[t] = "pubfiles" =>
           /\ next[t] <= end[t] /\ end[t] = Len(heap[o].files)
           /\ FilesFound(heap, files, p, o, next[t])
           /\ FoldersFound(heap, folders, p, o, Len(heap[o].children))

ListState(t) ==
  LET o == dir[t]
      p == ask[t].path
  IN  /\ pc[t] \in {"list", "listdirs", "listfiles"} => Published(heap, folders, files, p, o)
      /\ pc[t] = "listdirs" => end[t] = Len(heap[o].children)
      /\ pc[t] = "listfiles" =>
           end[t] = Len(heap[o].files) /\ reply[t].names = FolderNames(heap, o)
      /\ reply[t].rc = "listing" =>
           /\ reply[t].names = FolderNames(heap, o) \o FileNames(heap, o)
           /\ Full(heap, keep_raw, o) /\ Published(heap, folders, files, p, o)

HandlerState(t) == FillState(t) /\ PublishState(t) /\ ListState(t)

\* A node is empty, or full, or somebody fills it.
Filling(t, o) == dir[t] = o /\ pc[t] \in {"fill", "fillfolders"}
ObjectState(o) ==
  \/ Empty(heap, keep_raw, o)
  \/ Full(heap, keep_raw, o)
  \/ \E t \in Threads : Filling(t, o)

\* A full node was reached by a path, and what it holds is registered there, or
\* somebody is at it.
Reached(o) == heap[o].processed => \E p \in DOMAIN folders : folders[p] = o
Publishing(t, p) ==
  ask[t].op = "readdir" /\ ask[t].path = p /\ pc[t] \in {"filled", "pubdirs", "pubfiles"}
PathState(p) ==
  heap[folders[p]].processed =>
    \/ Published(heap, folders, files, p, folders[p])
    \/ \E t \in Threads : Publishing(t, p)

SerialInv ==
  /\ OneReader
  /\ \A o \in DOMAIN heap : ObjectState(o) /\ Reached(o)
  /\ \A p \in DOMAIN folders : PathState(p)
  /\ \A t \in Threads : HandlerState(t)

\* Two readers never have one node.
AtNode(t) == pc[t] \in AtWork \/ reply[t].rc = "listing"

LEMMA Apart ==
  ASSUME TypeOK, Tree, Readers, OneReader, NEW t \in Threads, NEW u \in Threads, t # u,
         AtNode(t), AtNode(u)
  PROVE  dir[t] # dir[u] /\ ask[t].path # ask[u].path
<1>1. ASSUME NEW v \in Threads, AtNode(v)
      PROVE  ask[v].op = "readdir" /\ ask[v].path \in DOMAIN folders /\ dir[v] = folders[ask[v].path]
  <2>1. CASE pc[v] \in AtWork
    BY <2>1, NodeOf DEF Readers, ReaderOK
  <2>2. CASE reply[v].rc = "listing"
    BY <2>2 DEF Readers, ReaderOK
  <2> QED
    BY <1>1, <2>1, <2>2 DEF AtNode
<1>2. ask[t].path # ask[u].path
  BY <1>1 DEF OneReader
<1> QED
  BY <1>1, <1>2 DEF Tree, OnePath

\* What a node has registered stays registered.
LEMMA FoundStays ==
  ASSUME NEW h, HeapOK(h), NEW g, NEW o \in DOMAIN h, Same(h, g, o), NEW p,
         NEW fs, NEW fs1, DOMAIN fs \subseteq DOMAIN fs1,
         NEW ms, NEW ms1, DOMAIN ms \subseteq DOMAIN ms1
  PROVE  /\ \A n \in Nat : n <= Len(h[o].children) /\ FoldersFound(h, fs, p, o, n)
              => FoldersFound(g, fs1, p, o, n)
         /\ \A n \in Nat : FilesFound(h, ms, p, o, n) => FilesFound(g, ms1, p, o, n)
         /\ Published(h, fs, ms, p, o) => Published(g, fs1, ms1, p, o)
<1>1. /\ DOMAIN h[o].children = 1 .. Len(h[o].children) /\ Len(h[o].children) \in Nat
      /\ Len(h[o].files) \in Nat
      /\ \A k \in 1 .. Len(h[o].children) : h[o].children[k] \in DOMAIN h
  BY HeldVectors
<1>2. ASSUME NEW n \in Nat, n <= Len(h[o].children), FoldersFound(h, fs, p, o, n)
      PROVE  FoldersFound(g, fs1, p, o, n)
  <2>1. \A k \in 1 .. n : k \in 1 .. Len(h[o].children)
    BY <1>1, <1>2
  <2> QED
    BY <1>1, <1>2, <2>1 DEF FoldersFound, Same
<1>3. ASSUME NEW n \in Nat, FilesFound(h, ms, p, o, n)
      PROVE  FilesFound(g, ms1, p, o, n)
  BY <1>3 DEF FilesFound, Same
<1>4. Len(g[o].children) = Len(h[o].children) /\ Len(g[o].files) = Len(h[o].files)
  BY DEF Same
<1>5. Len(h[o].children) <= Len(h[o].children)
  BY <1>1
<1> QED
  BY <1>1, <1>2, <1>3, <1>4, <1>5 DEF Published

\* A full node stays full.
LEMMA FullStays ==
  ASSUME NEW h, HeapOK(h), NEW g, NEW o \in DOMAIN h, Same(h, g, o),
         g[o].processed = h[o].processed, NEW raw \in BOOLEAN
  PROVE  /\ Full(h, raw, o) => Full(g, raw, o)
         /\ Empty(h, raw, o) => Empty(g, raw, o)
         /\ FilesIn(g, o) = FilesIn(h, o) /\ FoldersIn(g, o) = FoldersIn(h, o)
<1>1. FilesIn(g, o) = FilesIn(h, o) /\ FoldersIn(g, o) = FoldersIn(h, o)
  BY DEF FilesIn, FoldersIn, Same
<1>2. ASSUME Full(h, raw, o) PROVE Full(g, raw, o)
  BY <1>1, <1>2, HeldStays DEF Full
<1>3. ASSUME Empty(h, raw, o) PROVE Empty(g, raw, o)
  BY <1>3, HeldStays DEF Empty
<1> QED
  BY <1>1, <1>2, <1>3

\* A handler's state lasts while nobody touches its node.
LEMMA HandlerKeeps ==
  ASSUME TypeOK, Readers, NEW u \in Threads, HandlerState(u),
         pc'[u] = pc[u], ask'[u] = ask[u], dir'[u] = dir[u], next'[u] = next[u],
         end'[u] = end[u], reply'[u] = reply[u], keep_raw' = keep_raw,
         DOMAIN folders \subseteq DOMAIN folders', DOMAIN files \subseteq DOMAIN files',
         AtNode(u) => /\ Same(heap, heap', dir[u])
                      /\ heap'[dir[u]].processed = heap[dir[u]].processed
  PROVE  HandlerState(u)'
<1> DEFINE o == dir[u]
           p == ask[u].path
<1>1. CASE ~AtNode(u)
  <2>1. /\ pc[u] \notin {"lock", "fill", "fillfolders", "filled", "pubdirs", "pubfiles",
                         "list", "listdirs", "listfiles"}
        /\ reply[u].rc # "listing"
    BY <1>1 DEF AtNode, AtWork
  <2> QED
    BY <2>1 DEF HandlerState, FillState, PublishState, ListState
<1>2. CASE AtNode(u)
  <2>1. /\ HeapOK(heap) /\ keep_raw \in BOOLEAN /\ o \in DOMAIN heap
        /\ Same(heap, heap', o) /\ heap'[o].processed = heap[o].processed
        /\ next[u] \in Nat /\ end[u] \in Nat
    <3>1. o \in DOMAIN heap
      <4>1. CASE pc[u] \in AtWork
        BY <4>1, NodeOf
      <4>2. CASE reply[u].rc = "listing"
        BY <4>2 DEF Readers, ReaderOK, TypeOK, MapsOK
      <4> QED
        BY <1>2, <4>1, <4>2 DEF AtNode
    <3> QED
      BY <1>2, <3>1 DEF TypeOK, MapsOK
  <2>2. /\ Full(heap, keep_raw, o) => Full(heap', keep_raw, o)
        /\ Empty(heap, keep_raw, o) => Empty(heap', keep_raw, o)
        /\ FilesIn(heap', o) = FilesIn(heap, o) /\ FoldersIn(heap', o) = FoldersIn(heap, o)
    BY <2>1, FullStays
  <2>3. \A i, d : HoldsTo(heap, keep_raw, o, i, d) => HoldsTo(heap', keep_raw, o, i, d)
    BY <2>1, HeldStays
  <2>4. /\ \A n \in Nat : n <= Len(heap[o].children) /\ FoldersFound(heap, folders, p, o, n)
              => FoldersFound(heap', folders', p, o, n)
        /\ \A n \in Nat : FilesFound(heap, files, p, o, n) => FilesFound(heap', files', p, o, n)
        /\ Published(heap, folders, files, p, o) => Published(heap', folders', files', p, o)
    BY <2>1, FoundStays
  <2>5. FolderNames(heap', o) = FolderNames(heap, o) /\ FileNames(heap', o) = FileNames(heap, o)
    BY <2>1, NamesStay
  <2>6. /\ heap'[o].children = heap[o].children /\ heap'[o].files = heap[o].files
        /\ Len(heap[o].children) \in Nat /\ Len(heap[o].children) <= Len(heap[o].children)
    BY <2>1, HeldVectors DEF Same
  <2> HIDE DEF o, p
  <2>7. dir'[u] = o /\ ask'[u].path = p /\ dir[u] = o /\ ask[u].path = p
    BY DEF o, p
  <2>8. FillState(u)'
    BY <2>1, <2>2, <2>3, <2>7 DEF HandlerState, FillState
  <2>9. PublishState(u)'
    BY <2>1, <2>4, <2>6, <2>7 DEF HandlerState, PublishState
  <2>10. ListState(u)'
    BY <2>2, <2>4, <2>5, <2>6, <2>7 DEF HandlerState, ListState
  <2> QED
    BY <2>8, <2>9, <2>10 DEF HandlerState
<1> QED
  BY <1>1, <1>2

-----------------------------------------------------------------------------
(* The states a handler's own steps lead to.                                *)

LEMMA LockedState ==
  ASSUME TypeOK, Readers, NEW t \in Threads, HandlerState(t), LockDir(t)
  PROVE  HandlerState(t)' /\ ~heap'[dir[t]].processed /\ Filling(t, dir[t])'
<1> DEFINE o == dir[t]
<1>1. /\ pc[t] = "lock" /\ pc'[t] = "fill" /\ dir' = dir /\ next'[t] = 0
      /\ reply' = reply /\ keep_raw' = keep_raw
  BY DEF LockDir, Goto, TypeOK, maps, options
<1>2. reply[t] = NoReply /\ NoReply.rc = "none"
  BY <1>1 DEF Readers, ReaderOK, NoReply
<1>3. /\ Within(heap, heap', o) /\ NoChild(heap, heap', o)
      /\ heap'[o].files = heap[o].files /\ heap'[o].processed = heap[o].processed
  BY LockOp
<1>4. Same(heap, heap', o) /\ HeapOK(heap) /\ o \in DOMAIN heap /\ keep_raw \in BOOLEAN
  BY <1>3 DEF Within, NoChild, Same, TypeOK, MapsOK
<1>5. Empty(heap, keep_raw, o)
  BY <1>1 DEF HandlerState, FillState
<1>6. HoldsTo(heap', keep_raw, o, 0, 0) /\ ~heap'[o].processed
  BY <1>3, <1>4, <1>5, HeldStays DEF Empty
<1>7. 0 <= FilesIn(heap', o)
  <2>1. heap[o].cont \in Containers /\ heap'[o].cont = heap[o].cont
    BY <1>4, HeldVectors DEF Same
  <2> QED
    BY <2>1, VfsAssumption DEF FilesIn
<1> HIDE DEF o
<1>8. dir'[t] = o
  BY <1>1 DEF o
<1>9. FillState(t)'
  BY <1>1, <1>6, <1>7, <1>8 DEF FillState
<1>10. PublishState(t)' /\ ListState(t)'
  BY <1>1, <1>2 DEF PublishState, ListState
<1> QED
  BY <1>1, <1>6, <1>8, <1>9, <1>10 DEF HandlerState, Filling, o

LEMMA FileState ==
  ASSUME TypeOK, Readers, NEW t \in Threads, HandlerState(t), FillFile(t),
         LET entry == Archive[heap[dir[t]].cont].files[next[t] + 1]
         IN  Opens(entry, keys) <=> Opens(entry, Keys)
  PROVE  HandlerState(t)' /\ ~heap'[dir[t]].processed /\ Filling(t, dir[t])'
<1> DEFINE o == dir[t]
           i == next[t]
           entry == Archive[heap[o].cont].files[i + 1]
<1>1. /\ pc[t] = "fill" /\ pc'[t] = "fill" /\ dir' = dir /\ next'[t] = i + 1 /\ i \in Nat
      /\ reply' = reply /\ keep_raw' = keep_raw /\ i + 1 <= FilesIn(heap, o)
  BY DEF FillFile, Goto, TypeOK, maps, options, FilesIn
<1>2. reply[t] = NoReply /\ NoReply.rc = "none"
  BY <1>1 DEF Readers, ReaderOK, NoReply
<1>3. /\ Within(heap, heap', o)
      /\ heap'[o].files = IF Kept(entry, keys) THEN Append(heap[o].files, i + 1) ELSE heap[o].files
      /\ heap'[o].processed = heap[o].processed
      /\ Opens(entry, keys) => NewChild(heap, heap', o, NewFolder(entry.stem, entry.inside))
      /\ ~Opens(entry, keys) => NoChild(heap, heap', o)
  BY FileOp
<1>4. ~heap[o].processed /\ HoldsTo(heap, keep_raw, o, i, 0)
  BY <1>1 DEF HandlerState, FillState
<1>5. Opens(entry, keys) <=> Opens(entry, Keys)
  OBVIOUS
<1>6. HeapOK(heap) /\ o \in DOMAIN heap /\ keep_raw \in BOOLEAN
  BY <1>3 DEF Within, TypeOK, MapsOK
<1> HIDE DEF o, i
<1>7. HoldsTo(heap', keep_raw, o, i + 1, 0)
  <2>1. heap'[o].files = IF keep_raw \/ ~Opens(entry, Keys)
                           THEN Append(heap[o].files, i + 1) ELSE heap[o].files
    BY <1>3, <1>5 DEF Kept
  <2>2. Opens(entry, Keys) => /\ heap'[o].children = Append(heap[o].children, Len(heap) + 1)
                              /\ heap'[Len(heap) + 1].name = entry.stem
    <3>1. NewFolder(entry.stem, entry.inside).name = entry.stem
      BY DEF NewFolder
    <3> QED
      BY <1>3, <1>5, <3>1 DEF NewChild
  <2>3. ~Opens(entry, Keys) => heap'[o].children = heap[o].children
    BY <1>3, <1>5 DEF NoChild
  <2>4. heap'[o].cont = heap[o].cont /\ \A a \in DOMAIN heap : heap'[a].name = heap[a].name
    BY <1>3 DEF Within
  <2> QED
    BY <1>1, <1>4, <1>6, <2>1, <2>2, <2>3, <2>4, FileHeld
<1>8. i + 1 <= FilesIn(heap', o)
  BY <1>1, <1>3 DEF FilesIn, Within
<1>9. dir'[t] = o
  BY <1>1 DEF o
<1>10. FillState(t)'
  BY <1>1, <1>3, <1>4, <1>7, <1>8, <1>9 DEF FillState
<1>11. PublishState(t)' /\ ListState(t)'
  BY <1>1, <1>2 DEF PublishState, ListState
<1> QED
  BY <1>1, <1>3, <1>4, <1>9, <1>10, <1>11 DEF HandlerState, Filling, o

LEMMA FolderState ==
  ASSUME TypeOK, Readers, NEW t \in Threads, HandlerState(t), FillFolder(t)
  PROVE  HandlerState(t)' /\ ~heap'[dir[t]].processed /\ Filling(t, dir[t])'
<1> DEFINE o == dir[t]
           i == next[t]
           entry == Archive[heap[o].cont].folders[i + 1]
           n == FilesIn(heap, o)
<1>1. /\ pc[t] = "fillfolders" /\ pc'[t] = "fillfolders" /\ dir' = dir
      /\ next'[t] = i + 1 /\ i \in Nat
      /\ reply' = reply /\ keep_raw' = keep_raw /\ i + 1 <= FoldersIn(heap, o)
  BY DEF FillFolder, Goto, TypeOK, maps, options, FoldersIn
<1>2. reply[t] = NoReply /\ NoReply.rc = "none"
  BY <1>1 DEF Readers, ReaderOK, NoReply
<1>3. /\ Within(heap, heap', o) /\ heap'[o].files = heap[o].files
      /\ heap'[o].processed = heap[o].processed
      /\ NewChild(heap, heap', o, NewFolder(entry.name, entry.inside))
  BY FolderOp
<1>4. ~heap[o].processed /\ HoldsTo(heap, keep_raw, o, n, i)
  BY <1>1 DEF HandlerState, FillState
<1>5. HeapOK(heap) /\ o \in DOMAIN heap /\ keep_raw \in BOOLEAN /\ n \in Nat
  <2>1. HeapOK(heap) /\ o \in DOMAIN heap /\ keep_raw \in BOOLEAN
    BY <1>3 DEF Within, TypeOK, MapsOK
  <2>2. heap[o].cont \in Containers
    BY <2>1, HeldVectors
  <2> QED
    BY <2>1, <2>2, VfsAssumption DEF FilesIn
<1>6. FilesIn(heap', o) = n /\ FoldersIn(heap', o) = FoldersIn(heap, o)
  BY <1>3 DEF FilesIn, FoldersIn, Within
<1> HIDE DEF o, i, n
<1>7. HoldsTo(heap', keep_raw, o, n, i + 1)
  <2>1. /\ heap'[o].children = Append(heap[o].children, Len(heap) + 1)
        /\ heap'[Len(heap) + 1].name = entry.name
    <3>1. NewFolder(entry.name, entry.inside).name = entry.name
      BY DEF NewFolder
    <3> QED
      BY <1>3, <3>1 DEF NewChild
  <2>2. heap'[o].cont = heap[o].cont /\ \A a \in DOMAIN heap : heap'[a].name = heap[a].name
    BY <1>3 DEF Within
  <2> QED
    BY <1>1, <1>3, <1>4, <1>5, <2>1, <2>2, FolderHeld
<1>8. dir'[t] = o
  BY <1>1 DEF o
<1>9. FillState(t)'
  BY <1>1, <1>3, <1>4, <1>6, <1>7, <1>8 DEF FillState
<1>10. PublishState(t)' /\ ListState(t)'
  BY <1>1, <1>2 DEF PublishState, ListState
<1> QED
  BY <1>1, <1>3, <1>4, <1>8, <1>9, <1>10 DEF HandlerState, Filling, o

LEMMA FilledState ==
  ASSUME TypeOK, Readers, NEW t \in Threads, HandlerState(t), Filled(t)
  PROVE  /\ HandlerState(t)' /\ Full(heap', keep_raw', dir[t])
         /\ Publishing(t, ask[t].path)'
<1> DEFINE o == dir[t]
<1>1. /\ pc[t] = "fillfolders" /\ pc'[t] = "filled" /\ dir' = dir /\ ask' = ask
      /\ next[t] = FoldersIn(heap, o) /\ reply' = reply /\ keep_raw' = keep_raw
  BY DEF Filled, Goto, TypeOK, maps, options, FoldersIn
<1>2. /\ reply[t] = NoReply /\ NoReply.rc = "none" /\ ask[t].op = "readdir"
  BY <1>1 DEF Readers, ReaderOK, NoReply, AtWork
<1>3. /\ Within(heap, heap', o) /\ NoChild(heap, heap', o)
      /\ heap'[o].files = heap[o].files /\ heap'[o].processed
  BY FilledOp
<1>4. Same(heap, heap', o) /\ HeapOK(heap) /\ o \in DOMAIN heap /\ keep_raw \in BOOLEAN
  BY <1>3 DEF Within, NoChild, Same, TypeOK, MapsOK
<1>5. HoldsTo(heap, keep_raw, o, FilesIn(heap, o), FoldersIn(heap, o))
  BY <1>1 DEF HandlerState, FillState
<1>6. FilesIn(heap', o) = FilesIn(heap, o) /\ FoldersIn(heap', o) = FoldersIn(heap, o)
  BY <1>3 DEF FilesIn, FoldersIn, Within
<1>7. Full(heap', keep_raw, o)
  BY <1>3, <1>4, <1>5, <1>6, HeldStays DEF Full
<1> HIDE DEF o
<1>8. dir'[t] = o
  BY <1>1 DEF o
<1>9. FillState(t)'
  BY <1>1, <1>7, <1>8 DEF FillState
<1>10. PublishState(t)' /\ ListState(t)'
  BY <1>1, <1>2 DEF PublishState, ListState
<1>11. Publishing(t, ask[t].path)'
  BY <1>1, <1>2 DEF Publishing
<1> QED
  BY <1>1, <1>7, <1>9, <1>10, <1>11 DEF HandlerState, o

LEMMA CheckedState ==
  ASSUME TypeOK, Tree, Readers, SerialInv, NEW t \in Threads, CheckProcessed(t)
  PROVE  HandlerState(t)'
<1> DEFINE o == dir[t]
           p == ask[t].path
<1>1. /\ pc[t] = "check" /\ UNCHANGED <<heap, folders, files, keep_raw, dir, ask, reply>>
      /\ \/ pc'[t] = "list" /\ heap[o].processed
         \/ pc'[t] = "lock" /\ ~heap[o].processed
  BY DEF CheckProcessed, Goto, TypeOK, maps, options
<1>2. /\ reply[t] = NoReply /\ NoReply.rc = "none" /\ ask[t].op = "readdir" /\ AtNode(t)
  BY <1>1 DEF Readers, ReaderOK, NoReply, AtWork, AtNode
<1>3. o \in DOMAIN heap /\ p \in DOMAIN folders /\ o = folders[p]
  BY <1>1, NodeOf DEF AtWork
<1>4. Empty(heap, keep_raw, o) \/ Full(heap, keep_raw, o)
  <2>1. ASSUME NEW u \in Threads, Filling(u, o) PROVE FALSE
    <3>1. u # t /\ AtNode(u) /\ dir[u] = o
      BY <1>1, <2>1 DEF Filling, AtNode, AtWork
    <3> QED
      BY <1>2, <3>1, Apart DEF SerialInv
  <2> QED
    BY <1>3, <2>1 DEF SerialInv, ObjectState
<1>5. heap[o].processed => Published(heap, folders, files, p, o)
  <2>1. ASSUME NEW u \in Threads, Publishing(u, p) PROVE FALSE
    <3>1. u # t
      BY <1>1, <2>1 DEF Publishing
    <3> QED
      BY <1>2, <2>1, <3>1 DEF Publishing, SerialInv, OneReader
  <2> QED
    BY <1>3, <2>1 DEF SerialInv, PathState
<1> HIDE DEF o, p
<1>6. dir'[t] = o /\ ask'[t].path = p
  BY <1>1 DEF o, p
<1>7. FillState(t)'
  BY <1>1, <1>4, <1>6 DEF FillState, Full, Empty
<1>8. PublishState(t)'
  BY <1>1, <1>2, <1>6 DEF PublishState
<1>9. ListState(t)'
  BY <1>1, <1>2, <1>5, <1>6 DEF ListState
<1> QED
  BY <1>7, <1>8, <1>9 DEF HandlerState

\* Where the other steps of a handler are.
Loops(t) ==
  \/ FilesFilled(t) \/ PublishBegins(t) \/ FoldersPublished(t) \/ FilesPublished(t)
  \/ ListBegins(t) \/ ListFolders(t) \/ ListFiles(t)

LEMMA LoopsState ==
  ASSUME TypeOK, Readers, NEW t \in Threads, HandlerState(t), Loops(t)
  PROVE  HandlerState(t)'
<1> DEFINE o == dir[t]
           p == ask[t].path
<1>1. /\ UNCHANGED <<heap, folders, files, keep_raw, dir, ask>>
      /\ pc[t] \in AtWork /\ pc \in [Threads -> PCs]
      /\ next \in [Threads -> Nat] /\ end \in [Threads -> Nat]
  BY DEF Loops, FilesFilled, PublishBegins, FoldersPublished, FilesPublished, ListBegins,
         ListFolders, ListFiles, Goto, AtWork, TypeOK, maps, options
<1>2. /\ o \in DOMAIN heap /\ HeapOK(heap) /\ o = folders[p]
      /\ Len(heap[o].children) \in Nat /\ Len(heap[o].files) \in Nat
      /\ heap[o].cont \in Containers
  BY <1>1, NodeOf DEF TypeOK
<1>3. FilesIn(heap, o) \in Nat /\ FoldersIn(heap, o) \in Nat
  <2>1. /\ Archive[heap[o].cont].files \in Seq(Entry)
        /\ Archive[heap[o].cont].folders \in Seq(SubFolder)
    BY <1>2, VfsAssumption
  <2>2. Len(Archive[heap[o].cont].files) \in Nat
    BY <2>1
  <2>3. Len(Archive[heap[o].cont].folders) \in Nat
    BY <2>1
  <2> QED
    BY <2>2, <2>3 DEF FilesIn, FoldersIn
<1>4. /\ FoldersFound(heap, folders, p, o, 0) /\ FilesFound(heap, files, p, o, 0)
  BY DEF FoldersFound, FilesFound
<1>5. NoReply.rc = "none" /\ NoReply.names = <<>> /\ ReaderOK(t) /\ DOMAIN reply = Threads
  BY DEF NoReply, Readers
<1>6. FillState(t) /\ PublishState(t) /\ ListState(t)
  BY DEF HandlerState
<1> HIDE DEF o, p
<1>7. dir'[t] = o /\ ask'[t].path = p /\ dir[t] = o /\ ask[t].path = p
  BY <1>1 DEF o, p
<1> USE DEF Goto
<1>8. CASE FilesFilled(t)
  <2>1. /\ pc[t] = "fill" /\ pc'[t] = "fillfolders" /\ next'[t] = 0 /\ reply' = reply
        /\ next[t] = FilesIn(heap, o)
    BY <1>1, <1>7, <1>8 DEF FilesFilled, FilesIn
  <2>2. FillState(t)'
    BY <1>1, <1>3, <1>6, <1>7, <2>1 DEF FillState
  <2>3. PublishState(t)' /\ ListState(t)'
    BY <1>5, <2>1 DEF PublishState, ListState, ReaderOK
  <2> QED
    BY <2>2, <2>3 DEF HandlerState
<1>9. CASE PublishBegins(t)
  <2>1. /\ pc[t] = "filled" /\ pc'[t] = "pubdirs" /\ next'[t] = 0 /\ reply' = reply
        /\ end'[t] = Len(heap[o].children)
    BY <1>1, <1>7, <1>9 DEF PublishBegins, Iterate
  <2>2. FillState(t)'
    BY <1>1, <1>6, <1>7, <2>1 DEF FillState
  <2>3. PublishState(t)'
    BY <1>1, <1>2, <1>4, <1>7, <2>1 DEF PublishState
  <2>4. ListState(t)'
    BY <1>5, <2>1 DEF ListState, ReaderOK
  <2> QED
    BY <2>2, <2>3, <2>4 DEF HandlerState
<1>10. CASE FoldersPublished(t)
  <2>1. /\ pc[t] = "pubdirs" /\ pc'[t] = "pubfiles" /\ next'[t] = 0 /\ reply' = reply
        /\ end'[t] = Len(heap[o].files) /\ next[t] = end[t]
    BY <1>1, <1>7, <1>10 DEF FoldersPublished, Iterate, AtEnd
  <2>2. FillState(t)'
    BY <1>1, <1>6, <1>7, <2>1 DEF FillState
  <2>3. PublishState(t)'
    BY <1>1, <1>2, <1>4, <1>6, <1>7, <2>1 DEF PublishState
  <2>4. ListState(t)'
    BY <1>5, <2>1 DEF ListState, ReaderOK
  <2> QED
    BY <2>2, <2>3, <2>4 DEF HandlerState
<1>11. CASE FilesPublished(t)
  <2>1. /\ pc[t] = "pubfiles" /\ pc'[t] = "list" /\ reply' = reply /\ next[t] = end[t]
    BY <1>1, <1>11 DEF FilesPublished, AtEnd
  <2>2. FillState(t)'
    BY <1>1, <1>6, <1>7, <2>1 DEF FillState
  <2>3. PublishState(t)'
    BY <2>1 DEF PublishState
  <2>4. ListState(t)'
    BY <1>1, <1>5, <1>6, <1>7, <2>1 DEF ListState, PublishState, Published, ReaderOK
  <2> QED
    BY <2>2, <2>3, <2>4 DEF HandlerState
<1>12. CASE ListBegins(t)
  <2>1. /\ pc[t] = "list" /\ pc'[t] = "listdirs" /\ reply' = reply
        /\ end'[t] = Len(heap[o].children)
    BY <1>1, <1>7, <1>12 DEF ListBegins, Iterate
  <2>2. FillState(t)'
    BY <1>1, <1>6, <1>7, <2>1 DEF FillState
  <2>3. PublishState(t)'
    BY <2>1 DEF PublishState
  <2>4. ListState(t)'
    BY <1>1, <1>5, <1>6, <1>7, <2>1 DEF ListState, ReaderOK
  <2> QED
    BY <2>2, <2>3, <2>4 DEF HandlerState
<1>13. CASE ListFolders(t)
  <2>1. /\ pc[t] = "listdirs" /\ pc'[t] = "listfiles" /\ end'[t] = Len(heap[o].files)
        /\ end[t] = Len(heap[o].children) /\ reply[t] = NoReply
    BY <1>1, <1>5, <1>6, <1>7, <1>13 DEF ListFolders, Iterate, ListState, ReaderOK
  <2>2. reply'[t].names = <<>> \o FolderNames(heap, o) /\ reply'[t].rc = "none"
    <3>1. reply' = [reply EXCEPT ![t].names = @ \o FolderNames(heap, o)]
      BY <1>7, <1>13, <2>1 DEF ListFolders, Fill, FolderNames
    <3> QED
      BY <1>5, <2>1, <3>1 DEF NoReply
  <2>3. <<>> \o FolderNames(heap, o) = FolderNames(heap, o)
    <3>1. FolderNames(heap, o) = [k \in 1 .. Len(heap[o].children) |-> FolderNames(heap, o)[k]]
      BY DEF FolderNames
    <3>2. FolderNames(heap, o) \in Seq({FolderNames(heap, o)[k] : k \in 1 .. Len(heap[o].children)})
      BY <1>2, <3>1, IsASeq
    <3> QED
      BY <3>2, ConcatEmptySeq
  <2>4. FillState(t)'
    BY <1>1, <1>6, <1>7, <2>1 DEF FillState
  <2>5. PublishState(t)'
    BY <2>1 DEF PublishState
  <2>6. ListState(t)'
    BY <1>1, <1>5, <1>6, <1>7, <2>1, <2>2, <2>3 DEF ListState
  <2> QED
    BY <2>4, <2>5, <2>6 DEF HandlerState
<1>14. CASE ListFiles(t)
  <2>1. /\ pc[t] = "listfiles" /\ pc'[t] = "reply"
        /\ end[t] = Len(heap[o].files) /\ reply[t].names = FolderNames(heap, o)
        /\ Full(heap, keep_raw, o) /\ Published(heap, folders, files, p, o)
    BY <1>1, <1>6, <1>7, <1>14 DEF ListFiles, ListState, FillState
  <2>2. reply'[t].names = FolderNames(heap, o) \o FileNames(heap, o)
    BY <1>5, <1>7, <1>14, <2>1 DEF ListFiles, FileNames
  <2>3. FillState(t)' /\ PublishState(t)'
    BY <2>1 DEF FillState, PublishState
  <2>4. ListState(t)'
    BY <1>1, <1>7, <2>1, <2>2 DEF ListState
  <2> QED
    BY <2>3, <2>4 DEF HandlerState
<1> QED
  BY <1>8, <1>9, <1>10, <1>11, <1>12, <1>13, <1>14 DEF Loops

LEMMA FolderPublished ==
  ASSUME TypeOK, Readers, NEW t \in Threads, HandlerState(t), PublishFolder(t)
  PROVE  HandlerState(t)'
<1> DEFINE o == dir[t]
           p == ask[t].path
           k == next[t] + 1
           path == Append(p, heap[heap[o].children[k]].name)
<1>1. /\ pc[t] = "pubdirs" /\ next[t] < end[t] /\ next[t] \in Nat /\ end[t] \in Nat
      /\ keep_raw' = keep_raw
  BY DEF TypeOK, PublishFolder, Goto, Advance, options
<1>2. /\ DOMAIN folders' = DOMAIN folders \cup {path}
      /\ next' = [next EXCEPT ![t] = k]
      /\ UNCHANGED <<heap, files, pc, ask, dir, end, reply>>
  BY PublishOp
<1>3. next'[t] = k /\ reply[t] = NoReply /\ NoReply.rc = "none"
  BY <1>1, <1>2 DEF TypeOK, Readers, ReaderOK, NoReply
<1>4. /\ end[t] = Len(heap[o].children) /\ FoldersFound(heap, folders, p, o, next[t])
  BY <1>1 DEF HandlerState, PublishState
<1>5. FoldersFound(heap, folders', p, o, k)
  <2>1. \A j \in 1 .. k : j \in 1 .. next[t] \/ j = k
    BY <1>1
  <2> QED
    BY <1>2, <1>4, <2>1 DEF FoldersFound
<1>6. k <= end[t]
  BY <1>1
<1> HIDE DEF o, p, k
<1>7. dir'[t] = o /\ ask'[t].path = p /\ dir[t] = o
  BY <1>2 DEF o, p
<1>8. FillState(t)'
  BY <1>1, <1>2, <1>7 DEF HandlerState, FillState
<1>9. PublishState(t)'
  BY <1>1, <1>2, <1>3, <1>4, <1>5, <1>6, <1>7 DEF PublishState
<1>10. ListState(t)'
  BY <1>1, <1>2, <1>3 DEF ListState
<1> QED
  BY <1>8, <1>9, <1>10 DEF HandlerState

LEMMA FilePublished ==
  ASSUME TypeOK, Readers, NEW t \in Threads, HandlerState(t), PublishFile(t)
  PROVE  HandlerState(t)'
<1> DEFINE o == dir[t]
           p == ask[t].path
           k == next[t] + 1
           path == Append(p, Archive[heap[o].cont].files[heap[o].files[k]].name)
<1>1. /\ pc[t] = "pubfiles" /\ next[t] < end[t] /\ next[t] \in Nat /\ end[t] \in Nat
      /\ keep_raw' = keep_raw /\ pc' = pc /\ next'[t] = k
      /\ UNCHANGED <<heap, folders, ask, dir, end, reply>>
  BY DEF TypeOK, PublishFile, Goto, Advance, options
<1>2. DOMAIN files' = DOMAIN files \cup {path}
  BY DEF PublishFile, TryEmplace
<1>3. reply[t] = NoReply /\ NoReply.rc = "none"
  BY <1>1 DEF Readers, ReaderOK, NoReply
<1>4. /\ end[t] = Len(heap[o].files) /\ FilesFound(heap, files, p, o, next[t])
      /\ FoldersFound(heap, folders, p, o, Len(heap[o].children))
  BY <1>1 DEF HandlerState, PublishState
<1>5. FilesFound(heap, files', p, o, k)
  <2>1. \A j \in 1 .. k : j \in 1 .. next[t] \/ j = k
    BY <1>1
  <2> QED
    BY <1>2, <1>4, <2>1 DEF FilesFound
<1>6. k <= end[t]
  BY <1>1
<1> HIDE DEF o, p, k
<1>7. dir'[t] = o /\ ask'[t].path = p /\ dir[t] = o
  BY <1>1 DEF o, p
<1>8. FillState(t)'
  BY <1>1, <1>7 DEF HandlerState, FillState
<1>9. PublishState(t)'
  BY <1>1, <1>4, <1>5, <1>6, <1>7 DEF PublishState
<1>10. ListState(t)'
  BY <1>1, <1>3 DEF ListState
<1> QED
  BY <1>8, <1>9, <1>10 DEF HandlerState

-----------------------------------------------------------------------------
(* Every step keeps the invariant of serial reading.                        *)

\* The maps only grow, and the options stay.
LEMMA MapsGrow ==
  ASSUME TypeOK, NEW t \in Threads,
         Quiet(t) \/ Builds(t) \/ PublishFolder(t) \/ PublishFile(t)
  PROVE  /\ DOMAIN folders \subseteq DOMAIN folders' /\ Stays
         /\ DOMAIN files \subseteq DOMAIN files'
         /\ keep_raw' = keep_raw /\ serial' = serial
<1>1. Stays /\ DOMAIN folders \subseteq DOMAIN folders'
  BY StepKeeps DEF Stays
<1>2. CASE Quiet(t) \/ Builds(t)
  <2>1. files' = files
    BY <1>2, QuietLeaves, BuildsLeaves
  <2>2. UNCHANGED options
    BY <1>2 DEF Quiet, Call, FindFolder, FindFile, Return, CheckProcessed, FilesFilled,
         PublishBegins, FoldersPublished, FilesPublished, ListBegins, ListFolders,
         ListFiles, Crash, Builds, LockDir, FillFile, FillFolder, Filled, maps
  <2> QED
    BY <1>1, <2>1, <2>2 DEF options
<1>3. CASE PublishFolder(t)
  BY <1>1, <1>3 DEF PublishFolder, options
<1>4. CASE PublishFile(t)
  BY <1>1, <1>4 DEF PublishFile, TryEmplace, options
<1> QED
  BY <1>2, <1>3, <1>4

\* The guard of Call is that no other thread reads the directory.
LEMMA OneReaderStep ==
  ASSUME TypeOK, OneReader, serial, NEW t \in Threads,
         Quiet(t) \/ Builds(t) \/ PublishFolder(t) \/ PublishFile(t)
  PROVE  OneReader'
<1>1. ask \in [Threads -> [op : {"none", "getattr", "readdir"}, path : Seq(STRING)]]
  BY DEF TypeOK
<1>2. ASSUME NEW op \in {"getattr", "readdir"}, NEW path \in Askable, Call(t, op, path)
      PROVE  OneReader'
  <2>1. /\ ask' = [ask EXCEPT ![t] = [op |-> op, path |-> path]]
        /\ op = "readdir" => \A u \in Threads : ask[u] # [op |-> op, path |-> path]
    BY <1>2 DEF Call
  <2>2. ASSUME NEW u \in Threads, u # t, op = "readdir", ask[u].op = "readdir"
        PROVE  ask[u].path # path
    <3>1. ask[u] = [op |-> ask[u].op, path |-> ask[u].path]
      BY <1>1
    <3> QED
      BY <2>1, <2>2, <3>1
  <2>3. ask'[t].op = op /\ ask'[t].path = path /\ \A u \in Threads : u # t => ask'[u] = ask[u]
    BY <1>1, <2>1
  <2> QED
    BY <2>2, <2>3 DEF OneReader
<1>3. CASE Return(t)
  <2>1. ask'[t] = NoAsk /\ \A u \in Threads : u # t => ask'[u] = ask[u]
    BY <1>1, <1>3 DEF Return
  <2>2. NoAsk.op = "none"
    BY DEF NoAsk
  <2> QED
    BY <2>1, <2>2 DEF OneReader
<1>4. CASE ask' = ask
  BY <1>4 DEF OneReader
<1>5. \/ \E op \in {"getattr", "readdir"}, path \in Askable : Call(t, op, path)
      \/ Return(t)
      \/ ask' = ask
  BY DEF Quiet, FindFolder, FindFile, CheckProcessed, FilesFilled, PublishBegins,
         FoldersPublished, FilesPublished, ListBegins, ListFolders, ListFiles, Crash,
         Builds, LockDir, FillFile, FillFolder, Filled, PublishFolder, PublishFile
<1> QED
  BY <1>2, <1>3, <1>4, <1>5

\* The steps of a reader keep the state of each handler.
LEMMA HandlerStep ==
  ASSUME TypeOK, Tree, Readers, SerialInv, NEW t \in Threads,
         Quiet(t) \/ Builds(t) \/ PublishFolder(t) \/ PublishFile(t),
         FillFile(t) => LET entry == Archive[heap[dir[t]].cont].files[next[t] + 1]
                        IN  Opens(entry, keys) <=> Opens(entry, Keys)
  PROVE  \A u \in Threads : HandlerState(u)'
<1>1. /\ DOMAIN folders \subseteq DOMAIN folders' /\ DOMAIN files \subseteq DOMAIN files'
      /\ keep_raw' = keep_raw
  BY MapsGrow
<1>2. HandlerState(t) /\ OneReader
  BY DEF SerialInv
<1>3. ASSUME NEW u \in Threads, u # t PROVE HandlerState(u)'
  <2>1. /\ pc'[u] = pc[u] /\ ask'[u] = ask[u] /\ dir'[u] = dir[u] /\ next'[u] = next[u]
        /\ end'[u] = end[u] /\ reply'[u] = reply[u]
    BY <1>3, OthersKeep, OthersRest
  <2>2. AtNode(u) => /\ Same(heap, heap', dir[u])
                     /\ heap'[dir[u]].processed = heap[dir[u]].processed
    <3>1. CASE Builds(t)
      <4>1. Within(heap, heap', dir[t]) /\ AtNode(t)
        BY <3>1, BuildsOp, BuilderAt DEF AtNode
      <4>2. AtNode(u) => dir[u] # dir[t] /\ dir[u] \in DOMAIN heap
        <5>1. AtNode(u) => dir[u] # dir[t]
          BY <1>2, <1>3, <4>1, Apart
        <5>2. pc[u] \in AtWork => dir[u] \in DOMAIN heap
          BY NodeOf
        <5>3. reply[u].rc = "listing" => dir[u] \in DOMAIN heap
          BY DEF Readers, ReaderOK, TypeOK, MapsOK
        <5> QED
          BY <5>1, <5>2, <5>3 DEF AtNode
      <4> QED
        BY <4>1, <4>2 DEF Within, Same
    <3>2. CASE ~Builds(t)
      <4>1. heap' = heap
        BY <3>2, QuietLeaves DEF PublishFolder, PublishFile
      <4> QED
        BY <4>1 DEF Same
    <3> QED
      BY <3>1, <3>2
  <2> QED
    BY <1>1, <2>1, <2>2, HandlerKeeps DEF SerialInv
<1>4. HandlerState(t)'
  <2>1. CASE Builds(t)
    BY <1>2, <2>1, LockedState, FileState, FolderState, FilledState DEF Builds
  <2>2. CASE PublishFolder(t) \/ PublishFile(t)
    BY <1>2, <2>2, FolderPublished, FilePublished
  <2>3. CASE CheckProcessed(t)
    BY <2>3, CheckedState
  <2>4. CASE Loops(t)
    BY <1>2, <2>4, LoopsState
  <2>5. CASE \/ \E op \in {"getattr", "readdir"}, path \in Askable : Call(t, op, path)
             \/ FindFolder(t) \/ FindFile(t) \/ Return(t)
    <3>1. pc'[t] \in Outside /\ reply'[t].rc # "listing"
      BY <2>5, OutsideStep
    <3> QED
      BY <3>1 DEF Outside, HandlerState, FillState, PublishState, ListState
  <2>6. CASE Crash(t)
    <3>1. UNCHANGED <<heap, folders, files, pc, ask, dir, next, end, reply>>
      BY <2>6 DEF Crash, maps
    <3> QED
      BY <1>1, <1>2, <3>1 DEF HandlerState, FillState, PublishState, ListState
  <2> QED
    BY <2>1, <2>2, <2>3, <2>4, <2>5, <2>6 DEF Quiet, Loops
<1> QED
  BY <1>3, <1>4

\* Where a quiet step of a filling or publishing thread leads.
LEMMA QuietPlaces ==
  ASSUME TypeOK, NEW t \in Threads, Quiet(t)
  PROVE  /\ \A o : Filling(t, o) => Filling(t, o)'
         /\ \A p : Publishing(t, p) => Publishing(t, p)' \/ (pc'[t] = "list" /\ dir' = dir /\ ask' = ask)
<1> USE DEF Goto, Filling, Publishing
<1>1. pc \in [Threads -> PCs]
  BY DEF TypeOK
<1>2. CASE \/ \E op \in {"getattr", "readdir"}, path \in Askable : Call(t, op, path)
           \/ FindFolder(t) \/ FindFile(t) \/ Return(t) \/ CheckProcessed(t)
           \/ ListBegins(t) \/ ListFolders(t) \/ ListFiles(t)
  <2>1. pc[t] \notin {"fill", "fillfolders", "filled", "pubdirs", "pubfiles"}
    BY <1>2 DEF Call, FindFolder, FindFile, Return, CheckProcessed, ListBegins,
         ListFolders, ListFiles
  <2> QED
    BY <2>1
<1>3. CASE FilesFilled(t)
  BY <1>1, <1>3 DEF FilesFilled
<1>4. CASE PublishBegins(t) \/ FoldersPublished(t) \/ FilesPublished(t)
  BY <1>1, <1>4 DEF PublishBegins, FoldersPublished, FilesPublished
<1>5. CASE Crash(t)
  BY <1>5 DEF Crash
<1> QED
  BY <1>2, <1>3, <1>4, <1>5 DEF Quiet

LEMMA ObjectStep ==
  ASSUME TypeOK, Tree, Readers, SerialInv, NEW t \in Threads,
         Quiet(t) \/ Builds(t) \/ PublishFolder(t) \/ PublishFile(t),
         FillFile(t) => LET entry == Archive[heap[dir[t]].cont].files[next[t] + 1]
                        IN  Opens(entry, keys) <=> Opens(entry, Keys)
  PROVE  \A o \in DOMAIN heap' : ObjectState(o)' /\ Reached(o)'
<1>1. Stays /\ keep_raw' = keep_raw /\ HandlerState(t)
  BY MapsGrow DEF SerialInv
<1>2. \A u \in Threads : u # t => \A o : Filling(u, o) => Filling(u, o)'
  BY OthersKeep DEF Filling
<1>3. CASE ~Builds(t)
  <2>1. heap' = heap
    BY <1>3, QuietLeaves DEF PublishFolder, PublishFile
  <2>2. \A o : Filling(t, o) => Filling(t, o)'
    <3>1. CASE Quiet(t)
      BY <3>1, QuietPlaces
    <3>2. CASE PublishFolder(t) \/ PublishFile(t)
      BY <3>2 DEF PublishFolder, PublishFile, Goto, Filling
    <3> QED
      BY <1>3, <3>1, <3>2
  <2>3. ASSUME NEW o \in DOMAIN heap PROVE ObjectState(o)'
    BY <1>1, <1>2, <2>1, <2>2 DEF SerialInv, ObjectState
  <2>4. ASSUME NEW o \in DOMAIN heap PROVE Reached(o)'
    BY <1>1, <2>1 DEF SerialInv, Reached, Stays
  <2> QED
    BY <2>1, <2>3, <2>4
<1>4. CASE Builds(t)
  <2>0. PICK n : n = dir[t]
    OBVIOUS
  <2>1. /\ n \in DOMAIN heap /\ HeapOK(heap) /\ keep_raw \in BOOLEAN
        /\ ask[t].path \in DOMAIN folders /\ n = folders[ask[t].path]
    BY <1>4, <2>0, BuilderAt, NodeOf DEF TypeOK, MapsOK
  <2>2. Within(heap, heap', n)
    BY <1>4, <2>0, BuildsOp
  <2>3. ObjectState(n)' /\ Reached(n)'
    <3>1. CASE Filled(t)
      <4>1. Full(heap', keep_raw', n)
        BY <1>1, <2>0, <3>1, FilledState
      <4> QED
        BY <1>1, <2>1, <4>1 DEF ObjectState, Reached, Stays
    <3>2. CASE ~Filled(t)
      <4>1. Filling(t, n)' /\ ~heap'[n].processed
        <5>1. Filling(t, dir[t])' /\ ~heap'[dir[t]].processed
          BY <1>1, <1>4, <3>2, LockedState, FileState, FolderState DEF Builds
        <5>2. dir' = dir
          BY <1>4 DEF Builds, LockDir, FillFile, FillFolder, Filled
        <5> QED
          BY <2>0, <5>1, <5>2 DEF Filling
      <4> QED
        BY <4>1 DEF ObjectState, Reached
    <3> QED
      BY <3>1, <3>2
  <2>4. ASSUME NEW o \in DOMAIN heap, o # n PROVE ObjectState(o)' /\ Reached(o)'
    <3>1. Same(heap, heap', o) /\ heap'[o].processed = heap[o].processed
      BY <2>2, <2>4 DEF Within, Same
    <3>2. /\ Full(heap, keep_raw, o) => Full(heap', keep_raw, o)
          /\ Empty(heap, keep_raw, o) => Empty(heap', keep_raw, o)
      BY <2>1, <3>1, FullStays
    <3>3. \A u \in Threads : Filling(u, o) => u # t
      BY <2>0, <2>4 DEF Filling
    <3>4. ObjectState(o)'
      BY <1>1, <1>2, <3>2, <3>3 DEF SerialInv, ObjectState
    <3>5. Reached(o)'
      BY <1>1, <3>1 DEF SerialInv, Reached, Stays
    <3> QED
      BY <3>4, <3>5
  <2>5. ASSUME NEW o \in DOMAIN heap', o \notin DOMAIN heap PROVE ObjectState(o)' /\ Reached(o)'
    <3>1. heap'[o].children = <<>> /\ heap'[o].files = <<>> /\ ~heap'[o].processed
      BY <1>4, <2>5, BuildsOp DEF NoChild, NewChild
    <3>2. HoldsTo(heap', keep_raw, o, 0, 0)
      BY <2>1, <3>1, NothingHeld
    <3> QED
      BY <1>1, <3>1, <3>2 DEF ObjectState, Reached, Empty
  <2> QED
    BY <2>3, <2>4, <2>5
<1> QED
  BY <1>3, <1>4

LEMMA PathStep ==
  ASSUME TypeOK, Tree, Tree', Readers, SerialInv, NEW t \in Threads, HandlerState(t)',
         Quiet(t) \/ Builds(t) \/ PublishFolder(t) \/ PublishFile(t),
         FillFile(t) => LET entry == Archive[heap[dir[t]].cont].files[next[t] + 1]
                        IN  Opens(entry, keys) <=> Opens(entry, Keys)
  PROVE  \A p \in DOMAIN folders' : PathState(p)'
<1>1. /\ Stays /\ DOMAIN folders \subseteq DOMAIN folders'
      /\ DOMAIN files \subseteq DOMAIN files' /\ HandlerState(t) /\ HeapOK(heap)
  BY MapsGrow DEF SerialInv, TypeOK
<1>2. \A u \in Threads : u # t => \A p : Publishing(u, p) => Publishing(u, p)'
  BY OthersKeep DEF Publishing
<1>3. \A p \in DOMAIN folders : folders[p] \in DOMAIN heap /\ folders'[p] = folders[p]
  BY <1>1 DEF TypeOK, MapsOK, Stays
<1>4. ASSUME NEW p \in DOMAIN folders, Same(heap, heap', folders[p]),
             Published(heap, folders, files, p, folders[p])
      PROVE  Published(heap', folders', files', p, folders'[p])
  BY <1>1, <1>3, <1>4, FoundStays
<1>5. CASE Quiet(t)
  <2>1. heap' = heap /\ folders' = folders /\ files' = files
    BY <1>5, QuietLeaves
  <2> SUFFICES ASSUME NEW p \in DOMAIN folders PROVE PathState(p)'
    BY <2>1
  <2>2. CASE ~Publishing(t, p)
    BY <1>2, <2>1, <2>2 DEF SerialInv, PathState
  <2>3. CASE Publishing(t, p) /\ Publishing(t, p)'
    BY <2>3 DEF PathState
  <2>4. CASE Publishing(t, p) /\ pc'[t] = "list" /\ dir' = dir /\ ask' = ask
    <3>1. Published(heap', folders', files', ask'[t].path, dir'[t])
      BY <2>4 DEF HandlerState, ListState
    <3>2. ask[t].path = p /\ dir[t] = folders[p]
      BY <2>4, NodeOf DEF Publishing, AtWork
    <3> QED
      BY <2>1, <2>4, <3>1, <3>2 DEF PathState
  <2> QED
    BY <1>5, <2>2, <2>3, <2>4, QuietPlaces
<1>6. CASE Builds(t)
  <2> DEFINE n == dir[t]
  <2>1. /\ n \in DOMAIN heap /\ ask[t].path \in DOMAIN folders /\ n = folders[ask[t].path]
    BY <1>6, BuilderAt, NodeOf
  <2>2. Within(heap, heap', n)
    BY <1>6, BuildsOp
  <2>3. folders' = folders /\ files' = files
    BY <1>6, BuildsLeaves
  <2>4. \A p : ~Publishing(t, p)
    BY <1>6 DEF Builds, LockDir, FillFile, FillFolder, Filled, Goto, Publishing
  <2> SUFFICES ASSUME NEW p \in DOMAIN folders PROVE PathState(p)'
    BY <2>3
  <2>5. CASE folders[p] # n
    <3>1. /\ Same(heap, heap', folders[p])
          /\ heap'[folders[p]].processed = heap[folders[p]].processed
      BY <1>3, <2>2, <2>5 DEF Within, Same
    <3> QED
      BY <1>2, <1>3, <1>4, <2>4, <3>1 DEF SerialInv, PathState
  <2>6. CASE folders[p] = n
    <3>1. CASE Filled(t)
      <4>1. p = ask[t].path
        BY <2>1, <2>6 DEF Tree, OnePath
      <4>2. Publishing(t, p)'
        <5>1. Publishing(t, ask[t].path)'
          BY <1>1, <3>1, FilledState
        <5>2. ask' = ask
          BY <3>1 DEF Filled
        <5> QED
          BY <4>1, <5>1, <5>2 DEF Publishing
      <4> QED
        BY <4>2 DEF PathState
    <3>2. CASE ~Filled(t)
      <4>1. ~heap'[n].processed
        BY <1>1, <1>6, <3>2, LockedState, FileState, FolderState DEF Builds
      <4> QED
        BY <2>3, <2>6, <4>1 DEF PathState
    <3> QED
      BY <3>1, <3>2
  <2> QED
    BY <2>5, <2>6
<1>7. ASSUME heap' = heap, \A p : Publishing(t, p) => Publishing(t, p)',
             NEW p \in DOMAIN folders
      PROVE  PathState(p)'
  <2>1. Same(heap, heap', folders[p])
    BY <1>7 DEF Same
  <2> QED
    BY <1>2, <1>3, <1>4, <1>7, <2>1 DEF SerialInv, PathState
<1>8. CASE PublishFolder(t)
  <2> DEFINE k == next[t] + 1
             child == heap[dir[t]].children[k]
  <2>0. PICK path : path = Append(ask[t].path, heap[child].name)
    OBVIOUS
  <2>1. /\ child \in DOMAIN heap /\ DOMAIN folders' = DOMAIN folders \cup {path}
        /\ path \notin DOMAIN folders => folders'[path] = child
        /\ UNCHANGED <<heap, pc, ask>>
    BY <1>8, <2>0, PublishOp
  <2> HIDE DEF child
  <2>2. \A p : Publishing(t, p) => Publishing(t, p)'
    BY <2>1 DEF Publishing
  <2>3. ASSUME path \notin DOMAIN folders PROVE PathState(path)'
    <3>1. ~heap[child].processed
      <4> SUFFICES ASSUME heap[child].processed PROVE FALSE
        OBVIOUS
      <4>1. PICK q \in DOMAIN folders : folders[q] = child
        BY <2>1 DEF SerialInv, Reached
      <4>2. folders'[q] = folders'[path] /\ q \in DOMAIN folders' /\ path \in DOMAIN folders'
        BY <1>1, <1>3, <2>1, <2>3, <4>1
      <4>3. q = path
        BY <4>2 DEF Tree, OnePath
      <4> QED
        BY <2>3, <4>3
    <3> QED
      BY <2>1, <2>3, <3>1 DEF PathState
  <2> QED
    BY <1>7, <2>1, <2>2, <2>3
<1>9. CASE PublishFile(t)
  <2>1. heap' = heap /\ folders' = folders /\ pc' = pc /\ ask' = ask
    BY <1>9 DEF PublishFile, Goto, TypeOK
  <2>2. \A p : Publishing(t, p) => Publishing(t, p)'
    BY <2>1 DEF Publishing
  <2> QED
    BY <1>7, <2>1, <2>2
<1> QED
  BY <1>5, <1>6, <1>8, <1>9

\* Whatever the order the folders are filled in, each holds what its container
\* gives with every key of the archive, once.
ListInv(known) == KeysLoaded(known) /\ Tree /\ Readers /\ (serial => SerialInv)

LEMMA ListInit ==
  ASSUME NEW known \in [Containers -> SUBSET Keys], LoadedBefore(known), Init
  PROVE  ListInv(known)
<1>1. /\ DOMAIN heap = {1} /\ heap[1] = NewFolder("/", Root)
      /\ DOMAIN folders = {<<>>} /\ folders[<<>>] = 1
  BY DEF Init
<1>2. /\ heap[1].children = <<>> /\ heap[1].files = <<>> /\ heap[1].cont = Root
      /\ ~heap[1].processed
  BY <1>1 DEF NewFolder
<1>3. Tree /\ Readers
  BY TreeInit, ReaderInit
<1>4. KeysLoaded(known)
  BY <1>1, <1>2 DEF KeysLoaded, LoadedBefore, Init
<1>5. OneReader
  <2>1. NoAsk.op = "none"
    BY DEF NoAsk
  <2> QED
    BY <2>1 DEF OneReader, Init
<1>6. Empty(heap, keep_raw, 1)
  BY <1>2, NothingHeld DEF Empty, Init
<1>7. \A o \in DOMAIN heap : ObjectState(o) /\ Reached(o)
  BY <1>1, <1>2, <1>6 DEF ObjectState, Reached
<1>8. \A p \in DOMAIN folders : PathState(p)
  BY <1>1, <1>2 DEF PathState
<1>9. ASSUME NEW t \in Threads PROVE HandlerState(t)
  <2>1. pc[t] = "idle" /\ reply[t].rc # "listing"
    BY DEF Init, NoReply
  <2> QED
    BY <2>1 DEF HandlerState, FillState, PublishState, ListState
<1> QED
  BY <1>3, <1>4, <1>5, <1>7, <1>8, <1>9 DEF ListInv, SerialInv

LEMMA ListStep ==
  ASSUME NEW known \in [Containers -> SUBSET Keys], LoadedBefore(known),
         TypeOK, ListInv(known), Next
  PROVE  ListInv(known)'
<1>1. PICK t \in Threads : Quiet(t) \/ Builds(t) \/ PublishFolder(t) \/ PublishFile(t)
  BY NextKinds
<1>2. Tree /\ Readers /\ KeysLoaded(known)
  BY DEF ListInv
<1>3. Tree' /\ Readers' /\ KeysLoaded(known)'
  BY <1>1, <1>2, TreeStep, ReaderStep, LoadedStep
<1>4. FillFile(t) => LET entry == Archive[heap[dir[t]].cont].files[next[t] + 1]
                     IN  Opens(entry, keys) <=> Opens(entry, Keys)
  BY <1>2, EntryLoads
<1>5. ASSUME serial' PROVE SerialInv'
  <2>1. serial /\ SerialInv /\ OneReader
    BY <1>1, <1>5, MapsGrow DEF ListInv, SerialInv
  <2>2. OneReader'
    BY <1>1, <2>1, OneReaderStep
  <2>3. \A u \in Threads : HandlerState(u)'
    BY <1>1, <1>2, <1>4, <2>1, HandlerStep
  <2>4. \A o \in DOMAIN heap' : ObjectState(o)' /\ Reached(o)'
    BY <1>1, <1>2, <1>4, <2>1, ObjectStep
  <2>5. \A p \in DOMAIN folders' : PathState(p)'
    BY <1>1, <1>2, <1>3, <1>4, <2>1, <2>3, PathStep
  <2> QED
    BY <2>2, <2>3, <2>4, <2>5 DEF SerialInv
<1> QED
  BY <1>3, <1>5 DEF ListInv

LEMMA ListUnchanged ==
  ASSUME NEW known, ListInv(known), UNCHANGED vars
  PROVE  ListInv(known)'
<1>1. UNCHANGED <<heap, folders, files, keep_raw, serial, keys, pc, ask, dir, next, end, reply>>
  BY DEF vars
<1>2. KeysLoaded(known)' /\ Tree' /\ Readers' /\ serial' = serial
  BY <1>1 DEF ListInv, KeysLoaded, Tree, Readers, ReaderOK
<1>3. SerialInv => SerialInv'
  BY <1>1 DEF SerialInv, OneReader, ObjectState, Reached, PathState, HandlerState, FillState,
              PublishState, ListState, Filling, Publishing
<1> QED
  BY <1>2, <1>3 DEF ListInv

LEMMA ListedNames ==
  ASSUME TypeOK, Readers, SerialInv, NEW t \in Threads, reply[t].rc = "listing"
  PROVE  /\ dir[t] \in DOMAIN heap /\ Full(heap, keep_raw, dir[t])
         /\ reply[t].names = FolderNames(heap, dir[t]) \o FileNames(heap, dir[t])
         /\ Published(heap, folders, files, ask[t].path, dir[t])
<1>1. dir[t] \in DOMAIN heap
  BY DEF Readers, ReaderOK, TypeOK, MapsOK
<1> QED
  BY <1>1 DEF SerialInv, HandlerState, ListState

\* readdir answers with each name of the directory once, in every archive whose
\* tickets come before what they open, when no directory is read twice at the
\* same time (vfs.cpp:26-43, 83-127, fuse.cpp:110-130).
THEOREM ListingsAreExact ==
  ASSUME TicketsBefore
  PROVE  Spec => []ListingExact
<1>1. PICK known \in [Containers -> SUBSET Keys] : LoadedBefore(known)
  BY DEF TicketsBefore
<1>2. Init => ListInv(known)
  BY <1>1, ListInit
<1>3. TypeOK /\ ListInv(known) /\ [Next]_vars => ListInv(known)'
  BY <1>1, ListStep, ListUnchanged
<1>4. TypeOK /\ ListInv(known) => ListingExact
  <2> SUFFICES ASSUME TypeOK, ListInv(known), serial,
                      NEW t \in Threads, reply[t].rc = "listing"
               PROVE  reply[t].names = Listing(heap[dir[t]].cont)
    BY DEF ListingExact, ExactReply
  <2> QED
    BY ListedNames, FullListing DEF ListInv
<1> QED
  BY <1>2, <1>3, <1>4, TypeCorrect, PTL DEF Spec

\* Every name readdir gives out can be looked up from then on: process_dir has
\* registered the nodes before wrap_readdir lists them (vfs.cpp:83-127,
\* vfs.hpp:144-152, fuse.cpp:110-130).
THEOREM ListedNamesAreFound ==
  ASSUME TicketsBefore
  PROVE  Spec => []ListedIsFound
<1>1. PICK known \in [Containers -> SUBSET Keys] : LoadedBefore(known)
  BY DEF TicketsBefore
<1>2. Init => ListInv(known)
  BY <1>1, ListInit
<1>3. TypeOK /\ ListInv(known) /\ [Next]_vars => ListInv(known)'
  BY <1>1, ListStep, ListUnchanged
<1>4. TypeOK /\ ListInv(known) => ListedIsFound
  <2> SUFFICES ASSUME TypeOK, ListInv(known), serial,
                      NEW t \in Threads, reply[t].rc = "listing",
                      NEW i \in DOMAIN reply[t].names
               PROVE  Append(ask[t].path, reply[t].names[i]) \in DOMAIN folders \cup DOMAIN files
    BY DEF ListedIsFound
  <2> DEFINE A == FolderNames(heap, dir[t])
             B == FileNames(heap, dir[t])
             n == Len(heap[dir[t]].children)
             m == Len(heap[dir[t]].files)
  <2>1. /\ dir[t] \in DOMAIN heap /\ reply[t].names = A \o B
        /\ Published(heap, folders, files, ask[t].path, dir[t])
    BY ListedNames DEF ListInv
  <2>2. n \in Nat /\ m \in Nat
    BY <2>1, HeldVectors DEF TypeOK
  <2>3. A = [k \in 1 .. n |-> A[k]] /\ B = [k \in 1 .. m |-> B[k]]
    BY DEF FolderNames, FileNames
  <2>4. /\ \A k \in 1 .. n : Append(ask[t].path, A[k]) \in DOMAIN folders
        /\ \A k \in 1 .. m : Append(ask[t].path, B[k]) \in DOMAIN files
    BY <2>1 DEF Published, FoldersFound, FilesFound, FolderNames, FileNames
  <2> HIDE DEF A, B, n, m
  <2>5. A \o B = [k \in 1 .. n + m |-> IF k <= n THEN A[k] ELSE B[k - n]]
    BY <2>2, <2>3, ConcatIs
  <2>6. CASE i <= n
    BY <2>1, <2>2, <2>4, <2>5, <2>6
  <2>7. CASE ~(i <= n)
    BY <2>1, <2>2, <2>4, <2>5, <2>7
  <2> QED
    BY <2>6, <2>7
<1> QED
  BY <1>2, <1>3, <1>4, TypeCorrect, PTL DEF Spec
=============================================================================
