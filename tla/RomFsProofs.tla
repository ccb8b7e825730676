------------------------------ MODULE RomFsProofs ------------------------------
(***************************************************************************)
(* Theorems about RomFs, for every well-formed image, any number of        *)
(* handlers, and Python programs that parse an image whole.                *)
(***************************************************************************)
EXTENDS RomFs, Integers, FiniteSetTheorems, WellFoundedInduction, TLAPS

\* The components of paths.
Components == STRING

Places == 1 .. Len(image.dirs)

DirEntry == [meta : Nat, parent : Nat, children : Seq(Nat), files : Seq(Nat)]
FileEntry == [meta : Nat, parent : Nat]
FrameType == [entry : Nat, dir : 0 .. Len(image.dirs), file : 0 .. Len(image.files)]

\* What a handler keeps to itself.
HandlerTypes ==
  /\ ask \in [Threads -> Seq(Components)]
  /\ at \in [Threads -> Nat] /\ cur \in [Threads -> Nat] /\ meta \in [Threads -> Nat]
  /\ turn \in [Threads -> {"files", "children"}]
  /\ DOMAIN out = Threads
  /\ \A t \in Threads : DOMAIN out[t] = {"files", "children"} /\ out[t].children \in Seq(Components)

\* The types the argument needs, and that a thread in parse_dir is in a call of it.
Shape ==
  /\ image \in Images /\ full \in BOOLEAN
  /\ dirs \in Seq(DirEntry) /\ files \in Seq(FileEntry)
  /\ mtx \in Threads \cup {Nobody}
  /\ pc \in [Threads -> PCs]
  /\ stack \in [Threads -> Seq(FrameType)]
  /\ HandlerTypes
  /\ \A e \in DOMAIN dirs : dirs[e].meta \in Places
  /\ \A t \in Threads : pc[t] = "parse" =>
       /\ stack[t] # <<>>
       /\ \A i \in DOMAIN stack[t] : stack[t][i].entry \in DOMAIN dirs
  /\ dirs = <<>> => \A t \in Threads : pc[t] = "idle"

\* A Python program is in one call of parse_full at most.
OneParse ==
  /\ \A t \in Threads : pc[t] \in {"idle", "parse", "entries"}
  /\ \A t, u \in Threads : pc[t] = "parse" /\ pc[u] = "parse" => t = u

-----------------------------------------------------------------------------
(* Under handlers.  P labels the entries with their paths.                 *)

\* parse_mtx, and the thread that opens the image, alone with it.
Opened ==
  /\ \A t \in Threads : pc[t] # "entries"
  /\ \A t \in Threads : pc[t] \in {"parse", "unlock"} => mtx = t \/ (pc[t] = "parse" /\ Root \notin parsed)
  /\ Root \notin parsed =>
       /\ mtx = Nobody
       /\ \A t \in Threads : pc[t] \in {"idle", "parse"} /\ ask[t] = Root
       /\ \A t, u \in Threads : pc[t] = "parse" /\ pc[u] = "parse" => t = u
  /\ dirs = <<>> => Root \notin parsed

\* The entries are a tree, each made of a place of its own, with a path of its own.
Labelled(P) ==
  /\ P \in [DOMAIN dirs -> Seq(Components)]
  /\ dirs # <<>> => P[1] = Root /\ dirs[1].meta = 1
  /\ \A e \in DOMAIN dirs : e # 1 =>
       /\ dirs[e].parent \in DOMAIN dirs
       /\ dirs[e].meta # 1
       /\ image.dirs[dirs[e].meta].parent = dirs[dirs[e].parent].meta
       /\ P[e] = Append(P[dirs[e].parent], DirName(dirs[e].meta))
       /\ \E i \in DOMAIN dirs[dirs[e].parent].children : dirs[dirs[e].parent].children[i] = e
  /\ \A e \in DOMAIN dirs : \A i \in DOMAIN dirs[e].children :
       LET c == dirs[e].children[i]
       IN  c \in DOMAIN dirs /\ c # 1 /\ dirs[c].parent = e
  /\ \A e1, e2 \in DOMAIN dirs : dirs[e1].meta = dirs[e2].meta => e1 = e2
  /\ \A e1, e2 \in DOMAIN dirs : P[e1] = P[e2] => e1 = e2

\* A call of parse_dir has made entries of the first places of the chain it goes along.
Along(f) ==
  LET made == dirs[f.entry].children
      all == SubDirs(image, dirs[f.entry].meta)
  IN  /\ Len(made) <= Len(all)
      /\ \A i \in DOMAIN made : dirs[made[i]].meta = all[i]
      /\ f.dir = IF Len(made) = Len(all) THEN None ELSE all[Len(made) + 1]

\* A directory that is parsed was not parsed before.
Parsing(P) ==
  /\ \A t \in Threads : pc[t] = "parse" =>
       /\ Len(stack[t]) = 1
       /\ P[stack[t][1].entry] = ask[t] /\ ask[t] \notin parsed
       /\ Along(stack[t][1])
       /\ mtx = t => stack[t][1].entry = cur[t]
  /\ \A e \in DOMAIN dirs :
       \/ P[e] \in parsed \/ dirs[e].children = <<>>
       \/ \E t \in Threads : pc[t] = "parse" /\ stack[t][1].entry = e

\* There is an entry for each directory on the way, and those above are parsed.
Ready(P, done, path) ==
  /\ path \in Seq(Components)
  /\ \A k \in 0 .. Len(path) - 1 : SubSeq(path, 1, k) \in done
  /\ \A k \in 1 .. Len(path) : \E e \in DOMAIN P : P[e] = SubSeq(path, 1, k)

ReadyBelow(P, done, path, names) ==
  /\ path \in Seq(Components) /\ names \in Seq(Components)
  /\ \A i \in DOMAIN names : Ready(P, done, Append(path, names[i]))

HandlerReady(P, t) ==
  Ready(P, parsed, ask[t]) /\ ReadyBelow(P, parsed, ask[t], out[t].children)

ListsReady(P) == \A path \in DOMAIN lists : ReadyBelow(P, parsed, path, lists[path].children)

AllReady(P) == ListsReady(P) /\ \A t \in Threads : HandlerReady(P, t)

\* The place find_dir looks for.
IsWanted(t, d) ==
  d \in Places \ {1} /\ image.dirs[d].parent = dirs[cur[t]].meta /\ DirName(d) = Wanted(t)

\* It lies at or behind the place the search is at.
Ahead(t) ==
  \E b \in DOMAIN image.heads : \E i, j \in DOMAIN Bucket(image, b) :
    i <= j /\ meta[t] = Bucket(image, b)[i] /\ IsWanted(t, Bucket(image, b)[j])

\* A search is at the entry of the path it went through.
Search(P, t) ==
  /\ pc[t] \in {"component", "chain", "child", "lock", "unlock", "collect"} => cur[t] \in DOMAIN dirs
  /\ pc[t] \in {"component", "chain", "child"} =>
       at[t] <= Len(ask[t]) /\ P[cur[t]] = SubSeq(ask[t], 1, at[t])
  /\ pc[t] \in {"chain", "child"} => at[t] # Len(ask[t])
  /\ pc[t] = "chain" => Ahead(t)
  /\ pc[t] = "child" => IsWanted(t, meta[t])
  /\ pc[t] \in {"lock", "unlock", "collect"} => P[cur[t]] = ask[t]
  /\ pc[t] = "parse" /\ mtx = t => cur[t] \in DOMAIN dirs
  /\ pc[t] \in {"unlock", "collect"} => ask[t] \in parsed

Searching(P) == \A t \in Threads : Search(P, t)

HandlerInv(P) == Opened /\ Labelled(P) /\ Parsing(P) /\ AllReady(P) /\ Searching(P)

RomFsInv ==
  /\ Shape
  /\ full => OneParse
  /\ ~full => \E P \in [DOMAIN dirs -> Seq(Components)] : HandlerInv(P)

-----------------------------------------------------------------------------
(* Sequences.                                                              *)

LEMMA AppendOp ==
  ASSUME NEW S, NEW s \in Seq(S), NEW e \in S
  PROVE  /\ Append(s, e) \in Seq(S)
         /\ Len(s) \in Nat /\ DOMAIN s = 1 .. Len(s)
         /\ Len(Append(s, e)) = Len(s) + 1
         /\ DOMAIN Append(s, e) = 1 .. Len(s) + 1
         /\ \A i \in 1 .. Len(s) : Append(s, e)[i] = s[i]
         /\ Append(s, e)[Len(s) + 1] = e
OBVIOUS

\* What writing an element does to a sequence.
LEMMA ReplaceOp ==
  ASSUME NEW S, NEW s \in Seq(S), NEW i \in DOMAIN s, NEW e \in S
  PROVE  /\ [s EXCEPT ![i] = e] \in Seq(S)
         /\ Len([s EXCEPT ![i] = e]) = Len(s)
         /\ DOMAIN [s EXCEPT ![i] = e] = DOMAIN s
         /\ \A k \in DOMAIN s : [s EXCEPT ![i] = e][k] = IF k = i THEN e ELSE s[k]
OBVIOUS

\* What Front and Last give of a sequence that is not empty.
LEMMA FrontOp ==
  ASSUME NEW S, NEW s \in Seq(S), s # <<>>
  PROVE  /\ Front(s) \in Seq(S) /\ Len(Front(s)) = Len(s) - 1
         /\ DOMAIN Front(s) = 1 .. Len(s) - 1
         /\ \A i \in 1 .. Len(s) - 1 : Front(s)[i] = s[i]
         /\ Len(s) \in Nat \ {0} /\ Last(s) = s[Len(s)] /\ Last(s) \in S
<1>1. Len(s) \in Nat \ {0} /\ DOMAIN s = 1 .. Len(s) /\ s[Len(s)] \in S
  OBVIOUS
<1> QED
  BY <1>1 DEF Front, Last

\* The beginnings of a path, and of one that is longer by a name.
LEMMA PrefixOp ==
  ASSUME NEW S, NEW p \in Seq(S)
  PROVE  /\ SubSeq(p, 1, 0) = <<>> /\ SubSeq(p, 1, Len(p)) = p
         /\ \A k \in 0 .. Len(p) :
              SubSeq(p, 1, k) \in Seq(S) /\ Len(SubSeq(p, 1, k)) = k
         /\ \A k \in 0 .. Len(p) - 1 : SubSeq(p, 1, k + 1) = Append(SubSeq(p, 1, k), p[k + 1])
OBVIOUS

LEMMA LongerOp ==
  ASSUME NEW S, NEW p \in Seq(S), NEW n \in S
  PROVE  \A k \in 0 .. Len(p) : SubSeq(Append(p, n), 1, k) = SubSeq(p, 1, k)
OBVIOUS

\* A path determines what it is made of.
LEMMA LongerUnique ==
  ASSUME NEW S, NEW p \in Seq(S), NEW q \in Seq(S), NEW m \in S, NEW n \in S,
         Append(p, m) = Append(q, n)
  PROVE  p = q /\ m = n
<1>1. Len(p) = Len(q)
  BY Len(Append(p, m)) = Len(p) + 1, Len(Append(q, n)) = Len(q) + 1
<1>2. \A i \in 1 .. Len(p) : p[i] = q[i]
  <2> TAKE i \in 1 .. Len(p)
  <2>1. Append(p, m)[i] = p[i] /\ Append(q, n)[i] = q[i]
    BY <1>1
  <2> QED
    BY <2>1
<1>3. Append(p, m)[Len(p) + 1] = m /\ Append(q, n)[Len(p) + 1] = n
  BY <1>1
<1> QED
  BY <1>1, <1>2, <1>3

-----------------------------------------------------------------------------
(* The image.                                                              *)

LEMMA ImageOp ==
  ASSUME image \in Images
  PROVE  /\ Len(image.dirs) \in Nat \ {0} /\ 1 \in Places /\ DOMAIN image.dirs = Places
         /\ Len(image.files) \in Nat /\ DOMAIN image.files = 1 .. Len(image.files)
         /\ \A d \in Places :
              /\ image.dirs[d].name \in Components
              /\ image.dirs[d].child \in 0 .. Len(image.dirs) /\ image.dirs[d].sibling \in 0 .. Len(image.dirs)
              /\ image.dirs[d].file \in 0 .. Len(image.files) /\ image.dirs[d].next \in 0 .. Len(image.dirs)
         /\ \A f \in DOMAIN image.files : image.files[f].sibling \in 0 .. Len(image.files)
         /\ IsFiniteSet(DOMAIN image.heads) /\ Len(image.dirs) <= Cardinality(DOMAIN image.heads)
<1>1. /\ image.dirs \in Seq(DirMetas(image)) /\ image.dirs # <<>>
      /\ image.files \in Seq(FileMetas(image))
      /\ IsFiniteSet(DOMAIN image.heads) /\ Cardinality(DOMAIN image.heads) >= Len(image.dirs)
  BY RomFsAssumption DEF WellFormed
<1>2. /\ Len(image.dirs) \in Nat \ {0} /\ 1 \in Places /\ DOMAIN image.dirs = Places
      /\ \A d \in Places : image.dirs[d] \in DirMetas(image)
  BY <1>1 DEF Places
<1>3. /\ Len(image.files) \in Nat /\ DOMAIN image.files = 1 .. Len(image.files)
      /\ \A f \in DOMAIN image.files : image.files[f] \in FileMetas(image)
  BY <1>1
<1>4. Len(image.dirs) <= Cardinality(DOMAIN image.heads)
  BY <1>1, <1>2, FS_CardinalityType
<1> QED
  BY <1>1, <1>2, <1>3, <1>4 DEF DirMetas, FileMetas, Components

\* The children of a directory, along their chain.
LEMMA SubDirsOp ==
  ASSUME image \in Images, NEW d \in Places, NEW S, S = SubDirs(image, d)
  PROVE  /\ S \in Seq(Places) /\ Len(S) \in Nat /\ DOMAIN S = 1 .. Len(S)
         /\ image.dirs[d].child = IF Len(S) = 0 THEN None ELSE S[1]
         /\ \A i \in 1 .. Len(S) :
              /\ S[i] \in Places \ {1} /\ image.dirs[S[i]].parent = d
              /\ image.dirs[S[i]].sibling = IF i = Len(S) THEN None ELSE S[i + 1]
         /\ \A i, j \in 1 .. Len(S) : S[i] = S[j] => i = j
<1> DEFINE link == Field(image.dirs, "sibling")
<1>1. /\ IsChain(S, image.dirs[d].child, link)
      /\ IsInjective(S)
      /\ ToSet(S) = {c \in 2 .. Len(image.dirs) : image.dirs[c].parent = d}
  BY RomFsAssumption DEF WellFormed, Places
<1>2. DOMAIN link = Places /\ \A c \in Places : link[c] = image.dirs[c].sibling
  BY DEF Field, Places
<1> HIDE DEF link
<1>3. S \in Seq(Places)
  BY <1>1, <1>2 DEF IsChain
<1>4. /\ Len(S) \in Nat /\ DOMAIN S = 1 .. Len(S) /\ (Len(S) = 0 <=> S = <<>>)
      /\ \A i \in 1 .. Len(S) : S[i] \in Places
  BY <1>3
<1>5. \A i \in 1 .. Len(S) : S[i] \in ToSet(S)
  BY <1>4 DEF ToSet
<1>6. \A i \in 1 .. Len(S) : S[i] \in 2 .. Len(image.dirs) /\ image.dirs[S[i]].parent = d
  BY <1>1, <1>5
<1>7. \A i \in 1 .. Len(S) : S[i] # 1
  BY <1>6, ImageOp
<1>8. image.dirs[d].child = IF Len(S) = 0 THEN None ELSE S[1]
  BY <1>1, <1>4 DEF IsChain
<1>9. \A i \in 1 .. Len(S) : image.dirs[S[i]].sibling = IF i = Len(S) THEN None ELSE S[i + 1]
  BY <1>1, <1>2, <1>4 DEF IsChain
<1>10. \A i, j \in 1 .. Len(S) : S[i] = S[j] => i = j
  BY <1>1, <1>4 DEF IsInjective
<1> QED
  BY <1>3, <1>4, <1>6, <1>7, <1>8, <1>9, <1>10

\* The places in a bucket, along their chain.
LEMMA BucketOp ==
  ASSUME image \in Images, NEW b \in DOMAIN image.heads, NEW B, B = Bucket(image, b)
  PROVE  /\ Len(B) \in Nat /\ DOMAIN B = 1 .. Len(B)
         /\ image.heads[b] = IF Len(B) = 0 THEN None ELSE B[1]
         /\ \A i \in 1 .. Len(B) :
              B[i] \in Places \ {1} /\ image.dirs[B[i]].next = IF i = Len(B) THEN None ELSE B[i + 1]
         /\ \A c \in Places \ {1} :
              BucketOf(image, image.dirs[c].parent, image.dirs[c].name) = b => \E i \in DOMAIN B : B[i] = c
<1> DEFINE link == Field(image.dirs, "next")
<1>1. /\ IsChain(B, image.heads[b], link)
      /\ ToSet(B) = {c \in 2 .. Len(image.dirs) : BucketOf(image, image.dirs[c].parent, image.dirs[c].name) = b}
  BY RomFsAssumption DEF WellFormed
<1>2. DOMAIN link = Places /\ \A c \in Places : link[c] = image.dirs[c].next
  BY DEF Field, Places
<1> HIDE DEF link
<1>3. B \in Seq(Places)
  BY <1>1, <1>2 DEF IsChain
<1>4. /\ Len(B) \in Nat /\ DOMAIN B = 1 .. Len(B) /\ (Len(B) = 0 <=> B = <<>>)
      /\ \A i \in 1 .. Len(B) : B[i] \in Places
  BY <1>3
<1>5. ToSet(B) = {B[i] : i \in DOMAIN B}
  BY DEF ToSet
<1>6. \A c \in Places \ {1} : c \in 2 .. Len(image.dirs)
  BY ImageOp DEF Places
<1>7. Len(image.dirs) \in Nat
  BY ImageOp
<1>8. \A c \in ToSet(B) : c # 1
  BY <1>1, <1>7
<1>9. \A i \in 1 .. Len(B) : B[i] # 1
  BY <1>4, <1>5, <1>8
<1>10. \A c \in Places \ {1} :
        BucketOf(image, image.dirs[c].parent, image.dirs[c].name) = b => \E i \in DOMAIN B : B[i] = c
  BY <1>1, <1>5, <1>6
<1>11. image.heads[b] = IF Len(B) = 0 THEN None ELSE B[1]
  BY <1>1, <1>4 DEF IsChain
<1>12. \A i \in 1 .. Len(B) : image.dirs[B[i]].next = IF i = Len(B) THEN None ELSE B[i + 1]
  BY <1>1, <1>2, <1>4 DEF IsChain
<1> QED
  BY <1>4, <1>9, <1>10, <1>11, <1>12

\* A directory has one child of a name, and it is in a bucket.
LEMMA ChildOp ==
  ASSUME image \in Images, NEW c \in Places \ {1}
  PROVE  /\ image.dirs[c].parent \in Places
         /\ BucketOf(image, image.dirs[c].parent, image.dirs[c].name) \in DOMAIN image.heads
         /\ \A o \in Places \ {1} :
              image.dirs[o].parent = image.dirs[c].parent /\ image.dirs[o].name = image.dirs[c].name => o = c
<1>1. \A x \in Places \ {1} : x \in 2 .. Len(image.dirs)
  BY ImageOp DEF Places
<1>2. \A x \in 2 .. Len(image.dirs) :
        /\ image.dirs[x].parent \in 1 .. x - 1
        /\ BucketOf(image, image.dirs[x].parent, image.dirs[x].name) \in DOMAIN image.heads
  BY RomFsAssumption DEF WellFormed
<1>3. Len(image.dirs) \in Nat
  BY ImageOp
<1>4. image.dirs[c].parent \in 1 .. Len(image.dirs)
  <2>1. c \in 2 .. Len(image.dirs) /\ image.dirs[c].parent \in 1 .. c - 1
    BY <1>1, <1>2
  <2> QED
    BY <2>1, <1>3
<1>5. \A o \in 2 .. Len(image.dirs) :
        image.dirs[o].parent = image.dirs[c].parent /\ image.dirs[o].name = image.dirs[c].name => o = c
  BY <1>1, <1>4, RomFsAssumption DEF WellFormed
<1> QED
  BY <1>1, <1>2, <1>4, <1>5 DEF Places

-----------------------------------------------------------------------------
(* Paths that are ready.                                                   *)

\* What is ready stays so while entries are made and directories parsed.
LEMMA ReadyGrows ==
  ASSUME NEW P, NEW P2, NEW done, NEW done2, NEW path,
         done \subseteq done2, DOMAIN P \subseteq DOMAIN P2, \A e \in DOMAIN P : P2[e] = P[e],
         Ready(P, done, path)
  PROVE  Ready(P2, done2, path)
<1>1. \A k \in 1 .. Len(path) : \E e \in DOMAIN P2 : P2[e] = SubSeq(path, 1, k)
  <2> TAKE k \in 1 .. Len(path)
  <2>1. PICK e \in DOMAIN P : P[e] = SubSeq(path, 1, k)
    BY DEF Ready
  <2> QED
    BY <2>1
<1>2. \A k \in 0 .. Len(path) - 1 : SubSeq(path, 1, k) \in done2
  BY DEF Ready
<1> QED
  BY <1>1, <1>2 DEF Ready

LEMMA BelowGrows ==
  ASSUME NEW P, NEW P2, NEW done, NEW done2, NEW path, NEW names,
         done \subseteq done2, DOMAIN P \subseteq DOMAIN P2, \A e \in DOMAIN P : P2[e] = P[e],
         ReadyBelow(P, done, path, names)
  PROVE  ReadyBelow(P2, done2, path, names)
BY ReadyGrows DEF ReadyBelow

LEMMA ReadyRoot ==
  ASSUME NEW P, NEW done
  PROVE  Ready(P, done, Root)
BY DEF Ready, Root

LEMMA BelowNone ==
  ASSUME NEW P, NEW done, NEW path \in Seq(Components)
  PROVE  ReadyBelow(P, done, path, <<>>)
BY DEF ReadyBelow

\* A child is ready when its parent has been parsed.
LEMMA ReadyChild ==
  ASSUME NEW P, NEW done, NEW path, NEW name \in Components, NEW e \in DOMAIN P,
         Ready(P, done, path), path \in done, P[e] = Append(path, name)
  PROVE  Ready(P, done, Append(path, name))
<1> DEFINE long == Append(path, name)
<1>1. path \in Seq(Components)
  BY DEF Ready
<1>2. Len(path) \in Nat /\ Len(long) = Len(path) + 1 /\ long \in Seq(Components)
  BY <1>1
<1>3. \A k \in 0 .. Len(path) : SubSeq(long, 1, k) = SubSeq(path, 1, k)
  BY <1>1, LongerOp
<1>4. SubSeq(path, 1, Len(path)) = path /\ SubSeq(long, 1, Len(long)) = long
  BY <1>1, <1>2, PrefixOp
<1> HIDE DEF long
<1>5. \A k \in 0 .. Len(long) - 1 : SubSeq(long, 1, k) \in done
  <2> TAKE k \in 0 .. Len(long) - 1
  <2>1. k \in 0 .. Len(path) /\ (k \in 0 .. Len(path) - 1 \/ k = Len(path))
    BY <1>2
  <2>2. SubSeq(long, 1, k) = SubSeq(path, 1, k)
    BY <1>3, <2>1
  <2>3. SubSeq(path, 1, k) \in done
    BY <1>4, <2>1 DEF Ready
  <2> QED
    BY <2>2, <2>3
<1>6. \A k \in 1 .. Len(long) : \E x \in DOMAIN P : P[x] = SubSeq(long, 1, k)
  <2> TAKE k \in 1 .. Len(long)
  <2>1. CASE k = Len(long)
    BY <1>4, <2>1 DEF long
  <2>2. CASE k \in 1 .. Len(path)
    <3>1. \E x \in DOMAIN P : P[x] = SubSeq(path, 1, k)
      BY <2>2 DEF Ready
    <3> QED
      BY <1>2, <1>3, <2>2, <3>1
  <2> QED
    BY <1>2, <2>1, <2>2
<1> QED
  BY <1>2, <1>5, <1>6 DEF Ready, long

LEMMA BelowAppend ==
  ASSUME NEW P, NEW done, NEW path, NEW names, NEW name \in Components,
         ReadyBelow(P, done, path, names), Ready(P, done, Append(path, name))
  PROVE  ReadyBelow(P, done, path, Append(names, name))
<1>1. names \in Seq(Components)
  BY DEF ReadyBelow
<1>2. /\ Append(names, name) \in Seq(Components) /\ Len(names) \in Nat
      /\ DOMAIN Append(names, name) = 1 .. Len(names) + 1 /\ DOMAIN names = 1 .. Len(names)
      /\ \A i \in 1 .. Len(names) : Append(names, name)[i] = names[i]
      /\ Append(names, name)[Len(names) + 1] = name
  BY <1>1, AppendOp
<1>3. \A i \in 1 .. Len(names) + 1 : i \in 1 .. Len(names) \/ i = Len(names) + 1
  BY <1>2
<1> QED
  BY <1>2, <1>3 DEF ReadyBelow

-----------------------------------------------------------------------------
(* The steps of a handler that neither parses nor holds the mutex.         *)

Quiet(t) ==
  /\ pc[t] \notin {"parse", "unlock"}
  /\ \E place \in PCs \ {"parse", "unlock", "entries"} : pc' = [pc EXCEPT ![t] = place]
  /\ UNCHANGED <<image, full, parsed, dirs, files, mtx, stack>>
  /\ \A u \in Threads \ {t} :
       /\ ask'[u] = ask[u] /\ at'[u] = at[u] /\ cur'[u] = cur[u] /\ meta'[u] = meta[u]
       /\ out'[u] = out[u]

LEMMA QuietStep ==
  ASSUME Shape, ~full, NEW P, HandlerInv(P), NEW t \in Threads, Quiet(t), Root \in parsed,
         HandlerTypes', HandlerReady(P, t)', ListsReady(P)', Search(P, t)'
  PROVE  Shape' /\ ~full' /\ HandlerInv(P)'
<1>1. PICK place \in PCs \ {"parse", "unlock", "entries"} : pc' = [pc EXCEPT ![t] = place]
  BY DEF Quiet
<1>2. /\ pc' \in [Threads -> PCs] /\ pc'[t] = place
      /\ \A u \in Threads \ {t} : pc'[u] = pc[u]
  BY <1>1 DEF Shape
<1>3. /\ image' = image /\ full' = full /\ parsed' = parsed /\ dirs' = dirs /\ files' = files /\ mtx' = mtx /\ stack' = stack
      /\ pc[t] \notin {"parse", "unlock"}
      /\ \A u \in Threads \ {t} :
           ask'[u] = ask[u] /\ at'[u] = at[u] /\ cur'[u] = cur[u] /\ meta'[u] = meta[u] /\ out'[u] = out[u]
  BY DEF Quiet
<1>4. dirs # <<>>
  BY DEF HandlerInv, Opened
<1>5. Shape'
  BY <1>2, <1>3, <1>4 DEF Shape, FrameType, Places
<1>6. Opened'
  BY <1>1, <1>2, <1>3 DEF HandlerInv, Opened
<1>7. Labelled(P)'
  BY <1>3 DEF HandlerInv, Labelled, Places, DirName
<1>8. Parsing(P)'
  <2>1. \A u \in Threads : pc'[u] = "parse" <=> pc[u] = "parse"
    BY <1>1, <1>2, <1>3
  <2>2. \A u \in Threads : pc[u] = "parse" => u # t
    BY <1>3
  <2>3. \A f : Along(f)' = Along(f)
    BY <1>3 DEF Along
  <2> QED
    BY <1>3, <2>1, <2>2, <2>3 DEF HandlerInv, Parsing
<1>9. AllReady(P)'
  <2>1. \A u \in Threads \ {t} : HandlerReady(P, u)'
    BY <1>3 DEF HandlerInv, AllReady, HandlerReady
  <2> QED
    BY <2>1 DEF AllReady
<1>10. Searching(P)'
  <2>1. ASSUME NEW u \in Threads \ {t} PROVE Search(P, u)'
    <3>1. Ahead(u)' <=> Ahead(u)
      BY <1>3 DEF Ahead, IsWanted, Wanted, DirName, Places
    <3>2. IsWanted(u, meta[u])' <=> IsWanted(u, meta[u])
      BY <1>3 DEF IsWanted, Wanted, DirName, Places
    <3> QED
      BY <1>2, <1>3, <3>1, <3>2 DEF HandlerInv, Searching, Search
  <2> QED
    BY <2>1 DEF Searching
<1> QED
  BY <1>3, <1>5, <1>6, <1>7, <1>8, <1>9, <1>10 DEF HandlerInv

\* What the path of a folder that the file system knows is made of.
LEMMA KnownReady ==
  ASSUME NEW P, ListsReady(P), NEW path \in Known
  PROVE  Ready(P, parsed, path)
<1>1. CASE path = Root
  BY <1>1, ReadyRoot
<1>2. CASE path # Root
  <2>1. PICK p \in DOMAIN lists : path \in {Append(p, n) : n \in ToSet(lists[p].children)}
    BY <1>2 DEF Known
  <2>2. PICK i \in DOMAIN lists[p].children : path = Append(p, lists[p].children[i])
    BY <2>1 DEF ToSet
  <2> QED
    BY <2>1, <2>2 DEF ListsReady, ReadyBelow
<1> QED
  BY <1>1, <1>2

LEMMA BeginStep ==
  ASSUME Shape, ~full, NEW P, HandlerInv(P), NEW t \in Threads, NEW path \in Known, Begin(t, path)
  PROVE  Shape' /\ ~full' /\ HandlerInv(P)'
<1>1. /\ pc[t] = "idle" /\ pc' = [pc EXCEPT ![t] = "folder"] /\ Root \in parsed
      /\ ask' = [ask EXCEPT ![t] = path] /\ at' = [at EXCEPT ![t] = 0]
      /\ turn' = [turn EXCEPT ![t] = "files"] /\ out' = [out EXCEPT ![t] = Nothing]
      /\ UNCHANGED <<shared, tree, mtx, cur, meta, stack>>
  BY DEF Begin, Goto
<1>2. Ready(P, parsed, path) /\ path \in Seq(Components)
  BY KnownReady DEF HandlerInv, AllReady, Ready
<1>3. HandlerTypes'
  <2>1. ask' \in [Threads -> Seq(Components)] /\ at' \in [Threads -> Nat] /\ turn' \in [Threads -> {"files", "children"}]
    BY <1>1, <1>2 DEF Shape, HandlerTypes
  <2>2. <<>> \in Seq(Components) /\ DOMAIN Nothing = {"files", "children"} /\ Nothing.children = <<>>
    BY DEF Nothing
  <2>3. DOMAIN out' = Threads /\ \A u \in Threads : out'[u] = IF u = t THEN Nothing ELSE out[u]
    BY <1>1 DEF Shape, HandlerTypes
  <2> QED
    BY <1>1, <2>1, <2>2, <2>3 DEF Shape, HandlerTypes
<1>4. Quiet(t)
  BY <1>1 DEF Quiet, shared, tree, Shape, HandlerTypes, PCs
<1>5. ask'[t] = path /\ out'[t].children = <<>> /\ pc'[t] = "folder"
  BY <1>1 DEF Shape, HandlerTypes, Nothing
<1>6. HandlerReady(P, t)'
  BY <1>1, <1>2, <1>5, BelowNone DEF HandlerReady, shared
<1>7. ListsReady(P)'
  BY <1>1 DEF HandlerInv, AllReady, ListsReady, shared
<1>8. Search(P, t)'
  BY <1>5 DEF Search
<1> QED
  BY <1>1, <1>3, <1>4, <1>6, <1>7, <1>8, QuietStep

\* A step of a handler between calls that leaves what it asked for, and has.
LEMMA SearchStep ==
  ASSUME Shape, ~full, NEW P, HandlerInv(P), NEW t \in Threads,
         pc[t] \notin {"idle", "parse", "unlock"},
         NEW place \in PCs \ {"parse", "unlock", "entries"}, pc' = [pc EXCEPT ![t] = place],
         UNCHANGED <<image, full, parsed, lists, dirs, files, mtx, stack, ask, turn, out>>,
         NEW a \in Nat, NEW c \in Nat, NEW d \in Nat,
         at' = [at EXCEPT ![t] = a], cur' = [cur EXCEPT ![t] = c], meta' = [meta EXCEPT ![t] = d],
         Search(P, t)'
  PROVE  Shape' /\ ~full' /\ HandlerInv(P)'
<1>1. Root \in parsed
  BY DEF HandlerInv, Opened
<1>2. HandlerTypes'
  BY DEF Shape, HandlerTypes
<1>3. Quiet(t)
  BY DEF Quiet, Shape, HandlerTypes
<1>4. HandlerReady(P, t)' /\ ListsReady(P)'
  BY DEF HandlerInv, AllReady, ListsReady, HandlerReady
<1> QED
  BY <1>1, <1>2, <1>3, <1>4, QuietStep

LEMMA MoveSteps ==
  ASSUME Shape, ~full, NEW P, HandlerInv(P), NEW t \in Threads,
         LockFolder(t) \/ FindBegins(t) \/ Found(t)
  PROVE  Shape' /\ ~full' /\ HandlerInv(P)'
<1>1. /\ at = [at EXCEPT ![t] = at[t]] /\ at[t] \in Nat
      /\ cur = [cur EXCEPT ![t] = cur[t]] /\ cur[t] \in Nat
      /\ meta = [meta EXCEPT ![t] = meta[t]] /\ meta[t] \in Nat
      /\ ask[t] \in Seq(Components) /\ Len(ask[t]) \in Nat
  BY DEF Shape, HandlerTypes
<1>2. \A place : pc' = [pc EXCEPT ![t] = place] => pc'[t] = place
  BY DEF Shape
<1>3. CASE LockFolder(t)
  <2>1. /\ pc[t] = "folder" /\ pc' = [pc EXCEPT ![t] = "find"]
        /\ UNCHANGED <<image, full, parsed, lists, dirs, files, mtx, stack, ask, turn, out, at, cur, meta>>
    BY <1>3 DEF LockFolder, Goto, tree, search, handler
  <2>2. Search(P, t)'
    BY <1>2, <2>1 DEF Search
  <2> QED
    BY <1>1, <2>1, <2>2, SearchStep DEF PCs
<1>4. CASE FindBegins(t)
  <2>1. /\ pc[t] = "find" /\ pc' = [pc EXCEPT ![t] = "component"]
        /\ at' = [at EXCEPT ![t] = 0] /\ cur' = [cur EXCEPT ![t] = 1]
        /\ UNCHANGED <<image, full, parsed, lists, dirs, files, mtx, stack, ask, turn, out, meta>>
    BY <1>4 DEF FindBegins, Goto, shared, tree, handler
  <2>2. pc'[t] = "component" /\ at'[t] = 0 /\ cur'[t] = 1
    BY <1>2, <2>1 DEF Shape, HandlerTypes
  <2>3. 1 \in DOMAIN dirs /\ P[1] = <<>>
    <3>1. dirs # <<>> /\ dirs \in Seq(DirEntry)
      BY <2>1 DEF HandlerInv, Opened, Shape
    <3> QED
      BY <3>1 DEF HandlerInv, Labelled, Root
  <2>4. SubSeq(ask[t], 1, 0) = <<>> /\ 0 <= Len(ask[t])
    BY <1>1, PrefixOp
  <2>5. Search(P, t)'
    BY <2>1, <2>2, <2>3, <2>4 DEF Search
  <2> QED
    BY <1>1, <2>1, <2>5, SearchStep DEF PCs
<1>5. CASE Found(t)
  <2>1. /\ pc[t] = "component" /\ at[t] = Len(ask[t]) /\ pc' = [pc EXCEPT ![t] = "lock"]
        /\ UNCHANGED <<image, full, parsed, lists, dirs, files, mtx, stack, ask, turn, out, at, cur, meta>>
    BY <1>5 DEF Found, Goto, shared, tree, search, handler
  <2>2. pc'[t] = "lock"
    BY <1>2, <2>1
  <2>3. cur[t] \in DOMAIN dirs /\ P[cur[t]] = ask[t]
    BY <1>1, <2>1, PrefixOp DEF HandlerInv, Searching, Search
  <2>4. Search(P, t)'
    BY <2>1, <2>2, <2>3 DEF Search
  <2> QED
    BY <1>1, <2>1, <2>4, SearchStep DEF PCs
<1> QED
  BY <1>3, <1>4, <1>5

\* A container has returned a list, to read_files or to read_folders.
LEMMA ReturnStep ==
  ASSUME Shape, ~full, NEW P, HandlerInv(P), NEW t \in Threads,
         pc[t] \notin {"idle", "parse", "unlock"}, ReadReturns(t),
         UNCHANGED <<image, full, parsed, dirs, files, mtx, stack, ask, out, at, cur, meta>>
  PROVE  Shape' /\ ~full' /\ HandlerInv(P)'
<1>1. Root \in parsed
  BY DEF HandlerInv, Opened
<1>2. \/ /\ pc' = [pc EXCEPT ![t] = "find"]
         /\ turn' = [turn EXCEPT ![t] = "children"]
         /\ lists' = lists
      \/ /\ pc' = [pc EXCEPT ![t] = "idle"]
         /\ turn' = turn
         /\ lists' = [p \in DOMAIN lists \cup {ask[t]} |-> IF p = ask[t] THEN out[t] ELSE lists[p]]
  BY DEF ReadReturns
<1>3. Quiet(t)
  BY <1>2 DEF Quiet, PCs
<1>4. HandlerTypes'
  BY <1>2 DEF Shape, HandlerTypes
<1>5. HandlerReady(P, t)'
  BY DEF HandlerInv, AllReady, HandlerReady
<1>6. ListsReady(P)'
  <2>1. ListsReady(P) /\ HandlerReady(P, t)
    BY DEF HandlerInv, AllReady
  <2>2. CASE lists' = lists
    BY <2>1, <2>2 DEF ListsReady
  <2>3. CASE lists' = [p \in DOMAIN lists \cup {ask[t]} |-> IF p = ask[t] THEN out[t] ELSE lists[p]]
    BY <2>1, <2>3 DEF ListsReady, HandlerReady
  <2> QED
    BY <1>2, <2>2, <2>3
<1>7. Search(P, t)'
  <2>1. pc'[t] \in {"find", "idle"}
    BY <1>2 DEF Shape
  <2> QED
    BY <2>1 DEF Search
<1> QED
  BY <1>1, <1>3, <1>4, <1>5, <1>6, <1>7, QuietStep

\* There is an entry for the directory a search is to find next.
LEMMA WantedOp ==
  ASSUME Shape, NEW P, HandlerInv(P), NEW t \in Threads,
         pc[t] \in {"component", "chain", "child"}, at[t] # Len(ask[t])
  PROVE  /\ cur[t] \in DOMAIN dirs /\ at[t] + 1 \in DOMAIN ask[t] /\ Wanted(t) \in Components
         /\ \E e \in DOMAIN dirs : IsWanted(t, dirs[e].meta)
         /\ SubSeq(ask[t], 1, at[t] + 1) = Append(P[cur[t]], Wanted(t))
<1>1. /\ cur[t] \in DOMAIN dirs /\ at[t] <= Len(ask[t])
      /\ P[cur[t]] = SubSeq(ask[t], 1, at[t])
  BY DEF HandlerInv, Searching, Search
<1>2. ask[t] \in Seq(Components) /\ at[t] \in Nat /\ Len(ask[t]) \in Nat
  BY DEF Shape, HandlerTypes
<1>3. at[t] \in 0 .. Len(ask[t]) - 1 /\ at[t] + 1 \in 1 .. Len(ask[t]) /\ at[t] \in 0 .. Len(ask[t])
  BY <1>1, <1>2
<1>4. at[t] + 1 \in DOMAIN ask[t] /\ Wanted(t) \in Components
  BY <1>2, <1>3 DEF Wanted
<1>5. SubSeq(ask[t], 1, at[t] + 1) = Append(P[cur[t]], Wanted(t))
  <2> DEFINE path == ask[t]
  <2>1. path \in Seq(Components) /\ at[t] \in 0 .. Len(path) - 1
    BY <1>2, <1>3
  <2> HIDE DEF path
  <2>2. \A k \in 0 .. Len(path) - 1 : SubSeq(path, 1, k + 1) = Append(SubSeq(path, 1, k), path[k + 1])
    BY <2>1, PrefixOp
  <2>3. SubSeq(path, 1, at[t] + 1) = Append(SubSeq(path, 1, at[t]), path[at[t] + 1])
    BY <2>1, <2>2
  <2> QED
    BY <1>1, <2>3 DEF Wanted, path
<1>6. PICK e \in DOMAIN dirs : P[e] = SubSeq(ask[t], 1, at[t] + 1)
  <2>1. Ready(P, parsed, ask[t]) /\ DOMAIN P = DOMAIN dirs
    BY DEF HandlerInv, AllReady, HandlerReady, Labelled
  <2> QED
    BY <1>3, <2>1 DEF Ready
<1>7. P[cur[t]] \in Seq(Components) /\ P[1] = <<>>
  <2>1. dirs # <<>>
    BY <1>1, <1>6 DEF Shape
  <2> QED
    BY <1>1, <2>1 DEF HandlerInv, Labelled, Root
<1>8. e # 1
  <2>1. Append(P[cur[t]], Wanted(t)) # <<>>
    BY <1>4, <1>7
  <2> QED
    BY <1>5, <1>6, <1>7, <2>1
<1>9. /\ dirs[e].parent \in DOMAIN dirs /\ dirs[e].meta # 1
      /\ image.dirs[dirs[e].meta].parent = dirs[dirs[e].parent].meta
      /\ P[e] = Append(P[dirs[e].parent], DirName(dirs[e].meta))
      /\ P[dirs[e].parent] \in Seq(Components)
  BY <1>8 DEF HandlerInv, Labelled
<1>10. dirs[e].meta \in Places /\ DirName(dirs[e].meta) \in Components
  <2>1. dirs[e].meta \in Places
    BY DEF Shape
  <2> QED
    BY <2>1, ImageOp DEF Shape, DirName, Components
<1>11. P[dirs[e].parent] = P[cur[t]] /\ DirName(dirs[e].meta) = Wanted(t)
  <2> DEFINE p == P[dirs[e].parent]
             q == P[cur[t]]
             m == DirName(dirs[e].meta)
             n == Wanted(t)
  <2>1. /\ p \in Seq(Components) /\ q \in Seq(Components) /\ m \in Components /\ n \in Components
        /\ Append(p, m) = Append(q, n)
    BY <1>4, <1>5, <1>6, <1>7, <1>9, <1>10
  <2> HIDE DEF p, q, m, n
  <2>2. p = q /\ m = n
    BY <2>1, LongerUnique
  <2> QED
    BY <2>2 DEF p, q, m, n
<1>12. dirs[e].parent = cur[t]
  BY <1>1, <1>9, <1>11 DEF HandlerInv, Labelled
<1> QED
  BY <1>1, <1>4, <1>5, <1>9, <1>10, <1>11, <1>12 DEF IsWanted

LEMMA FindHashStep ==
  ASSUME Shape, ~full, NEW P, HandlerInv(P), NEW t \in Threads, FindHash(t)
  PROVE  Shape' /\ ~full' /\ HandlerInv(P)'
<1>1. PICK b : b = BucketOf(image, dirs[cur[t]].meta, Wanted(t))
  OBVIOUS
<1> DEFINE B == Bucket(image, b)
<1>2. /\ pc[t] = "component" /\ at[t] < Len(ask[t])
      /\ \/ image.heads[b] = None /\ NotFound(t)
         \/ /\ image.heads[b] # None
            /\ Goto(t, "component", "chain")
            /\ meta' = [meta EXCEPT ![t] = image.heads[b]]
            /\ UNCHANGED <<shared, tree, mtx, at, cur, stack, handler>>
  BY <1>1 DEF FindHash
<1>3. at[t] \in Nat /\ Len(ask[t]) \in Nat /\ cur[t] \in Nat /\ ask[t] \in Seq(Components)
  BY DEF Shape, HandlerTypes
<1>4. CASE NotFound(t)
  BY <1>2, <1>4, ReturnStep DEF NotFound, tree, search
<1>5. CASE ~NotFound(t)
  <2>1. at[t] # Len(ask[t])
    BY <1>2, <1>3
  <2>2. PICK d : IsWanted(t, d)
    BY <1>2, <2>1, WantedOp
  <2>3. d \in Places \ {1} /\ image.dirs[d].parent = dirs[cur[t]].meta /\ image.dirs[d].name = Wanted(t)
    BY <2>2 DEF IsWanted, DirName
  <2>4. image \in Images
    BY DEF Shape
  <2>5. b \in DOMAIN image.heads
    BY <1>1, <2>3, <2>4, ChildOp
  <2>6. /\ Len(B) \in Nat /\ DOMAIN B = 1 .. Len(B)
        /\ image.heads[b] = IF Len(B) = 0 THEN None ELSE B[1]
        /\ \A i \in 1 .. Len(B) : B[i] \in Places \ {1}
        /\ \E i \in DOMAIN B : B[i] = d
    <3>1. BucketOf(image, image.dirs[d].parent, image.dirs[d].name) = b
      BY <1>1, <2>3
    <3> HIDE DEF B
    <3>2. B = Bucket(image, b)
      BY DEF B
    <3> QED
      BY <2>3, <2>4, <2>5, <3>1, <3>2, BucketOp
  <2>7. PICK j \in DOMAIN B : B[j] = d
    BY <2>6
  <2>8. 1 \in DOMAIN B /\ 1 <= j /\ image.heads[b] = B[1] /\ B[1] \in Nat
    BY <2>6 DEF Places
  <2>9. /\ pc' = [pc EXCEPT ![t] = "chain"] /\ meta' = [meta EXCEPT ![t] = B[1]]
        /\ UNCHANGED <<image, full, parsed, lists, dirs, files, mtx, stack, ask, turn, out, at, cur>>
    BY <1>2, <1>5, <2>8 DEF Goto, shared, tree, handler
  <2>10. pc'[t] = "chain" /\ meta'[t] = B[1]
    BY <2>9 DEF Shape, HandlerTypes
  <2>11. Ahead(t)'
    <3>1. IsWanted(t, Bucket(image, b)[j])'
      BY <2>2, <2>7, <2>9 DEF IsWanted, DirName, Wanted, Places
    <3>2. /\ b \in DOMAIN image'.heads /\ 1 \in DOMAIN Bucket(image', b) /\ j \in DOMAIN Bucket(image', b)
          /\ 1 <= j /\ meta'[t] = Bucket(image', b)[1] /\ Bucket(image', b)[j] = d
      BY <2>5, <2>7, <2>8, <2>9, <2>10
    <3> QED
      BY <3>1, <3>2 DEF Ahead
  <2>12. Search(P, t)'
    BY <1>2, <2>1, <2>9, <2>10, <2>11 DEF Search, HandlerInv, Searching
  <2> HIDE DEF B
  <2>13. /\ at' = [at EXCEPT ![t] = at[t]] /\ cur' = [cur EXCEPT ![t] = cur[t]]
    BY <2>9 DEF Shape, HandlerTypes
  <2> QED
    BY <1>2, <1>3, <2>8, <2>9, <2>12, <2>13, SearchStep DEF PCs
<1> QED
  BY <1>4, <1>5

LEMMA FindChainStep ==
  ASSUME Shape, ~full, NEW P, HandlerInv(P), NEW t \in Threads, FindChain(t)
  PROVE  Shape' /\ ~full' /\ HandlerInv(P)'
<1> DEFINE d == image.dirs[meta[t]]
           right == d.name = Wanted(t) /\ d.parent = dirs[cur[t]].meta
<1>1. /\ pc[t] = "chain"
      /\ IF ~right /\ d.next # None
           THEN meta' = [meta EXCEPT ![t] = d.next] /\ pc' = pc
           ELSE pc' = [pc EXCEPT ![t] = "child"] /\ meta' = meta
      /\ UNCHANGED <<image, full, parsed, lists, dirs, files, mtx, stack, ask, turn, out, at, cur>>
  BY DEF FindChain, Goto, shared, tree, handler
<1>2. Search(P, t) /\ Ahead(t)
  BY <1>1 DEF HandlerInv, Searching, Search
<1>3. PICK b \in DOMAIN image.heads : \E i, j \in DOMAIN Bucket(image, b) :
        i <= j /\ meta[t] = Bucket(image, b)[i] /\ IsWanted(t, Bucket(image, b)[j])
  BY <1>2 DEF Ahead
<1> DEFINE B == Bucket(image, b)
<1>4. PICK i, j \in DOMAIN B : i <= j /\ meta[t] = B[i] /\ IsWanted(t, B[j])
  BY <1>3
<1>5. /\ Len(B) \in Nat /\ DOMAIN B = 1 .. Len(B)
      /\ \A k \in 1 .. Len(B) :
           B[k] \in Places \ {1} /\ image.dirs[B[k]].next = IF k = Len(B) THEN None ELSE B[k + 1]
  <2> HIDE DEF B
  <2>1. B = Bucket(image, b) /\ image \in Images
    BY DEF B, Shape
  <2> QED
    BY <2>1, BucketOp
<1>6. \A k \in DOMAIN B : B[k] \in Nat /\ B[k] # None
  <2>1. \A x \in Places : x \in Nat /\ x # None
    BY DEF Places, None
  <2> HIDE DEF B
  <2> QED
    BY <1>5, <2>1
<1>7. meta[t] \in Places \ {1} /\ meta[t] \in Nat
  BY <1>4, <1>5, <1>6
<1>8. CASE right
  <2>1. IsWanted(t, meta[t])
    BY <1>7, <1>8 DEF IsWanted, DirName
  <2>2. pc' = [pc EXCEPT ![t] = "child"] /\ meta' = meta
    BY <1>1, <1>8
  <2>3. pc'[t] = "child" /\ IsWanted(t, meta[t])'
    BY <1>1, <2>1, <2>2 DEF Shape, IsWanted, DirName, Wanted, Places
  <2>4. Search(P, t)'
    BY <1>1, <1>2, <2>3 DEF Search
  <2>5. /\ at' = [at EXCEPT ![t] = at[t]] /\ cur' = [cur EXCEPT ![t] = cur[t]] /\ meta' = [meta EXCEPT ![t] = meta[t]]
        /\ at[t] \in Nat /\ cur[t] \in Nat
    BY <1>1, <2>2 DEF Shape, HandlerTypes
  <2> QED
    BY <1>1, <1>7, <2>2, <2>4, <2>5, SearchStep DEF PCs
<1>9. CASE ~right
  <2>1. i # j
    BY <1>4, <1>9 DEF IsWanted, DirName
  <2>2. i + 1 \in DOMAIN B /\ i + 1 <= j /\ d.next = B[i + 1] /\ i # Len(B)
    <3> HIDE DEF B
    <3>1. Len(B) \in Nat /\ i \in 1 .. Len(B) /\ j \in 1 .. Len(B) /\ i <= j
      BY <1>4, <1>5
    <3>2. i + 1 \in 1 .. Len(B) /\ i + 1 <= j /\ i # Len(B)
      BY <2>1, <3>1
    <3>3. d.next = B[i + 1]
      BY <1>4, <1>5, <3>1, <3>2
    <3> QED
      BY <1>5, <3>2, <3>3
  <2>3. d.next # None /\ d.next \in Nat
    BY <1>6, <2>2
  <2>4. meta' = [meta EXCEPT ![t] = d.next] /\ pc' = pc
    BY <1>1, <1>9, <2>3
  <2>5. meta'[t] = B[i + 1] /\ pc'[t] = "chain"
    BY <1>1, <2>2, <2>4 DEF Shape, HandlerTypes
  <2>6. Ahead(t)'
    <3>1. IsWanted(t, B[j])'
      BY <1>1, <1>4 DEF IsWanted, DirName, Wanted, Places
    <3>2. /\ b \in DOMAIN image'.heads /\ i + 1 \in DOMAIN Bucket(image', b) /\ j \in DOMAIN Bucket(image', b)
          /\ i + 1 <= j /\ meta'[t] = Bucket(image', b)[i + 1] /\ Bucket(image', b)[j] = B[j]
      BY <1>1, <2>2, <2>5
    <3> QED
      BY <3>1, <3>2 DEF Ahead
  <2>7. Search(P, t)'
    BY <1>1, <1>2, <2>5, <2>6 DEF Search
  <2>8. /\ at' = [at EXCEPT ![t] = at[t]] /\ cur' = [cur EXCEPT ![t] = cur[t]]
        /\ at[t] \in Nat /\ cur[t] \in Nat /\ pc' = [pc EXCEPT ![t] = "chain"]
    BY <1>1, <2>4 DEF Shape, HandlerTypes
  <2> HIDE DEF d
  <2> QED
    BY <1>1, <2>3, <2>4, <2>7, <2>8, SearchStep DEF PCs
<1> QED
  BY <1>8, <1>9

LEMMA FindChildStep ==
  ASSUME Shape, ~full, NEW P, HandlerInv(P), NEW t \in Threads, FindChild(t)
  PROVE  Shape' /\ ~full' /\ HandlerInv(P)'
<1> DEFINE made == {e \in ToSet(dirs[cur[t]].children) : dirs[e].meta = meta[t]}
<1>1. /\ pc[t] = "child"
      /\ \/ made = {} /\ NotFound(t)
         \/ /\ Goto(t, "child", "component")
            /\ \E e \in made : cur' = [cur EXCEPT ![t] = e]
            /\ at' = [at EXCEPT ![t] = @ + 1]
            /\ UNCHANGED <<shared, tree, mtx, meta, stack, handler>>
  BY DEF FindChild
<1>2. CASE NotFound(t)
  BY <1>1, <1>2, ReturnStep DEF NotFound, tree, search
<1>3. CASE ~NotFound(t)
  <2>1. PICK e \in made : cur' = [cur EXCEPT ![t] = e]
    BY <1>1, <1>3
  <2>2. /\ pc' = [pc EXCEPT ![t] = "component"] /\ at' = [at EXCEPT ![t] = at[t] + 1]
        /\ UNCHANGED <<image, full, parsed, lists, dirs, files, mtx, stack, ask, turn, out, meta>>
    BY <1>1, <1>3 DEF Goto, shared, tree, handler
  <2>3. PICK i \in DOMAIN dirs[cur[t]].children : dirs[cur[t]].children[i] = e /\ dirs[e].meta = meta[t]
    BY <2>1 DEF ToSet
  <2>4. Search(P, t) /\ at[t] # Len(ask[t])
    BY <1>1 DEF HandlerInv, Searching, Search
  <2>5. /\ cur[t] \in DOMAIN dirs /\ at[t] + 1 \in DOMAIN ask[t]
        /\ SubSeq(ask[t], 1, at[t] + 1) = Append(P[cur[t]], Wanted(t))
    BY <1>1, <2>4, WantedOp
  <2>6. e \in DOMAIN dirs /\ e # 1 /\ dirs[e].parent = cur[t]
    BY <2>3, <2>5 DEF HandlerInv, Labelled
  <2>7. P[e] = Append(P[cur[t]], DirName(meta[t])) /\ DirName(meta[t]) = Wanted(t)
    <3>1. IsWanted(t, meta[t])
      BY <1>1, <2>4 DEF Search
    <3> QED
      BY <2>3, <2>6, <3>1 DEF HandlerInv, Labelled, IsWanted
  <2>8. /\ at[t] \in Nat /\ Len(ask[t]) \in Nat /\ at[t] + 1 <= Len(ask[t]) /\ e \in Nat
    <3>1. ask[t] \in Seq(Components) /\ at[t] \in Nat /\ dirs \in Seq(DirEntry)
      BY DEF Shape, HandlerTypes
    <3>2. Len(ask[t]) \in Nat /\ DOMAIN ask[t] = 1 .. Len(ask[t])
      BY <3>1
    <3>3. DOMAIN dirs = 1 .. Len(dirs) /\ Len(dirs) \in Nat
      BY <3>1
    <3>4. e \in Nat
      BY <2>6, <3>3
    <3> QED
      BY <2>5, <3>1, <3>2, <3>4
  <2>9. pc'[t] = "component" /\ at'[t] = at[t] + 1 /\ cur'[t] = e
    BY <2>1, <2>2 DEF Shape, HandlerTypes
  <2>10. Search(P, t)'
    BY <2>2, <2>5, <2>6, <2>7, <2>8, <2>9 DEF Search
  <2>11. at[t] + 1 \in Nat /\ meta[t] \in Nat /\ meta' = [meta EXCEPT ![t] = meta[t]]
    <3>1. meta \in [Threads -> Nat]
      BY DEF Shape, HandlerTypes
    <3>2. meta' = meta
      BY <2>2
    <3> QED
      BY <2>8, <3>1, <3>2
  <2> QED
    BY <1>1, <2>1, <2>2, <2>8, <2>10, <2>11, SearchStep DEF PCs
<1> QED
  BY <1>2, <1>3

LEMMA CollectStep ==
  ASSUME Shape, ~full, NEW P, HandlerInv(P), NEW t \in Threads, Collect(t)
  PROVE  Shape' /\ ~full' /\ HandlerInv(P)'
<1> DEFINE list == dirs[cur[t]][turn[t]]
           n == Len(out[t][turn[t]])
           name(e) == IF turn[t] = "files" THEN FileName(files[e].meta) ELSE DirName(dirs[e].meta)
<1>1. /\ pc[t] = "collect"
      /\ \/ /\ n < Len(list)
            /\ out' = [out EXCEPT ![t][turn[t]] = Append(@, name(list[n + 1]))]
            /\ UNCHANGED <<shared, tree, mtx, pc, search, stack, ask, turn>>
         \/ /\ n >= Len(list)
            /\ ReadReturns(t)
            /\ UNCHANGED <<image, full, parsed, entries, tree, mtx, search, stack, ask, out>>
  BY DEF Collect
<1>2. CASE ReadReturns(t) /\ UNCHANGED <<image, full, parsed, entries, tree, mtx, search, stack, ask, out>>
  BY <1>1, <1>2, ReturnStep DEF tree, search
<1>3. CASE /\ n < Len(list)
           /\ out' = [out EXCEPT ![t][turn[t]] = Append(@, name(list[n + 1]))]
           /\ UNCHANGED <<shared, tree, mtx, pc, search, stack, ask, turn>>
  <2>1. UNCHANGED <<image, full, parsed, lists, dirs, files, mtx, stack, ask, turn, pc, at, cur, meta>>
    BY <1>3 DEF shared, tree, search
  <2>2. Search(P, t) /\ cur[t] \in DOMAIN dirs /\ P[cur[t]] = ask[t] /\ ask[t] \in parsed
    BY <1>1 DEF HandlerInv, Searching, Search
  <2>3. Search(P, t)'
    BY <1>1, <2>1, <2>2 DEF Search
  <2>4. Root \in parsed
    BY <1>1 DEF HandlerInv, Opened
  <2>5. HandlerReady(P, t) /\ ListsReady(P)
    BY DEF HandlerInv, AllReady
  <2>6. ListsReady(P)'
    BY <2>1, <2>5 DEF ListsReady
  <2>7. turn[t] \in {"files", "children"} /\ DOMAIN out = Threads /\ DOMAIN out[t] = {"files", "children"}
        /\ out[t].children \in Seq(Components)
    BY DEF Shape, HandlerTypes
  <2>8. /\ DOMAIN out' = Threads /\ DOMAIN out'[t] = {"files", "children"}
        /\ \A u \in Threads \ {t} : out'[u] = out[u]
    BY <1>3, <2>7
  <2>9. Quiet(t)
    <3>1. pc' = [pc EXCEPT ![t] = "collect"]
      BY <1>1, <2>1 DEF Shape
    <3> QED
      BY <1>1, <2>1, <2>8, <3>1 DEF Quiet, PCs
  <2>10. out'[t].children \in Seq(Components) /\ ReadyBelow(P, parsed, ask[t], out'[t].children)
    <3>1. CASE turn[t] = "files"
      <4>1. out'[t].children = out[t].children
        BY <1>3, <2>7, <3>1
      <4> QED
        BY <2>5, <2>7, <4>1 DEF HandlerReady
    <3>2. CASE turn[t] = "children"
      <4> DEFINE kids == dirs[cur[t]].children
                 k == Len(out[t].children)
                 e == kids[k + 1]
      <4>1. k \in Nat /\ kids \in Seq(Nat) /\ k < Len(kids)
        <5>1. dirs[cur[t]] \in DirEntry
          BY <2>2 DEF Shape
        <5>2. kids \in Seq(Nat)
          BY <5>1 DEF DirEntry
        <5>3. list = kids /\ n = k
          BY <3>2
        <5> QED
          BY <1>3, <2>7, <5>2, <5>3
      <4>2. k + 1 \in DOMAIN kids
        BY <4>1
      <4>3. e \in DOMAIN dirs /\ e # 1 /\ dirs[e].parent = cur[t]
        BY <2>2, <4>2 DEF HandlerInv, Labelled
      <4>4. DirName(dirs[e].meta) \in Components
        BY <4>3, ImageOp DEF Shape, DirName, Components
      <4>5. P[e] = Append(ask[t], DirName(dirs[e].meta)) /\ e \in DOMAIN P
        <5>1. DOMAIN P = DOMAIN dirs
          BY DEF HandlerInv, Labelled
        <5>2. P[e] = Append(P[dirs[e].parent], DirName(dirs[e].meta))
          <6> HIDE DEF e
          <6> QED
            BY <4>3 DEF HandlerInv, Labelled
        <5> QED
          BY <2>2, <4>3, <5>1, <5>2
      <4>6. out'[t].children = Append(out[t].children, DirName(dirs[e].meta))
        BY <1>3, <2>7, <3>2
      <4> HIDE DEF e
      <4>7. Ready(P, parsed, Append(ask[t], DirName(dirs[e].meta)))
        BY <2>2, <2>5, <4>4, <4>5, ReadyChild DEF HandlerReady
      <4>8. ReadyBelow(P, parsed, ask[t], out'[t].children)
        BY <2>5, <4>4, <4>6, <4>7, BelowAppend DEF HandlerReady
      <4> QED
        BY <2>7, <4>4, <4>6, <4>8, AppendOp
    <3> QED
      BY <2>7, <3>1, <3>2
  <2>11. HandlerTypes'
    BY <2>1, <2>8, <2>10 DEF Shape, HandlerTypes
  <2>12. HandlerReady(P, t)'
    BY <2>1, <2>5, <2>10 DEF HandlerReady
  <2> QED
    BY <2>3, <2>4, <2>6, <2>9, <2>11, <2>12, QuietStep
<1> QED
  BY <1>1, <1>2, <1>3

-----------------------------------------------------------------------------
(* parse_dir, and what the entries are made of.                            *)

\* The innermost call of parse_dir.
LEMMA TopOp ==
  ASSUME Shape, NEW t \in Threads, pc[t] = "parse"
  PROVE  /\ stack[t] \in Seq(FrameType) /\ Len(stack[t]) \in Nat \ {0} /\ Top(t) = stack[t][Len(stack[t])]
         /\ Top(t) \in FrameType /\ Top(t).entry \in DOMAIN dirs
         /\ Front(stack[t]) \in Seq(FrameType) /\ Len(Front(stack[t])) = Len(stack[t]) - 1
         /\ \A i \in 1 .. Len(stack[t]) - 1 : Front(stack[t])[i] = stack[t][i]
         /\ \A i \in 1 .. Len(stack[t]) - 1 : Front(stack[t])[i].entry \in DOMAIN dirs
         /\ DOMAIN stack[t] = 1 .. Len(stack[t])
<1>1. stack[t] \in Seq(FrameType) /\ stack[t] # <<>> /\ \A i \in DOMAIN stack[t] : stack[t][i].entry \in DOMAIN dirs
  BY DEF Shape
<1>2. Len(stack[t]) \in DOMAIN stack[t] /\ DOMAIN stack[t] = 1 .. Len(stack[t])
  BY <1>1
<1> QED
  <2>1. /\ Front(stack[t]) \in Seq(FrameType) /\ Len(Front(stack[t])) = Len(stack[t]) - 1
        /\ \A i \in 1 .. Len(stack[t]) - 1 : Front(stack[t])[i] = stack[t][i]
        /\ Len(stack[t]) \in Nat \ {0} /\ Top(t) = stack[t][Len(stack[t])] /\ Top(t) \in FrameType
    BY <1>1, FrontOp DEF Top
  <2>2. \A i \in 1 .. Len(stack[t]) - 1 : i \in DOMAIN stack[t]
    BY <1>2, <2>1
  <2> QED
    BY <1>1, <1>2, <2>1, <2>2

\* The new entries of dirs have the types, and stay in their places.
LEMMA ParseChildShape ==
  ASSUME Shape, NEW t \in Threads, ParseChild(t)
  PROVE  /\ Shape'
         /\ Len(dirs) \in Nat /\ DOMAIN dirs = 1 .. Len(dirs) /\ DOMAIN dirs' = 1 .. Len(dirs) + 1
         /\ dirs'[Len(dirs) + 1] = [meta |-> Top(t).dir, parent |-> Top(t).entry, children |-> <<>>, files |-> <<>>]
         /\ \A e \in DOMAIN dirs :
              /\ dirs'[e].meta = dirs[e].meta /\ dirs'[e].parent = dirs[e].parent
              /\ dirs[e].children \in Seq(Nat)
              /\ dirs'[e].children = IF e = Top(t).entry THEN Append(dirs[e].children, Len(dirs) + 1)
                                     ELSE dirs[e].children
         /\ Top(t).dir \in Places
<1> DEFINE f == Top(t)
           new == Len(dirs) + 1
           fresh == [meta |-> f.dir, parent |-> f.entry, children |-> <<>>, files |-> <<>>]
           parent == [dirs[f.entry] EXCEPT !.children = Append(@, new)]
           rest == Append(Front(stack[t]), [f EXCEPT !.dir = image.dirs[f.dir].sibling])
<1>1. /\ pc[t] = "parse" /\ f.dir # None
      /\ dirs' = Append([dirs EXCEPT ![f.entry].children = Append(@, new)], fresh)
      /\ stack' = [stack EXCEPT ![t] = IF full THEN Append(rest, Frame(new, f.dir)) ELSE rest]
      /\ UNCHANGED <<image, full, files, mtx, pc, ask, at, cur, meta, turn, out>>
  BY DEF ParseChild, shared, search, handler
<1>2. /\ f \in FrameType /\ f.entry \in DOMAIN dirs /\ dirs \in Seq(DirEntry)
      /\ Front(stack[t]) \in Seq(FrameType) /\ DOMAIN Front(stack[t]) = 1 .. Len(Front(stack[t]))
      /\ \A i \in 1 .. Len(Front(stack[t])) : Front(stack[t])[i].entry \in DOMAIN dirs
  BY <1>1, TopOp DEF Shape
<1>3. Len(dirs) \in Nat /\ DOMAIN dirs = 1 .. Len(dirs) /\ \A e \in DOMAIN dirs : dirs[e] \in DirEntry
  BY <1>2
<1>4. f.dir \in Places /\ image \in Images
  BY <1>1, <1>2, ImageOp DEF FrameType, Places, None, Shape
<1>5. fresh \in DirEntry /\ new \in Nat
  <2>1. f.dir \in Nat /\ f.entry \in Nat /\ new \in Nat
    BY <1>2, <1>3, <1>4 DEF Places
  <2>2. <<>> \in Seq(Nat)
    OBVIOUS
  <2> HIDE DEF f, new
  <2> QED
    BY <2>1, <2>2 DEF DirEntry
<1>6. /\ parent \in DirEntry /\ parent.meta = dirs[f.entry].meta /\ parent.parent = dirs[f.entry].parent
      /\ parent.children = Append(dirs[f.entry].children, new)
  <2>1. dirs[f.entry] \in DirEntry
    BY <1>2, <1>3
  <2>2. dirs[f.entry].children \in Seq(Nat) /\ Append(dirs[f.entry].children, new) \in Seq(Nat)
    BY <1>5, <2>1, AppendOp DEF DirEntry
  <2> QED
    BY <2>1, <2>2 DEF DirEntry
<1>7. dirs' = Append([dirs EXCEPT ![f.entry] = parent], fresh)
  BY <1>1
<1> DEFINE mid == [dirs EXCEPT ![f.entry] = parent]
<1>8. /\ mid \in Seq(DirEntry) /\ Len(mid) = Len(dirs) /\ DOMAIN mid = DOMAIN dirs
      /\ \A e \in DOMAIN dirs : mid[e] = IF e = f.entry THEN parent ELSE dirs[e]
  <2> HIDE DEF parent
  <2> QED
    BY <1>2, <1>6, ReplaceOp
<1> HIDE DEF mid
<1>9. dirs' = Append(mid, fresh)
  BY <1>7 DEF mid
<1>10. /\ dirs' \in Seq(DirEntry) /\ DOMAIN dirs' = 1 .. Len(dirs) + 1 /\ dirs'[Len(dirs) + 1] = fresh
       /\ \A e \in DOMAIN dirs : dirs'[e] = mid[e]
  <2> HIDE DEF fresh
  <2> QED
    BY <1>3, <1>5, <1>8, <1>9, AppendOp
<1>11. \A e \in DOMAIN dirs :
         /\ dirs'[e].meta = dirs[e].meta /\ dirs'[e].parent = dirs[e].parent
         /\ dirs[e].children \in Seq(Nat)
         /\ dirs'[e].children = IF e = f.entry THEN Append(dirs[e].children, new) ELSE dirs[e].children
  <2> HIDE DEF parent, new
  <2> QED
    BY <1>3, <1>6, <1>8, <1>10 DEF DirEntry
<1>12. \A e \in DOMAIN dirs' : dirs'[e].meta \in Places
  <2>1. \A e \in DOMAIN dirs' : e \in DOMAIN dirs \/ e = Len(dirs) + 1
    BY <1>3, <1>10
  <2>2. \A e \in DOMAIN dirs : dirs[e].meta \in Places
    BY DEF Shape
  <2>3. fresh.meta = f.dir
    OBVIOUS
  <2> HIDE DEF fresh
  <2> QED
    BY <1>4, <1>10, <1>11, <2>1, <2>2, <2>3
<1> DEFINE next == [f EXCEPT !.dir = image.dirs[f.dir].sibling]
           deeper == Frame(new, f.dir)
<1>13. next \in FrameType /\ next.entry \in DOMAIN dirs' /\ deeper \in FrameType /\ deeper.entry \in DOMAIN dirs'
  <2>1. image.dirs[f.dir].sibling \in 0 .. Len(image.dirs) /\ image.dirs[f.dir].child \in 0 .. Len(image.dirs)
        /\ image.dirs[f.dir].file \in 0 .. Len(image.files)
    BY <1>4, ImageOp
  <2>2. new \in DOMAIN dirs' /\ f.entry \in DOMAIN dirs'
    BY <1>2, <1>3, <1>10
  <2> QED
    BY <1>2, <1>5, <2>1, <2>2 DEF FrameType, Frame
<1>14. /\ rest \in Seq(FrameType) /\ rest # <<>> /\ \A i \in DOMAIN rest : rest[i].entry \in DOMAIN dirs'
  <2> DEFINE F == Front(stack[t])
  <2>1. rest = Append(F, next) /\ F \in Seq(FrameType) /\ \A i \in 1 .. Len(F) : F[i].entry \in DOMAIN dirs'
    BY <1>2, <1>3, <1>10
  <2> HIDE DEF F, next, rest
  <2>2. /\ rest \in Seq(FrameType) /\ Len(F) \in Nat /\ DOMAIN rest = 1 .. Len(F) + 1
        /\ \A i \in 1 .. Len(F) : rest[i] = F[i]
        /\ rest[Len(F) + 1] = next
    BY <1>13, <2>1, AppendOp
  <2>3. \A i \in DOMAIN rest : i \in 1 .. Len(F) \/ i = Len(F) + 1
    BY <2>2
  <2> QED
    BY <1>13, <2>1, <2>2, <2>3
<1>15. /\ stack'[t] \in Seq(FrameType) /\ stack'[t] # <<>>
       /\ \A i \in DOMAIN stack'[t] : stack'[t][i].entry \in DOMAIN dirs'
  <2> HIDE DEF rest, deeper
  <2>1. stack'[t] = IF full THEN Append(rest, deeper) ELSE rest
    BY <1>1 DEF Shape, deeper
  <2>2. CASE ~full
    BY <1>14, <2>1, <2>2
  <2>3. CASE full
    <3>1. /\ stack'[t] \in Seq(FrameType) /\ Len(rest) \in Nat /\ DOMAIN stack'[t] = 1 .. Len(rest) + 1
          /\ DOMAIN rest = 1 .. Len(rest)
          /\ \A i \in 1 .. Len(rest) : stack'[t][i] = rest[i]
          /\ stack'[t][Len(rest) + 1] = deeper
      BY <1>13, <1>14, <2>1, <2>3, AppendOp
    <3>2. \A i \in DOMAIN stack'[t] : i \in 1 .. Len(rest) \/ i = Len(rest) + 1
      BY <3>1
    <3> QED
      BY <1>13, <1>14, <3>1, <3>2
  <2> QED
    BY <2>2, <2>3
<1>16. /\ stack' \in [Threads -> Seq(FrameType)] /\ \A u \in Threads \ {t} : stack'[u] = stack[u]
  <2> HIDE DEF rest
  <2>1. stack \in [Threads -> Seq(FrameType)]
    BY DEF Shape
  <2> QED
    BY <1>1, <1>15, <2>1
<1>17. \A u \in Threads : pc'[u] = "parse" =>
         stack'[u] # <<>> /\ \A i \in DOMAIN stack'[u] : stack'[u][i].entry \in DOMAIN dirs'
  <2>1. DOMAIN dirs \subseteq DOMAIN dirs'
    BY <1>3, <1>10
  <2> QED
    BY <1>1, <1>15, <1>16, <2>1 DEF Shape
<1>18. Shape'
  <2>1. dirs' # <<>>
    BY <1>3, <1>10
  <2> QED
    BY <1>1, <1>10, <1>12, <1>16, <1>17, <2>1 DEF Shape, HandlerTypes, FrameType, Places
<1> QED
  BY <1>3, <1>4, <1>10, <1>11, <1>18

LEMMA ParseFileShape ==
  ASSUME Shape, NEW t \in Threads, ParseFile(t)
  PROVE  /\ Shape'
         /\ DOMAIN dirs' = DOMAIN dirs
         /\ \A e \in DOMAIN dirs :
              /\ dirs'[e].meta = dirs[e].meta /\ dirs'[e].parent = dirs[e].parent
              /\ dirs'[e].children = dirs[e].children
         /\ Len(stack'[t]) = Len(stack[t])
         /\ Len(stack[t]) = 1 => stack'[t][1].entry = stack[t][1].entry /\ stack'[t][1].dir = stack[t][1].dir
         /\ \A u \in Threads \ {t} : stack'[u] = stack[u]
<1> DEFINE f == Top(t)
           fs == Append(dirs[f.entry].files, Len(files) + 1)
           next == [f EXCEPT !.file = image.files[f.file].sibling]
           dir == [dirs[f.entry] EXCEPT !.files = fs]
<1>1. /\ pc[t] = "parse" /\ f.file # None
      /\ dirs' = [dirs EXCEPT ![f.entry] = dir]
      /\ files' = Append(files, [meta |-> f.file, parent |-> f.entry])
      /\ stack' = [stack EXCEPT ![t] = Append(Front(stack[t]), next)]
      /\ UNCHANGED <<image, full, mtx, pc, ask, at, cur, meta, turn, out>>
  BY DEF ParseFile, shared, search, handler
<1>2. /\ stack[t] \in Seq(FrameType) /\ Len(stack[t]) \in Nat \ {0} /\ f = stack[t][Len(stack[t])]
      /\ f \in FrameType /\ f.entry \in DOMAIN dirs
      /\ Front(stack[t]) \in Seq(FrameType) /\ Len(Front(stack[t])) = Len(stack[t]) - 1
      /\ \A i \in 1 .. Len(stack[t]) - 1 : Front(stack[t])[i].entry \in DOMAIN dirs
      /\ dirs \in Seq(DirEntry)
  BY <1>1, TopOp DEF Shape
<1>3. f.file \in DOMAIN image.files /\ image.files[f.file].sibling \in 0 .. Len(image.files)
  <2>1. f.file \in 0 .. Len(image.files)
    BY <1>2 DEF FrameType
  <2>2. /\ Len(image.files) \in Nat /\ DOMAIN image.files = 1 .. Len(image.files)
        /\ \A x \in DOMAIN image.files : image.files[x].sibling \in 0 .. Len(image.files)
    BY ImageOp DEF Shape
  <2> HIDE DEF f
  <2>3. f.file \in 1 .. Len(image.files)
    BY <1>1, <2>1, <2>2 DEF None
  <2> QED
    BY <2>2, <2>3
<1>4. next \in FrameType /\ next.entry = f.entry /\ next.dir = f.dir
  BY <1>2, <1>3 DEF FrameType
<1>5. fs \in Seq(Nat)
  <2>1. dirs[f.entry].files \in Seq(Nat)
    <3>1. dirs[f.entry] \in DirEntry
      BY <1>2
    <3> QED
      BY <3>1 DEF DirEntry
  <2>2. Len(files) + 1 \in Nat
    BY DEF Shape
  <2> QED
    BY <2>1, <2>2, AppendOp
<1>6. files' \in Seq(FileEntry)
  <2> DEFINE new == [meta |-> f.file, parent |-> f.entry]
  <2>1. new \in FileEntry /\ files \in Seq(FileEntry) /\ files' = Append(files, new)
    <3>1. f.file \in Nat /\ f.entry \in Nat
      <4>1. f.entry \in Nat
        BY <1>2 DEF FrameType
      <4>2. DOMAIN image.files = 1 .. Len(image.files) /\ Len(image.files) \in Nat
        BY ImageOp DEF Shape
      <4> QED
        BY <1>3, <4>1, <4>2
    <3> QED
      BY <1>1, <3>1 DEF FileEntry, Shape
  <2> HIDE DEF new
  <2> QED
    BY <2>1, AppendOp
<1>7. /\ dir \in DirEntry /\ dir.meta = dirs[f.entry].meta /\ dir.parent = dirs[f.entry].parent
      /\ dir.children = dirs[f.entry].children
  <2>1. dirs[f.entry] \in DirEntry
    BY <1>2
  <2> HIDE DEF fs
  <2> QED
    BY <1>5, <2>1 DEF DirEntry
<1>8. /\ dirs' \in Seq(DirEntry) /\ DOMAIN dirs' = DOMAIN dirs /\ Len(dirs') = Len(dirs)
      /\ \A e \in DOMAIN dirs : dirs'[e] = IF e = f.entry THEN dir ELSE dirs[e]
  <2> HIDE DEF dir, f
  <2> QED
    BY <1>1, <1>2, <1>7, ReplaceOp
<1>9. \A e \in DOMAIN dirs :
        /\ dirs'[e].meta = dirs[e].meta /\ dirs'[e].parent = dirs[e].parent
        /\ dirs'[e].children = dirs[e].children
  <2> HIDE DEF dir, f
  <2> QED
    BY <1>7, <1>8
<1>10. /\ stack'[t] \in Seq(FrameType) /\ Len(stack'[t]) = Len(stack[t]) /\ stack'[t][Len(stack[t])] = next
       /\ \A i \in DOMAIN stack'[t] : stack'[t][i].entry \in DOMAIN dirs
       /\ \A u \in Threads \ {t} : stack'[u] = stack[u]
  <2> DEFINE F == Front(stack[t])
  <2>1. stack'[t] = Append(F, next) /\ \A u \in Threads \ {t} : stack'[u] = stack[u]
    BY <1>1 DEF Shape
  <2>2. F \in Seq(FrameType) /\ Len(F) = Len(stack[t]) - 1 /\ \A i \in 1 .. Len(F) : F[i].entry \in DOMAIN dirs
    BY <1>2
  <2>3. next.entry \in DOMAIN dirs
    BY <1>2, <1>4
  <2> HIDE DEF F, next
  <2>4. /\ stack'[t] \in Seq(FrameType) /\ Len(F) \in Nat /\ Len(stack'[t]) = Len(F) + 1
        /\ DOMAIN stack'[t] = 1 .. Len(F) + 1
        /\ \A i \in 1 .. Len(F) : stack'[t][i] = F[i]
        /\ stack'[t][Len(F) + 1] = next
    BY <1>4, <2>1, <2>2, AppendOp
  <2>5. \A i \in DOMAIN stack'[t] : i \in 1 .. Len(F) \/ i = Len(F) + 1
    BY <2>4
  <2>6. Len(stack[t]) = Len(F) + 1
    BY <1>2, <2>2
  <2> QED
    BY <2>1, <2>2, <2>3, <2>4, <2>5, <2>6
<1>11. stack' \in [Threads -> Seq(FrameType)] /\ stack'[t] # <<>>
  <2>1. stack \in [Threads -> Seq(FrameType)]
    BY DEF Shape
  <2> HIDE DEF next
  <2> QED
    BY <1>1, <1>2, <1>10, <2>1
<1>12. Shape'
  <2>1. \A e \in DOMAIN dirs' : dirs'[e].meta \in Places
    BY <1>8, <1>9 DEF Shape
  <2>2. \A u \in Threads : pc'[u] = "parse" =>
          stack'[u] # <<>> /\ \A i \in DOMAIN stack'[u] : stack'[u][i].entry \in DOMAIN dirs'
    BY <1>1, <1>8, <1>10, <1>11 DEF Shape
  <2>3. dirs # <<>> /\ dirs' # <<>>
    BY <1>2, <1>8
  <2> QED
    BY <1>1, <1>6, <1>8, <1>11, <2>1, <2>2, <2>3 DEF Shape, HandlerTypes, FrameType, Places
<1>13. Len(stack[t]) = 1 => stack'[t][1].entry = stack[t][1].entry /\ stack'[t][1].dir = stack[t][1].dir
  BY <1>2, <1>4, <1>10
<1> QED
  BY <1>8, <1>9, <1>10, <1>12, <1>13

LEMMA ParseReturnsShape ==
  ASSUME Shape, NEW t \in Threads, ParseReturns(t)
  PROVE  /\ Shape'
         /\ UNCHANGED <<image, full, dirs, mtx, ask, at, cur, meta, out, lists>>
         /\ \A u \in Threads \ {t} : pc'[u] = pc[u] /\ stack'[u] = stack[u]
         /\ pc'[t] \in {"parse", "entries", "unlock", "idle"}
         /\ Len(stack[t]) = 1 =>
              /\ pc'[t] = IF full THEN "entries" ELSE IF mtx = t THEN "unlock" ELSE "idle"
              /\ parsed' = parsed \cup {ask[t]}
         /\ full => pc'[t] \in {"parse", "entries"}
<1>1. /\ pc[t] = "parse"
      /\ stack' = [stack EXCEPT ![t] = Front(@)]
      /\ IF Len(stack[t]) > 1 THEN pc' = pc /\ parsed' = parsed
         ELSE /\ pc' = [pc EXCEPT ![t] = IF full THEN "entries" ELSE IF mtx = t THEN "unlock" ELSE "idle"]
              /\ parsed' = parsed \cup {ask[t]}
      /\ UNCHANGED <<image, full, lists, dirs, files, mtx, at, cur, meta, ask, turn, out>>
  BY DEF ParseReturns, tree, search, handler
<1>2. /\ Len(stack[t]) \in Nat \ {0}
      /\ Front(stack[t]) \in Seq(FrameType) /\ Len(Front(stack[t])) = Len(stack[t]) - 1
      /\ \A i \in 1 .. Len(stack[t]) - 1 : Front(stack[t])[i].entry \in DOMAIN dirs
  BY <1>1, TopOp
<1>3. /\ stack' \in [Threads -> Seq(FrameType)] /\ stack'[t] = Front(stack[t])
      /\ \A u \in Threads \ {t} : stack'[u] = stack[u]
  BY <1>1, <1>2 DEF Shape
<1>4. /\ pc' \in [Threads -> PCs] /\ \A u \in Threads \ {t} : pc'[u] = pc[u]
      /\ pc'[t] \in {"parse", "entries", "unlock", "idle"}
      /\ full => pc'[t] \in {"parse", "entries"}
      /\ Len(stack[t]) = 1 =>
           /\ pc'[t] = IF full THEN "entries" ELSE IF mtx = t THEN "unlock" ELSE "idle"
           /\ parsed' = parsed \cup {ask[t]}
      /\ pc'[t] = "parse" => Len(stack[t]) > 1
  <2>1. pc \in [Threads -> PCs]
    BY DEF Shape
  <2>2. CASE Len(stack[t]) > 1
    <3>1. pc' = pc /\ pc[t] = "parse"
      BY <1>1, <2>2
    <3>2. Len(stack[t]) # 1
      <4>1. Len(stack[t]) \in Nat
        BY <1>2
      <4>2. \A n \in Nat : n > 1 => n # 1
        OBVIOUS
      <4> QED
        BY <2>2, <4>1, <4>2
    <3> QED
      BY <2>1, <2>2, <3>1, <3>2
  <2>3. CASE ~(Len(stack[t]) > 1)
    <3> DEFINE place == IF full THEN "entries" ELSE IF mtx = t THEN "unlock" ELSE "idle"
    <3>1. pc' = [pc EXCEPT ![t] = place] /\ parsed' = parsed \cup {ask[t]}
      BY <1>1, <2>3
    <3>2. place \in PCs /\ place \in {"entries", "unlock", "idle"} /\ (full => place = "entries")
      BY DEF PCs
    <3> HIDE DEF place
    <3>3. /\ pc' \in [Threads -> PCs] /\ pc'[t] = place
          /\ \A u \in Threads \ {t} : pc'[u] = pc[u]
      BY <2>1, <3>1, <3>2
    <3> QED
      BY <3>1, <3>2, <3>3 DEF place
  <2> QED
    BY <2>2, <2>3
<1>5. \A u \in Threads : pc'[u] = "parse" =>
        stack'[u] # <<>> /\ \A i \in DOMAIN stack'[u] : stack'[u][i].entry \in DOMAIN dirs'
  <2>1. ASSUME NEW u \in Threads \ {t}, pc'[u] = "parse"
        PROVE  stack'[u] # <<>> /\ \A i \in DOMAIN stack'[u] : stack'[u][i].entry \in DOMAIN dirs'
    BY <1>1, <1>3, <1>4, <2>1 DEF Shape
  <2>2. ASSUME pc'[t] = "parse"
        PROVE  stack'[t] # <<>> /\ \A i \in DOMAIN stack'[t] : stack'[t][i].entry \in DOMAIN dirs'
    <3> DEFINE F == Front(stack[t])
    <3>1. Len(stack[t]) > 1
      BY <1>4, <2>2
    <3>2. F \in Seq(FrameType) /\ Len(F) = Len(stack[t]) - 1
      BY <1>2
    <3>3. F # <<>> /\ DOMAIN F = 1 .. Len(stack[t]) - 1
      <4> HIDE DEF F
      <4> QED
        BY <1>2, <3>1, <3>2
    <3> QED
      BY <1>1, <1>2, <1>3, <3>3
  <2> QED
    BY <2>1, <2>2
<1>6. dirs # <<>>
  BY <1>1 DEF Shape
<1>7. Shape'
  BY <1>1, <1>3, <1>4, <1>5, <1>6 DEF Shape, HandlerTypes, FrameType, Places
<1> QED
  BY <1>1, <1>3, <1>4, <1>7

LEMMA OpenShape ==
  ASSUME Shape, NEW t \in Threads, Open(t)
  PROVE  /\ Shape'
         /\ UNCHANGED <<image, full, parsed, lists, mtx, ask, at, cur, meta, out>>
         /\ pc[t] = "idle" /\ pc'[t] = "parse"
         /\ \A u \in Threads \ {t} : pc'[u] = pc[u] /\ stack'[u] = stack[u]
         /\ stack'[t] = <<Frame(Len(dirs) + 1, 1)>>
         /\ dirs' = Append(dirs, [meta |-> 1, parent |-> None, children |-> <<>>, files |-> <<>>])
<1> DEFINE fresh == [meta |-> 1, parent |-> None, children |-> <<>>, files |-> <<>>]
           frame == Frame(Len(dirs) + 1, 1)
<1>1. /\ pc[t] = "idle" /\ pc' = [pc EXCEPT ![t] = "parse"]
      /\ dirs' = Append(dirs, fresh)
      /\ stack' = [stack EXCEPT ![t] = <<frame>>]
      /\ UNCHANGED <<image, full, parsed, lists, files, mtx, at, cur, meta, ask, turn, out>>
  BY DEF Open, Goto, shared, search, handler
<1>2. dirs \in Seq(DirEntry) /\ Len(dirs) \in Nat /\ image \in Images
  BY DEF Shape
<1>3. fresh \in DirEntry
  BY DEF DirEntry, None
<1>4. frame \in FrameType /\ frame.entry = Len(dirs) + 1
  BY <1>2, ImageOp DEF Frame, FrameType
<1>5. /\ dirs' \in Seq(DirEntry) /\ DOMAIN dirs = 1 .. Len(dirs) /\ DOMAIN dirs' = 1 .. Len(dirs) + 1
      /\ \A e \in DOMAIN dirs : dirs'[e] = dirs[e]
      /\ dirs'[Len(dirs) + 1] = fresh
  <2> HIDE DEF fresh
  <2> QED
    BY <1>1, <1>2, <1>3, AppendOp
<1>6. \A e \in DOMAIN dirs' : dirs'[e].meta \in Places
  <2>1. \A e \in DOMAIN dirs' : e \in DOMAIN dirs \/ e = Len(dirs) + 1
    BY <1>2, <1>5
  <2>2. fresh.meta \in Places
    BY <1>2, ImageOp
  <2> HIDE DEF fresh
  <2> QED
    BY <1>5, <2>1, <2>2 DEF Shape
<1>7. /\ pc' \in [Threads -> PCs] /\ pc'[t] = "parse"
      /\ \A u \in Threads \ {t} : pc'[u] = pc[u] /\ stack'[u] = stack[u]
      /\ stack' \in [Threads -> Seq(FrameType)] /\ stack'[t] = <<frame>>
  <2>1. <<frame>> \in Seq(FrameType)
    BY <1>4
  <2> HIDE DEF frame
  <2> QED
    BY <1>1, <2>1 DEF Shape, PCs
<1>8. \A u \in Threads : pc'[u] = "parse" =>
        stack'[u] # <<>> /\ \A i \in DOMAIN stack'[u] : stack'[u][i].entry \in DOMAIN dirs'
  <2> HIDE DEF frame
  <2>1. DOMAIN dirs \subseteq DOMAIN dirs' /\ Len(dirs) + 1 \in DOMAIN dirs'
    BY <1>2, <1>5
  <2>2. stack'[t] # <<>> /\ \A i \in DOMAIN stack'[t] : stack'[t][i].entry \in DOMAIN dirs'
    BY <1>4, <1>7, <2>1
  <2> QED
    BY <1>7, <2>1, <2>2 DEF Shape
<1>9. dirs' # <<>>
  BY <1>2, <1>5
<1>10. Shape'
  BY <1>1, <1>5, <1>6, <1>7, <1>8, <1>9 DEF Shape, HandlerTypes, FrameType, Places
<1> QED
  BY <1>1, <1>7, <1>10

-----------------------------------------------------------------------------
(* A Python program.                                                       *)

LEMMA PythonStep ==
  ASSUME Shape, full, OneParse, [Next]_vars
  PROVE  Shape' /\ full' /\ OneParse'
<1>1. ASSUME NEW t \in Threads, Open(t)
      PROVE  Shape' /\ full' /\ OneParse'
  <2>1. /\ Shape' /\ full' = full /\ pc[t] = "idle" /\ pc'[t] = "parse"
        /\ \A u \in Threads \ {t} : pc'[u] = pc[u]
    BY <1>1, OpenShape
  <2>2. Calm
    BY <1>1 DEF Open, Shape, Calm
  <2> QED
    BY <2>1, <2>2 DEF OneParse, Calm
<1>2. ASSUME NEW t \in Threads, ParseChild(t) \/ ParseFile(t)
      PROVE  Shape' /\ full' /\ OneParse'
  <2>1. Shape'
    BY <1>2, ParseChildShape, ParseFileShape
  <2>2. UNCHANGED <<full, pc>>
    BY <1>2 DEF ParseChild, ParseFile, shared
  <2> QED
    BY <2>1, <2>2 DEF OneParse
<1>3. ASSUME NEW t \in Threads, ParseReturns(t)
      PROVE  Shape' /\ full' /\ OneParse'
  <2>1. /\ Shape' /\ full' = full /\ pc'[t] \in {"parse", "entries"}
        /\ \A u \in Threads \ {t} : pc'[u] = pc[u]
    BY <1>3, ParseReturnsShape
  <2>2. pc[t] = "parse"
    BY <1>3 DEF ParseReturns
  <2>3. \A u \in Threads \ {t} : pc'[u] # "parse"
    BY <2>1, <2>2 DEF OneParse
  <2> QED
    BY <2>1, <2>3 DEF OneParse
<1>4. ASSUME NEW t \in Threads, GetEntries(t)
      PROVE  Shape' /\ full' /\ OneParse'
  <2>1. /\ pc[t] = "entries" /\ pc' = [pc EXCEPT ![t] = "idle"]
        /\ UNCHANGED <<image, full, dirs, files, mtx, at, cur, meta, stack, ask, turn, out>>
    BY <1>4 DEF GetEntries, Goto, tree, search, handler
  <2>2. /\ pc' \in [Threads -> PCs] /\ pc'[t] = "idle" /\ \A u \in Threads \ {t} : pc'[u] = pc[u]
    BY <2>1 DEF Shape, PCs
  <2>3. dirs # <<>>
    BY <2>1 DEF Shape
  <2>4. Shape'
    BY <2>1, <2>2, <2>3 DEF Shape, HandlerTypes, FrameType, Places
  <2> QED
    BY <2>1, <2>2, <2>4 DEF OneParse
<1>5. CASE UNCHANGED vars
  BY <1>5 DEF vars, Shape, OneParse, HandlerTypes, FrameType, Places
<1>6. ASSUME NEW t \in Threads,
             \/ \E path \in Known : Begin(t, path)
             \/ LockFolder(t) \/ Find(t) \/ LockParse(t) \/ Unlock(t) \/ Collect(t)
      PROVE  FALSE
  BY <1>6 DEF OneParse, Begin, LockFolder, Find, FindBegins, FindHash, FindChain, FindChild, Found,
              LockParse, Unlock, Collect, Goto
<1> QED
  BY <1>1, <1>2, <1>3, <1>4, <1>5, <1>6 DEF Next, Handle, Parse

-----------------------------------------------------------------------------
(* The steps of a handler that parse, or hold the mutex.                   *)

LEMMA UnlockStep ==
  ASSUME Shape, ~full, NEW P, HandlerInv(P), NEW t \in Threads, Unlock(t)
  PROVE  Shape' /\ ~full' /\ HandlerInv(P)'
<1>1. /\ pc[t] = "unlock" /\ pc' = [pc EXCEPT ![t] = "collect"] /\ mtx' = Nobody
      /\ UNCHANGED <<image, full, parsed, lists, dirs, files, at, cur, meta, stack, ask, turn, out>>
  BY DEF Unlock, Goto, shared, tree, search, handler
<1>2. /\ pc' \in [Threads -> PCs] /\ pc'[t] = "collect" /\ \A u \in Threads \ {t} : pc'[u] = pc[u]
  BY <1>1 DEF Shape, PCs
<1>3. Root \in parsed /\ mtx = t /\ \A u \in Threads \ {t} : pc[u] \notin {"parse", "unlock"}
  BY <1>1 DEF HandlerInv, Opened
<1>4. dirs # <<>>
  BY <1>3 DEF HandlerInv, Opened
<1>5. Shape'
  BY <1>1, <1>2, <1>4 DEF Shape, HandlerTypes, FrameType, Places
<1>6. Opened'
  BY <1>1, <1>2, <1>3, <1>4 DEF HandlerInv, Opened
<1>7. Labelled(P)'
  BY <1>1 DEF HandlerInv, Labelled, DirName
<1>8. \A u \in Threads : pc[u] # "parse" /\ pc'[u] # "parse"
  BY <1>1, <1>2, <1>3
<1>9. Parsing(P)'
  BY <1>1, <1>8 DEF HandlerInv, Parsing
<1>10. AllReady(P)'
  BY <1>1 DEF HandlerInv, AllReady, ListsReady, HandlerReady
<1>11. Searching(P)'
  <2>1. ASSUME NEW u \in Threads PROVE Search(P, u)'
    <3>1. Search(P, u)
      BY DEF HandlerInv, Searching
    <3>2. (Ahead(u)' <=> Ahead(u)) /\ (IsWanted(u, meta[u])' <=> IsWanted(u, meta[u]))
      BY <1>1 DEF Ahead, IsWanted, Wanted, DirName, Places
    <3>3. pc'[u] = pc[u] \/ (pc[u] = "unlock" /\ pc'[u] = "collect")
      BY <1>1, <1>2
    <3> QED
      BY <1>1, <1>8, <3>1, <3>2, <3>3 DEF Search
  <2> QED
    BY <2>1 DEF Searching
<1> QED
  BY <1>1, <1>5, <1>6, <1>7, <1>9, <1>10, <1>11 DEF HandlerInv

LEMMA LockParseStep ==
  ASSUME Shape, ~full, NEW P, HandlerInv(P), NEW t \in Threads, LockParse(t)
  PROVE  Shape' /\ ~full' /\ HandlerInv(P)'
<1> DEFINE frame == Frame(cur[t], dirs[cur[t]].meta)
<1>1. /\ mtx = Nobody /\ mtx' = t /\ pc[t] = "lock"
      /\ \/ ask[t] \in parsed /\ pc' = [pc EXCEPT ![t] = "unlock"] /\ stack' = stack
         \/ ask[t] \notin parsed /\ pc' = [pc EXCEPT ![t] = "parse"] /\ stack' = [stack EXCEPT ![t] = <<frame>>]
      /\ UNCHANGED <<image, full, parsed, lists, dirs, files, at, cur, meta, ask, turn, out>>
  BY DEF LockParse, Goto, shared, tree, search, handler
<1>2. cur[t] \in DOMAIN dirs /\ P[cur[t]] = ask[t] /\ Search(P, t)
  BY <1>1 DEF HandlerInv, Searching, Search
<1>3. Root \in parsed /\ \A u \in Threads : pc[u] \notin {"parse", "unlock"}
  BY <1>1, RomFsAssumption DEF HandlerInv, Opened
<1>4. dirs # <<>>
  BY <1>3 DEF HandlerInv, Opened
<1>5. frame \in FrameType /\ frame.entry = cur[t] /\ frame.dir = image.dirs[dirs[cur[t]].meta].child
  <2>1. image \in Images /\ dirs[cur[t]].meta \in Places /\ cur[t] \in Nat
    BY <1>2 DEF Shape, HandlerTypes
  <2> QED
    BY <2>1, ImageOp DEF Frame, FrameType
<1>6. /\ pc' \in [Threads -> PCs] /\ \A u \in Threads \ {t} : pc'[u] = pc[u] /\ stack'[u] = stack[u]
      /\ stack' \in [Threads -> Seq(FrameType)]
      /\ \/ ask[t] \in parsed /\ pc'[t] = "unlock"
         \/ ask[t] \notin parsed /\ pc'[t] = "parse" /\ stack'[t] = <<frame>>
  <2>1. <<frame>> \in Seq(FrameType)
    BY <1>5
  <2> HIDE DEF frame
  <2> QED
    BY <1>1, <2>1 DEF Shape, PCs
<1>7. Shape'
  <2>1. \A u \in Threads : pc'[u] = "parse" =>
          stack'[u] # <<>> /\ \A i \in DOMAIN stack'[u] : stack'[u][i].entry \in DOMAIN dirs
    <3> HIDE DEF frame
    <3>1. \A u \in Threads \ {t} : pc'[u] # "parse"
      BY <1>3, <1>6
    <3>2. pc'[t] = "parse" => stack'[t] = <<frame>>
      BY <1>6
    <3>3. <<frame>> # <<>> /\ \A i \in DOMAIN <<frame>> : <<frame>>[i].entry \in DOMAIN dirs
      BY <1>2, <1>5
    <3> QED
      BY <3>1, <3>2, <3>3
  <2> HIDE DEF frame
  <2> QED
    BY <1>1, <1>4, <1>6, <2>1 DEF Shape, HandlerTypes, FrameType, Places
<1>8. Opened'
  BY <1>1, <1>3, <1>4, <1>6 DEF HandlerInv, Opened
<1>9. Labelled(P)'
  BY <1>1 DEF HandlerInv, Labelled, DirName
<1>10. Parsing(P)'
  <2>1. \A e \in DOMAIN dirs : P[e] \in parsed \/ dirs[e].children = <<>>
    BY <1>3 DEF HandlerInv, Parsing
  <2>2. ASSUME pc'[t] = "parse"
        PROVE  /\ Len(stack'[t]) = 1 /\ P[stack'[t][1].entry] = ask'[t] /\ ask'[t] \notin parsed'
               /\ Along(stack[t][1])' /\ stack'[t][1].entry = cur'[t]
    <3>1. ask[t] \notin parsed /\ stack'[t] = <<frame>> /\ dirs[cur[t]].children = <<>>
      BY <1>2, <1>6, <2>1, <2>2
    <3>2. Len(stack'[t]) = 1 /\ stack'[t][1] = frame
      BY <3>1
    <3> DEFINE S == SubDirs(image, dirs[cur[t]].meta)
    <3>3. frame.dir = (IF Len(S) = 0 THEN None ELSE S[1]) /\ Len(S) \in Nat
      <4>1. image \in Images /\ dirs[cur[t]].meta \in Places
        BY <1>2 DEF Shape
      <4> QED
        BY <1>5, <4>1, SubDirsOp
    <3> HIDE DEF frame
    <3>4. Along(stack[t][1])'
      BY <1>1, <1>5, <3>1, <3>2, <3>3 DEF Along
    <3> QED
      BY <1>1, <1>2, <1>5, <3>1, <3>2, <3>4
  <2>3. \A u \in Threads \ {t} : pc'[u] # "parse"
    BY <1>3, <1>6
  <2> HIDE DEF frame
  <2> QED
    BY <1>1, <2>1, <2>2, <2>3 DEF Parsing
<1>11. AllReady(P)'
  BY <1>1 DEF HandlerInv, AllReady, ListsReady, HandlerReady
<1>12. Searching(P)'
  <2>1. Search(P, t)'
    BY <1>1, <1>2, <1>6 DEF Search
  <2>2. ASSUME NEW u \in Threads \ {t} PROVE Search(P, u)'
    <3>1. Search(P, u)
      BY DEF HandlerInv, Searching
    <3>2. (Ahead(u)' <=> Ahead(u)) /\ (IsWanted(u, meta[u])' <=> IsWanted(u, meta[u]))
      BY <1>1 DEF Ahead, IsWanted, Wanted, DirName, Places
    <3> QED
      BY <1>1, <1>3, <1>6, <3>1, <3>2 DEF Search
  <2> QED
    BY <2>1, <2>2 DEF Searching
<1> QED
  BY <1>1, <1>7, <1>8, <1>9, <1>10, <1>11, <1>12 DEF HandlerInv

\* A search is not disturbed by what others add.
LEMMA SearchGrows ==
  ASSUME NEW P, NEW P2, NEW u, Search(P, u),
         image' = image, mtx' = mtx, parsed \subseteq parsed',
         DOMAIN dirs \subseteq DOMAIN dirs',
         \A e \in DOMAIN dirs : dirs'[e].meta = dirs[e].meta /\ P2[e] = P[e],
         pc'[u] = pc[u], ask'[u] = ask[u], at'[u] = at[u], cur'[u] = cur[u], meta'[u] = meta[u]
  PROVE  Search(P2, u)'
<1>1. cur[u] \in DOMAIN dirs => (Ahead(u)' <=> Ahead(u)) /\ (IsWanted(u, meta[u])' <=> IsWanted(u, meta[u]))
  <2> SUFFICES ASSUME cur[u] \in DOMAIN dirs
               PROVE  (Ahead(u)' <=> Ahead(u)) /\ (IsWanted(u, meta[u])' <=> IsWanted(u, meta[u]))
    OBVIOUS
  <2>1. dirs'[cur'[u]].meta = dirs[cur[u]].meta
    OBVIOUS
  <2> QED
    BY <2>1 DEF Ahead, IsWanted, Wanted, DirName, Places
<1> QED
  BY <1>1 DEF Search

LEMMA AllReadyGrows ==
  ASSUME NEW P, NEW P2, AllReady(P),
         parsed \subseteq parsed', DOMAIN P \subseteq DOMAIN P2, \A e \in DOMAIN P : P2[e] = P[e],
         UNCHANGED <<lists, ask, out>>
  PROVE  AllReady(P2)'
<1>1. \A t \in Threads : Ready(P2, parsed', ask[t]) /\ ReadyBelow(P2, parsed', ask[t], out[t].children)
  BY ReadyGrows, BelowGrows DEF AllReady, HandlerReady
<1>2. \A path \in DOMAIN lists : ReadyBelow(P2, parsed', path, lists[path].children)
  BY BelowGrows DEF AllReady, ListsReady
<1> QED
  BY <1>1, <1>2 DEF AllReady, HandlerReady, ListsReady

LEMMA ParseFileStep ==
  ASSUME Shape, ~full, NEW P, HandlerInv(P), NEW t \in Threads, ParseFile(t)
  PROVE  Shape' /\ ~full' /\ HandlerInv(P)'
<1>1. /\ pc[t] = "parse"
      /\ UNCHANGED <<image, full, parsed, lists, mtx, pc, ask, at, cur, meta, turn, out>>
  BY DEF ParseFile, shared, search, handler
<1>2. /\ Shape' /\ DOMAIN dirs' = DOMAIN dirs
      /\ \A e \in DOMAIN dirs :
           /\ dirs'[e].meta = dirs[e].meta /\ dirs'[e].parent = dirs[e].parent
           /\ dirs'[e].children = dirs[e].children
      /\ Len(stack'[t]) = Len(stack[t])
      /\ Len(stack[t]) = 1 => stack'[t][1].entry = stack[t][1].entry /\ stack'[t][1].dir = stack[t][1].dir
      /\ \A u \in Threads \ {t} : stack'[u] = stack[u]
  BY ParseFileShape
<1>3. dirs # <<>> /\ dirs' # <<>>
  BY <1>1, <1>2 DEF Shape
<1>4. Opened'
  BY <1>1, <1>3 DEF HandlerInv, Opened
<1>5. Labelled(P)'
  <2>1. 1 \in DOMAIN dirs /\ Labelled(P)
    BY <1>3 DEF Shape, HandlerInv
  <2>2. \A e \in DOMAIN dirs : e # 1 =>
          /\ dirs'[e].parent \in DOMAIN dirs
          /\ dirs'[e].meta # 1
          /\ image.dirs[dirs'[e].meta].parent = dirs'[dirs'[e].parent].meta
          /\ P[e] = Append(P[dirs'[e].parent], image.dirs[dirs'[e].meta].name)
          /\ \E i \in DOMAIN dirs'[dirs'[e].parent].children : dirs'[dirs'[e].parent].children[i] = e
    <3> TAKE e \in DOMAIN dirs
    <3> HAVE e # 1
    <3>1. /\ dirs[e].parent \in DOMAIN dirs
          /\ dirs[e].meta # 1
          /\ image.dirs[dirs[e].meta].parent = dirs[dirs[e].parent].meta
          /\ P[e] = Append(P[dirs[e].parent], image.dirs[dirs[e].meta].name)
          /\ \E i \in DOMAIN dirs[dirs[e].parent].children : dirs[dirs[e].parent].children[i] = e
      BY <2>1 DEF Labelled, DirName
    <3> DEFINE p == dirs[e].parent
    <3>2. dirs'[e].parent = p /\ dirs'[e].meta = dirs[e].meta /\ dirs'[p].meta = dirs[p].meta
          /\ dirs'[p].children = dirs[p].children
      BY <1>2, <3>1
    <3> QED
      BY <3>1, <3>2
  <2>3. \A e \in DOMAIN dirs : \A i \in DOMAIN dirs'[e].children :
          LET c == dirs'[e].children[i]
          IN  c \in DOMAIN dirs /\ c # 1 /\ dirs'[c].parent = e
    <3> TAKE e \in DOMAIN dirs
    <3>1. dirs'[e].children = dirs[e].children
      BY <1>2
    <3>2. \A i \in DOMAIN dirs[e].children :
            LET c == dirs[e].children[i] IN c \in DOMAIN dirs /\ c # 1 /\ dirs[c].parent = e
      BY <2>1 DEF Labelled
    <3> QED
      BY <1>2, <3>1, <3>2
  <2>4. \A e1, e2 \in DOMAIN dirs : (dirs'[e1].meta = dirs'[e2].meta => e1 = e2) /\ (P[e1] = P[e2] => e1 = e2)
    BY <1>2, <2>1 DEF Labelled
  <2>5. P \in [DOMAIN dirs -> Seq(Components)] /\ P[1] = Root /\ dirs'[1].meta = 1
    BY <1>2, <1>3, <2>1 DEF Labelled
  <2> QED
    BY <1>1, <1>2, <2>2, <2>3, <2>4, <2>5 DEF Labelled, DirName
<1>6. Parsing(P)'
  <2>1. \A u \in Threads : pc[u] = "parse" =>
          /\ Len(stack[u]) = 1 /\ stack[u][1].entry \in DOMAIN dirs
          /\ Len(stack'[u]) = 1 /\ stack'[u][1].entry = stack[u][1].entry /\ stack'[u][1].dir = stack[u][1].dir
    <3> SUFFICES ASSUME NEW u \in Threads, pc[u] = "parse"
                 PROVE  /\ Len(stack[u]) = 1 /\ stack[u][1].entry \in DOMAIN dirs
                        /\ Len(stack'[u]) = 1 /\ stack'[u][1].entry = stack[u][1].entry
                        /\ stack'[u][1].dir = stack[u][1].dir
      OBVIOUS
    <3>1. Len(stack[u]) = 1
      BY DEF HandlerInv, Parsing
    <3>2. stack[u][1].entry \in DOMAIN dirs
      BY <3>1, TopOp
    <3> QED
      BY <1>2, <3>1, <3>2
  <2>2. ASSUME NEW u \in Threads, pc[u] = "parse" PROVE Along(stack[u][1])'
    <3> DEFINE e == stack[u][1].entry
    <3>1. Along(stack[u][1]) /\ e \in DOMAIN dirs
      BY <2>1, <2>2 DEF HandlerInv, Parsing
    <3>2. dirs'[e].children = dirs[e].children /\ dirs'[e].meta = dirs[e].meta
      BY <1>2, <3>1
    <3>3. \A i \in DOMAIN dirs[e].children : dirs[e].children[i] \in DOMAIN dirs
      BY <3>1 DEF HandlerInv, Labelled
    <3>4. stack'[u][1].entry = e /\ stack'[u][1].dir = stack[u][1].dir
      BY <2>1, <2>2
    <3>5. \A i \in DOMAIN dirs[e].children : dirs'[dirs[e].children[i]].meta = dirs[dirs[e].children[i]].meta
      BY <1>2, <3>3
    <3> DEFINE made == dirs[e].children
               all == SubDirs(image, dirs[e].meta)
    <3>6. /\ Len(made) <= Len(all) /\ \A i \in DOMAIN made : dirs'[made[i]].meta = all[i]
          /\ stack'[u][1].dir = IF Len(made) = Len(all) THEN None ELSE all[Len(made) + 1]
      BY <3>1, <3>4, <3>5 DEF Along
    <3>7. dirs'[stack'[u][1].entry].children = made
          /\ SubDirs(image', dirs'[stack'[u][1].entry].meta) = all
      BY <1>1, <3>2, <3>4
    <3> HIDE DEF made, all
    <3> QED
      BY <3>6, <3>7 DEF Along
  <2> QED
    BY <1>1, <1>2, <2>1, <2>2 DEF HandlerInv, Parsing
<1>7. AllReady(P)'
  BY <1>1 DEF HandlerInv, AllReady, ListsReady, HandlerReady
<1>8. Searching(P)'
  BY <1>1, <1>2, SearchGrows DEF HandlerInv, Searching
<1> QED
  BY <1>1, <1>2, <1>4, <1>5, <1>6, <1>7, <1>8 DEF HandlerInv

LEMMA ParseReturnsStep ==
  ASSUME Shape, ~full, NEW P, HandlerInv(P), NEW t \in Threads, ParseReturns(t)
  PROVE  Shape' /\ ~full' /\ HandlerInv(P)'
<1>1. /\ Shape' /\ UNCHANGED <<image, full, dirs, mtx, ask, at, cur, meta, out, lists>>
      /\ \A u \in Threads \ {t} : pc'[u] = pc[u] /\ stack'[u] = stack[u]
      /\ Len(stack[t]) = 1 =>
           /\ pc'[t] = IF full THEN "entries" ELSE IF mtx = t THEN "unlock" ELSE "idle"
           /\ parsed' = parsed \cup {ask[t]}
  BY ParseReturnsShape
<1>2. pc[t] = "parse"
  BY DEF ParseReturns
<1>3. /\ Len(stack[t]) = 1 /\ P[stack[t][1].entry] = ask[t] /\ (mtx = t => stack[t][1].entry = cur[t])
  BY <1>2 DEF HandlerInv, Parsing
<1>4. pc'[t] = (IF mtx = t THEN "unlock" ELSE "idle") /\ parsed' = parsed \cup {ask[t]}
  BY <1>1, <1>3
<1>5. \A u \in Threads \ {t} : pc[u] # "parse" /\ (Root \in parsed => pc[u] # "unlock")
  BY <1>2 DEF HandlerInv, Opened
<1>6. Root \in parsed'
  BY <1>4 DEF HandlerInv, Opened
<1>7. Opened'
  <2>1. dirs # <<>>
    BY <1>2 DEF Shape
  <2>2. \A u \in Threads : pc'[u] \in {"parse", "unlock"} => mtx = u
    BY <1>1, <1>4, <1>5 DEF HandlerInv, Opened
  <2> QED
    BY <1>1, <1>4, <1>6, <2>1, <2>2 DEF HandlerInv, Opened
<1>8. Labelled(P)'
  BY <1>1 DEF HandlerInv, Labelled, DirName
<1>9. Parsing(P)'
  <2>1. \A u \in Threads : pc'[u] # "parse"
    BY <1>1, <1>4, <1>5
  <2>2. ASSUME NEW e \in DOMAIN dirs PROVE P[e] \in parsed' \/ dirs[e].children = <<>>
    <3>1. \/ P[e] \in parsed \/ dirs[e].children = <<>>
          \/ stack[t][1].entry = e
      BY <1>5 DEF HandlerInv, Parsing
    <3> QED
      BY <1>3, <1>4, <3>1
  <2> QED
    BY <1>1, <2>1, <2>2 DEF Parsing
<1>10. AllReady(P)'
  BY <1>1, <1>4, AllReadyGrows DEF HandlerInv
<1>11. Searching(P)'
  <2>1. \A u \in Threads \ {t} : Search(P, u)'
    BY <1>1, <1>4, SearchGrows DEF HandlerInv, Searching
  <2>2. mtx = t => cur[t] \in DOMAIN dirs
    BY <1>2 DEF HandlerInv, Searching, Search
  <2>3. Search(P, t)'
    BY <1>1, <1>3, <1>4, <2>2 DEF Search
  <2> QED
    BY <2>1, <2>3 DEF Searching
<1> QED
  BY <1>1, <1>7, <1>8, <1>9, <1>10, <1>11 DEF HandlerInv

\* The labels when an entry of that path is made.
Relabelled(P, path) == [e \in 1 .. Len(dirs) + 1 |-> IF e = Len(dirs) + 1 THEN path ELSE P[e]]

LEMMA ParseChildStep ==
  ASSUME Shape, ~full, NEW P, HandlerInv(P), NEW t \in Threads, ParseChild(t)
  PROVE  /\ Shape' /\ ~full'
         /\ \E P2 \in [DOMAIN dirs' -> Seq(Components)] :
              HandlerInv(P2)' /\ \A e \in DOMAIN dirs : P2[e] = P[e]
<1>1. PICK e, d : e = Top(t).entry /\ d = Top(t).dir
  OBVIOUS
<1> DEFINE new == Len(dirs) + 1
           kids == dirs[e].children
           S == SubDirs(image, dirs[e].meta)
<1>2. /\ pc[t] = "parse" /\ d # None
      /\ UNCHANGED <<image, full, parsed, lists, mtx, pc, ask, at, cur, meta, turn, out>>
  BY <1>1 DEF ParseChild, shared, search, handler
<1>3. /\ Shape' /\ Len(dirs) \in Nat /\ DOMAIN dirs = 1 .. Len(dirs) /\ DOMAIN dirs' = 1 .. new
      /\ dirs'[new] = [meta |-> d, parent |-> e, children |-> <<>>, files |-> <<>>]
      /\ \A x \in DOMAIN dirs :
           /\ dirs'[x].meta = dirs[x].meta /\ dirs'[x].parent = dirs[x].parent
           /\ dirs[x].children \in Seq(Nat)
           /\ dirs'[x].children = IF x = e THEN Append(dirs[x].children, new) ELSE dirs[x].children
      /\ d \in Places
  BY <1>1, ParseChildShape
<1>4. Len(stack[t]) = 1 /\ stack[t][1] = Top(t) /\ e \in DOMAIN dirs
  <2>1. Len(stack[t]) = 1
    BY <1>2 DEF HandlerInv, Parsing
  <2> QED
    BY <1>1, <1>2, <2>1, TopOp
<1>5. P[e] = ask[t] /\ ask[t] \notin parsed /\ Along(Top(t)) /\ (mtx = t => e = cur[t])
  BY <1>1, <1>2, <1>4 DEF HandlerInv, Parsing
<1>6. /\ Len(S) \in Nat /\ DOMAIN S = 1 .. Len(S)
      /\ \A i \in 1 .. Len(S) :
           /\ S[i] \in Places \ {1} /\ image.dirs[S[i]].parent = dirs[e].meta
           /\ image.dirs[S[i]].sibling = IF i = Len(S) THEN None ELSE S[i + 1]
      /\ \A i, j \in 1 .. Len(S) : S[i] = S[j] => i = j
  <2>1. image \in Images /\ dirs[e].meta \in Places
    BY <1>4 DEF Shape
  <2> QED
    BY <2>1, SubDirsOp
<1>7. /\ Len(kids) \in Nat /\ DOMAIN kids = 1 .. Len(kids) /\ Len(kids) + 1 \in 1 .. Len(S)
      /\ \A i \in DOMAIN kids : dirs[kids[i]].meta = S[i]
      /\ d = S[Len(kids) + 1]
  <2>1. kids \in Seq(Nat)
    BY <1>3, <1>4
  <2>2. /\ Len(kids) <= Len(S)
        /\ \A i \in DOMAIN kids : dirs[kids[i]].meta = S[i]
        /\ d = IF Len(kids) = Len(S) THEN None ELSE S[Len(kids) + 1]
    BY <1>1, <1>5 DEF Along
  <2> HIDE DEF kids, S
  <2> QED
    BY <1>2, <1>6, <2>1, <2>2
<1>8. d # 1 /\ image.dirs[d].parent = dirs[e].meta /\ image.dirs[d].sibling = (IF Len(kids) + 1 = Len(S) THEN None ELSE S[Len(kids) + 2])
  <2> HIDE DEF kids, S
  <2>1. Len(kids) + 1 + 1 = Len(kids) + 2
    BY <1>7
  <2> QED
    BY <1>6, <1>7, <2>1
<1>9. \A i \in DOMAIN kids : dirs[kids[i]].meta # d
  <2> HIDE DEF kids, S
  <2>1. Len(kids) \in Nat /\ Len(S) \in Nat /\ Len(kids) + 1 \in 1 .. Len(S) /\ DOMAIN kids = 1 .. Len(kids)
    BY <1>6, <1>7
  <2>2. \A i \in DOMAIN kids : i \in 1 .. Len(S) /\ i # Len(kids) + 1
    BY <2>1
  <2>3. \A i \in DOMAIN kids : S[i] # S[Len(kids) + 1]
    BY <1>6, <2>1, <2>2
  <2> QED
    BY <1>7, <2>3
\* The place has no entry yet, nor its path.
<1>10. \A x \in DOMAIN dirs : dirs[x].meta # d
  <2> SUFFICES ASSUME NEW x \in DOMAIN dirs, dirs[x].meta = d PROVE FALSE
    OBVIOUS
  <2>1. x # 1
    BY <1>3, <1>8 DEF HandlerInv, Labelled
  <2>2. dirs[x].parent \in DOMAIN dirs /\ dirs[dirs[x].parent].meta = dirs[e].meta
        /\ \E i \in DOMAIN dirs[dirs[x].parent].children : dirs[dirs[x].parent].children[i] = x
    BY <1>8, <2>1 DEF HandlerInv, Labelled
  <2>3. dirs[x].parent = e
    BY <1>4, <2>2 DEF HandlerInv, Labelled
  <2> QED
    BY <1>9, <2>2, <2>3
<1>11. P[e] \in Seq(Components) /\ DirName(d) \in Components /\ P[1] = <<>> /\ 1 \in DOMAIN dirs /\ dirs # <<>>
  <2>1. dirs # <<>> /\ 1 \in DOMAIN dirs
    BY <1>3, <1>4
  <2>2. DirName(d) \in Components
    BY <1>3, ImageOp DEF Shape, DirName, Components
  <2> QED
    BY <1>4, <2>1, <2>2 DEF HandlerInv, Labelled, Root
<1>12. PICK path : path = Append(P[e], DirName(d))
  OBVIOUS
<1>13. path \in Seq(Components) /\ path # <<>>
  BY <1>11, <1>12
<1>14. \A x \in DOMAIN dirs : P[x] # path
  <2> SUFFICES ASSUME NEW x \in DOMAIN dirs, P[x] = path PROVE FALSE
    OBVIOUS
  <2>1. x # 1
    BY <1>11, <1>13
  <2> DEFINE p == dirs[x].parent
             m == dirs[x].meta
  <2>2. /\ p \in DOMAIN dirs /\ m # 1 /\ image.dirs[m].parent = dirs[p].meta
        /\ P[x] = Append(P[p], DirName(m)) /\ P[p] \in Seq(Components)
    BY <2>1 DEF HandlerInv, Labelled
  <2>3. m \in Places /\ DirName(m) \in Components
    <3>1. m \in Places /\ image \in Images
      BY DEF Shape
    <3> QED
      BY <3>1, ImageOp DEF DirName, Components
  <2> HIDE DEF p, m
  <2>4. Append(P[p], DirName(m)) = Append(P[e], DirName(d))
    BY <1>12, <2>2
  <2>5. P[p] = P[e] /\ DirName(m) = DirName(d)
    <3> DEFINE q == P[p]
               r == P[e]
               a == DirName(m)
               b == DirName(d)
    <3>1. q \in Seq(Components) /\ r \in Seq(Components) /\ a \in Components /\ b \in Components
      BY <1>11, <2>2, <2>3
    <3>2. Append(q, a) = Append(r, b)
      BY <2>4
    <3> HIDE DEF q, r, a, b
    <3>3. q = r /\ a = b
      BY <3>1, <3>2, LongerUnique
    <3> QED
      BY <3>3 DEF q, r, a, b
  <2>6. p = e
    BY <1>4, <2>2, <2>5 DEF HandlerInv, Labelled
  <2>7. m = d
    BY <1>3, <1>8, <2>2, <2>3, <2>5, <2>6, ChildOp DEF Shape, DirName
  <2> QED
    BY <1>10, <2>7 DEF m
<1>15. PICK P2 : P2 = Relabelled(P, path)
  OBVIOUS
<1>16. /\ P2 \in [1 .. new -> Seq(Components)] /\ P2[new] = path
       /\ DOMAIN P = DOMAIN dirs /\ DOMAIN P2 = 1 .. new
       /\ \A x \in DOMAIN dirs : P2[x] = P[x] /\ x # new
       /\ new \notin DOMAIN dirs /\ DOMAIN dirs \subseteq DOMAIN dirs'
       /\ \A x \in 1 .. new : x \in DOMAIN dirs \/ x = new
  <2>1. P \in [DOMAIN dirs -> Seq(Components)]
    BY DEF HandlerInv, Labelled
  <2> QED
    BY <1>3, <1>13, <1>15, <2>1 DEF Relabelled
<1>17. PICK grown : grown = Append(kids, new)
  OBVIOUS
<1>18. /\ DOMAIN grown = 1 .. Len(kids) + 1 /\ Len(grown) = Len(kids) + 1
       /\ \A i \in DOMAIN kids : i \in DOMAIN grown /\ grown[i] = kids[i]
       /\ grown[Len(kids) + 1] = new
       /\ \A i \in DOMAIN grown : i \in DOMAIN kids \/ i = Len(kids) + 1
  <2>1. kids \in Seq(Nat) /\ new \in Nat
    BY <1>3, <1>4
  <2> HIDE DEF kids, new
  <2>2. /\ Len(kids) \in Nat /\ DOMAIN kids = 1 .. Len(kids) /\ DOMAIN grown = 1 .. Len(kids) + 1
        /\ Len(grown) = Len(kids) + 1
        /\ \A i \in 1 .. Len(kids) : grown[i] = kids[i]
        /\ grown[Len(kids) + 1] = new
    BY <1>17, <2>1, AppendOp
  <2> QED
    BY <2>2
<1>19. /\ dirs'[new].meta = d /\ dirs'[new].parent = e /\ dirs'[new].children = <<>>
       /\ dirs'[e].children = grown
       /\ \A x \in DOMAIN dirs : x # e => dirs'[x].children = dirs[x].children
  <2>1. dirs'[new].meta = d /\ dirs'[new].parent = e /\ dirs'[new].children = <<>>
    <3> HIDE DEF new
    <3> QED
      BY <1>3
  <2>2. \A x \in DOMAIN dirs :
          dirs'[x].children = IF x = e THEN Append(dirs[x].children, new) ELSE dirs[x].children
    <3> HIDE DEF new
    <3> QED
      BY <1>3
  <2> HIDE DEF new
  <2> QED
    BY <1>4, <1>17, <2>1, <2>2
<1>20. \A i \in DOMAIN kids : kids[i] \in DOMAIN dirs /\ kids[i] # 1 /\ dirs[kids[i]].parent = e
  BY <1>4 DEF HandlerInv, Labelled
<1>21. new # 1 /\ new \in 1 .. new
  BY <1>3, <1>11
<1> HIDE DEF new, kids
<1>22. Labelled(P2)'
  <2>1. P2 \in [DOMAIN dirs' -> Seq(Components)] /\ P2[1] = Root /\ dirs'[1].meta = 1
    BY <1>3, <1>11, <1>16 DEF HandlerInv, Labelled
  <2>2. ASSUME NEW x \in DOMAIN dirs, x # 1
        PROVE  /\ dirs'[x].parent \in DOMAIN dirs'
               /\ dirs'[x].meta # 1
               /\ image.dirs[dirs'[x].meta].parent = dirs'[dirs'[x].parent].meta
               /\ P2[x] = Append(P2[dirs'[x].parent], image.dirs[dirs'[x].meta].name)
               /\ \E i \in DOMAIN dirs'[dirs'[x].parent].children : dirs'[dirs'[x].parent].children[i] = x
    <3> DEFINE p == dirs[x].parent
    <3>1. /\ p \in DOMAIN dirs /\ dirs[x].meta # 1
          /\ image.dirs[dirs[x].meta].parent = dirs[p].meta
          /\ P[x] = Append(P[p], image.dirs[dirs[x].meta].name)
      BY <2>2 DEF HandlerInv, Labelled, DirName
    <3>2. PICK i \in DOMAIN dirs[p].children : dirs[p].children[i] = x
      BY <2>2 DEF HandlerInv, Labelled
    <3>3. dirs'[x].parent = p /\ dirs'[x].meta = dirs[x].meta
      BY <1>3
    <3> HIDE DEF p
    <3>4. i \in DOMAIN dirs'[p].children /\ dirs'[p].children[i] = x
      <4>1. CASE p = e
        BY <1>18, <1>19, <3>2, <4>1 DEF kids
      <4>2. CASE p # e
        BY <1>19, <3>1, <3>2, <4>2
      <4> QED
        BY <4>1, <4>2
    <3>5. dirs'[p].meta = dirs[p].meta /\ P2[x] = P[x] /\ P2[p] = P[p] /\ p \in DOMAIN dirs'
      BY <1>3, <1>16, <3>1
    <3> QED
      BY <3>1, <3>3, <3>4, <3>5
  <2>3. /\ dirs'[new].parent \in DOMAIN dirs' /\ dirs'[new].meta # 1
        /\ image.dirs[dirs'[new].meta].parent = dirs'[dirs'[new].parent].meta
        /\ P2[new] = Append(P2[dirs'[new].parent], image.dirs[dirs'[new].meta].name)
        /\ \E i \in DOMAIN dirs'[dirs'[new].parent].children : dirs'[dirs'[new].parent].children[i] = new
    <3>1. Len(kids) + 1 \in DOMAIN grown
      BY <1>7, <1>18
    <3>2. dirs'[e].meta = dirs[e].meta /\ P2[e] = P[e] /\ e \in DOMAIN dirs'
      BY <1>3, <1>4, <1>16
    <3> QED
      BY <1>8, <1>16, <1>18, <1>19, <1>12, <3>1, <3>2 DEF DirName
  <2>4. \A x \in DOMAIN dirs' : x # 1 =>
          /\ dirs'[x].parent \in DOMAIN dirs'
          /\ dirs'[x].meta # 1
          /\ image.dirs[dirs'[x].meta].parent = dirs'[dirs'[x].parent].meta
          /\ P2[x] = Append(P2[dirs'[x].parent], image.dirs[dirs'[x].meta].name)
          /\ \E i \in DOMAIN dirs'[dirs'[x].parent].children : dirs'[dirs'[x].parent].children[i] = x
    <3> SUFFICES ASSUME NEW x \in DOMAIN dirs', x # 1
                 PROVE  /\ dirs'[x].parent \in DOMAIN dirs'
                        /\ dirs'[x].meta # 1
                        /\ image.dirs[dirs'[x].meta].parent = dirs'[dirs'[x].parent].meta
                        /\ P2[x] = Append(P2[dirs'[x].parent], image.dirs[dirs'[x].meta].name)
                        /\ \E i \in DOMAIN dirs'[dirs'[x].parent].children : dirs'[dirs'[x].parent].children[i] = x
      OBVIOUS
    <3>1. x \in DOMAIN dirs \/ x = new
      BY <1>3, <1>16
    <3> QED
      BY <2>2, <2>3, <3>1
  <2>5. \A x \in DOMAIN dirs' : \A i \in DOMAIN dirs'[x].children :
          LET c == dirs'[x].children[i]
          IN  c \in DOMAIN dirs' /\ c # 1 /\ dirs'[c].parent = x
    <3> SUFFICES ASSUME NEW x \in DOMAIN dirs', NEW i \in DOMAIN dirs'[x].children
                 PROVE  LET c == dirs'[x].children[i]
                        IN  c \in DOMAIN dirs' /\ c # 1 /\ dirs'[c].parent = x
      OBVIOUS
    <3>1. x \in DOMAIN dirs /\ x # new
      BY <1>3, <1>16, <1>19
    <3>2. CASE x = e
      <4>1. CASE i \in DOMAIN kids
        <5>1. dirs'[x].children[i] = kids[i]
          BY <1>18, <1>19, <3>2, <4>1
        <5> QED
          BY <1>3, <1>16, <1>20, <3>2, <4>1, <5>1
      <4>2. CASE i = Len(kids) + 1
        BY <1>3, <1>18, <1>19, <1>21, <3>2, <4>2
      <4> QED
        BY <1>18, <1>19, <3>2, <4>1, <4>2
    <3>3. CASE x # e
      <4>1. dirs'[x].children = dirs[x].children
        BY <1>19, <3>1, <3>3
      <4>2. LET c == dirs[x].children[i] IN c \in DOMAIN dirs /\ c # 1 /\ dirs[c].parent = x
        BY <3>1, <4>1 DEF HandlerInv, Labelled
      <4> QED
        BY <1>3, <1>16, <4>1, <4>2
    <3> QED
      BY <3>2, <3>3
  <2>6. \A x, y \in DOMAIN dirs' : (dirs'[x].meta = dirs'[y].meta => x = y) /\ (P2[x] = P2[y] => x = y)
    <3>1. \A x, y \in DOMAIN dirs : (dirs'[x].meta = dirs'[y].meta => x = y) /\ (P2[x] = P2[y] => x = y)
      BY <1>3, <1>16 DEF HandlerInv, Labelled
    <3>2. \A x \in DOMAIN dirs : dirs'[x].meta # dirs'[new].meta /\ P2[x] # P2[new]
      BY <1>3, <1>10, <1>14, <1>16, <1>19
    <3>3. \A x \in DOMAIN dirs' : x \in DOMAIN dirs \/ x = new
      BY <1>3, <1>16
    <3> QED
      BY <3>1, <3>2, <3>3
  <2> QED
    BY <1>2, <2>1, <2>4, <2>5, <2>6 DEF Labelled, DirName
<1>23. /\ Len(stack'[t]) = 1 /\ stack'[t][1].entry = e /\ stack'[t][1].dir = image.dirs[d].sibling
       /\ \A u \in Threads \ {t} : stack'[u] = stack[u]
  <2> DEFINE next == [Top(t) EXCEPT !.dir = image.dirs[Top(t).dir].sibling]
  <2>1. stack' = [stack EXCEPT ![t] = Append(Front(stack[t]), next)]
    BY DEF ParseChild
  <2>2. Front(stack[t]) \in Seq(FrameType) /\ Len(Front(stack[t])) = 0 /\ Top(t) \in FrameType
    BY <1>2, <1>4, TopOp
  <2>3. Front(stack[t]) = <<>>
    BY <2>2
  <2>4. next.entry = e /\ next.dir = image.dirs[d].sibling
    BY <1>1, <2>2 DEF FrameType
  <2> HIDE DEF next
  <2>5. Append(<<>>, next) = <<next>>
    OBVIOUS
  <2>6. stack'[t] = <<next>> /\ \A u \in Threads \ {t} : stack'[u] = stack[u]
    BY <2>1, <2>3, <2>5 DEF Shape
  <2> QED
    BY <2>4, <2>6
<1>24. Along(stack[t][1])'
  <2>1. dirs'[e].meta = dirs[e].meta /\ dirs'[e].children = grown
    BY <1>3, <1>4, <1>19
  <2>2. \A i \in DOMAIN grown : dirs'[grown[i]].meta = S[i]
    <3>1. \A i \in DOMAIN kids : dirs'[grown[i]].meta = S[i]
      BY <1>3, <1>7, <1>18, <1>20
    <3>2. dirs'[grown[Len(kids) + 1]].meta = S[Len(kids) + 1]
      BY <1>7, <1>18, <1>19
    <3> QED
      BY <1>18, <3>1, <3>2
  <2>3. /\ Len(grown) <= Len(S)
        /\ image.dirs[d].sibling = IF Len(grown) = Len(S) THEN None ELSE S[Len(grown) + 1]
    <3> HIDE DEF S
    <3>1. Len(kids) \in Nat /\ Len(S) \in Nat /\ Len(kids) + 1 \in 1 .. Len(S)
      BY <1>6, <1>7
    <3>2. Len(kids) + 1 + 1 = Len(kids) + 2 /\ Len(kids) + 1 <= Len(S)
      BY <3>1
    <3>3. Len(grown) = Len(kids) + 1
      BY <1>18
    <3> QED
      BY <1>8, <3>2, <3>3
  <2> QED
    BY <1>2, <1>23, <2>1, <2>2, <2>3 DEF Along
<1>25. \A u \in Threads \ {t} : pc[u] # "parse"
  BY <1>2 DEF HandlerInv, Opened
<1>26. Parsing(P2)'
  <2>1. \A u \in Threads : pc'[u] = "parse" => u = t
    BY <1>2, <1>25
  <2>2. P2[e] = P[e]
    BY <1>4, <1>16
  <2>3. \A x \in DOMAIN dirs' :
          \/ P2[x] \in parsed' \/ dirs'[x].children = <<>>
          \/ \E u \in Threads : pc'[u] = "parse" /\ stack'[u][1].entry = x
    <3> SUFFICES ASSUME NEW x \in DOMAIN dirs'
                 PROVE  \/ P2[x] \in parsed' \/ dirs'[x].children = <<>>
                        \/ \E u \in Threads : pc'[u] = "parse" /\ stack'[u][1].entry = x
      OBVIOUS
    <3>1. CASE x = new
      BY <1>19, <3>1
    <3>2. CASE x = e
      BY <1>2, <1>23, <3>2
    <3>3. CASE x # e /\ x \in DOMAIN dirs
      <4>1. \/ P[x] \in parsed \/ dirs[x].children = <<>>
            \/ \E u \in Threads : pc[u] = "parse" /\ stack[u][1].entry = x
        BY <3>3 DEF HandlerInv, Parsing
      <4>2. ~ \E u \in Threads : pc[u] = "parse" /\ stack[u][1].entry = x
        BY <1>1, <1>4, <1>25, <3>3
      <4> QED
        BY <1>2, <1>16, <1>19, <3>3, <4>1, <4>2
    <3>4. x \in DOMAIN dirs \/ x = new
      BY <1>3, <1>16
    <3> QED
      BY <3>1, <3>2, <3>3, <3>4
  <2> QED
    BY <1>2, <1>5, <1>23, <1>24, <2>1, <2>2, <2>3 DEF Parsing
<1>27. AllReady(P2)'
  <2>1. DOMAIN P \subseteq DOMAIN P2 /\ \A x \in DOMAIN P : P2[x] = P[x]
    BY <1>3, <1>16
  <2> QED
    BY <1>2, <2>1, AllReadyGrows DEF HandlerInv
<1>28. Searching(P2)'
  BY <1>2, <1>3, <1>16, SearchGrows DEF HandlerInv, Searching
<1>29. Opened'
  <2>1. dirs' # <<>>
    BY <1>3, <1>21
  <2> QED
    BY <1>2, <1>11, <2>1 DEF HandlerInv, Opened
<1> QED
  BY <1>2, <1>3, <1>16, <1>22, <1>26, <1>27, <1>28, <1>29 DEF HandlerInv

\* The thread that opens the image makes the entry of the root.
LEMMA OpenStep ==
  ASSUME Shape, ~full, NEW P, HandlerInv(P), NEW t \in Threads, Open(t)
  PROVE  /\ Shape' /\ ~full'
         /\ \E P2 \in [DOMAIN dirs' -> Seq(Components)] :
              HandlerInv(P2)' /\ \A e \in DOMAIN dirs : P2[e] = P[e]
<1> DEFINE fresh == [meta |-> 1, parent |-> None, children |-> <<>>, files |-> <<>>]
           frame == Frame(1, 1)
<1>1. PICK P2 : P2 = [e \in {1} |-> Root]
  OBVIOUS
<1>2. dirs = <<>> /\ Root \notin parsed /\ mtx = Nobody
      /\ \A u \in Threads : pc[u] = "idle" /\ ask[u] = Root
  <2>1. dirs = <<>>
    BY DEF Open
  <2> QED
    BY <2>1 DEF Shape, HandlerInv, Opened
<1>3. /\ Shape'
      /\ UNCHANGED <<image, full, parsed, lists, mtx, ask, at, cur, meta, out>>
      /\ pc'[t] = "parse" /\ \A u \in Threads \ {t} : pc'[u] = "idle"
      /\ stack'[t] = <<frame>> /\ dirs' = <<fresh>>
  <2>1. Len(dirs) + 1 = 1 /\ Append(dirs, fresh) = <<fresh>>
    BY <1>2
  <2> HIDE DEF fresh
  <2> QED
    BY <1>2, <2>1, OpenShape DEF fresh
<1>4. /\ DOMAIN dirs' = {1} /\ dirs'[1] = fresh /\ dirs' # <<>>
      /\ dirs'[1].meta = 1 /\ dirs'[1].children = <<>> /\ DOMAIN dirs'[1].children = {}
  BY <1>3
<1>5. DOMAIN P2 = {1} /\ P2[1] = Root /\ P2 \in [{1} -> Seq(Components)]
  BY <1>1 DEF Root
<1> HIDE DEF fresh
<1>6. Opened'
  BY <1>2, <1>3, <1>4 DEF HandlerInv, Opened
<1>7. Labelled(P2)'
  BY <1>4, <1>5 DEF Labelled
<1>8. Along(stack[t][1])'
  <2> DEFINE S == SubDirs(image, 1)
  <2>1. image \in Images /\ 1 \in Places
    BY ImageOp DEF Shape
  <2>2. Len(S) \in Nat /\ image.dirs[1].child = IF Len(S) = 0 THEN None ELSE S[1]
    BY <2>1, SubDirsOp
  <2>3. stack'[t][1].entry = 1 /\ stack'[t][1].dir = image.dirs[1].child
    BY <1>3 DEF Frame
  <2>4. Len(dirs'[1].children) = 0
    BY <1>4
  <2>5. \A i \in DOMAIN dirs'[1].children : FALSE
    BY <1>4
  <2> HIDE DEF S, frame
  <2>6. /\ 0 <= Len(S)
        /\ stack'[t][1].dir = IF 0 = Len(S) THEN None ELSE S[0 + 1]
    BY <2>2, <2>3
  <2> QED
    BY <1>3, <1>4, <2>3, <2>4, <2>5, <2>6 DEF Along, S
<1>9. Parsing(P2)'
  <2>1. Len(stack'[t]) = 1 /\ stack'[t][1].entry = 1
    BY <1>3 DEF Frame
  <2>2. \A u \in Threads : pc'[u] = "parse" => u = t
    BY <1>3
  <2>3. mtx' # t
    BY <1>2, <1>3, RomFsAssumption
  <2>4. ask'[t] = Root /\ Root \notin parsed'
    BY <1>2, <1>3
  <2> HIDE DEF frame
  <2> QED
    BY <1>4, <1>5, <1>8, <2>1, <2>2, <2>3, <2>4 DEF Parsing
<1>10. AllReady(P2)'
  <2>1. DOMAIN P = {}
    BY <1>2 DEF HandlerInv, Labelled
  <2> QED
    BY <1>3, <2>1, AllReadyGrows DEF HandlerInv
<1>11. Searching(P2)'
  <2>1. \A u \in Threads : pc'[u] \in {"idle", "parse"} /\ mtx' # u
    BY <1>2, <1>3, RomFsAssumption
  <2> QED
    BY <2>1 DEF Searching, Search
<1>12. HandlerInv(P2)'
  BY <1>6, <1>7, <1>9, <1>10, <1>11 DEF HandlerInv
<1>13. DOMAIN dirs = {}
  BY <1>2
<1> QED
  BY <1>3, <1>4, <1>5, <1>12, <1>13

-----------------------------------------------------------------------------
(* The invariant.                                                          *)

LEMMA HandlerStep ==
  ASSUME Shape, ~full, NEW P \in [DOMAIN dirs -> Seq(Components)], HandlerInv(P), [Next]_vars
  PROVE  Shape' /\ ~full' /\ \E P2 \in [DOMAIN dirs' -> Seq(Components)] : HandlerInv(P2)'
<1>1. CASE UNCHANGED vars
  <2>1. Shape'
    BY <1>1 DEF vars, Shape, HandlerTypes, FrameType, Places
  <2>2. Opened' /\ Labelled(P)' /\ AllReady(P)'
    BY <1>1 DEF vars, HandlerInv, Opened, Labelled, DirName, AllReady, ListsReady, HandlerReady
  <2>3. Parsing(P)'
    <3>1. \A u \in Threads : Along(stack[u][1])' <=> Along(stack[u][1])
      BY <1>1 DEF vars, Along
    <3> QED
      BY <1>1, <3>1 DEF vars, HandlerInv, Parsing
  <2>4. Searching(P)'
    <3>1. \A u \in Threads : Search(P, u)'
      BY <1>1, SearchGrows DEF vars, HandlerInv, Searching
    <3> QED
      BY <3>1 DEF Searching
  <2> QED
    BY <1>1, <2>1, <2>2, <2>3, <2>4 DEF vars, HandlerInv
<1>2. ASSUME NEW t \in Threads, Open(t) \/ ParseChild(t)
      PROVE  Shape' /\ ~full' /\ \E P2 \in [DOMAIN dirs' -> Seq(Components)] : HandlerInv(P2)'
  BY <1>2, OpenStep, ParseChildStep
<1>3. ASSUME NEW t \in Threads, GetEntries(t)
      PROVE  FALSE
  BY <1>3 DEF GetEntries, Goto, HandlerInv, Opened
<1>4. ASSUME NEW t \in Threads, \E path \in Known : Begin(t, path)
      PROVE  Shape' /\ ~full' /\ HandlerInv(P)'
  BY <1>4, BeginStep
<1>5. ASSUME NEW t \in Threads, LockFolder(t) \/ Find(t) \/ LockParse(t)
      PROVE  Shape' /\ ~full' /\ HandlerInv(P)'
  BY <1>5, MoveSteps, FindHashStep, FindChainStep, FindChildStep, LockParseStep DEF Find
<1>6. ASSUME NEW t \in Threads, ParseFile(t) \/ ParseReturns(t) \/ Unlock(t) \/ Collect(t)
      PROVE  Shape' /\ ~full' /\ HandlerInv(P)'
  BY <1>6, ParseFileStep, ParseReturnsStep, UnlockStep, CollectStep
<1>7. ASSUME HandlerInv(P)'
      PROVE  \E P2 \in [DOMAIN dirs' -> Seq(Components)] : HandlerInv(P2)'
  <2>1. P \in [DOMAIN dirs' -> Seq(Components)]
    BY <1>7 DEF HandlerInv, Labelled
  <2> QED
    BY <1>7, <2>1
<1> QED
  BY <1>1, <1>2, <1>3, <1>4, <1>5, <1>6, <1>7 DEF Next, Handle, Parse

LEMMA RomFsInit == Init => RomFsInv
<1> SUFFICES ASSUME Init PROVE RomFsInv
  OBVIOUS
<1>1. PICK P : P = [e \in {} |-> Root]
  OBVIOUS
<1>2. P \in [DOMAIN dirs -> Seq(Components)] /\ DOMAIN dirs = {} /\ DOMAIN lists = {}
  BY <1>1 DEF Init
<1>3. Shape
  <2>1. HandlerTypes
    <3>1. <<>> \in Seq(Components)
      OBVIOUS
    <3>2. \A t \in Threads : DOMAIN out[t] = {"files", "children"} /\ out[t].children = <<>>
      BY DEF Init, Nothing
    <3> QED
      BY <3>1, <3>2 DEF Init, HandlerTypes, Root, None
  <2>2. dirs \in Seq(DirEntry) /\ files \in Seq(FileEntry) /\ \A e \in DOMAIN dirs : dirs[e].meta \in Places
    BY DEF Init
  <2>3. <<>> \in Seq(FrameType)
    OBVIOUS
  <2> QED
    BY <2>1, <2>2, <2>3 DEF Init, Shape, PCs
<1>4. OneParse
  BY DEF Init, OneParse
<1>5. Opened /\ Labelled(P) /\ Parsing(P) /\ Searching(P)
  BY <1>2 DEF Init, Opened, Labelled, Parsing, Searching, Search
<1>6. AllReady(P)
  <2>1. \A t \in Threads : HandlerReady(P, t)
    <3> TAKE t \in Threads
    <3>1. ask[t] = Root /\ out[t].children = <<>> /\ Root \in Seq(Components)
      BY DEF Init, Nothing, Root
    <3> QED
      BY <3>1, ReadyRoot, BelowNone DEF HandlerReady
  <2> QED
    BY <1>2, <2>1 DEF AllReady, ListsReady
<1> QED
  BY <1>2, <1>3, <1>4, <1>5, <1>6 DEF RomFsInv, HandlerInv

LEMMA RomFsStep == RomFsInv /\ [Next]_vars => RomFsInv'
<1> SUFFICES ASSUME RomFsInv, [Next]_vars PROVE RomFsInv'
  OBVIOUS
<1>1. CASE full
  BY <1>1, PythonStep DEF RomFsInv
<1>2. CASE ~full
  <2>1. PICK P \in [DOMAIN dirs -> Seq(Components)] : HandlerInv(P)
    BY <1>2 DEF RomFsInv
  <2> QED
    BY <1>2, <2>1, HandlerStep DEF RomFsInv
<1> QED
  BY <1>1, <1>2

-----------------------------------------------------------------------------
(* What follows from it.                                                   *)

\* Under handlers nobody reads the entry a call of parse_dir adds to.
LEMMA Apart ==
  ASSUME Shape, NEW P, HandlerInv(P), NEW t \in Threads, NEW u \in Threads, t # u, pc[u] = "parse"
  PROVE  pc[t] # "parse" /\ (pc[t] \in {"child", "collect"} => cur[t] # Top(u).entry)
<1>1. P[Top(u).entry] = ask[u] /\ ask[u] \notin parsed
  <2>1. Len(stack[u]) = 1 /\ P[stack[u][1].entry] = ask[u] /\ ask[u] \notin parsed
    BY DEF HandlerInv, Parsing
  <2> QED
    BY <2>1, TopOp
<1>2. pc[t] # "parse"
  BY DEF HandlerInv, Opened
<1>3. CASE pc[t] = "child"
  <2>1. at[t] <= Len(ask[t]) /\ P[cur[t]] = SubSeq(ask[t], 1, at[t]) /\ at[t] # Len(ask[t])
    BY <1>3 DEF HandlerInv, Searching, Search
  <2>2. at[t] \in 0 .. Len(ask[t]) - 1
    <3>1. at[t] \in Nat /\ Len(ask[t]) \in Nat
      BY DEF Shape, HandlerTypes
    <3> QED
      BY <2>1, <3>1
  <2>3. SubSeq(ask[t], 1, at[t]) \in parsed
    BY <2>2 DEF HandlerInv, AllReady, HandlerReady, Ready
  <2> QED
    BY <1>1, <1>2, <2>1, <2>3
<1>4. CASE pc[t] = "collect"
  BY <1>1, <1>2, <1>4 DEF HandlerInv, Searching, Search
<1> QED
  BY <1>2, <1>3, <1>4

LEMMA InvRaceFree == RomFsInv => RaceFree
<1> SUFFICES ASSUME RomFsInv, NEW t \in Threads, NEW u \in Threads, t # u, pc[u] = "parse"
             PROVE  pc[t] # "parse" /\ (pc[t] \in {"child", "collect"} => cur[t] # Top(u).entry)
  BY DEF RaceFree
<1>1. CASE full
  BY <1>1 DEF RomFsInv, OneParse
<1>2. CASE ~full
  BY <1>2, Apart DEF RomFsInv
<1> QED
  BY <1>1, <1>2

LEMMA InvStaysPut == RomFsInv => StaysPut
<1> SUFFICES ASSUME RomFsInv, ~full PROVE Len(dirs) <= Cardinality(DOMAIN image.heads)
  BY DEF StaysPut
<1>1. PICK P : Labelled(P)
  BY DEF RomFsInv, HandlerInv
<1>2. /\ image \in Images /\ Len(dirs) \in Nat /\ DOMAIN dirs = 1 .. Len(dirs)
      /\ \A e \in DOMAIN dirs : dirs[e].meta \in Places
  BY DEF RomFsInv, Shape
<1>3. Len(image.dirs) \in Nat /\ Len(image.dirs) <= Cardinality(DOMAIN image.heads)
      /\ Cardinality(DOMAIN image.heads) \in Nat
  BY <1>2, ImageOp, FS_CardinalityType
<1> DEFINE place == [e \in 1 .. Len(dirs) |-> dirs[e].meta]
<1>4. place \in Injection(1 .. Len(dirs), Places)
  <2>1. place \in [1 .. Len(dirs) -> Places]
    BY <1>2
  <2>2. \A e1, e2 \in 1 .. Len(dirs) : place[e1] = place[e2] => e1 = e2
    BY <1>1, <1>2 DEF Labelled
  <2> HIDE DEF place
  <2> QED
    BY <2>1, <2>2 DEF Injection, IsInjective
<1>5. IsFiniteSet(Places) /\ Cardinality(Places) = Len(image.dirs)
  <2>1. IsFiniteSet(1 .. Len(image.dirs)) /\ Cardinality(1 .. Len(image.dirs)) = Len(image.dirs)
    <3>1. Len(image.dirs) \in Nat
      BY <1>3
    <3> QED
      BY <3>1, FS_Interval
  <2> QED
    BY <2>1 DEF Places
<1>6. IsFiniteSet(1 .. Len(dirs)) /\ Cardinality(1 .. Len(dirs)) = Len(dirs)
  BY <1>2, FS_Interval
<1>7. Len(dirs) <= Len(image.dirs)
  BY <1>4, <1>5, <1>6, FS_Injection
<1> QED
  BY <1>2, <1>3, <1>7

\* Whatever is in the image and however many handlers there are, no thread reads
\* the children or files of an entry another one adds to, and no two are in
\* parse_dir: read_files and read_folders hold parse_mtx only while a directory is
\* parsed, and find_dir never does (containers.cpp:59-77, romfs.cpp:104-141).
THEOREM NoRaces == Spec => []RaceFree
<1>1. RomFsInv /\ [Next]_vars => RomFsInv'
  BY RomFsStep
<1> QED
  BY <1>1, RomFsInit, InvRaceFree, PTL DEF Spec

\* Under handlers the entries of directories fit what read_tables reserved: a
\* place has one entry, although a directory may be asked for by its files and by
\* its folders, and the parsed flag is looked at under parse_mtx (romfs.cpp:105,
\* 170-176, containers.cpp:65-72).
THEOREM TableStays == Spec => []StaysPut
<1>1. RomFsInv /\ [Next]_vars => RomFsInv'
  BY RomFsStep
<1> QED
  BY <1>1, RomFsInit, InvStaysPut, PTL DEF Spec

-----------------------------------------------------------------------------
(* The directory a path names.                                             *)

LEMMA LeastNumber ==
  ASSUME NEW T \in SUBSET Nat, T # {}
  PROVE  \E x \in T : \A y \in T : x <= y
<1> DEFINE R == {p \in Nat \X Nat : p[1] < p[2]}
<1>1. IsWellFoundedOn(R, Nat)
  BY NatLessThanWellFounded DEF OpToRel
<1> HIDE DEF R
<1>2. PICK x \in T : \A y \in T : ~ (<<y, x>> \in R)
  BY <1>1, WFMin
<1>3. ASSUME NEW y \in T PROVE x <= y
  <2>1. ~ (y < x)
    BY <1>2 DEF R
  <2> QED
    BY <2>1
<1> QED
  BY <1>3

LEMMA SetInduction ==
  ASSUME NEW T \in SUBSET Nat, NEW m \in Nat, 0 \in T,
         \A k \in 0 .. m - 1 : k \in T => k + 1 \in T
  PROVE  m \in T
<1> DEFINE Out == {k \in 0 .. m : k \notin T}
<1> SUFFICES ASSUME Out # {} PROVE FALSE
  OBVIOUS
<1>1. Out \in SUBSET Nat
  OBVIOUS
<1>2. PICK x \in Out : \A y \in Out : x <= y
  BY <1>1, LeastNumber
<1>3. x \in 1 .. m /\ x \notin T
  OBVIOUS
<1>4. x - 1 \in 0 .. m - 1 /\ ~ (x <= x - 1)
  BY <1>3
<1>5. x - 1 \in T
  BY <1>2, <1>3, <1>4
<1>6. (x - 1) + 1 \in T
  BY <1>4, <1>5
<1> QED
  BY <1>3, <1>6

LEMMA StrongInduction ==
  ASSUME NEW n \in Nat, NEW T, \A k \in 1 .. n : (\A j \in 1 .. k - 1 : j \in T) => k \in T
  PROVE  \A k \in 1 .. n : k \in T
<1> DEFINE Out == {k \in 1 .. n : k \notin T}
<1> SUFFICES ASSUME Out # {} PROVE FALSE
  OBVIOUS
<1>1. Out \in SUBSET Nat
  OBVIOUS
<1>2. PICK x \in Out : \A y \in Out : x <= y
  BY <1>1, LeastNumber
<1>3. \A j \in 1 .. x - 1 : j \in 1 .. n /\ ~(x <= j)
  OBVIOUS
<1> QED
  BY <1>2, <1>3

LEMMA DownInduction ==
  ASSUME NEW n \in Nat, NEW T, \A k \in 1 .. n : (\A j \in k + 1 .. n : j \in T) => k \in T
  PROVE  \A k \in 1 .. n : k \in T
<1> DEFINE R == {j \in 1 .. n : n + 1 - j \in T}
<1>1. \A j \in 1 .. n : (\A i \in 1 .. j - 1 : i \in R) => j \in R
  <2> SUFFICES ASSUME NEW j \in 1 .. n, \A i \in 1 .. j - 1 : i \in R PROVE n + 1 - j \in T
    OBVIOUS
  <2>1. n + 1 - j \in 1 .. n
    OBVIOUS
  <2>2. \A i \in (n + 1 - j) + 1 .. n : i \in T
    <3> TAKE i \in (n + 1 - j) + 1 .. n
    <3>1. n + 1 - i \in 1 .. j - 1 /\ n + 1 - (n + 1 - i) = i
      OBVIOUS
    <3> QED
      BY <3>1
  <2> QED
    BY <2>1, <2>2
<1>2. \A j \in 1 .. n : j \in R
  <2> HIDE DEF R
  <2> QED
    BY <1>1, StrongInduction
<1>3. ASSUME NEW k \in 1 .. n PROVE k \in T
  <2>1. n + 1 - k \in 1 .. n /\ n + 1 - (n + 1 - k) = k
    OBVIOUS
  <2> QED
    BY <1>2, <2>1
<1> QED
  BY <1>3

\* The child of a directory that has a name, and the directories along a path.
Child(d, name) == CHOOSE c \in ToSet(SubDirs(image, d)) : DirName(c) = name
Down(path, g) ==
  g = [n \in 0 .. Len(path) |-> IF n = 0 THEN 1 ELSE Child(g[n - 1], path[n])]

LEMMA DownOp ==
  ASSUME NEW path \in Seq(Components), NEW g
  PROVE  Down(path, g) <=>
           /\ g = [n \in 0 .. Len(path) |-> g[n]]
           /\ g[0] = 1
           /\ \A n \in 1 .. Len(path) : g[n] = Child(g[n - 1], path[n])
<1>1. Len(path) \in Nat
  OBVIOUS
<1>2. 0 \in 0 .. Len(path) /\ \A n \in 0 .. Len(path) : n = 0 \/ n \in 1 .. Len(path)
  BY <1>1
<1>3. \A n \in 1 .. Len(path) : n \in 0 .. Len(path) /\ n # 0
  BY <1>1
<1>4. ASSUME Down(path, g)
      PROVE  /\ g = [n \in 0 .. Len(path) |-> g[n]]
             /\ g[0] = 1
             /\ \A n \in 1 .. Len(path) : g[n] = Child(g[n - 1], path[n])
  BY <1>2, <1>3, <1>4 DEF Down
<1>5. ASSUME /\ g = [n \in 0 .. Len(path) |-> g[n]]
             /\ g[0] = 1
             /\ \A n \in 1 .. Len(path) : g[n] = Child(g[n - 1], path[n])
      PROVE  Down(path, g)
  <2>1. \A n \in 0 .. Len(path) : g[n] = IF n = 0 THEN 1 ELSE Child(g[n - 1], path[n])
    BY <1>2, <1>5
  <2> QED
    BY <1>5, <2>1 DEF Down
<1> QED
  BY <1>4, <1>5

\* The directories along a path begin with those along what it extends.
LEMMA DownUnique ==
  ASSUME NEW path \in Seq(Components), NEW g, Down(path, g),
         NEW more \in Seq(Components), NEW h, Down(more, h), Len(path) <= Len(more),
         \A i \in 1 .. Len(path) : path[i] = more[i]
  PROVE  \A n \in 0 .. Len(path) : g[n] = h[n]
<1>1. /\ Len(path) \in Nat /\ Len(more) \in Nat
      /\ g[0] = 1 /\ h[0] = 1
      /\ \A n \in 1 .. Len(path) : g[n] = Child(g[n - 1], path[n])
      /\ \A n \in 1 .. Len(more) : h[n] = Child(h[n - 1], more[n])
  BY DownOp
<1> SUFFICES ASSUME NEW m \in 0 .. Len(path) PROVE g[m] = h[m]
  OBVIOUS
<1> DEFINE T == {n \in 0 .. Len(path) : g[n] = h[n]}
<1>2. 0 \in T
  BY <1>1
<1>3. ASSUME NEW k \in 0 .. m - 1, k \in T PROVE k + 1 \in T
  <2>1. k + 1 \in 1 .. Len(path) /\ k + 1 \in 1 .. Len(more) /\ (k + 1) - 1 = k /\ k + 1 \in 0 .. Len(path)
    BY <1>1
  <2>2. g[k + 1] = Child(g[k], path[k + 1]) /\ h[k + 1] = Child(h[k], more[k + 1])
    BY <1>1, <2>1
  <2> QED
    BY <1>3, <2>1, <2>2
<1>4. T \in SUBSET Nat /\ m \in Nat
  BY <1>1
<1>5. m \in T
  <2> HIDE DEF T
  <2> QED
    BY <1>2, <1>3, <1>4, SetInduction
<1> QED
  BY <1>5

LEMMA DownAppend ==
  ASSUME NEW path \in Seq(Components), NEW g, Down(path, g), NEW name \in Components
  PROVE  \E h : Down(Append(path, name), h)
<1> DEFINE q == Append(path, name)
           last == Len(path) + 1
           h == [n \in 0 .. last |-> IF n = last THEN Child(g[Len(path)], name) ELSE g[n]]
<1>1. Len(path) \in Nat /\ q \in Seq(Components) /\ Len(q) = last /\ q[last] = name
      /\ \A i \in 1 .. Len(path) : q[i] = path[i]
  BY AppendOp
<1>2. /\ g[0] = 1 /\ \A n \in 1 .. Len(path) : g[n] = Child(g[n - 1], path[n])
  BY DownOp
<1>3. h = [n \in 0 .. last |-> h[n]]
  OBVIOUS
<1>4. h[0] = 1
  <2>1. 0 \in 0 .. last /\ 0 # last
    BY <1>1
  <2> QED
    BY <1>2, <2>1
<1>5. ASSUME NEW n \in 1 .. last PROVE h[n] = Child(h[n - 1], q[n])
  <2>1. n \in 0 .. last /\ n - 1 \in 0 .. last /\ n - 1 # last /\ (n # last => n \in 1 .. Len(path))
        /\ last - 1 = Len(path)
    BY <1>1
  <2>2. h[n - 1] = g[n - 1]
    BY <2>1
  <2>3. CASE n = last
    BY <1>1, <2>1, <2>2, <2>3
  <2>4. CASE n # last
    BY <1>1, <1>2, <2>1, <2>2, <2>4
  <2> QED
    BY <2>3, <2>4
<1> HIDE DEF q, h
<1>6. Down(q, h)
  BY <1>1, <1>3, <1>4, <1>5, DownOp
<1> QED
  BY <1>6 DEF q

LEMMA DownExists ==
  ASSUME NEW path \in Seq(Components)
  PROVE  \E g : Down(path, g)
<1>1. /\ Len(path) \in Nat /\ SubSeq(path, 1, 0) = <<>> /\ SubSeq(path, 1, Len(path)) = path
      /\ \A k \in 0 .. Len(path) : SubSeq(path, 1, k) \in Seq(Components)
      /\ \A k \in 0 .. Len(path) - 1 : SubSeq(path, 1, k + 1) = Append(SubSeq(path, 1, k), path[k + 1])
  BY PrefixOp
<1> DEFINE T == {k \in 0 .. Len(path) : \E g : Down(SubSeq(path, 1, k), g)}
<1>2. 0 \in T
  <2> DEFINE g == [n \in {0} |-> 1]
  <2>1. <<>> \in Seq(Components) /\ Len(<<>>) = 0 /\ 0 .. 0 = {0}
    OBVIOUS
  <2>2. g = [n \in {0} |-> g[n]] /\ g[0] = 1
    OBVIOUS
  <2> HIDE DEF g
  <2>3. Down(<<>>, g)
    <3> DEFINE root == <<>>
    <3>1. root \in Seq(Components) /\ Len(root) = 0 /\ 0 .. Len(root) = {0}
      BY <2>1
    <3> HIDE DEF root
    <3>2. g = [n \in 0 .. Len(root) |-> g[n]]
      BY <2>2, <3>1
    <3>3. \A n \in 1 .. Len(root) : g[n] = Child(g[n - 1], root[n])
      BY <3>1
    <3>4. Down(root, g)
      BY <2>2, <3>1, <3>2, <3>3, DownOp
    <3> QED
      BY <3>4 DEF root
  <2>4. PICK empty : empty = SubSeq(path, 1, 0)
    OBVIOUS
  <2>5. Down(empty, g)
    BY <1>1, <2>3, <2>4
  <2>6. 0 \in 0 .. Len(path)
    BY <1>1
  <2> QED
    BY <2>4, <2>5, <2>6
<1>3. ASSUME NEW k \in 0 .. Len(path) - 1, k \in T PROVE k + 1 \in T
  <2>1. PICK g : Down(SubSeq(path, 1, k), g)
    BY <1>3
  <2>2. k \in 0 .. Len(path) /\ k + 1 \in 0 .. Len(path) /\ k + 1 \in 1 .. Len(path)
    BY <1>1
  <2>3. path[k + 1] \in Components
    BY <2>2
  <2>4. \E h : Down(Append(SubSeq(path, 1, k), path[k + 1]), h)
    BY <1>1, <2>1, <2>2, <2>3, DownAppend
  <2> QED
    BY <1>1, <2>2, <2>4
<1>4. T \in SUBSET Nat
  BY <1>1
<1>5. Len(path) \in T
  <2> HIDE DEF T
  <2> QED
    BY <1>1, <1>2, <1>3, <1>4, SetInduction
<1> QED
  BY <1>1, <1>5

LEMMA DirAtOp ==
  ASSUME NEW path \in Seq(Components)
  PROVE  \E g : Down(path, g) /\ DirAt(path) = g[Len(path)]
<1> DEFINE D(g) == g = [n \in 0 .. Len(path) |->
                          IF n = 0 THEN 1
                          ELSE CHOOSE c \in ToSet(SubDirs(image, g[n - 1])) : DirName(c) = path[n]]
           f == CHOOSE g : D(g)
<1>1. DirAt(path) = f[Len(path)]
  BY DEF DirAt
<1>2. \A g : D(g) <=> Down(path, g)
  BY DEF Down, Child
<1>3. \E g : D(g)
  BY <1>2, DownExists
<1>4. D(f)
  <2> HIDE DEF D
  <2> QED
    BY <1>3
<1> HIDE DEF D, f
<1> QED
  BY <1>1, <1>2, <1>4

LEMMA DirAtRoot == DirAt(Root) = 1
<1>1. Root \in Seq(Components) /\ Len(Root) = 0
  BY DEF Root
<1> QED
  BY <1>1, DirAtOp, DownOp

LEMMA DirAtChild ==
  ASSUME NEW path \in Seq(Components), NEW name \in Components
  PROVE  DirAt(Append(path, name)) = Child(DirAt(path), name)
<1>1. PICK q : q = Append(path, name)
  OBVIOUS
<1>2. q \in Seq(Components) /\ Len(path) \in Nat /\ Len(q) = Len(path) + 1 /\ q[Len(q)] = name
      /\ \A i \in 1 .. Len(path) : path[i] = q[i]
  BY <1>1, AppendOp
<1>3. PICK g : Down(path, g) /\ DirAt(path) = g[Len(path)]
  BY DirAtOp
<1>4. PICK h : Down(q, h) /\ DirAt(q) = h[Len(q)]
  BY <1>2, DirAtOp
<1>5. Len(q) \in 1 .. Len(q) /\ Len(q) - 1 = Len(path) /\ Len(path) \in 0 .. Len(path) /\ Len(path) <= Len(q)
  BY <1>2
<1>6. h[Len(q)] = Child(h[Len(path)], q[Len(q)])
  BY <1>2, <1>4, <1>5, DownOp
<1>7. g[Len(path)] = h[Len(path)]
  BY <1>2, <1>3, <1>4, <1>5, DownUnique
<1> QED
  BY <1>1, <1>2, <1>3, <1>4, <1>6, <1>7

\* A directory is the one of its name in its parent.
LEMMA ChildIs ==
  ASSUME image \in Images, NEW c \in Places \ {1}
  PROVE  Child(image.dirs[c].parent, DirName(c)) = c
<1> DEFINE d == image.dirs[c].parent
<1>1. d \in Places
  BY ChildOp
<1>2. ToSet(SubDirs(image, d)) = {x \in 2 .. Len(image.dirs) : image.dirs[x].parent = d}
  BY <1>1, RomFsAssumption DEF WellFormed, Places
<1>3. \A x \in Places \ {1} : x \in 2 .. Len(image.dirs)
  BY ImageOp DEF Places
<1>4. \A x \in 2 .. Len(image.dirs) : x \in Places \ {1}
  BY ImageOp DEF Places
<1>5. c \in ToSet(SubDirs(image, d))
  BY <1>2, <1>3
<1>6. \A x \in ToSet(SubDirs(image, d)) : DirName(x) = DirName(c) => x = c
  <2>1. \A x \in ToSet(SubDirs(image, d)) : x \in Places \ {1} /\ image.dirs[x].parent = d
    BY <1>2, <1>4
  <2> QED
    BY <2>1, ChildOp DEF DirName
<1> HIDE DEF d
<1>7. Child(d, DirName(c)) = c
  BY <1>5, <1>6 DEF Child
<1> QED
  BY <1>7 DEF d

\* An entry is made of the directory its path names.
LEMMA LabelIsRight ==
  ASSUME Shape, NEW P, Labelled(P), NEW e \in DOMAIN dirs
  PROVE  dirs[e].meta = DirAt(P[e])
<1>1. /\ P \in [DOMAIN dirs -> Seq(Components)]
      /\ dirs # <<>> => P[1] = Root /\ dirs[1].meta = 1
      /\ image \in Images /\ \A x \in DOMAIN dirs : dirs[x].meta \in Places
  BY DEF Labelled, Shape
<1>2. ASSUME NEW x \in DOMAIN dirs, x # 1
      PROVE  /\ dirs[x].parent \in DOMAIN dirs
             /\ P[x] = Append(P[dirs[x].parent], DirName(dirs[x].meta))
             /\ P[x] # <<>> /\ Len(P[x]) = Len(P[dirs[x].parent]) + 1
             /\ DirName(dirs[x].meta) \in Components
             /\ dirs[x].meta = Child(dirs[dirs[x].parent].meta, DirName(dirs[x].meta))
  <2>1. /\ dirs[x].parent \in DOMAIN dirs /\ dirs[x].meta # 1
        /\ image.dirs[dirs[x].meta].parent = dirs[dirs[x].parent].meta
        /\ P[x] = Append(P[dirs[x].parent], DirName(dirs[x].meta))
    BY <1>2 DEF Labelled
  <2>2. dirs[x].meta \in Places \ {1} /\ DirName(dirs[x].meta) \in Components
    BY <1>1, <2>1, ImageOp DEF DirName
  <2>3. P[dirs[x].parent] \in Seq(Components)
    BY <1>1, <2>1
  <2>4. Len(P[x]) = Len(P[dirs[x].parent]) + 1 /\ P[x] # <<>>
    BY <2>1, <2>2, <2>3
  <2> QED
    BY <1>1, <2>1, <2>2, <2>4, ChildIs
<1> DEFINE T == {k \in Nat : \A x \in DOMAIN dirs : Len(P[x]) = k => dirs[x].meta = DirAt(P[x])}
<1>3. 0 \in T
  <2>1. ASSUME NEW x \in DOMAIN dirs, Len(P[x]) = 0 PROVE dirs[x].meta = DirAt(P[x])
    <3>1. P[x] = <<>>
      BY <1>1, <2>1
    <3>2. x = 1 /\ dirs # <<>>
      BY <1>2, <3>1
    <3> QED
      BY <1>1, <3>2, DirAtRoot
  <2> QED
    BY <2>1
<1>4. ASSUME NEW k \in Nat, k \in T PROVE k + 1 \in T
  <2>1. ASSUME NEW x \in DOMAIN dirs, Len(P[x]) = k + 1 PROVE dirs[x].meta = DirAt(P[x])
    <3>1. x # 1
      <4>1. dirs # <<>> /\ Len(Root) = 0
        BY DEF Root
      <4> QED
        BY <1>1, <2>1, <4>1
    <3> DEFINE y == dirs[x].parent
    <3>2. y \in DOMAIN dirs /\ P[y] \in Seq(Components) /\ Len(P[x]) = Len(P[y]) + 1
      BY <1>1, <1>2, <3>1
    <3>3. Len(P[y]) \in Nat
      BY <3>2
    <3>4. Len(P[y]) = k
      BY <2>1, <3>2, <3>3
    <3>5. dirs[y].meta = DirAt(P[y])
      BY <1>4, <3>2, <3>4
    <3>6. /\ P[x] = Append(P[y], DirName(dirs[x].meta)) /\ DirName(dirs[x].meta) \in Components
          /\ dirs[x].meta = Child(dirs[y].meta, DirName(dirs[x].meta))
      BY <1>2, <3>1
    <3> HIDE DEF y
    <3> QED
      BY <3>2, <3>5, <3>6, DirAtChild
  <2> QED
    BY <2>1
<1>5. T \in SUBSET Nat /\ Len(P[e]) \in Nat
  BY <1>1
<1>6. Len(P[e]) \in T
  <2>1. \A k \in 0 .. Len(P[e]) - 1 : k \in Nat
    BY <1>5
  <2> HIDE DEF T
  <2> QED
    BY <1>3, <1>4, <1>5, <2>1, SetInduction
<1> QED
  BY <1>6

LEMMA InvFoundRight == RomFsInv => FoundRight
<1> SUFFICES ASSUME RomFsInv, NEW t \in Threads, pc[t] \in {"lock", "unlock", "collect"}
             PROVE  dirs[cur[t]].meta = DirAt(ask[t])
  BY DEF FoundRight
<1>1. Shape /\ ~full
  BY DEF RomFsInv, OneParse
<1>2. PICK P : Labelled(P) /\ Search(P, t)
  BY <1>1 DEF RomFsInv, HandlerInv, Searching
<1>3. cur[t] \in DOMAIN dirs /\ P[cur[t]] = ask[t]
  BY <1>2 DEF Search
<1> QED
  BY <1>1, <1>2, <1>3, LabelIsRight

-----------------------------------------------------------------------------
(* What directories hold, and what their containers list.                  *)

\* The files of a directory, along their chain.
LEMMA DirFilesOp ==
  ASSUME image \in Images, NEW d \in Places, NEW F, F = DirFiles(image, d)
  PROVE  /\ F \in Seq(DOMAIN image.files) /\ Len(F) \in Nat /\ DOMAIN F = 1 .. Len(F)
         /\ image.dirs[d].file = IF Len(F) = 0 THEN None ELSE F[1]
         /\ \A i \in 1 .. Len(F) :
              /\ F[i] \in DOMAIN image.files /\ F[i] # None /\ image.files[F[i]].name \in Components
              /\ image.files[F[i]].sibling = IF i = Len(F) THEN None ELSE F[i + 1]
<1> DEFINE link == Field(image.files, "sibling")
<1>1. IsChain(F, image.dirs[d].file, link) /\ image.files \in Seq(FileMetas(image))
  BY RomFsAssumption DEF WellFormed, Places
<1>2. DOMAIN link = DOMAIN image.files /\ \A f \in DOMAIN image.files : link[f] = image.files[f].sibling
  BY ImageOp DEF Field
<1> HIDE DEF link
<1>3. F \in Seq(DOMAIN image.files)
  BY <1>1, <1>2 DEF IsChain
<1>4. /\ Len(F) \in Nat /\ DOMAIN F = 1 .. Len(F) /\ (Len(F) = 0 <=> F = <<>>)
      /\ \A i \in 1 .. Len(F) : F[i] \in DOMAIN image.files
  BY <1>3
<1>5. \A f \in DOMAIN image.files : f # None /\ image.files[f].name \in Components
  <2>1. \A f \in DOMAIN image.files : f # None
    BY ImageOp DEF None
  <2>2. \A f \in DOMAIN image.files : image.files[f] \in FileMetas(image)
    BY <1>1
  <2> QED
    BY <2>1, <2>2 DEF FileMetas, Components
<1>6. image.dirs[d].file = IF Len(F) = 0 THEN None ELSE F[1]
  BY <1>1, <1>4 DEF IsChain
<1>7. \A i \in 1 .. Len(F) : image.files[F[i]].sibling = IF i = Len(F) THEN None ELSE F[i + 1]
  BY <1>1, <1>2, <1>4 DEF IsChain
<1> QED
  BY <1>3, <1>4, <1>5, <1>6, <1>7

LEMMA NamesOp ==
  ASSUME image \in Images, NEW d \in Places, NEW all, all = Names(image, d),
         NEW F, F = DirFiles(image, d), NEW S, S = SubDirs(image, d)
  PROVE  /\ all = [files |-> all.files, children |-> all.children]
         /\ all.files \in Seq(Components) /\ Len(all.files) = Len(F)
         /\ \A i \in 1 .. Len(F) : all.files[i] = image.files[F[i]].name
         /\ all.children \in Seq(Components) /\ Len(all.children) = Len(S)
         /\ \A i \in 1 .. Len(S) : all.children[i] = image.dirs[S[i]].name
<1>1. /\ Len(F) \in Nat /\ DOMAIN F = 1 .. Len(F)
      /\ \A i \in 1 .. Len(F) : image.files[F[i]].name \in Components
  BY DirFilesOp
<1>2. /\ Len(S) \in Nat /\ DOMAIN S = 1 .. Len(S)
      /\ \A i \in 1 .. Len(S) : image.dirs[S[i]].name \in Components
  <2>1. Len(S) \in Nat /\ DOMAIN S = 1 .. Len(S) /\ \A i \in 1 .. Len(S) : S[i] \in Places
    BY SubDirsOp
  <2> QED
    BY <2>1, ImageOp
<1>3. /\ all.files = [i \in 1 .. Len(F) |-> image.files[F[i]].name]
      /\ all.children = [i \in 1 .. Len(S) |-> image.dirs[S[i]].name]
      /\ all = [files |-> all.files, children |-> all.children]
  BY <1>1, <1>2 DEF Names
<1>4. all.files \in Seq(Components) /\ Len(all.files) = Len(F)
      /\ \A i \in 1 .. Len(F) : all.files[i] = image.files[F[i]].name
  BY <1>1, <1>3
<1>5. all.children \in Seq(Components) /\ Len(all.children) = Len(S)
      /\ \A i \in 1 .. Len(S) : all.children[i] = image.dirs[S[i]].name
  BY <1>2, <1>3
<1> QED
  BY <1>3, <1>4, <1>5

\* An entry has everything the image has in its directory.
Whole(e) ==
  LET kids == dirs[e].children
      leaves == dirs[e].files
      S == SubDirs(image, dirs[e].meta)
      F == DirFiles(image, dirs[e].meta)
  IN  /\ Len(kids) = Len(S) /\ \A i \in DOMAIN kids : dirs[kids[i]].meta = S[i]
      /\ Len(leaves) = Len(F) /\ \A i \in DOMAIN leaves : files[leaves[i]].meta = F[i]

\* A call of parse_dir makes the files after the directories, in the order of the chain.
AlongFiles(f) ==
  LET made == dirs[f.entry].files
      all == DirFiles(image, dirs[f.entry].meta)
  IN  /\ f.dir # None => made = <<>>
      /\ Len(made) <= Len(all)
      /\ \A i \in DOMAIN made : files[made[i]].meta = all[i]
      /\ f.file = IF Len(made) = Len(all) THEN None ELSE all[Len(made) + 1]

FilesMade == \A e \in DOMAIN dirs : \A i \in DOMAIN dirs[e].files : dirs[e].files[i] \in DOMAIN files

IsOpen(e) == \E t \in Threads : pc[t] = "parse" /\ stack[t][1].entry = e

\* A directory that is parsed is there with all it holds; of another nothing is there.
Parsed(P) ==
  /\ \A e \in DOMAIN dirs : P[e] \in parsed => Whole(e)
  /\ \A e \in DOMAIN dirs : P[e] \notin parsed /\ dirs[e].files # <<>> => IsOpen(e)
  /\ \A path \in parsed : \E e \in DOMAIN dirs : P[e] = path

InFolder(t) == pc[t] \notin {"idle", "parse", "entries"} \/ (pc[t] = "parse" /\ mtx = t)

Prefix(s, all) == \E k \in 0 .. Len(all) : s = SubSeq(all, 1, k)

\* What a handler has of the names of its directory.
Partial(t, all) ==
  /\ out[t] = [files |-> out[t].files, children |-> out[t].children]
  /\ turn[t] = "files" => Prefix(out[t].files, all.files) /\ out[t].children = <<>>
  /\ turn[t] = "children" => out[t].files = all.files /\ Prefix(out[t].children, all.children)
  /\ pc[t] # "collect" => out[t][turn[t]] = <<>>

Collected(P, t) ==
  InFolder(t) => \E e \in DOMAIN dirs : P[e] = ask[t] /\ Partial(t, Names(image, dirs[e].meta))

Listed(P) ==
  \A path \in DOMAIN lists : \E e \in DOMAIN dirs : P[e] = path /\ lists[path] = Names(image, dirs[e].meta)

Exact(P) ==
  /\ FilesMade /\ Parsed(P) /\ Listed(P)
  /\ \A t \in Threads : pc[t] = "parse" => AlongFiles(stack[t][1])
  /\ \A t \in Threads : Collected(P, t)

\* The entries grow: what was made is still what it was.
Grown(P, P2) ==
  /\ image' = image /\ DOMAIN dirs \subseteq DOMAIN dirs'
  /\ \A e \in DOMAIN dirs : dirs'[e].meta = dirs[e].meta /\ P2[e] = P[e]

LEMMA ListedGrows ==
  ASSUME NEW P, NEW P2, Listed(P), Grown(P, P2), lists' = lists
  PROVE  Listed(P2)'
<1> SUFFICES ASSUME NEW path \in DOMAIN lists
             PROVE  \E e \in DOMAIN dirs' : P2[e] = path /\ lists[path] = Names(image, dirs'[e].meta)
  BY DEF Listed, Grown
<1>1. PICK e \in DOMAIN dirs : P[e] = path /\ lists[path] = Names(image, dirs[e].meta)
  BY DEF Listed
<1> QED
  BY <1>1 DEF Grown

LEMMA CollectedGrows ==
  ASSUME NEW P, NEW P2, NEW u, Collected(P, u), Grown(P, P2),
         InFolder(u)' => InFolder(u) /\ (pc[u] = "collect" => pc'[u] = "collect"),
         ask'[u] = ask[u], turn'[u] = turn[u], out'[u] = out[u]
  PROVE  Collected(P2, u)'
<1> SUFFICES ASSUME InFolder(u)'
             PROVE  \E e \in DOMAIN dirs' : P2[e] = ask'[u] /\ Partial(u, Names(image, dirs[e].meta))'
  BY DEF Collected
<1>1. PICK e \in DOMAIN dirs : P[e] = ask[u] /\ Partial(u, Names(image, dirs[e].meta))
  BY DEF Collected
<1>2. e \in DOMAIN dirs' /\ P2[e] = ask'[u]
  BY <1>1 DEF Grown
<1>3. Partial(u, Names(image, dirs[e].meta))'
  <2>1. Names(image, dirs[e].meta)' = Names(image, dirs[e].meta)
    BY DEF Grown
  <2> QED
    BY <1>1, <2>1 DEF Partial
<1> QED
  BY <1>2, <1>3

LEMMA WholeStays ==
  ASSUME NEW e \in DOMAIN dirs, Whole(e), image' = image,
         dirs'[e].meta = dirs[e].meta, dirs'[e].children = dirs[e].children, dirs'[e].files = dirs[e].files,
         \A i \in DOMAIN dirs[e].children : dirs'[dirs[e].children[i]].meta = dirs[dirs[e].children[i]].meta,
         \A i \in DOMAIN dirs[e].files : files'[dirs[e].files[i]].meta = files[dirs[e].files[i]].meta
  PROVE  Whole(e)'
BY DEF Whole

\* A step that leaves the entries and parse_dir alone.
LEMMA TreeRests ==
  ASSUME NEW P, Exact(P), UNCHANGED <<image, dirs, files, parsed, stack>>,
         \A u \in Threads : pc'[u] = "parse" <=> pc[u] = "parse"
  PROVE  /\ FilesMade' /\ Parsed(P)' /\ Grown(P, P)
         /\ \A u \in Threads : pc'[u] = "parse" => AlongFiles(stack[u][1])'
<1>1. FilesMade' /\ Grown(P, P)
  BY DEF Exact, FilesMade, Grown
<1>2. \A e : IsOpen(e)' <=> IsOpen(e)
  BY DEF IsOpen
<1>3. \A e : Whole(e)' <=> Whole(e)
  BY DEF Whole
<1>4. Parsed(P)'
  BY <1>2, <1>3 DEF Exact, Parsed
<1>5. \A u \in Threads : AlongFiles(stack[u][1])' <=> AlongFiles(stack[u][1])
  BY DEF AlongFiles
<1> QED
  BY <1>1, <1>4, <1>5 DEF Exact

\* So does one that also leaves what the handler has collected.
LEMMA ExactRests ==
  ASSUME NEW P, Exact(P), NEW t \in Threads,
         UNCHANGED <<image, dirs, files, parsed, stack, lists, ask, turn, out>>,
         \A u \in Threads : pc'[u] = "parse" <=> pc[u] = "parse",
         \A u \in Threads \ {t} : pc'[u] = pc[u] /\ (mtx' = u <=> mtx = u),
         InFolder(t), InFolder(t)', pc[t] = "collect" => pc'[t] = "collect"
  PROVE  Exact(P)'
<1>1. /\ FilesMade' /\ Parsed(P)' /\ Grown(P, P)
      /\ \A u \in Threads : pc'[u] = "parse" => AlongFiles(stack[u][1])'
  BY TreeRests
<1>2. Listed(P)'
  BY <1>1, ListedGrows DEF Exact
<1>3. ASSUME NEW u \in Threads PROVE Collected(P, u)'
  <2>1. InFolder(u)' => InFolder(u) /\ (pc[u] = "collect" => pc'[u] = "collect")
    BY DEF InFolder
  <2> QED
    BY <1>1, <2>1, CollectedGrows DEF Exact
<1> QED
  BY <1>1, <1>2, <1>3 DEF Exact

-----------------------------------------------------------------------------
(* The handler's steps.                                                    *)

\* Each directory on the way is found.
LEMMA FindsAll ==
  ASSUME Shape, ~full, NEW P, HandlerInv(P), NEW t \in Threads, Find(t)
  PROVE  /\ pc[t] \in {"find", "component", "chain", "child"}
         /\ pc'[t] \in {"component", "chain", "child", "lock"}
         /\ \A u \in Threads \ {t} : pc'[u] = pc[u]
         /\ UNCHANGED <<image, dirs, files, parsed, stack, lists, mtx, ask, turn, out>>
<1> USE DEF Goto, shared, tree, handler, search
<1>1. pc \in [Threads -> PCs]
  BY DEF Shape
<1>2. CASE FindBegins(t) \/ Found(t)
  BY <1>1, <1>2 DEF FindBegins, Found
<1>3. CASE FindChain(t)
  BY <1>1, <1>3 DEF FindChain
<1>4. CASE FindHash(t)
  <2>1. PICK b : b = BucketOf(image, dirs[cur[t]].meta, Wanted(t))
    OBVIOUS
  <2>2. pc[t] = "component" /\ at[t] # Len(ask[t])
    <3>1. at[t] < Len(ask[t]) /\ at[t] \in Nat /\ Len(ask[t]) \in Nat
      BY <1>4 DEF FindHash, Shape, HandlerTypes
    <3> QED
      BY <1>4, <3>1 DEF FindHash
  <2>3. PICK d : IsWanted(t, d)
    BY <2>2, WantedOp
  <2>4. image.heads[b] # None
    <3>1. /\ d \in Places \ {1} /\ image \in Images
          /\ BucketOf(image, image.dirs[d].parent, image.dirs[d].name) = b
      BY <2>1, <2>3 DEF IsWanted, DirName, Shape
    <3>2. b \in DOMAIN image.heads
      BY <3>1, ChildOp
    <3>3. PICK B : B = Bucket(image, b)
      OBVIOUS
    <3>4. /\ Len(B) \in Nat /\ DOMAIN B = 1 .. Len(B) /\ \E i \in DOMAIN B : B[i] = d
          /\ image.heads[b] = IF Len(B) = 0 THEN None ELSE B[1]
          /\ \A i \in 1 .. Len(B) : B[i] \in Places \ {1}
      BY <3>1, <3>2, <3>3, BucketOp
    <3>5. Len(B) # 0 /\ 1 \in 1 .. Len(B)
      BY <3>4
    <3>6. image.heads[b] \in Places
      BY <3>4, <3>5
    <3> QED
      BY <3>1, <3>6, ImageOp DEF Places, None
  <2> QED
    BY <1>1, <1>4, <2>1, <2>4 DEF FindHash
<1>5. CASE FindChild(t)
  <2> DEFINE made == {e \in ToSet(dirs[cur[t]].children) : dirs[e].meta = meta[t]}
  <2>1. pc[t] = "child" /\ at[t] # Len(ask[t]) /\ IsWanted(t, meta[t])
    BY <1>5 DEF FindChild, HandlerInv, Searching, Search
  <2>2. PICK e \in DOMAIN dirs : IsWanted(t, dirs[e].meta)
    BY <2>1, WantedOp
  <2>3. cur[t] \in DOMAIN dirs
    BY <2>1, WantedOp
  <2>4. dirs[e].meta = meta[t]
    BY <2>1, <2>2, ChildOp DEF IsWanted, DirName, Shape
  <2>5. e # 1 /\ image.dirs[dirs[e].meta].parent = dirs[cur[t]].meta
    <3>1. dirs[e].meta # 1 /\ image.dirs[dirs[e].meta].parent = dirs[cur[t]].meta
      BY <2>2 DEF IsWanted
    <3>2. dirs # <<>> => dirs[1].meta = 1
      BY DEF HandlerInv, Labelled
    <3>3. dirs # <<>>
      BY <2>2
    <3> QED
      BY <3>1, <3>2, <3>3
  <2>6. dirs[e].parent = cur[t]
    BY <2>3, <2>5 DEF HandlerInv, Labelled
  <2>7. PICK i \in DOMAIN dirs[cur[t]].children : dirs[cur[t]].children[i] = e
    BY <2>5, <2>6 DEF HandlerInv, Labelled
  <2>8. e \in made
    BY <2>4, <2>7 DEF ToSet
  <2> QED
    BY <1>1, <1>5, <2>8 DEF FindChild
<1> QED
  BY <1>2, <1>3, <1>4, <1>5 DEF Find

LEMMA ExactFind ==
  ASSUME Shape, ~full, NEW P, HandlerInv(P), Exact(P), NEW t \in Threads, Find(t)
  PROVE  Exact(P)'
<1>1. /\ pc[t] \in {"find", "component", "chain", "child"}
      /\ pc'[t] \in {"component", "chain", "child", "lock"}
      /\ \A u \in Threads \ {t} : pc'[u] = pc[u]
      /\ UNCHANGED <<image, dirs, files, parsed, stack, lists, mtx, ask, turn, out>>
  BY FindsAll
<1>2. InFolder(t) /\ InFolder(t)' /\ pc[t] # "collect" /\ pc[t] # "parse" /\ pc'[t] # "parse"
  BY <1>1 DEF InFolder
<1> QED
  BY <1>1, <1>2, ExactRests

LEMMA ExactMoves ==
  ASSUME Shape, NEW P, HandlerInv(P), Exact(P), NEW t \in Threads, LockFolder(t) \/ Unlock(t)
  PROVE  Exact(P)'
<1> USE DEF Goto, shared, tree, handler, search
<1>1. pc \in [Threads -> PCs] /\ Nobody \notin Threads
  BY RomFsAssumption DEF Shape
<1>2. UNCHANGED <<image, dirs, files, parsed, stack, lists, ask, turn, out>>
  BY DEF LockFolder, Unlock
<1>3. CASE LockFolder(t)
  <2>1. pc[t] = "folder" /\ pc'[t] = "find" /\ mtx' = mtx /\ \A u \in Threads \ {t} : pc'[u] = pc[u]
    BY <1>1, <1>3 DEF LockFolder
  <2>2. InFolder(t) /\ InFolder(t)'
    BY <2>1 DEF InFolder
  <2> QED
    BY <1>2, <2>1, <2>2, ExactRests
<1>4. CASE Unlock(t)
  <2>1. pc[t] = "unlock" /\ pc'[t] = "collect" /\ mtx' = Nobody /\ \A u \in Threads \ {t} : pc'[u] = pc[u]
    BY <1>1, <1>4 DEF Unlock
  <2>2. mtx = t
    BY <2>1 DEF HandlerInv, Opened
  <2>3. InFolder(t) /\ InFolder(t)'
    BY <2>1 DEF InFolder
  <2>4. \A u \in Threads \ {t} : mtx' # u /\ mtx # u
    BY <1>1, <2>1, <2>2
  <2> QED
    BY <1>2, <2>1, <2>3, <2>4, ExactRests
<1> QED
  BY <1>3, <1>4

\* A folder that is known has an entry.
LEMMA EntryOf ==
  ASSUME NEW P, P \in [DOMAIN dirs -> Seq(Components)], Parsed(P), Root \in parsed,
         NEW path, Ready(P, parsed, path)
  PROVE  \E e \in DOMAIN dirs : P[e] = path
<1>1. path \in Seq(Components) /\ Len(path) \in Nat /\ SubSeq(path, 1, Len(path)) = path
  BY PrefixOp DEF Ready
<1>2. CASE Len(path) = 0
  <2>1. path = Root
    BY <1>1, <1>2 DEF Root
  <2> QED
    BY <2>1 DEF Parsed
<1>3. CASE Len(path) # 0
  <2>1. Len(path) \in 1 .. Len(path)
    BY <1>1, <1>3
  <2> QED
    BY <1>1, <2>1 DEF Ready
<1> QED
  BY <1>2, <1>3

\* Nothing has been collected yet.
LEMMA PrefixNone ==
  ASSUME NEW all \in Seq(Components)
  PROVE  Prefix(<<>>, all)
<1>1. 0 \in 0 .. Len(all) /\ <<>> = SubSeq(all, 1, 0)
  BY PrefixOp
<1> QED
  BY <1>1 DEF Prefix

LEMMA ExactBegin ==
  ASSUME Shape, NEW P, HandlerInv(P), Exact(P), NEW t \in Threads,
         NEW path \in Known, Begin(t, path)
  PROVE  Exact(P)'
<1> USE DEF Goto, shared, tree, handler, search
<1>1. /\ UNCHANGED <<image, dirs, files, parsed, stack, lists, mtx>> /\ Root \in parsed
      /\ pc[t] = "idle" /\ pc'[t] = "folder"
      /\ \A u \in Threads \ {t} : pc'[u] = pc[u] /\ ask'[u] = ask[u] /\ turn'[u] = turn[u] /\ out'[u] = out[u]
      /\ ask'[t] = path /\ turn'[t] = "files" /\ out'[t] = Nothing
  BY DEF Begin, Shape, HandlerTypes
<1>2. /\ FilesMade' /\ Parsed(P)' /\ Grown(P, P)
      /\ \A u \in Threads : pc'[u] = "parse" => AlongFiles(stack[u][1])'
  BY <1>1, TreeRests
<1>3. Listed(P)'
  BY <1>1, <1>2, ListedGrows DEF Exact
<1>4. ASSUME NEW u \in Threads \ {t} PROVE Collected(P, u)'
  BY <1>1, <1>2, CollectedGrows DEF Exact, InFolder
<1>5. Collected(P, t)'
  <2>1. Ready(P, parsed, path)
    BY KnownReady DEF HandlerInv, AllReady
  <2>2. PICK e \in DOMAIN dirs : P[e] = path
    BY <1>1, <2>1, EntryOf DEF HandlerInv, Labelled, Exact
  <2>3. Names(image, dirs[e].meta).files \in Seq(Components)
    BY <2>2, NamesOp DEF Shape
  <2>4. Partial(t, Names(image, dirs[e].meta))'
    <3>1. out'[t] = [files |-> <<>>, children |-> <<>>]
      BY <1>1 DEF Nothing
    <3>2. /\ out'[t] = [files |-> out'[t].files, children |-> out'[t].children]
          /\ out'[t].files = <<>> /\ out'[t].children = <<>> /\ out'[t]["files"] = <<>>
      BY <3>1
    <3>3. Prefix(<<>>, Names(image, dirs[e].meta).files)
      BY <2>3, PrefixNone
    <3> QED
      BY <1>1, <3>2, <3>3 DEF Partial
  <2> QED
    BY <1>1, <2>2, <2>4 DEF Collected
<1> QED
  BY <1>2, <1>3, <1>4, <1>5 DEF Exact

\* The call begins at an entry nothing was made for.
LEMMA ExactLockParse ==
  ASSUME Shape, ~full, NEW P, HandlerInv(P), Exact(P), NEW t \in Threads, LockParse(t)
  PROVE  Exact(P)'
<1> USE DEF Goto, shared, tree, handler, search
<1>1. /\ UNCHANGED <<image, dirs, files, parsed, lists, ask, turn, out>>
      /\ pc[t] = "lock" /\ mtx = Nobody /\ mtx' = t /\ Nobody \notin Threads
      /\ \A u \in Threads \ {t} : pc'[u] = pc[u]
      /\ pc'[t] \in {"unlock", "parse"}
  BY RomFsAssumption DEF LockParse, Shape
<1>2. \A u \in Threads : pc[u] # "parse"
  BY <1>1 DEF HandlerInv, Opened
<1>3. InFolder(t) /\ InFolder(t)'
  BY <1>1 DEF InFolder
<1>4. CASE ask[t] \in parsed
  <2>1. stack' = stack /\ pc'[t] = "unlock"
    BY <1>4 DEF LockParse, Shape
  <2> QED
    BY <1>1, <1>3, <2>1, ExactRests
<1>5. CASE ask[t] \notin parsed
  <2> DEFINE e == cur[t]
             f == Frame(e, dirs[e].meta)
             F == DirFiles(image, dirs[e].meta)
  <2>1. /\ pc'[t] = "parse" /\ stack'[t] = <<f>>
        /\ \A u \in Threads \ {t} : stack'[u] = stack[u]
    BY <1>5 DEF LockParse, Shape
  <2>2. e \in DOMAIN dirs /\ P[e] = ask[t]
    BY <1>1 DEF HandlerInv, Searching, Search
  <2>3. \A x : ~IsOpen(x)
    BY <1>2 DEF IsOpen
  <2>4. dirs[e].files = <<>>
    BY <1>5, <2>2, <2>3 DEF Exact, Parsed
  <2>5. Grown(P, P) /\ FilesMade'
    BY <1>1 DEF Grown, Exact, FilesMade
  <2>6. Parsed(P)'
    <3>1. \A x : Whole(x)' <=> Whole(x)
      BY <1>1 DEF Whole
    <3> QED
      BY <1>1, <2>3, <3>1 DEF Exact, Parsed
  <2>7. AlongFiles(stack[t][1])'
    <3>1. stack'[t][1] = f /\ f.entry = e /\ f.file = image.dirs[dirs[e].meta].file
      BY <2>1 DEF Frame
    <3>2. Len(F) \in Nat /\ image.dirs[dirs[e].meta].file = IF Len(F) = 0 THEN None ELSE F[1]
      BY <2>2, DirFilesOp DEF Shape
    <3> HIDE DEF f, e, F
    <3>3. Len(<<>>) = 0 /\ DOMAIN <<>> = {} /\ 0 <= Len(F)
      BY <3>2
    <3>4. f.file = IF Len(<<>>) = Len(F) THEN None ELSE F[Len(<<>>) + 1]
      BY <3>1, <3>2, <3>3
    <3> QED
      BY <1>1, <2>4, <3>1, <3>3, <3>4 DEF AlongFiles, F
  <2>8. \A u \in Threads : pc'[u] = "parse" => u = t
    BY <1>1, <1>2
  <2>9. \A u \in Threads : Collected(P, u)'
    BY <1>1, <1>3, <2>5, CollectedGrows DEF Exact, InFolder
  <2>10. Listed(P)'
    BY <1>1, <2>5, ListedGrows DEF Exact
  <2> QED
    BY <2>5, <2>6, <2>7, <2>8, <2>9, <2>10 DEF Exact
<1> QED
  BY <1>4, <1>5

\* A sequence of the first names, and one name more.
LEMMA PrefixGrows ==
  ASSUME NEW all \in Seq(Components), NEW s, Prefix(s, all)
  PROVE  /\ Len(s) \in Nat /\ Len(s) <= Len(all)
         /\ Len(s) < Len(all) => Prefix(Append(s, all[Len(s) + 1]), all)
         /\ Len(s) >= Len(all) => s = all
<1>1. PICK k \in 0 .. Len(all) : s = SubSeq(all, 1, k)
  BY DEF Prefix
<1>2. Len(s) = k /\ k \in Nat /\ Len(all) \in Nat /\ k <= Len(all)
  BY <1>1, PrefixOp
<1>3. ASSUME k < Len(all) PROVE Prefix(Append(s, all[k + 1]), all)
  <2>1. k \in 0 .. Len(all) - 1 /\ k + 1 \in 0 .. Len(all)
    BY <1>2, <1>3
  <2>2. SubSeq(all, 1, k + 1) = Append(s, all[k + 1])
    BY <1>1, <2>1, PrefixOp
  <2> QED
    BY <2>1, <2>2 DEF Prefix
<1>4. ASSUME k >= Len(all) PROVE s = all
  <2>1. k = Len(all)
    BY <1>2, <1>4
  <2> QED
    BY <1>1, <2>1, PrefixOp
<1> QED
  BY <1>2, <1>3, <1>4

LEMMA ExactCollect ==
  ASSUME Shape, ~full, NEW P, HandlerInv(P), Exact(P), NEW t \in Threads, Collect(t)
  PROVE  Exact(P)'
<1> USE DEF Goto, shared, tree, handler, search
<1>1. PICK e : e = cur[t]
  OBVIOUS
<1> DEFINE kids == dirs[e].children
           leaves == dirs[e].files
           S == SubDirs(image, dirs[e].meta)
           F == DirFiles(image, dirs[e].meta)
           all == Names(image, dirs[e].meta)
           n == Len(out[t][turn[t]])
           list == dirs[e][turn[t]]
           name(x) == IF turn[t] = "files" THEN FileName(files[x].meta) ELSE DirName(dirs[x].meta)
<1>2. /\ pc[t] = "collect" /\ UNCHANGED <<image, dirs, files, parsed, stack, mtx, ask>>
      /\ \/ /\ n < Len(list)
            /\ out' = [out EXCEPT ![t][turn[t]] = Append(@, name(list[n + 1]))]
            /\ UNCHANGED <<pc, lists, turn>>
         \/ /\ n >= Len(list) /\ ReadReturns(t) /\ out' = out
  BY <1>1 DEF Collect
<1>3. e \in DOMAIN dirs /\ P[e] = ask[t] /\ ask[t] \in parsed
  BY <1>1, <1>2 DEF HandlerInv, Searching, Search
<1>4. Whole(e)
  BY <1>3 DEF Exact, Parsed
<1>5. Partial(t, all)
  <2>1. PICK x \in DOMAIN dirs : P[x] = ask[t] /\ Partial(t, Names(image, dirs[x].meta))
    BY <1>2 DEF Exact, Collected, InFolder
  <2>2. x = e
    BY <1>3, <2>1 DEF HandlerInv, Labelled
  <2> QED
    BY <2>1, <2>2
<1>6. /\ all = [files |-> all.files, children |-> all.children]
      /\ all.files \in Seq(Components) /\ Len(all.files) = Len(F)
      /\ \A i \in 1 .. Len(F) : all.files[i] = image.files[F[i]].name
      /\ all.children \in Seq(Components) /\ Len(all.children) = Len(S)
      /\ \A i \in 1 .. Len(S) : all.children[i] = image.dirs[S[i]].name
  BY <1>3, NamesOp DEF Shape
<1>7. /\ pc \in [Threads -> PCs] /\ turn \in [Threads -> {"files", "children"}]
      /\ DOMAIN out = Threads /\ DOMAIN out[t] = {"files", "children"}
      /\ kids \in Seq(Nat) /\ leaves \in Seq(Nat)
  <2>1. dirs[e] \in DirEntry
    BY <1>3 DEF Shape
  <2> QED
    BY <2>1 DEF Shape, HandlerTypes, DirEntry
<1>8. /\ FilesMade' /\ Parsed(P)' /\ Grown(P, P)
      /\ \A u \in Threads : pc'[u] = "parse" => AlongFiles(stack[u][1])'
  <2>1. \A u \in Threads : pc'[u] = "parse" <=> pc[u] = "parse"
    BY <1>2, <1>7 DEF ReadReturns
  <2> QED
    BY <1>2, <2>1, TreeRests
<1>9. ASSUME NEW u \in Threads \ {t} PROVE Collected(P, u)'
  <2>1. pc'[u] = pc[u] /\ turn'[u] = turn[u] /\ out'[u] = out[u]
    BY <1>2, <1>7 DEF ReadReturns
  <2> QED
    BY <1>2, <1>8, <2>1, CollectedGrows DEF Exact, InFolder
<1>10. turn[t] \in {"files", "children"}
  BY <1>7
<1> HIDE DEF F, S, kids, leaves, all
<1>11. CASE /\ n < Len(list)
            /\ out' = [out EXCEPT ![t][turn[t]] = Append(@, name(list[n + 1]))]
            /\ UNCHANGED <<pc, lists, turn>>
  <2>1. Listed(P)'
    BY <1>8, <1>11, ListedGrows DEF Exact
  <2>2. /\ out'[t] = [out[t] EXCEPT ![turn[t]] = Append(@, name(list[n + 1]))]
        /\ DOMAIN out'[t] = {"files", "children"}
    BY <1>7, <1>11
  <2>3. out'[t] = [files |-> out'[t].files, children |-> out'[t].children]
    BY <1>10, <1>5, <2>2 DEF Partial
  <2>4. Partial(t, all)'
    <3>1. CASE turn[t] = "files"
      <4>1. /\ list = leaves /\ n = Len(out[t].files)
            /\ out'[t].files = Append(out[t].files, FileName(files[leaves[n + 1]].meta))
            /\ out'[t].children = out[t].children
        BY <1>10, <1>7, <2>2, <3>1 DEF leaves
      <4>2. Prefix(out[t].files, all.files) /\ out[t].children = <<>>
        BY <1>5, <3>1 DEF Partial
      <4>3. Len(leaves) = Len(F) /\ \A i \in DOMAIN leaves : files[leaves[i]].meta = F[i]
        BY <1>4 DEF Whole, leaves, F
      <4>4. n \in Nat /\ n < Len(all.files)
        BY <1>6, <1>11, <4>1, <4>2, <4>3, PrefixGrows
      <4>5. n + 1 \in DOMAIN leaves /\ n + 1 \in 1 .. Len(F)
        BY <1>7, <1>11, <4>1, <4>3, <4>4
      <4>6. FileName(files[leaves[n + 1]].meta) = all.files[n + 1]
        BY <1>6, <4>3, <4>5 DEF FileName
      <4>7. Prefix(out'[t].files, all.files)
        BY <1>6, <4>1, <4>2, <4>4, <4>6, PrefixGrows
      <4>8. all' = all
        BY <1>2 DEF all
      <4> HIDE DEF n, list, name
      <4> QED
        BY <1>2, <1>11, <2>3, <3>1, <4>1, <4>2, <4>7, <4>8 DEF Partial
    <3>2. CASE turn[t] = "children"
      <4>1. /\ list = kids /\ n = Len(out[t].children)
            /\ out'[t].children = Append(out[t].children, DirName(dirs[kids[n + 1]].meta))
            /\ out'[t].files = out[t].files
        BY <1>10, <1>7, <2>2, <3>2 DEF kids
      <4>2. Prefix(out[t].children, all.children) /\ out[t].files = all.files
        BY <1>5, <3>2 DEF Partial
      <4>3. Len(kids) = Len(S) /\ \A i \in DOMAIN kids : dirs[kids[i]].meta = S[i]
        BY <1>4 DEF Whole, kids, S
      <4>4. n \in Nat /\ n < Len(all.children)
        BY <1>6, <1>11, <4>1, <4>2, <4>3, PrefixGrows
      <4>5. n + 1 \in DOMAIN kids /\ n + 1 \in 1 .. Len(S)
        BY <1>7, <1>11, <4>1, <4>3, <4>4
      <4>6. DirName(dirs[kids[n + 1]].meta) = all.children[n + 1]
        BY <1>6, <4>3, <4>5 DEF DirName
      <4>7. Prefix(out'[t].children, all.children)
        BY <1>6, <4>1, <4>2, <4>4, <4>6, PrefixGrows
      <4>8. all' = all
        BY <1>2 DEF all
      <4> HIDE DEF n, list, name
      <4> QED
        BY <1>2, <1>11, <2>3, <3>2, <4>1, <4>2, <4>7, <4>8 DEF Partial
    <3> QED
      BY <1>10, <3>1, <3>2
  <2>5. Collected(P, t)'
    BY <1>2, <1>3, <2>4 DEF Collected, all
  <2> QED
    BY <1>8, <1>9, <2>1, <2>5 DEF Exact
<1>12. CASE n >= Len(list) /\ ReadReturns(t) /\ out' = out
  <2>1. all' = all
    BY <1>2 DEF all
  <2>2. CASE turn[t] = "files"
    <3>1. list = leaves /\ n = Len(out[t].files)
      BY <2>2 DEF leaves
    <3>2. Prefix(out[t].files, all.files) /\ out[t].children = <<>> /\ Len(leaves) = Len(F)
      BY <1>4, <1>5, <2>2 DEF Partial, Whole, leaves, F
    <3>3. out[t].files = all.files
      BY <1>6, <1>12, <3>1, <3>2, PrefixGrows
    <3>4. lists' = lists /\ pc'[t] = "find" /\ turn'[t] = "children"
      BY <1>7, <1>12, <2>2 DEF ReadReturns
    <3>5. Prefix(<<>>, all.children)
      BY <1>6, PrefixNone
    <3>6. Partial(t, all)'
      <4>1. out[t]["children"] = <<>>
        BY <3>2
      <4> QED
        BY <1>5, <1>12, <2>1, <3>2, <3>3, <3>4, <3>5, <4>1 DEF Partial
    <3>7. Collected(P, t)'
      BY <1>2, <1>3, <3>6 DEF Collected, all
    <3>8. Listed(P)'
      BY <1>8, <3>4, ListedGrows DEF Exact
    <3> QED
      BY <1>8, <1>9, <3>7, <3>8 DEF Exact
  <2>3. CASE turn[t] = "children"
    <3>1. list = kids /\ n = Len(out[t].children)
      BY <2>3 DEF kids
    <3>2. Prefix(out[t].children, all.children) /\ out[t].files = all.files /\ Len(kids) = Len(S)
      BY <1>4, <1>5, <2>3 DEF Partial, Whole, kids, S
    <3>3. out[t].children = all.children
      BY <1>6, <1>12, <3>1, <3>2, PrefixGrows
    <3>4. out[t] = all
      BY <1>5, <1>6, <3>2, <3>3 DEF Partial
    <3>5. /\ pc'[t] = "idle"
          /\ lists' = [p \in DOMAIN lists \cup {ask[t]} |-> IF p = ask[t] THEN out[t] ELSE lists[p]]
      BY <1>7, <1>12, <2>3 DEF ReadReturns
    <3>6. Collected(P, t)'
      BY <3>5 DEF Collected, InFolder
    <3>7. Listed(P)'
      <4> SUFFICES ASSUME NEW path \in DOMAIN lists'
                   PROVE  \E x \in DOMAIN dirs : P[x] = path /\ lists'[path] = Names(image, dirs[x].meta)
        BY <1>2 DEF Listed
      <4>1. CASE path = ask[t]
        BY <1>3, <3>4, <3>5, <4>1 DEF all
      <4>2. CASE path # ask[t]
        BY <3>5, <4>2 DEF Exact, Listed
      <4> QED
        BY <4>1, <4>2
    <3> QED
      BY <1>8, <1>9, <3>6, <3>7 DEF Exact
  <2> QED
    BY <1>10, <2>2, <2>3
<1> QED
  BY <1>2, <1>11, <1>12

-----------------------------------------------------------------------------
(* What parse_dir makes.                                                   *)

\* One call of parse_dir, which belongs to a handler or to the thread that opens
\* the image.
LEMMA OneCall ==
  ASSUME Shape, NEW P, HandlerInv(P), NEW t \in Threads, pc[t] = "parse"
  PROVE  /\ stack[t] = <<Top(t)>> /\ Top(t).entry \in DOMAIN dirs
         /\ P[Top(t).entry] = ask[t] /\ ask[t] \notin parsed /\ Along(Top(t))
         /\ \A u \in Threads : pc[u] = "parse" => u = t
         /\ \A e : IsOpen(e) <=> e = Top(t).entry
         /\ \A e \in DOMAIN dirs : P[e] = ask[t] => e = Top(t).entry
<1>1. Len(stack[t]) = 1 /\ P[stack[t][1].entry] = ask[t] /\ ask[t] \notin parsed /\ Along(stack[t][1])
  BY DEF HandlerInv, Parsing
<1>2. stack[t][1] = Top(t) /\ Top(t).entry \in DOMAIN dirs /\ stack[t] \in Seq(FrameType)
  BY <1>1, TopOp
<1>3. stack[t] = <<Top(t)>>
  BY <1>1, <1>2
<1>4. \A u \in Threads : pc[u] = "parse" => u = t
  BY Apart
<1>5. \A e : IsOpen(e) <=> e = Top(t).entry
  BY <1>2, <1>4 DEF IsOpen
<1> QED
  BY <1>1, <1>2, <1>3, <1>4, <1>5 DEF HandlerInv, Labelled

LEMMA ExactParseChild ==
  ASSUME Shape, ~full, NEW P, HandlerInv(P), Exact(P), NEW t \in Threads, ParseChild(t)
  PROVE  \E P2 \in [DOMAIN dirs' -> Seq(Components)] : HandlerInv(P2)' /\ Exact(P2)'
<1>1. PICK P2 \in [DOMAIN dirs' -> Seq(Components)] :
        HandlerInv(P2)' /\ \A x \in DOMAIN dirs : P2[x] = P[x]
  BY ParseChildStep
<1>2. PICK f, e : f = Top(t) /\ e = f.entry
  OBVIOUS
<1> DEFINE new == Len(dirs) + 1
           g == [f EXCEPT !.dir = image.dirs[f.dir].sibling]
<1>3. /\ pc[t] = "parse" /\ f.dir # None
      /\ UNCHANGED <<image, full, parsed, lists, files, mtx, pc, ask, turn, out>>
      /\ dirs' = Append([dirs EXCEPT ![e].children = Append(@, new)],
                        [meta |-> f.dir, parent |-> e, children |-> <<>>, files |-> <<>>])
      /\ stack' = [stack EXCEPT ![t] = Append(Front(stack[t]), g)]
  BY <1>2 DEF ParseChild, shared, search, handler
<1>4. /\ stack[t] = <<f>> /\ e \in DOMAIN dirs /\ P[e] = ask[t] /\ ask[t] \notin parsed
      /\ \A u \in Threads : pc[u] = "parse" => u = t
      /\ \A x : IsOpen(x) <=> x = e
  BY <1>2, <1>3, OneCall
<1>5. f \in FrameType /\ stack \in [Threads -> Seq(FrameType)]
  BY <1>2, <1>3, TopOp DEF Shape
<1>6. /\ DOMAIN dirs = 1 .. Len(dirs) /\ Len(dirs) \in Nat /\ DOMAIN dirs' = 1 .. new
      /\ dirs'[new] = [meta |-> f.dir, parent |-> e, children |-> <<>>, files |-> <<>>]
      /\ \A x \in DOMAIN dirs :
           /\ dirs'[x].meta = dirs[x].meta
           /\ x # e => dirs'[x].children = dirs[x].children
  BY <1>2, ParseChildShape
<1>7. \A x \in DOMAIN dirs : dirs'[x].files = dirs[x].files
  <2>1. dirs \in Seq(DirEntry)
    BY DEF Shape
  <2>2. PICK ds : ds = [dirs EXCEPT ![e].children = Append(@, new)]
    OBVIOUS
  <2>3. DOMAIN ds = 1 .. Len(dirs) /\ \A x \in DOMAIN dirs : ds[x].files = dirs[x].files
    BY <1>4, <1>6, <2>1, <2>2 DEF DirEntry
  <2>4. ds = [x \in 1 .. Len(dirs) |-> ds[x]]
    BY <1>6, <2>2
  <2>5. Len(ds) = Len(dirs)
    BY <1>6, <2>4
  <2>6. \A x \in 1 .. Len(dirs) : dirs'[x] = ds[x]
    BY <1>3, <1>6, <2>2, <2>4, <2>5
  <2> QED
    BY <1>6, <2>3, <2>6
<1>8. Grown(P, P2) /\ new \notin DOMAIN dirs /\ new \in DOMAIN dirs'
      /\ \A x \in DOMAIN dirs' : x \in DOMAIN dirs \/ x = new
  BY <1>1, <1>3, <1>6 DEF Grown
<1>9. stack'[t][1] = g /\ g.entry = e /\ g.file = f.file
  <2>1. Front(<<f>>) = <<>>
    BY DEF Front
  <2>2. Append(Front(stack[t]), g) = <<g>>
    BY <1>4, <2>1
  <2>3. g.entry = f.entry /\ g.file = f.file
    BY <1>5 DEF FrameType
  <2> HIDE DEF g
  <2>4. stack'[t] = <<g>>
    BY <1>3, <1>5, <2>2
  <2> QED
    BY <1>2, <2>3, <2>4
<1> HIDE DEF g
<1>10. dirs'[new].files = <<>>
  BY <1>6
<1> HIDE DEF new
<1>11. FilesMade'
  <2> SUFFICES ASSUME NEW x \in DOMAIN dirs', NEW i \in DOMAIN dirs'[x].files
               PROVE  dirs'[x].files[i] \in DOMAIN files'
    BY DEF FilesMade
  <2>1. DOMAIN <<>> = {}
    OBVIOUS
  <2>2. x \in DOMAIN dirs
    BY <1>8, <1>10, <2>1
  <2> QED
    BY <1>3, <1>7, <2>2 DEF Exact, FilesMade
<1>12. \A x : IsOpen(x)' <=> x = e
  BY <1>3, <1>4, <1>9 DEF IsOpen
<1>13. P2[new] \notin parsed
  <2> SUFFICES ASSUME P2[new] \in parsed PROVE FALSE
    OBVIOUS
  <2>1. PICK x \in DOMAIN dirs : P[x] = P2[new]
    BY DEF Exact, Parsed
  <2>2. P2[x] = P2[new] /\ x \in DOMAIN dirs'
    BY <1>1, <1>8, <2>1 DEF Grown
  <2> QED
    BY <1>1, <1>8, <2>1, <2>2 DEF HandlerInv, Labelled
<1>14. ASSUME NEW x \in DOMAIN dirs, P[x] \in parsed PROVE Whole(x)'
  <2>1. x # e /\ Whole(x)
    BY <1>4, <1>14 DEF Exact, Parsed
  <2>2. \A i \in DOMAIN dirs[x].children : dirs[x].children[i] \in DOMAIN dirs
    BY DEF HandlerInv, Labelled
  <2> QED
    BY <1>3, <1>6, <1>7, <2>1, <2>2, WholeStays
<1>15. Parsed(P2)'
  <2>1. ASSUME NEW x \in DOMAIN dirs', P2[x] \in parsed PROVE Whole(x)'
    BY <1>1, <1>8, <1>13, <1>14, <2>1
  <2>2. ASSUME NEW x \in DOMAIN dirs', P2[x] \notin parsed, dirs'[x].files # <<>> PROVE IsOpen(x)'
    <3>1. x \in DOMAIN dirs /\ P[x] \notin parsed /\ dirs[x].files # <<>>
      BY <1>1, <1>7, <1>8, <1>10, <2>2
    <3> QED
      BY <1>4, <1>12, <3>1 DEF Exact, Parsed
  <2>3. ASSUME NEW path \in parsed PROVE \E x \in DOMAIN dirs' : P2[x] = path
    <3>1. PICK x \in DOMAIN dirs : P[x] = path
      BY DEF Exact, Parsed
    <3> QED
      BY <1>1, <1>8, <3>1 DEF Grown
  <2> QED
    BY <1>3, <2>1, <2>2, <2>3 DEF Parsed
<1>16. ASSUME NEW u \in Threads, pc'[u] = "parse" PROVE AlongFiles(stack[u][1])'
  <2>1. u = t /\ stack'[u][1] = g
    BY <1>3, <1>4, <1>9, <1>16
  <2>2. AlongFiles(f)
    BY <1>3, <1>4 DEF Exact
  <2>3. dirs[e].files = <<>>
    BY <1>2, <1>3, <2>2 DEF AlongFiles
  <2>4. dirs'[e].files = dirs[e].files /\ dirs'[e].meta = dirs[e].meta
    BY <1>4, <1>6, <1>7
  <2>5. /\ stack'[u][1].file = f.file /\ dirs'[stack'[u][1].entry].files = <<>>
        /\ image' = image /\ dirs'[stack'[u][1].entry].meta = dirs[f.entry].meta /\ dirs[f.entry].files = <<>>
    BY <1>2, <1>3, <1>9, <2>1, <2>3, <2>4
  <2>6. DOMAIN <<>> = {}
    OBVIOUS
  <2> QED
    BY <2>2, <2>5, <2>6 DEF AlongFiles
<1>17. \A u \in Threads : Collected(P2, u)'
  BY <1>3, <1>8, CollectedGrows DEF Exact, InFolder
<1>18. Listed(P2)'
  BY <1>3, <1>8, ListedGrows DEF Exact
<1> QED
  BY <1>1, <1>11, <1>15, <1>16, <1>17, <1>18 DEF Exact

LEMMA ExactParseFile ==
  ASSUME Shape, ~full, NEW P, HandlerInv(P), Exact(P), NEW t \in Threads, ParseFile(t)
  PROVE  Exact(P)'
<1>1. PICK f, e : f = Top(t) /\ e = f.entry
  OBVIOUS
<1> DEFINE new == Len(files) + 1
           g == [f EXCEPT !.file = image.files[f.file].sibling]
           made == dirs[e].files
           F == DirFiles(image, dirs[e].meta)
<1>2. /\ pc[t] = "parse" /\ f.dir = None /\ f.file # None
      /\ UNCHANGED <<image, parsed, lists, mtx, pc, ask, turn, out>>
      /\ files' = Append(files, [meta |-> f.file, parent |-> e])
      /\ dirs' = [dirs EXCEPT ![e].files = Append(@, new)]
      /\ stack' = [stack EXCEPT ![t] = Append(Front(stack[t]), g)]
  BY <1>1 DEF ParseFile, shared, search, handler
<1>3. /\ stack[t] = <<f>> /\ e \in DOMAIN dirs /\ P[e] = ask[t] /\ ask[t] \notin parsed
      /\ \A u \in Threads : pc[u] = "parse" => u = t
      /\ \A x : IsOpen(x) <=> x = e
  BY <1>1, <1>2, OneCall
<1>4. f \in FrameType /\ stack \in [Threads -> Seq(FrameType)] /\ files \in Seq(FileEntry)
  BY <1>1, <1>2, TopOp DEF Shape
<1>5. /\ DOMAIN dirs' = DOMAIN dirs
      /\ \A x \in DOMAIN dirs : dirs'[x].meta = dirs[x].meta /\ dirs'[x].children = dirs[x].children
  BY ParseFileShape
<1>6. /\ made \in Seq(Nat) /\ dirs'[e].files = Append(made, new)
      /\ \A x \in DOMAIN dirs \ {e} : dirs'[x].files = dirs[x].files
  <2>1. \A x \in DOMAIN dirs : dirs[x] \in DirEntry
    BY DEF Shape
  <2> QED
    BY <1>2, <1>3, <2>1 DEF DirEntry
<1>7. /\ DOMAIN files = 1 .. Len(files) /\ Len(files) \in Nat
      /\ DOMAIN files' = 1 .. new
      /\ \A x \in DOMAIN files : files'[x].meta = files[x].meta
      /\ files'[new].meta = f.file
  BY <1>2, <1>4
<1>8. Grown(P, P) /\ \A x \in DOMAIN files : x \in DOMAIN files'
  BY <1>2, <1>5, <1>7 DEF Grown
<1>9. stack'[t][1] = g /\ g.entry = e /\ g.dir = None /\ g.file = image.files[f.file].sibling
  <2>1. Front(<<f>>) = <<>>
    BY DEF Front
  <2>2. Append(Front(stack[t]), g) = <<g>>
    BY <1>3, <2>1
  <2>3. g.entry = f.entry /\ g.dir = f.dir /\ g.file = image.files[f.file].sibling
    BY <1>4 DEF FrameType
  <2> HIDE DEF g
  <2>4. stack'[t] = <<g>>
    BY <1>2, <1>4, <2>2
  <2> QED
    BY <1>1, <1>2, <2>3, <2>4
<1> HIDE DEF g
<1>10. /\ Len(F) \in Nat /\ DOMAIN F = 1 .. Len(F)
       /\ \A i \in 1 .. Len(F) : image.files[F[i]].sibling = IF i = Len(F) THEN None ELSE F[i + 1]
  <2>1. image \in Images /\ dirs[e].meta \in Places
    BY <1>3 DEF Shape
  <2> HIDE DEF made
  <2> QED
    BY <2>1, DirFilesOp
<1>11. /\ Len(made) <= Len(F)
       /\ \A i \in DOMAIN made : files[made[i]].meta = F[i]
       /\ f.file = IF Len(made) = Len(F) THEN None ELSE F[Len(made) + 1]
  <2>1. AlongFiles(f)
    BY <1>2, <1>3 DEF Exact
  <2> QED
    BY <1>1, <2>1 DEF AlongFiles
<1>12. \A i \in DOMAIN made : made[i] \in DOMAIN files
  BY <1>3 DEF Exact, FilesMade
<1> HIDE DEF F, made
<1>13. /\ Len(made) \in Nat /\ DOMAIN made = 1 .. Len(made)
       /\ Len(Append(made, new)) = Len(made) + 1 /\ DOMAIN Append(made, new) = 1 .. Len(made) + 1
       /\ \A i \in 1 .. Len(made) : Append(made, new)[i] = made[i]
       /\ Append(made, new)[Len(made) + 1] = new
  <2>1. new \in Nat
    BY <1>7
  <2> HIDE DEF new
  <2> QED
    BY <1>6, <2>1, AppendOp
<1> HIDE DEF new
<1>14. Len(made) + 1 \in 1 .. Len(F) /\ f.file = F[Len(made) + 1]
  <2>1. Len(made) # Len(F) /\ f.file = F[Len(made) + 1]
    BY <1>2, <1>11
  <2>2. Len(made) \in Nat /\ Len(F) \in Nat /\ Len(made) <= Len(F)
    BY <1>10, <1>11, <1>13
  <2> QED
    BY <2>1, <2>2
<1>15. \A i \in 1 .. Len(made) + 1 :
         Append(made, new)[i] \in DOMAIN files' /\ files'[Append(made, new)[i]].meta = F[i]
  <2> TAKE i \in 1 .. Len(made) + 1
  <2>1. CASE i \in 1 .. Len(made)
    BY <1>7, <1>8, <1>11, <1>12, <1>13, <2>1
  <2>2. CASE i = Len(made) + 1
    <3>1. new \in DOMAIN files'
      BY <1>7 DEF new
    <3> QED
      BY <1>7, <1>13, <1>14, <2>2, <3>1
  <2>3. i \in 1 .. Len(made) \/ i = Len(made) + 1
    BY <1>13
  <2> QED
    BY <2>1, <2>2, <2>3
<1>16. FilesMade'
  <2> SUFFICES ASSUME NEW x \in DOMAIN dirs, NEW i \in DOMAIN dirs'[x].files
               PROVE  dirs'[x].files[i] \in DOMAIN files'
    BY <1>5 DEF FilesMade
  <2>1. CASE x = e
    BY <1>6, <1>13, <1>15, <2>1
  <2>2. CASE x # e
    BY <1>6, <1>8, <2>2 DEF Exact, FilesMade
  <2> QED
    BY <2>1, <2>2
<1>17. \A x : IsOpen(x)' <=> x = e
  BY <1>2, <1>3, <1>9 DEF IsOpen
<1>18. ASSUME NEW x \in DOMAIN dirs, P[x] \in parsed PROVE Whole(x)'
  <2>1. x # e /\ Whole(x)
    BY <1>3, <1>18 DEF Exact, Parsed
  <2>2. \A i \in DOMAIN dirs[x].children : dirs[x].children[i] \in DOMAIN dirs
    BY DEF HandlerInv, Labelled
  <2>3. \A i \in DOMAIN dirs[x].files : dirs[x].files[i] \in DOMAIN files
    BY DEF Exact, FilesMade
  <2>4. dirs'[x].files = dirs[x].files
    BY <1>6, <2>1
  <2> QED
    BY <1>2, <1>5, <1>7, <2>1, <2>2, <2>3, <2>4, WholeStays
<1>19. Parsed(P)'
  <2>1. ASSUME NEW x \in DOMAIN dirs, P[x] \notin parsed, dirs'[x].files # <<>> PROVE IsOpen(x)'
    BY <1>3, <1>6, <1>17, <2>1 DEF Exact, Parsed
  <2>2. \A path \in parsed : \E x \in DOMAIN dirs : P[x] = path
    BY DEF Exact, Parsed
  <2> QED
    BY <1>2, <1>5, <1>18, <2>1, <2>2 DEF Parsed
<1>20. ASSUME NEW u \in Threads, pc'[u] = "parse" PROVE AlongFiles(stack[u][1])'
  <2>1. u = t /\ stack'[u][1] = g
    BY <1>2, <1>3, <1>9, <1>20
  <2>2. PICK m : m = Append(made, new) /\ m = dirs'[e].files
    BY <1>6
  <2>3. /\ Len(m) = Len(made) + 1 /\ DOMAIN m = 1 .. Len(made) + 1
        /\ \A i \in DOMAIN m : files'[m[i]].meta = F[i]
    BY <1>13, <1>15, <2>2
  <2>4. Len(m) <= Len(F) /\ g.file = IF Len(m) = Len(F) THEN None ELSE F[Len(m) + 1]
    <3>1. Len(m) \in 1 .. Len(F) /\ f.file = F[Len(m)] /\ Len(F) \in Nat
      <4>1. Len(m) \in 1 .. Len(F) /\ f.file = F[Len(m)]
        BY <1>14, <2>3
      <4> QED
        BY <1>10, <4>1
    <3>2. g.file = IF Len(m) = Len(F) THEN None ELSE F[Len(m) + 1]
      BY <1>9, <1>10, <3>1
    <3>3. Len(m) <= Len(F)
      BY <3>1
    <3> QED
      BY <3>2, <3>3
  <2>5. F = DirFiles(image', dirs'[g.entry].meta) /\ m = dirs'[g.entry].files
    BY <1>2, <1>3, <1>5, <1>9, <2>2 DEF F
  <2> QED
    BY <1>9, <2>1, <2>3, <2>4, <2>5 DEF AlongFiles
<1>21. \A u \in Threads : Collected(P, u)'
  BY <1>2, <1>8, CollectedGrows DEF Exact, InFolder
<1>22. Listed(P)'
  BY <1>2, <1>8, ListedGrows DEF Exact
<1> QED
  BY <1>16, <1>19, <1>20, <1>21, <1>22 DEF Exact

\* A call that has come to the end of both chains.
LEMMA CallDone ==
  ASSUME Shape, NEW f, NEW e \in DOMAIN dirs, f.entry = e, Along(f), AlongFiles(f), f.dir = None, f.file = None
  PROVE  Whole(e)
<1> DEFINE kids == dirs[e].children
           leaves == dirs[e].files
           S == SubDirs(image, dirs[e].meta)
           F == DirFiles(image, dirs[e].meta)
<1>1. /\ \A i \in DOMAIN kids : dirs[kids[i]].meta = S[i]
      /\ Len(kids) <= Len(S) /\ None = IF Len(kids) = Len(S) THEN None ELSE S[Len(kids) + 1]
  BY DEF Along
<1>2. /\ \A i \in DOMAIN leaves : files[leaves[i]].meta = F[i]
      /\ Len(leaves) <= Len(F) /\ None = IF Len(leaves) = Len(F) THEN None ELSE F[Len(leaves) + 1]
  BY DEF AlongFiles
<1>3. kids \in Seq(Nat) /\ leaves \in Seq(Nat) /\ image \in Images /\ dirs[e].meta \in Places
  <2>1. dirs[e] \in DirEntry
    BY DEF Shape
  <2> QED
    BY <2>1 DEF Shape, DirEntry
<1>4. Len(kids) \in Nat /\ Len(leaves) \in Nat
  BY <1>3
<1>5. PICK d : d = dirs[e].meta
  OBVIOUS
<1>6. Len(S) \in Nat /\ \A i \in 1 .. Len(S) : S[i] \in Places
  BY <1>3, <1>5, SubDirsOp
<1>7. Len(F) \in Nat /\ \A i \in 1 .. Len(F) : F[i] # None
  <2>1. PICK G : G = F
    OBVIOUS
  <2>2. d \in Places /\ G = DirFiles(image, d)
    BY <1>3, <1>5, <2>1
  <2> HIDE DEF F
  <2>3. Len(G) \in Nat /\ \A i \in 1 .. Len(G) : G[i] \in DOMAIN image.files /\ G[i] # None
    BY <1>3, <2>2, DirFilesOp
  <2> QED
    BY <2>1, <2>3
<1>8. None \notin Places
  BY DEF None, Places
<1> HIDE DEF kids, leaves, S, F
<1>9. Len(kids) = Len(S)
  <2> SUFFICES ASSUME Len(kids) # Len(S) PROVE FALSE
    OBVIOUS
  <2>1. Len(kids) + 1 \in 1 .. Len(S)
    BY <1>1, <1>4, <1>6
  <2> QED
    BY <1>1, <1>6, <1>8, <2>1
<1>10. Len(leaves) = Len(F)
  <2> SUFFICES ASSUME Len(leaves) # Len(F) PROVE FALSE
    OBVIOUS
  <2>1. Len(leaves) + 1 \in 1 .. Len(F)
    BY <1>2, <1>4, <1>7
  <2> QED
    BY <1>2, <1>7, <2>1
<1> QED
  BY <1>1, <1>2, <1>9, <1>10 DEF Whole, kids, leaves, S, F

LEMMA ExactParseReturns ==
  ASSUME Shape, ~full, NEW P, HandlerInv(P), Exact(P), NEW t \in Threads, ParseReturns(t)
  PROVE  Exact(P)'
<1>1. PICK f, e : f = Top(t) /\ e = f.entry
  OBVIOUS
<1>2. /\ pc[t] = "parse" /\ f.dir = None /\ f.file = None
      /\ UNCHANGED <<image, lists, dirs, files, mtx, ask, turn, out>>
  BY <1>1 DEF ParseReturns, tree, search, handler
<1>3. /\ stack[t] = <<f>> /\ e \in DOMAIN dirs /\ P[e] = ask[t] /\ ask[t] \notin parsed /\ Along(f)
      /\ \A u \in Threads : pc[u] = "parse" => u = t
      /\ \A x : IsOpen(x) <=> x = e
      /\ \A x \in DOMAIN dirs : P[x] = ask[t] => x = e
  BY <1>1, <1>2, OneCall
<1>4. /\ \A u \in Threads \ {t} : pc'[u] = pc[u] /\ stack'[u] = stack[u]
      /\ pc'[t] = (IF mtx = t THEN "unlock" ELSE "idle") /\ parsed' = parsed \cup {ask[t]}
  <2>1. Len(stack[t]) = 1
    BY <1>3
  <2> QED
    BY <2>1, ParseReturnsShape
<1>5. Grown(P, P) /\ FilesMade'
  BY <1>2 DEF Grown, Exact, FilesMade
<1>6. Whole(e)
  <2>1. AlongFiles(f)
    BY <1>2, <1>3 DEF Exact
  <2> QED
    BY <1>1, <1>2, <1>3, <2>1, CallDone
<1>7. \A x : Whole(x)' <=> Whole(x)
  BY <1>2 DEF Whole
<1>8. Parsed(P)'
  <2>1. ASSUME NEW x \in DOMAIN dirs, P[x] \in parsed' PROVE Whole(x)'
    BY <1>3, <1>4, <1>6, <1>7, <2>1 DEF Exact, Parsed
  <2>2. ASSUME NEW x \in DOMAIN dirs, P[x] \notin parsed', dirs[x].files # <<>> PROVE FALSE
    BY <1>3, <1>4, <2>2 DEF Exact, Parsed
  <2>3. \A path \in parsed' : \E x \in DOMAIN dirs : P[x] = path
    BY <1>3, <1>4 DEF Exact, Parsed
  <2> QED
    BY <1>2, <2>1, <2>2, <2>3 DEF Parsed
<1>9. \A u \in Threads : pc'[u] # "parse"
  BY <1>3, <1>4
<1>10. \A u \in Threads : Collected(P, u)'
  <2> TAKE u \in Threads
  <2>1. InFolder(u)' => InFolder(u) /\ (pc[u] = "collect" => pc'[u] = "collect")
    BY <1>2, <1>4 DEF InFolder
  <2> QED
    BY <1>2, <1>5, <2>1, CollectedGrows DEF Exact
<1>11. Listed(P)'
  BY <1>2, <1>5, ListedGrows DEF Exact
<1> QED
  BY <1>5, <1>8, <1>9, <1>10, <1>11 DEF Exact

LEMMA ExactOpen ==
  ASSUME Shape, ~full, NEW P, HandlerInv(P), Exact(P), NEW t \in Threads, Open(t)
  PROVE  \E P2 \in [DOMAIN dirs' -> Seq(Components)] : HandlerInv(P2)' /\ Exact(P2)'
<1> DEFINE fresh == [meta |-> 1, parent |-> None, children |-> <<>>, files |-> <<>>]
<1>1. PICK P2 \in [DOMAIN dirs' -> Seq(Components)] : HandlerInv(P2)'
  BY OpenStep
<1>2. dirs = <<>> /\ DOMAIN dirs = {}
  BY DEF Open
<1>3. parsed = {} /\ DOMAIN lists = {}
  BY <1>2 DEF Exact, Parsed, Listed
<1>4. /\ UNCHANGED <<image, parsed, lists, mtx, files>> /\ mtx = Nobody /\ Nobody \notin Threads
      /\ \A u \in Threads : pc[u] = "idle"
      /\ \A u \in Threads \ {t} : pc'[u] = "idle"
      /\ pc'[t] = "parse" /\ stack'[t] = <<Frame(Len(dirs) + 1, 1)>> /\ dirs' = Append(dirs, fresh)
  BY <1>2, <1>3, OpenShape, RomFsAssumption DEF Shape, HandlerInv, Opened, Open, shared
<1>5. DOMAIN dirs' = {1} /\ dirs'[1] = fresh /\ Len(dirs) + 1 = 1
  <2>1. Append(<<>>, fresh) = <<fresh>> /\ Len(<<>>) + 1 = 1
    OBVIOUS
  <2> HIDE DEF fresh
  <2> QED
    BY <1>2, <1>4, <2>1
<1>6. dirs'[1].files = <<>> /\ dirs'[1].meta = 1 /\ DOMAIN <<>> = {} /\ Len(<<>>) = 0
  BY <1>5
<1> HIDE DEF fresh
<1>7. FilesMade' /\ Parsed(P2)' /\ Listed(P2)'
  BY <1>3, <1>4, <1>5, <1>6 DEF FilesMade, Parsed, Listed
<1>8. \A u \in Threads : Collected(P2, u)'
  <2>1. \A u \in Threads : ~InFolder(u)'
    BY <1>4 DEF InFolder
  <2> QED
    BY <2>1 DEF Collected
<1>9. AlongFiles(stack[t][1])'
  <2> DEFINE F == DirFiles(image, 1)
  <2>1. stack'[t][1].entry = 1 /\ stack'[t][1].file = image.dirs[1].file
    BY <1>4, <1>5 DEF Frame
  <2>2. Len(F) \in Nat /\ image.dirs[1].file = IF Len(F) = 0 THEN None ELSE F[1]
    BY ImageOp, DirFilesOp DEF Shape
  <2> HIDE DEF F
  <2>3. 0 <= Len(F) /\ stack'[t][1].file = IF 0 = Len(F) THEN None ELSE F[0 + 1]
    BY <2>1, <2>2
  <2> QED
    BY <1>4, <1>6, <2>1, <2>3 DEF AlongFiles, F
<1> QED
  BY <1>1, <1>4, <1>7, <1>8, <1>9 DEF Exact

\* Of a Python program the lists are not spoken of: it has none.
ExactInv ==
  /\ Shape
  /\ full => OneParse /\ lists = [p \in {} |-> Nothing]
  /\ ~full => \E P \in [DOMAIN dirs -> Seq(Components)] : HandlerInv(P) /\ Exact(P)

LEMMA ExactStep ==
  ASSUME Shape, ~full, NEW P, HandlerInv(P), Exact(P), [Next]_vars
  PROVE  \E P2 \in [DOMAIN dirs' -> Seq(Components)] : HandlerInv(P2)' /\ Exact(P2)'
<1>1. ASSUME HandlerInv(P)', Exact(P)'
      PROVE  \E P2 \in [DOMAIN dirs' -> Seq(Components)] : HandlerInv(P2)' /\ Exact(P2)'
  <2>1. P \in [DOMAIN dirs' -> Seq(Components)]
    BY <1>1 DEF HandlerInv, Labelled
  <2> QED
    BY <1>1, <2>1
<1>2. CASE UNCHANGED vars
  <2>1. UNCHANGED <<image, dirs, files, parsed, stack, lists, mtx, pc, ask, turn, out, at, cur, meta>>
    BY <1>2 DEF vars
  <2>2. /\ FilesMade' /\ Parsed(P)' /\ Grown(P, P)
        /\ \A u \in Threads : pc'[u] = "parse" => AlongFiles(stack[u][1])'
    BY <2>1, TreeRests
  <2>3. Exact(P)'
    BY <2>1, <2>2, CollectedGrows, ListedGrows DEF Exact, InFolder
  <2>4. HandlerInv(P)'
    <3>1. Opened' /\ Labelled(P)' /\ AllReady(P)'
      BY <1>2 DEF vars, HandlerInv, Opened, Labelled, DirName, AllReady, ListsReady, HandlerReady
    <3>2. Parsing(P)'
      <4>1. \A u \in Threads : Along(stack[u][1])' <=> Along(stack[u][1])
        BY <1>2 DEF vars, Along
      <4> QED
        BY <1>2, <4>1 DEF vars, HandlerInv, Parsing
    <3>3. Searching(P)'
      <4>1. \A u \in Threads : Search(P, u)'
        BY <1>2, SearchGrows DEF vars, HandlerInv, Searching
      <4> QED
        BY <4>1 DEF Searching
    <3> QED
      BY <3>1, <3>2, <3>3 DEF HandlerInv
  <2> QED
    BY <1>1, <2>3, <2>4
<1>3. ASSUME NEW t \in Threads, Open(t) \/ ParseChild(t)
      PROVE  \E P2 \in [DOMAIN dirs' -> Seq(Components)] : HandlerInv(P2)' /\ Exact(P2)'
  BY <1>3, ExactOpen, ExactParseChild
<1>4. ASSUME NEW t \in Threads, GetEntries(t)
      PROVE  FALSE
  BY <1>4 DEF GetEntries, Goto, HandlerInv, Opened
<1>5. ASSUME NEW t \in Threads, \E path \in Known : Begin(t, path)
      PROVE  HandlerInv(P)' /\ Exact(P)'
  BY <1>5, BeginStep, ExactBegin
<1>6. ASSUME NEW t \in Threads, LockFolder(t) \/ Unlock(t)
      PROVE  HandlerInv(P)' /\ Exact(P)'
  BY <1>6, MoveSteps, UnlockStep, ExactMoves
<1>7. ASSUME NEW t \in Threads, Find(t)
      PROVE  HandlerInv(P)' /\ Exact(P)'
  BY <1>7, MoveSteps, FindHashStep, FindChainStep, FindChildStep, ExactFind DEF Find
<1>8. ASSUME NEW t \in Threads, LockParse(t) \/ ParseFile(t)
      PROVE  HandlerInv(P)' /\ Exact(P)'
  BY <1>8, LockParseStep, ParseFileStep, ExactLockParse, ExactParseFile
<1>9. ASSUME NEW t \in Threads, ParseReturns(t) \/ Collect(t)
      PROVE  HandlerInv(P)' /\ Exact(P)'
  BY <1>9, ParseReturnsStep, CollectStep, ExactParseReturns, ExactCollect
<1> QED
  BY <1>1, <1>2, <1>3, <1>4, <1>5, <1>6, <1>7, <1>8, <1>9 DEF Next, Handle, Parse

LEMMA ExactInit == Init => ExactInv
<1> SUFFICES ASSUME Init PROVE ExactInv
  OBVIOUS
<1>1. RomFsInv
  BY RomFsInit
<1>2. ASSUME NEW P PROVE Exact(P)
  <2>1. DOMAIN dirs = {} /\ DOMAIN lists = {} /\ parsed = {}
    BY DEF Init
  <2>2. \A t \in Threads : pc[t] = "idle"
    BY DEF Init
  <2> QED
    BY <2>1, <2>2 DEF Exact, FilesMade, Parsed, Listed, Collected, InFolder
<1> QED
  BY <1>1, <1>2 DEF RomFsInv, ExactInv, Init

LEMMA ExactKept == ExactInv /\ [Next]_vars => ExactInv'
<1> SUFFICES ASSUME ExactInv, [Next]_vars PROVE ExactInv'
  OBVIOUS
<1>1. CASE full
  <2>1. Shape' /\ full' /\ OneParse'
    BY <1>1, PythonStep DEF ExactInv
  <2>2. lists' = lists
    <3>1. \A t \in Threads : pc[t] \in {"idle", "parse", "entries"}
      BY <1>1 DEF ExactInv, OneParse
    <3>2. ASSUME NEW t \in Threads, Open(t) \/ Parse(t) \/ GetEntries(t) PROVE lists' = lists
      BY <3>2 DEF Open, Parse, ParseChild, ParseFile, ParseReturns, GetEntries, shared
    <3>3. ASSUME NEW t \in Threads, Handle(t) PROVE Parse(t) \/ GetEntries(t)
      BY <3>1, <3>3 DEF Handle, LockFolder, Find, FindBegins, FindHash, FindChain, FindChild, Found,
                        LockParse, Unlock, Collect, Goto
    <3>4. ASSUME NEW t \in Threads, NEW path, Begin(t, path) PROVE FALSE
      BY <1>1, <3>4 DEF Begin
    <3> QED
      BY <3>2, <3>3, <3>4 DEF Next, vars
  <2> QED
    BY <1>1, <2>1, <2>2 DEF ExactInv
<1>2. CASE ~full
  <2>1. PICK P \in [DOMAIN dirs -> Seq(Components)] : HandlerInv(P) /\ Exact(P)
    BY <1>2 DEF ExactInv
  <2>2. Shape /\ Shape' /\ ~full'
    BY <1>2, <2>1, HandlerStep DEF ExactInv
  <2> QED
    BY <1>2, <2>1, <2>2, ExactStep DEF ExactInv
<1> QED
  BY <1>1, <1>2

LEMMA InvListsExact == ExactInv => ListsExact
<1> SUFFICES ASSUME ExactInv, NEW path \in DOMAIN lists
             PROVE  lists[path] = Names(image, DirAt(path))
  BY DEF ListsExact
<1>1. Shape /\ ~full
  BY DEF ExactInv
<1>2. PICK P : Labelled(P) /\ Listed(P)
  BY <1>1 DEF ExactInv, HandlerInv, Exact
<1> QED
  BY <1>1, <1>2, LabelIsRight DEF Listed

\* find_dir leads to the directory of the path, whichever names share its hash
\* chain and whatever is parsed meanwhile (romfs.cpp:104-141).
THEOREM FindsRight == Spec => []FoundRight
<1>1. RomFsInv /\ [Next]_vars => RomFsInv'
  BY RomFsStep
<1> QED
  BY <1>1, RomFsInit, InvFoundRight, PTL DEF Spec

\* What a container returns for a directory is what the image has in it, each
\* name once and in order: whoever of read_files and read_folders comes first has
\* it parsed, the parsed flag keeps the other from doing it again, and no entry is
\* read before it has all it holds (containers.cpp:57-80, containers.hpp:91-97,
\* romfs.cpp:58-141).
THEOREM ContainersListExactly == Spec => []ListsExact
<1>1. ExactInv /\ [Next]_vars => ExactInv'
  BY ExactKept
<1> QED
  BY <1>1, ExactInit, InvListsExact, PTL DEF Spec

-----------------------------------------------------------------------------
(* The tree of entries.                                                    *)

InCall(e) ==
  \E t \in Threads : pc[t] = "parse" /\ \E i \in DOMAIN stack[t] : stack[t][i].entry = e

\* A Python program that parsed the image before had B entries of directories and
\* C of files when it called parse_full last.  The entries of either call are a
\* tree of their own, whose root is the first of them.
TreeOfDirs(B) ==
  /\ B + 1 \in DOMAIN dirs
  /\ \A e \in {1, B + 1} : dirs[e].meta = 1 /\ dirs[e].parent = None
  /\ \A e \in DOMAIN dirs \ {1, B + 1} :
       LET p == dirs[e].parent
       IN  /\ p \in 1 .. e - 1 /\ (p <= B <=> e <= B)
           /\ dirs[e].meta # 1 /\ image.dirs[dirs[e].meta].parent = dirs[p].meta
           /\ \E i \in DOMAIN dirs[p].children : dirs[p].children[i] = e
  /\ \A e \in DOMAIN dirs : \A i \in DOMAIN dirs[e].children :
       LET c == dirs[e].children[i]
       IN  c \in DOMAIN dirs \ {1, B + 1} /\ dirs[c].parent = e
  /\ \A e1, e2 \in DOMAIN dirs :
       (e1 <= B <=> e2 <= B) /\ dirs[e1].meta = dirs[e2].meta => e1 = e2

TreeOfFiles(B, C) ==
  /\ C <= Len(files)
  /\ \A e \in DOMAIN dirs : \A i \in DOMAIN dirs[e].files :
       LET f == dirs[e].files[i]
       IN  f \in DOMAIN files /\ files[f].parent = e
  /\ \A f \in DOMAIN files :
       LET e == files[f].parent
       IN  /\ e \in DOMAIN dirs /\ (f <= C <=> e <= B)
           /\ files[f].meta \in DOMAIN image.files
           /\ image.files[files[f].meta].parent = dirs[e].meta
           /\ \E i \in DOMAIN dirs[e].files : dirs[e].files[i] = f
  /\ \A f1, f2 \in DOMAIN files :
       (f1 <= C <=> f2 <= C) /\ files[f1].meta = files[f2].meta => f1 = f2

\* The calls of parse_dir within parse_full, each for an entry of its own; an
\* entry no call is for has all its directory holds.
Calls(B) ==
  /\ \A t \in Threads : pc[t] = "parse" =>
       /\ \A i \in DOMAIN stack[t] :
            stack[t][i].entry > B /\ Along(stack[t][i]) /\ AlongFiles(stack[t][i])
       /\ \A i, j \in DOMAIN stack[t] : stack[t][i].entry = stack[t][j].entry => i = j
  /\ \A e \in DOMAIN dirs : Whole(e) \/ InCall(e)

FullTree(B, C) ==
  /\ (B = 0 /\ C = 0) \/ (B = Len(image.dirs) /\ C = Len(image.files))
  /\ TreeOfDirs(B) /\ TreeOfFiles(B, C) /\ Calls(B)

FullInv ==
  /\ Shape /\ full /\ OneParse
  /\ (dirs = <<>> /\ files = <<>>) \/ \E B, C \in Nat : FullTree(B, C)

LEMMA ParentOp ==
  ASSUME image \in Images, NEW d \in Places \ {1}
  PROVE  image.dirs[d].parent \in 1 .. d - 1
<1>1. d \in 2 .. Len(image.dirs)
  BY ImageOp DEF Places
<1>2. \A c \in 2 .. Len(image.dirs) : image.dirs[c].parent \in 1 .. c - 1
  BY RomFsAssumption DEF WellFormed
<1> QED
  BY <1>1, <1>2

\* What an entry has of its directory, as a sequence.
LEMMA WholeOp ==
  ASSUME Shape, NEW e \in DOMAIN dirs, Whole(e)
  PROVE  /\ [i \in DOMAIN dirs[e].children |-> dirs[dirs[e].children[i]].meta] = SubDirs(image, dirs[e].meta)
         /\ [i \in DOMAIN dirs[e].files |-> files[dirs[e].files[i]].meta] = DirFiles(image, dirs[e].meta)
<1>1. PICK kids, leaves, d, S, F :
        /\ kids = dirs[e].children /\ leaves = dirs[e].files /\ d = dirs[e].meta
        /\ S = SubDirs(image, d) /\ F = DirFiles(image, d)
  OBVIOUS
<1>2. kids \in Seq(Nat) /\ leaves \in Seq(Nat) /\ d \in Places /\ image \in Images
  <2>1. dirs[e] \in DirEntry
    BY DEF Shape
  <2> QED
    BY <1>1, <2>1 DEF Shape, DirEntry
<1>3. S \in Seq(Places) /\ Len(S) \in Nat /\ DOMAIN S = 1 .. Len(S)
  BY <1>1, <1>2, SubDirsOp
<1>4. F \in Seq(DOMAIN image.files) /\ Len(F) \in Nat /\ DOMAIN F = 1 .. Len(F)
  BY <1>1, <1>2, DirFilesOp
<1>5. DOMAIN kids = 1 .. Len(S) /\ \A i \in DOMAIN kids : dirs[kids[i]].meta = S[i]
  BY <1>1, <1>2 DEF Whole
<1>6. DOMAIN leaves = 1 .. Len(F) /\ \A i \in DOMAIN leaves : files[leaves[i]].meta = F[i]
  BY <1>1, <1>2 DEF Whole
<1>7. S = [i \in 1 .. Len(S) |-> S[i]] /\ F = [i \in 1 .. Len(F) |-> F[i]]
  BY <1>3, <1>4
<1> QED
  BY <1>1, <1>5, <1>6, <1>7

\* Under handlers there is one tree, and what has been parsed is in it whole.
LEMMA HandlersTree ==
  ASSUME ExactInv, ~full
  PROVE  TreeExact
<1>1. PICK P : HandlerInv(P) /\ Exact(P)
  BY DEF ExactInv
<1>2. \A e1, e2 \in DOMAIN dirs : dirs[e1].meta = dirs[e2].meta => e1 = e2
  BY <1>1 DEF HandlerInv, Labelled
<1>3. ASSUME NEW e \in DOMAIN dirs PROVE Hung(e)
  <2> DEFINE kids == [i \in DOMAIN dirs[e].children |-> dirs[dirs[e].children[i]].meta]
             leaves == [i \in DOMAIN dirs[e].files |-> files[dirs[e].files[i]].meta]
             open == \E t \in Threads : \E i \in DOMAIN stack[t] : stack[t][i].entry = e
             all == kids = SubDirs(image, dirs[e].meta) /\ leaves = DirFiles(image, dirs[e].meta)
  <2>1. \A c \in ToSet(dirs[e].children) : dirs[c].parent = e
    BY <1>1, <1>3 DEF HandlerInv, Labelled, ToSet
  <2>2. ASSUME ~open PROVE all \/ (kids = <<>> /\ leaves = <<>>)
    <3>1. ~IsOpen(e)
      <4> SUFFICES ASSUME IsOpen(e) PROVE FALSE
        OBVIOUS
      <4>1. PICK t \in Threads : pc[t] = "parse" /\ stack[t][1].entry = e
        BY DEF IsOpen
      <4>2. Len(stack[t]) = 1 /\ DOMAIN stack[t] = 1 .. Len(stack[t])
        BY <1>1, <4>1, TopOp DEF ExactInv, HandlerInv, Parsing
      <4>3. 1 \in DOMAIN stack[t]
        BY <4>2
      <4> QED
        BY <2>2, <4>1, <4>3
    <3>2. CASE P[e] \in parsed
      <4>1. Whole(e)
        BY <1>1, <3>2 DEF Exact, Parsed
      <4> QED
        BY <4>1, WholeOp DEF ExactInv
    <3>3. CASE P[e] \notin parsed
      <4>1. dirs[e].children = <<>> /\ dirs[e].files = <<>>
        BY <1>1, <3>1, <3>3 DEF HandlerInv, Parsing, Exact, Parsed, IsOpen
      <4>2. DOMAIN <<>> = {}
        OBVIOUS
      <4> QED
        BY <4>1, <4>2
    <3> QED
      BY <3>2, <3>3
  <2> QED
    BY <2>1, <2>2 DEF Hung
<1> QED
  BY <1>2, <1>3 DEF TreeExact

\* An entry belongs to the first tree or to the second.
LEMMA CopyOp ==
  ASSUME NEW n \in Nat \ {0}, NEW e1 \in Nat \ {0}, NEW e2 \in Nat \ {0},
         (e1 - 1) \div n = (e2 - 1) \div n
  PROVE  e1 <= n <=> e2 <= n
OBVIOUS

\* The chains have each directory and file below its parent, once.
LEMMA ChainsOp ==
  ASSUME image \in Images, NEW d \in Places, NEW S, S = SubDirs(image, d), NEW F, F = DirFiles(image, d)
  PROVE  /\ \A c \in Places \ {1} : image.dirs[c].parent = d => \E i \in 1 .. Len(S) : S[i] = c
         /\ \A i \in 1 .. Len(F) : image.files[F[i]].parent = d
         /\ \A i, j \in 1 .. Len(F) : F[i] = F[j] => i = j
         /\ \A f \in DOMAIN image.files : image.files[f].parent = d => \E i \in 1 .. Len(F) : F[i] = f
         /\ \A f \in DOMAIN image.files : image.files[f].parent \in Places
<1>1. /\ ToSet(S) = {c \in 2 .. Len(image.dirs) : image.dirs[c].parent = d}
      /\ IsInjective(F)
      /\ ToSet(F) = {f \in 1 .. Len(image.files) : image.files[f].parent = d}
      /\ image.files \in Seq(FileMetas(image))
  BY RomFsAssumption DEF WellFormed, Places
<1>2. Len(S) \in Nat /\ DOMAIN S = 1 .. Len(S)
  BY SubDirsOp
<1>3. Len(F) \in Nat /\ DOMAIN F = 1 .. Len(F)
  BY DirFilesOp
<1>4. \A c \in Places \ {1} : c \in 2 .. Len(image.dirs)
  BY ImageOp DEF Places
<1>5. DOMAIN image.files = 1 .. Len(image.files) /\ DOMAIN image.dirs = Places
  BY ImageOp
<1>6. \A f \in DOMAIN image.files : image.files[f].parent \in Places
  <2>1. \A f \in DOMAIN image.files : image.files[f] \in FileMetas(image)
    BY <1>1
  <2> QED
    BY <1>5, <2>1 DEF FileMetas
<1>7. \A c \in Places \ {1} : image.dirs[c].parent = d => \E i \in 1 .. Len(S) : S[i] = c
  BY <1>1, <1>2, <1>4 DEF ToSet
<1>8. \A i \in 1 .. Len(F) : image.files[F[i]].parent = d
  BY <1>1, <1>3 DEF ToSet
<1>9. \A i, j \in 1 .. Len(F) : F[i] = F[j] => i = j
  BY <1>1, <1>3 DEF IsInjective
<1>10. \A f \in DOMAIN image.files : image.files[f].parent = d => \E i \in 1 .. Len(F) : F[i] = f
  BY <1>1, <1>3, <1>5 DEF ToSet
<1> QED
  BY <1>6, <1>7, <1>8, <1>9, <1>10

\* What parse_dir makes of a directory in parse_full: the entry, the call for it,
\* and the place its caller goes on from.
LEMMA ParseChildFull ==
  ASSUME Shape, full, NEW t \in Threads, ParseChild(t)
  PROVE  \E f, n :
         /\ f = Top(t) /\ n = Len(stack[t])
         /\ UNCHANGED <<image, full, files, pc, entries>>
         /\ f.dir # None
         /\ \A e \in DOMAIN dirs : dirs'[e].files = dirs[e].files
         /\ DOMAIN stack'[t] = 1 .. n + 1
         /\ \A i \in 1 .. n - 1 : stack'[t][i] = stack[t][i]
         /\ stack'[t][n].entry = f.entry /\ stack'[t][n].file = f.file
         /\ stack'[t][n].dir = image.dirs[f.dir].sibling
         /\ stack'[t][n + 1] = Frame(Len(dirs) + 1, f.dir)
<1>0. PICK f, n : f = Top(t) /\ n = Len(stack[t])
  OBVIOUS
<1> DEFINE new == Len(dirs) + 1
           g == [f EXCEPT !.dir = image.dirs[f.dir].sibling]
           h == Frame(new, f.dir)
           F == Front(stack[t])
<1>1. /\ pc[t] = "parse" /\ f.dir # None
      /\ UNCHANGED <<image, full, files, pc, entries>>
      /\ dirs' = Append([dirs EXCEPT ![f.entry].children = Append(@, new)],
                        [meta |-> f.dir, parent |-> f.entry, children |-> <<>>, files |-> <<>>])
      /\ stack' = [stack EXCEPT ![t] = Append(Append(F, g), h)]
  BY <1>0 DEF ParseChild, shared
<1>2. /\ F \in Seq(FrameType) /\ Len(F) = n - 1 /\ n \in Nat \ {0} /\ f = stack[t][n] /\ f \in FrameType
      /\ \A i \in 1 .. n - 1 : F[i] = stack[t][i]
      /\ f.entry \in DOMAIN dirs /\ DOMAIN stack[t] = 1 .. n
  BY <1>0, <1>1, TopOp
<1>3. /\ Len(dirs) \in Nat /\ DOMAIN dirs = 1 .. Len(dirs) /\ DOMAIN dirs' = 1 .. new
      /\ f.dir \in Places
  BY <1>0, ParseChildShape
<1>4. \A x \in DOMAIN dirs : dirs'[x].files = dirs[x].files
  <2>1. dirs \in Seq(DirEntry)
    BY DEF Shape
  <2>2. PICK ds, e : e = f.entry /\ ds = [dirs EXCEPT ![e].children = Append(@, new)]
    OBVIOUS
  <2>3. DOMAIN ds = 1 .. Len(dirs) /\ \A x \in DOMAIN dirs : ds[x].files = dirs[x].files
    <3>1. e \in DOMAIN dirs
      BY <1>2, <2>2
    <3> QED
      BY <1>3, <2>1, <2>2, <3>1 DEF DirEntry
  <2>4. ds = [x \in 1 .. Len(dirs) |-> ds[x]]
    BY <1>3, <2>2
  <2>5. Len(ds) = Len(dirs)
    BY <1>3, <2>4
  <2>6. \A x \in 1 .. Len(dirs) : dirs'[x] = ds[x]
    BY <1>1, <1>3, <2>2, <2>4, <2>5
  <2> QED
    BY <1>3, <2>3, <2>6
<1>5. g \in FrameType /\ g.entry = f.entry /\ g.file = f.file /\ g.dir = image.dirs[f.dir].sibling
      /\ h \in FrameType
  <2>1. /\ image.dirs[f.dir].sibling \in 0 .. Len(image.dirs) /\ image.dirs[f.dir].child \in 0 .. Len(image.dirs)
        /\ image.dirs[f.dir].file \in 0 .. Len(image.files)
    BY <1>3, ImageOp DEF Shape
  <2>2. g \in FrameType /\ g.entry = f.entry /\ g.file = f.file /\ g.dir = image.dirs[f.dir].sibling
    BY <1>2, <2>1 DEF FrameType
  <2>3. new \in Nat
    BY <1>3
  <2>4. h \in FrameType
    <3> HIDE DEF new
    <3> QED
      BY <2>1, <2>3 DEF FrameType, Frame
  <2> QED
    BY <2>2, <2>4
<1> HIDE DEF F, g, h
<1>6. /\ Append(F, g) \in Seq(FrameType) /\ Len(Append(F, g)) = n
      /\ \A i \in 1 .. n - 1 : Append(F, g)[i] = F[i]
      /\ Append(F, g)[n] = g
  BY <1>2, <1>5
<1>7. PICK s : s = Append(F, g)
  OBVIOUS
<1>8. /\ DOMAIN Append(s, h) = 1 .. n + 1 /\ \A i \in 1 .. n : Append(s, h)[i] = s[i]
      /\ Append(s, h)[n + 1] = h
  BY <1>2, <1>5, <1>6, <1>7
<1>9. stack'[t] = Append(s, h) /\ \A u \in Threads \ {t} : stack'[u] = stack[u]
  BY <1>1, <1>7 DEF Shape
<1>10. n \in 1 .. n /\ \A i \in 1 .. n - 1 : i \in 1 .. n
  BY <1>2
<1>11. DOMAIN stack'[t] = 1 .. n + 1 /\ stack'[t][n + 1] = h /\ stack'[t][n] = g
  BY <1>6, <1>7, <1>8, <1>9, <1>10
<1>12. \A i \in 1 .. n - 1 : stack'[t][i] = stack[t][i]
  BY <1>2, <1>6, <1>7, <1>8, <1>9, <1>10
<1>13. stack'[t][n + 1] = Frame(Len(dirs) + 1, f.dir)
  BY <1>11 DEF h
<1>14. stack'[t][n].entry = f.entry /\ stack'[t][n].file = f.file /\ stack'[t][n].dir = image.dirs[f.dir].sibling
  BY <1>5, <1>11
<1> WITNESS f, n
<1> QED
  BY <1>0, <1>1, <1>4, <1>11, <1>12, <1>13, <1>14

\* What it makes of a file.
LEMMA FileDirs ==
  ASSUME Shape, NEW t \in Threads, ParseFile(t)
  PROVE  \E e, new :
         /\ e = Top(t).entry /\ new = Len(files) + 1 /\ e \in DOMAIN dirs
         /\ UNCHANGED <<image, full, pc, entries>> /\ DOMAIN dirs' = DOMAIN dirs
         /\ \A x \in DOMAIN dirs :
              /\ dirs'[x].meta = dirs[x].meta /\ dirs'[x].parent = dirs[x].parent
              /\ dirs'[x].children = dirs[x].children
              /\ dirs[x].files \in Seq(Nat)
              /\ dirs'[x].files = IF x = e THEN Append(dirs[x].files, new) ELSE dirs[x].files
<1>1. PICK e, new : e = Top(t).entry /\ new = Len(files) + 1
  OBVIOUS
<1>2. /\ pc[t] = "parse" /\ UNCHANGED <<image, full, pc, entries>>
      /\ dirs' = [dirs EXCEPT ![e].files = Append(@, new)]
  BY <1>1 DEF ParseFile, shared
<1>3. e \in DOMAIN dirs
  BY <1>1, <1>2, TopOp
<1>4. /\ DOMAIN dirs' = DOMAIN dirs
      /\ \A x \in DOMAIN dirs :
           /\ dirs'[x].meta = dirs[x].meta /\ dirs'[x].parent = dirs[x].parent
           /\ dirs'[x].children = dirs[x].children
  BY ParseFileShape
<1>5. \A x \in DOMAIN dirs : dirs[x] \in DirEntry
  BY DEF Shape
<1>6. \A x \in DOMAIN dirs :
        /\ dirs[x].files \in Seq(Nat)
        /\ dirs'[x].files = IF x = e THEN Append(dirs[x].files, new) ELSE dirs[x].files
  BY <1>2, <1>3, <1>5 DEF DirEntry
<1> WITNESS e, new
<1> QED
  BY <1>1, <1>2, <1>3, <1>4, <1>6

LEMMA FileFiles ==
  ASSUME Shape, NEW t \in Threads, ParseFile(t)
  PROVE  \E e, d, new :
         /\ e = Top(t).entry /\ d = Top(t).file /\ new = Len(files) + 1 /\ d # None
         /\ Len(files) \in Nat /\ DOMAIN files = 1 .. Len(files) /\ DOMAIN files' = 1 .. new /\ Len(files') = new
         /\ \A x \in DOMAIN files : files'[x] = files[x]
         /\ files'[new].meta = d /\ files'[new].parent = e
<1>1. PICK e, d, new : e = Top(t).entry /\ d = Top(t).file /\ new = Len(files) + 1
  OBVIOUS
<1>2. PICK fresh : fresh = [meta |-> d, parent |-> e]
  OBVIOUS
<1>3. files' = Append(files, fresh) /\ d # None
  BY <1>1, <1>2 DEF ParseFile
<1>4. files \in Seq(FileEntry)
  BY DEF Shape
<1>5. /\ Len(files) \in Nat /\ DOMAIN files = 1 .. Len(files) /\ DOMAIN files' = 1 .. new /\ Len(files') = new
      /\ \A x \in DOMAIN files : files'[x] = files[x]
      /\ files'[new] = fresh
  BY <1>1, <1>3, <1>4
<1> WITNESS e, d, new
<1> QED
  BY <1>1, <1>2, <1>3, <1>5

LEMMA FileCalls ==
  ASSUME Shape, NEW t \in Threads, ParseFile(t)
  PROVE  \E f, n :
         /\ f = Top(t) /\ n = Len(stack[t])
         /\ DOMAIN stack'[t] = 1 .. n
         /\ \A i \in 1 .. n - 1 : stack'[t][i] = stack[t][i]
         /\ stack'[t][n].entry = f.entry /\ stack'[t][n].dir = None
         /\ stack'[t][n].file = image.files[f.file].sibling
<1>0. PICK f, n : f = Top(t) /\ n = Len(stack[t])
  OBVIOUS
<1> DEFINE g == [f EXCEPT !.file = image.files[f.file].sibling]
           F == Front(stack[t])
<1>1. /\ pc[t] = "parse" /\ f.dir = None /\ f.file # None
      /\ stack' = [stack EXCEPT ![t] = Append(F, g)]
  BY <1>0 DEF ParseFile
<1>2. /\ F \in Seq(FrameType) /\ Len(F) = n - 1 /\ n \in Nat \ {0} /\ f \in FrameType
      /\ \A i \in 1 .. n - 1 : F[i] = stack[t][i]
  BY <1>0, <1>1, TopOp
<1>3. g \in FrameType /\ g.entry = f.entry /\ g.dir = f.dir /\ g.file = image.files[f.file].sibling
  <2>1. f.file \in 0 .. Len(image.files) /\ f.file # 0
    BY <1>1, <1>2 DEF FrameType, None
  <2>2. Len(image.files) \in Nat /\ DOMAIN image.files = 1 .. Len(image.files)
    BY ImageOp DEF Shape
  <2>3. f.file \in DOMAIN image.files
    <3> HIDE DEF g
    <3> QED
      BY <2>1, <2>2
  <2>4. image.files[f.file].sibling \in 0 .. Len(image.files)
    BY <2>3, ImageOp DEF Shape
  <2> QED
    BY <1>2, <2>4 DEF FrameType
<1> HIDE DEF F, g
<1>4. /\ DOMAIN Append(F, g) = 1 .. n
      /\ \A i \in 1 .. n - 1 : Append(F, g)[i] = F[i]
      /\ Append(F, g)[n] = g
  BY <1>2, <1>3
<1>5. stack'[t] = Append(F, g)
  BY <1>1 DEF Shape
<1>6. DOMAIN stack'[t] = 1 .. n /\ stack'[t][n] = g /\ \A i \in 1 .. n - 1 : stack'[t][i] = stack[t][i]
  BY <1>2, <1>4, <1>5
<1> WITNESS f, n
<1> QED
  BY <1>0, <1>1, <1>3, <1>6

\* A call for another entry is where it was.
LEMMA CallStays ==
  ASSUME NEW u, NEW i, NEW j, NEW e, NEW f, f = stack[u][i], e = f.entry,
         stack'[u][j].entry = e, stack'[u][j].dir = f.dir, stack'[u][j].file = f.file, image' = image,
         dirs'[e].meta = dirs[e].meta, dirs'[e].children = dirs[e].children, dirs'[e].files = dirs[e].files,
         \A k \in DOMAIN dirs[e].children : dirs'[dirs[e].children[k]].meta = dirs[dirs[e].children[k]].meta,
         \A k \in DOMAIN dirs[e].files : files'[dirs[e].files[k]].meta = files[dirs[e].files[k]].meta,
         Along(f), AlongFiles(f)
  PROVE  Along(stack[u][j])' /\ AlongFiles(stack[u][j])'
<1>1. PICK S, F : S = SubDirs(image, dirs[e].meta) /\ F = DirFiles(image, dirs[e].meta)
  OBVIOUS
<1>2. PICK kids, leaves : kids = dirs[e].children /\ leaves = dirs[e].files
  OBVIOUS
<1>3. /\ Len(kids) <= Len(S) /\ \A k \in DOMAIN kids : dirs[kids[k]].meta = S[k]
      /\ f.dir = IF Len(kids) = Len(S) THEN None ELSE S[Len(kids) + 1]
  BY <1>1, <1>2 DEF Along
<1>4. /\ f.dir # None => leaves = <<>>
      /\ Len(leaves) <= Len(F) /\ \A k \in DOMAIN leaves : files[leaves[k]].meta = F[k]
      /\ f.file = IF Len(leaves) = Len(F) THEN None ELSE F[Len(leaves) + 1]
  BY <1>1, <1>2 DEF AlongFiles
<1>5. S = SubDirs(image', dirs'[e].meta) /\ F = DirFiles(image', dirs'[e].meta)
  BY <1>1
<1>6. \A k \in DOMAIN kids : dirs'[kids[k]].meta = S[k]
  BY <1>2, <1>3
<1>7. \A k \in DOMAIN leaves : files'[leaves[k]].meta = F[k]
  BY <1>2, <1>4
<1>8. /\ dirs'[stack'[u][j].entry].children = kids /\ dirs'[stack'[u][j].entry].files = leaves
      /\ S = SubDirs(image', dirs'[stack'[u][j].entry].meta)
      /\ F = DirFiles(image', dirs'[stack'[u][j].entry].meta)
  BY <1>2, <1>5
<1>9. Along(stack[u][j])'
  BY <1>3, <1>6, <1>8 DEF Along
<1>10. AlongFiles(stack[u][j])'
  BY <1>4, <1>7, <1>8 DEF AlongFiles
<1> QED
  BY <1>9, <1>10

\* A call that begins.
LEMMA CallBegins ==
  ASSUME NEW u, NEW j, NEW e, NEW d \in Places, image \in Images, image' = image,
         stack'[u][j].entry = e, stack'[u][j].dir = image.dirs[d].child, stack'[u][j].file = image.dirs[d].file,
         dirs'[e].meta = d, dirs'[e].children = <<>>, dirs'[e].files = <<>>
  PROVE  Along(stack[u][j])' /\ AlongFiles(stack[u][j])'
<1>1. PICK S, F : S = SubDirs(image, d) /\ F = DirFiles(image, d)
  OBVIOUS
<1>2. Len(S) \in Nat /\ image.dirs[d].child = IF Len(S) = 0 THEN None ELSE S[1]
  BY <1>1, SubDirsOp
<1>3. Len(F) \in Nat /\ image.dirs[d].file = IF Len(F) = 0 THEN None ELSE F[1]
  BY <1>1, DirFilesOp
<1>4. Len(<<>>) = 0 /\ DOMAIN <<>> = {} /\ 0 + 1 = 1
  OBVIOUS
<1>5. S = SubDirs(image', dirs'[e].meta) /\ F = DirFiles(image', dirs'[e].meta)
  BY <1>1
<1>6. Along(stack[u][j])'
  <2>1. 0 <= Len(S) /\ stack'[u][j].dir = IF 0 = Len(S) THEN None ELSE S[0 + 1]
    BY <1>2
  <2> QED
    BY <1>4, <1>5, <2>1 DEF Along
<1>7. AlongFiles(stack[u][j])'
  <2>1. 0 <= Len(F) /\ stack'[u][j].file = IF 0 = Len(F) THEN None ELSE F[0 + 1]
    BY <1>3
  <2> QED
    BY <1>4, <1>5, <2>1 DEF AlongFiles
<1> QED
  BY <1>6, <1>7

\* The innermost call of parse_full.
LEMMA InnermostOp ==
  ASSUME Shape, full, OneParse, NEW B \in Nat, NEW C \in Nat, FullTree(B, C),
         NEW t \in Threads, pc[t] = "parse", NEW f, f = Top(t), NEW n, n = Len(stack[t])
  PROVE  /\ n \in Nat \ {0} /\ f = stack[t][n] /\ DOMAIN stack[t] = 1 .. n
         /\ f.entry \in DOMAIN dirs /\ f.entry > B /\ Along(f) /\ AlongFiles(f)
         /\ \A i \in 1 .. n - 1 :
              /\ stack[t][i].entry \in DOMAIN dirs /\ stack[t][i].entry > B
              /\ stack[t][i].entry # f.entry /\ Along(stack[t][i]) /\ AlongFiles(stack[t][i])
         /\ \A i, j \in 1 .. n - 1 : stack[t][i].entry = stack[t][j].entry => i = j
         /\ \A u \in Threads : pc[u] = "parse" => u = t
         /\ \A e : InCall(e) <=> \E i \in 1 .. n : stack[t][i].entry = e
<1>1. n \in Nat \ {0} /\ f = stack[t][n] /\ DOMAIN stack[t] = 1 .. n /\ f.entry \in DOMAIN dirs
  BY TopOp
<1>2. n \in 1 .. n /\ \A i \in 1 .. n - 1 : i \in 1 .. n /\ i # n
  BY <1>1
<1>3. /\ \A i \in 1 .. n : stack[t][i].entry > B /\ Along(stack[t][i]) /\ AlongFiles(stack[t][i])
      /\ \A i, j \in 1 .. n : stack[t][i].entry = stack[t][j].entry => i = j
  BY <1>1 DEF FullTree, Calls
<1>4. \A i \in 1 .. n : stack[t][i].entry \in DOMAIN dirs
  BY <1>1 DEF Shape
<1>5. \A u \in Threads : pc[u] = "parse" => u = t
  BY DEF OneParse
<1>6. \A e : InCall(e) <=> \E i \in 1 .. n : stack[t][i].entry = e
  BY <1>1, <1>5 DEF InCall
<1>7. f.entry > B /\ Along(f) /\ AlongFiles(f)
  BY <1>1, <1>2, <1>3
<1>8. \A i \in 1 .. n - 1 :
        /\ stack[t][i].entry \in DOMAIN dirs /\ stack[t][i].entry > B
        /\ stack[t][i].entry # f.entry /\ Along(stack[t][i]) /\ AlongFiles(stack[t][i])
  BY <1>1, <1>2, <1>3, <1>4
<1>9. \A i, j \in 1 .. n - 1 : stack[t][i].entry = stack[t][j].entry => i = j
  BY <1>2, <1>3
<1> QED
  BY <1>1, <1>5, <1>6, <1>7, <1>8, <1>9

LEMMA FullParseChild ==
  ASSUME Shape, full, OneParse, NEW B \in Nat, NEW C \in Nat, FullTree(B, C),
         NEW t \in Threads, ParseChild(t)
  PROVE  FullTree(B, C)'
<1>1. PICK f, n, e, d, new, made, S :
        /\ f = Top(t) /\ n = Len(stack[t]) /\ e = f.entry /\ d = f.dir /\ new = Len(dirs) + 1
        /\ made = dirs[e].children /\ S = SubDirs(image, dirs[e].meta)
  OBVIOUS
<1>2. pc[t] = "parse"
  BY DEF ParseChild
<1>3. /\ n \in Nat \ {0} /\ f = stack[t][n] /\ DOMAIN stack[t] = 1 .. n
      /\ e \in DOMAIN dirs /\ e > B /\ Along(f) /\ AlongFiles(f)
      /\ \A i \in 1 .. n - 1 :
           /\ stack[t][i].entry \in DOMAIN dirs /\ stack[t][i].entry > B
           /\ stack[t][i].entry # e /\ Along(stack[t][i]) /\ AlongFiles(stack[t][i])
      /\ \A i, j \in 1 .. n - 1 : stack[t][i].entry = stack[t][j].entry => i = j
      /\ \A u \in Threads : pc[u] = "parse" => u = t
      /\ \A x : InCall(x) <=> \E i \in 1 .. n : stack[t][i].entry = x
  BY <1>1, <1>2, InnermostOp
<1>4. /\ UNCHANGED <<image, full, files, pc>> /\ d # None
      /\ \A x \in DOMAIN dirs : dirs'[x].files = dirs[x].files
      /\ DOMAIN stack'[t] = 1 .. n + 1
      /\ \A i \in 1 .. n - 1 : stack'[t][i] = stack[t][i]
      /\ stack'[t][n].entry = e /\ stack'[t][n].file = f.file
      /\ stack'[t][n].dir = image.dirs[d].sibling
      /\ stack'[t][n + 1] = Frame(new, d)
  BY <1>1, ParseChildFull
<1>5. /\ Len(dirs) \in Nat /\ DOMAIN dirs = 1 .. Len(dirs) /\ DOMAIN dirs' = 1 .. new
      /\ dirs'[new] = [meta |-> d, parent |-> e, children |-> <<>>, files |-> <<>>]
      /\ \A x \in DOMAIN dirs :
           /\ dirs'[x].meta = dirs[x].meta /\ dirs'[x].parent = dirs[x].parent
           /\ dirs[x].children \in Seq(Nat)
           /\ dirs'[x].children = IF x = e THEN Append(dirs[x].children, new) ELSE dirs[x].children
      /\ d \in Places
  BY <1>1, ParseChildShape
<1>6. /\ dirs'[new].meta = d /\ dirs'[new].parent = e /\ dirs'[new].children = <<>> /\ dirs'[new].files = <<>>
      /\ DOMAIN <<>> = {}
  BY <1>5
<1>7. /\ new \in DOMAIN dirs' /\ new \notin DOMAIN dirs /\ new > B /\ new \in Nat /\ e \in 1 .. new - 1
      /\ \A x \in DOMAIN dirs' : x \in DOMAIN dirs \/ x = new
      /\ \A x \in DOMAIN dirs : x \in DOMAIN dirs'
  BY <1>1, <1>3, <1>5
<1>8. /\ image \in Images /\ dirs[e].meta \in Places
      /\ Len(S) \in Nat /\ DOMAIN S = 1 .. Len(S)
      /\ \A i \in 1 .. Len(S) :
           /\ S[i] \in Places \ {1} /\ image.dirs[S[i]].parent = dirs[e].meta
           /\ image.dirs[S[i]].sibling = IF i = Len(S) THEN None ELSE S[i + 1]
      /\ \A i, j \in 1 .. Len(S) : S[i] = S[j] => i = j
  <2>1. image \in Images /\ dirs[e].meta \in Places
    BY <1>3 DEF Shape
  <2>2. PICK m : m = dirs[e].meta
    OBVIOUS
  <2>3. m \in Places /\ S = SubDirs(image, m)
    BY <1>1, <2>1, <2>2
  <2>4. Len(S) \in Nat /\ DOMAIN S = 1 .. Len(S)
    BY <2>1, <2>3, SubDirsOp
  <2>5. \A i \in 1 .. Len(S) :
          /\ S[i] \in Places \ {1} /\ image.dirs[S[i]].parent = m
          /\ image.dirs[S[i]].sibling = IF i = Len(S) THEN None ELSE S[i + 1]
    BY <2>1, <2>3, SubDirsOp
  <2>6. \A i, j \in 1 .. Len(S) : S[i] = S[j] => i = j
    BY <2>1, <2>3, SubDirsOp
  <2> QED
    BY <2>1, <2>2, <2>4, <2>5, <2>6
<1>9. /\ made \in Seq(Nat) /\ Len(made) \in Nat /\ DOMAIN made = 1 .. Len(made)
      /\ dirs'[e].children = Append(made, new)
      /\ Len(Append(made, new)) = Len(made) + 1 /\ DOMAIN Append(made, new) = 1 .. Len(made) + 1
      /\ \A i \in 1 .. Len(made) : Append(made, new)[i] = made[i]
      /\ Append(made, new)[Len(made) + 1] = new
  <2>1. made \in Seq(Nat) /\ dirs'[e].children = Append(made, new)
    BY <1>1, <1>3, <1>5
  <2> QED
    BY <1>7, <2>1, AppendOp
<1>10. /\ \A i \in 1 .. Len(made) : dirs[made[i]].meta = S[i]
       /\ Len(made) + 1 \in 1 .. Len(S) /\ d = S[Len(made) + 1]
  <2>1. /\ Len(made) <= Len(S)
        /\ \A i \in DOMAIN made : dirs[made[i]].meta = S[i]
        /\ d = IF Len(made) = Len(S) THEN None ELSE S[Len(made) + 1]
    BY <1>1, <1>3 DEF Along
  <2>2. Len(made) # Len(S) /\ d = S[Len(made) + 1]
    BY <1>4, <2>1
  <2>3. Len(made) + 1 \in 1 .. Len(S)
    <3>1. Len(made) \in Nat /\ Len(S) \in Nat /\ Len(made) <= Len(S)
      BY <1>8, <1>9, <2>1
    <3> QED
      BY <2>2, <3>1
  <2> QED
    BY <1>9, <2>1, <2>2, <2>3
<1>11. /\ B + 1 \in DOMAIN dirs /\ 1 \in DOMAIN dirs
       /\ \A x \in {1, B + 1} : dirs[x].meta = 1 /\ dirs[x].parent = None
       /\ \A x \in DOMAIN dirs \ {1, B + 1} :
            /\ dirs[x].parent \in 1 .. x - 1 /\ (dirs[x].parent <= B <=> x <= B)
            /\ dirs[x].meta # 1 /\ image.dirs[dirs[x].meta].parent = dirs[dirs[x].parent].meta
            /\ \E i \in DOMAIN dirs[dirs[x].parent].children : dirs[dirs[x].parent].children[i] = x
       /\ \A x \in DOMAIN dirs : \A i \in DOMAIN dirs[x].children :
            dirs[x].children[i] \in DOMAIN dirs \ {1, B + 1} /\ dirs[dirs[x].children[i]].parent = x
       /\ \A x, y \in DOMAIN dirs : (x <= B <=> y <= B) /\ dirs[x].meta = dirs[y].meta => x = y
  <2>1. TreeOfDirs(B)
    BY DEF FullTree
  <2>2. 1 \in DOMAIN dirs
    BY <1>3, <1>5
  <2> QED
    BY <2>1, <2>2 DEF TreeOfDirs
<1>12. \A x \in DOMAIN dirs : x > B => dirs[x].meta # d
  <2> SUFFICES ASSUME NEW x \in DOMAIN dirs, x > B, dirs[x].meta = d PROVE FALSE
    OBVIOUS
  <2>1. d # 1 /\ image.dirs[d].parent = dirs[e].meta
    BY <1>8, <1>10
  <2>2. x \notin {1, B + 1}
    BY <1>11, <2>1
  <2>3. PICK p : p = dirs[x].parent
    OBVIOUS
  <2>4. /\ p \in 1 .. x - 1 /\ ~(p <= B) /\ dirs[p].meta = dirs[e].meta
        /\ \E i \in DOMAIN dirs[p].children : dirs[p].children[i] = x
    <3>1. ~(x <= B)
      BY <1>5
    <3> QED
      BY <1>11, <2>1, <2>2, <2>3, <3>1
  <2>5. p \in DOMAIN dirs /\ ~(e <= B)
    BY <1>3, <1>5, <2>4
  <2>6. p = e
    BY <1>3, <1>11, <2>4, <2>5
  <2>7. PICK i \in 1 .. Len(made) : made[i] = x
    BY <1>1, <1>9, <2>4, <2>6
  <2>8. S[i] = S[Len(made) + 1] /\ i \in 1 .. Len(S)
    <3>1. S[i] = d
      BY <1>10, <2>2, <2>7
    <3>2. i \in 1 .. Len(S)
      <4>1. Len(made) \in Nat /\ Len(S) \in Nat /\ Len(made) + 1 \in 1 .. Len(S) /\ i \in 1 .. Len(made)
        BY <1>8, <1>9, <1>10, <2>7
      <4> QED
        BY <4>1
    <3> QED
      BY <1>10, <3>1, <3>2
  <2>9. i = Len(made) + 1
    BY <1>8, <1>10, <2>8
  <2> QED
    BY <1>9, <2>9
<1>13. TreeOfDirs(B)'
  <2>1. B + 1 \in DOMAIN dirs' /\ \A x \in {1, B + 1} : dirs'[x].meta = 1 /\ dirs'[x].parent = None
    BY <1>5, <1>7, <1>11
  <2>2. ASSUME NEW x \in DOMAIN dirs' \ {1, B + 1}, NEW p, p = dirs'[x].parent
        PROVE  /\ p \in 1 .. x - 1 /\ (p <= B <=> x <= B)
               /\ dirs'[x].meta # 1 /\ image'.dirs[dirs'[x].meta].parent = dirs'[p].meta
               /\ \E i \in DOMAIN dirs'[p].children : dirs'[p].children[i] = x
    <3>1. CASE x = new
      <4>1. p = e /\ p \in 1 .. x - 1 /\ ~(p <= B) /\ ~(x <= B) /\ dirs'[x].meta = d /\ dirs'[p].meta = dirs[e].meta
        BY <1>3, <1>5, <1>6, <1>7, <2>2, <3>1
      <4>2. Len(made) + 1 \in DOMAIN dirs'[p].children /\ dirs'[p].children[Len(made) + 1] = x
        BY <1>9, <3>1, <4>1
      <4>3. d # 1 /\ image.dirs[d].parent = dirs[e].meta
        BY <1>8, <1>10
      <4> QED
        BY <1>4, <4>1, <4>2, <4>3
    <3>2. CASE x # new
      <4>1. x \in DOMAIN dirs /\ p = dirs[x].parent
        BY <1>5, <1>7, <2>2, <3>2
      <4>2. /\ p \in 1 .. x - 1 /\ (p <= B <=> x <= B)
            /\ dirs[x].meta # 1 /\ image.dirs[dirs[x].meta].parent = dirs[p].meta
            /\ \E i \in DOMAIN dirs[p].children : dirs[p].children[i] = x
        BY <1>11, <4>1
      <4>3. p \in DOMAIN dirs
        BY <1>5, <4>1, <4>2
      <4>4. \E i \in DOMAIN dirs'[p].children : dirs'[p].children[i] = x
        <5>1. CASE p = e
          <6>1. PICK i \in DOMAIN made : made[i] = x
            BY <1>1, <4>2, <5>1
          <6> QED
            BY <1>9, <5>1, <6>1
        <5>2. CASE p # e
          BY <1>5, <4>2, <4>3, <5>2
        <5> QED
          BY <5>1, <5>2
      <4> QED
        BY <1>4, <1>5, <4>1, <4>2, <4>3, <4>4
    <3> QED
      BY <3>1, <3>2
  <2>3. ASSUME NEW x \in DOMAIN dirs', NEW i \in DOMAIN dirs'[x].children
        PROVE  dirs'[x].children[i] \in DOMAIN dirs' \ {1, B + 1} /\ dirs'[dirs'[x].children[i]].parent = x
    <3>1. x \in DOMAIN dirs
      BY <1>6, <1>7, <2>3
    <3>2. new \notin {1, B + 1}
      BY <1>7, <1>11
    <3>3. CASE x = e
      <4>1. CASE i \in 1 .. Len(made)
        <5>1. dirs'[x].children[i] = made[i]
          BY <1>9, <3>3, <4>1
        <5>2. i \in DOMAIN dirs[x].children /\ dirs[x].children[i] = made[i]
          BY <1>1, <1>9, <3>3, <4>1
        <5>3. made[i] \in DOMAIN dirs \ {1, B + 1} /\ dirs[made[i]].parent = x
          BY <1>11, <3>1, <5>2
        <5> QED
          BY <1>5, <1>7, <5>1, <5>3
      <4>2. CASE i = Len(made) + 1
        BY <1>6, <1>7, <1>9, <3>2, <3>3, <4>2
      <4> QED
        BY <1>9, <2>3, <3>3, <4>1, <4>2
    <3>4. CASE x # e
      <4>1. dirs'[x].children = dirs[x].children
        BY <1>5, <3>1, <3>4
      <4>2. dirs[x].children[i] \in DOMAIN dirs \ {1, B + 1} /\ dirs[dirs[x].children[i]].parent = x
        BY <1>11, <2>3, <3>1, <4>1
      <4> QED
        BY <1>5, <1>7, <4>1, <4>2
    <3> QED
      BY <3>3, <3>4
  <2>4. ASSUME NEW x \in DOMAIN dirs', NEW y \in DOMAIN dirs', x <= B <=> y <= B, dirs'[x].meta = dirs'[y].meta
        PROVE  x = y
    <3>1. ~(new <= B) /\ \A z \in DOMAIN dirs : ~(z <= B) => z > B
      BY <1>5, <1>7
    <3>2. CASE x \in DOMAIN dirs /\ y \in DOMAIN dirs
      <4>1. dirs[x].meta = dirs[y].meta
        BY <1>5, <2>4, <3>2
      <4> QED
        BY <1>11, <2>4, <3>2, <4>1
    <3>3. CASE x = new /\ y = new
      BY <3>3
    <3>4. CASE x \in DOMAIN dirs /\ y = new
      BY <1>5, <1>6, <1>12, <2>4, <3>1, <3>4
    <3>5. CASE x = new /\ y \in DOMAIN dirs
      BY <1>5, <1>6, <1>12, <2>4, <3>1, <3>5
    <3> QED
      BY <1>7, <3>2, <3>3, <3>4, <3>5
  <2> QED
    BY <2>1, <2>2, <2>3, <2>4 DEF TreeOfDirs
<1>14. /\ C <= Len(files)
       /\ \A x \in DOMAIN dirs : \A i \in DOMAIN dirs[x].files :
            dirs[x].files[i] \in DOMAIN files /\ files[dirs[x].files[i]].parent = x
       /\ \A g \in DOMAIN files :
            /\ files[g].parent \in DOMAIN dirs /\ (g <= C <=> files[g].parent <= B)
            /\ files[g].meta \in DOMAIN image.files
            /\ image.files[files[g].meta].parent = dirs[files[g].parent].meta
            /\ \E i \in DOMAIN dirs[files[g].parent].files : dirs[files[g].parent].files[i] = g
       /\ \A g, h \in DOMAIN files : (g <= C <=> h <= C) /\ files[g].meta = files[h].meta => g = h
  BY DEF FullTree, TreeOfFiles
<1>15. TreeOfFiles(B, C)'
  <2>1. ASSUME NEW x \in DOMAIN dirs', NEW i \in DOMAIN dirs'[x].files
        PROVE  dirs'[x].files[i] \in DOMAIN files' /\ files'[dirs'[x].files[i]].parent = x
    <3>1. x \in DOMAIN dirs
      BY <1>6, <1>7, <2>1
    <3> QED
      BY <1>4, <1>14, <2>1, <3>1
  <2>2. ASSUME NEW g \in DOMAIN files', NEW x, x = files'[g].parent
        PROVE  /\ x \in DOMAIN dirs' /\ (g <= C <=> x <= B)
               /\ files'[g].meta \in DOMAIN image'.files
               /\ image'.files[files'[g].meta].parent = dirs'[x].meta
               /\ \E i \in DOMAIN dirs'[x].files : dirs'[x].files[i] = g
    <3>1. g \in DOMAIN files /\ x = files[g].parent /\ x \in DOMAIN dirs
      BY <1>4, <1>14, <2>2
    <3>2. /\ (g <= C <=> x <= B) /\ files[g].meta \in DOMAIN image.files
          /\ image.files[files[g].meta].parent = dirs[x].meta
          /\ \E i \in DOMAIN dirs[x].files : dirs[x].files[i] = g
      BY <1>14, <3>1
    <3>3. dirs'[x].meta = dirs[x].meta /\ dirs'[x].files = dirs[x].files /\ x \in DOMAIN dirs'
      BY <1>4, <1>5, <1>7, <3>1
    <3> QED
      BY <1>4, <3>2, <3>3
  <2>3. C <= Len(files') /\ \A g, h \in DOMAIN files' : (g <= C <=> h <= C) /\ files'[g].meta = files'[h].meta => g = h
    BY <1>4, <1>14
  <2> QED
    BY <2>1, <2>2, <2>3 DEF TreeOfFiles
<1>16. \A x \in DOMAIN dirs : \A i \in DOMAIN dirs[x].children :
         dirs'[dirs[x].children[i]].meta = dirs[dirs[x].children[i]].meta
  BY <1>5, <1>11
<1>17. \A i \in 1 .. n - 1 : Along(stack[t][i])' /\ AlongFiles(stack[t][i])'
  <2> TAKE i \in 1 .. n - 1
  <2>1. PICK g, x : g = stack[t][i] /\ x = g.entry
    OBVIOUS
  <2>2. /\ x \in DOMAIN dirs /\ x # e /\ Along(g) /\ AlongFiles(g)
        /\ stack'[t][i].entry = x /\ stack'[t][i].dir = g.dir /\ stack'[t][i].file = g.file
    BY <1>3, <1>4, <2>1
  <2>3. dirs'[x].meta = dirs[x].meta /\ dirs'[x].children = dirs[x].children /\ dirs'[x].files = dirs[x].files
    BY <1>4, <1>5, <2>2
  <2>4. /\ \A k \in DOMAIN dirs[x].children : dirs'[dirs[x].children[k]].meta = dirs[dirs[x].children[k]].meta
        /\ \A k \in DOMAIN dirs[x].files : files'[dirs[x].files[k]].meta = files[dirs[x].files[k]].meta
    BY <1>4, <1>16, <2>2
  <2>5. image' = image
    BY <1>4
  <2> QED
    BY <2>1, <2>2, <2>3, <2>4, <2>5, CallStays, ZenonT(60)
<1>18. Along(stack[t][n])'
  <2>1. PICK m, g : m = dirs'[e].children /\ g = stack'[t][n]
    OBVIOUS
  <2>2. Len(m) = Len(made) + 1 /\ DOMAIN m = 1 .. Len(made) + 1 /\ Len(m) \in 1 .. Len(S)
    BY <1>9, <1>10, <2>1
  <2>3. \A i \in DOMAIN m : dirs'[m[i]].meta = S[i]
    <3> TAKE i \in DOMAIN m
    <3>1. CASE i \in 1 .. Len(made)
      <4>1. m[i] = made[i] /\ dirs[made[i]].meta = S[i]
        BY <1>9, <1>10, <2>1, <3>1
      <4>2. dirs'[made[i]].meta = dirs[made[i]].meta
        <5>1. i \in DOMAIN dirs[e].children /\ made[i] = dirs[e].children[i]
          BY <1>1, <1>9, <3>1
        <5> QED
          BY <1>3, <1>16, <5>1
      <4> QED
        BY <4>1, <4>2
    <3>2. CASE i = Len(made) + 1
      <4>1. m[i] = new /\ S[i] = d
        BY <1>9, <1>10, <2>1, <3>2
      <4> QED
        BY <1>6, <4>1
    <3> QED
      BY <1>9, <2>2, <3>1, <3>2
  <2>4. g.dir = IF Len(m) = Len(S) THEN None ELSE S[Len(m) + 1]
    <3>1. Len(m) \in 1 .. Len(S) /\ d = S[Len(m)]
      BY <1>10, <2>2
    <3>2. image.dirs[S[Len(m)]].sibling = IF Len(m) = Len(S) THEN None ELSE S[Len(m) + 1]
      BY <1>8, <3>1
    <3>3. g.dir = image.dirs[d].sibling
      BY <1>4, <2>1
    <3> QED
      BY <3>1, <3>2, <3>3
  <2>5. g.entry = e /\ S = SubDirs(image', dirs'[e].meta)
    <3>1. dirs'[e].meta = dirs[e].meta
      BY <1>3, <1>5
    <3> QED
      BY <1>1, <1>4, <2>1, <3>1
  <2>6. Len(m) <= Len(S)
    <3>1. Len(S) \in Nat
      BY <1>8
    <3> QED
      BY <2>2, <3>1
  <2> QED
    BY <2>1, <2>3, <2>4, <2>5, <2>6 DEF Along
<1>19. AlongFiles(stack[t][n])'
  <2>1. PICK g, F : g = stack'[t][n] /\ F = DirFiles(image, dirs[e].meta)
    OBVIOUS
  <2>2. dirs[e].files = <<>> /\ Len(<<>>) <= Len(F) /\ f.file = IF Len(<<>>) = Len(F) THEN None ELSE F[Len(<<>>) + 1]
    <3>1. f.entry = e /\ f.dir # None
      BY <1>1, <1>4
    <3>2. AlongFiles(f)
      BY <1>3
    <3> QED
      BY <2>1, <3>1, <3>2, ZenonT(60) DEF AlongFiles
  <2>3. g.entry = e /\ dirs'[e].files = <<>> /\ F = DirFiles(image', dirs'[e].meta) /\ g.file = f.file
    BY <1>3, <1>4, <1>5, <2>1, <2>2
  <2> QED
    BY <1>6, <2>1, <2>2, <2>3 DEF AlongFiles
<1>20. stack'[t][n + 1].entry = new /\ Along(stack[t][n + 1])' /\ AlongFiles(stack[t][n + 1])'
  <2>1. /\ stack'[t][n + 1] = Frame(new, d) /\ d \in Places /\ image \in Images /\ image' = image
        /\ dirs'[new].meta = d /\ dirs'[new].children = <<>> /\ dirs'[new].files = <<>>
    BY <1>4, <1>5, <1>6, <1>8
  <2>2. PICK m : m = n + 1
    OBVIOUS
  <2>3. /\ stack'[t][m].entry = new
        /\ stack'[t][m].dir = image.dirs[d].child /\ stack'[t][m].file = image.dirs[d].file
    BY <2>1, <2>2 DEF Frame
  <2>4. Along(stack[t][m])' /\ AlongFiles(stack[t][m])'
    BY <2>1, <2>3, CallBegins
  <2> QED
    BY <2>2, <2>3, <2>4
<1>21. \A i \in 1 .. n + 1 : i \in 1 .. n - 1 \/ i = n \/ i = n + 1
  BY <1>3
<1>22. \A x : InCall(x)' <=> InCall(x) \/ x = new
  <2>1. \A x : InCall(x)' <=> \E i \in 1 .. n + 1 : stack'[t][i].entry = x
    <3>1. \A u \in Threads : pc'[u] = "parse" <=> u = t
      BY <1>2, <1>3, <1>4
    <3> QED
      BY <1>4, <3>1 DEF InCall
  <2>2. f.entry = e /\ f = stack[t][n] /\ n \in 1 .. n /\ n \in 1 .. n + 1 /\ n + 1 \in 1 .. n + 1
    BY <1>1, <1>3
  <2>3. \A i \in 1 .. n : i \in 1 .. n + 1 /\ stack'[t][i].entry = stack[t][i].entry
    <3> TAKE i \in 1 .. n
    <3>1. i \in 1 .. n - 1 \/ i = n
      BY <1>3
    <3>2. i \in 1 .. n + 1
      BY <1>3
    <3> QED
      BY <1>4, <2>2, <3>1, <3>2
  <2>4. \A i \in 1 .. n + 1 : i \in 1 .. n \/ i = n + 1
    BY <1>3
  <2> QED
    BY <1>3, <1>20, <2>1, <2>2, <2>3, <2>4
<1>23. Calls(B)'
  <2>1. ASSUME NEW u \in Threads, pc'[u] = "parse" PROVE u = t
    BY <1>3, <1>4, <2>1
  <2>2. ASSUME NEW i \in DOMAIN stack'[t]
        PROVE  stack'[t][i].entry > B /\ Along(stack[t][i])' /\ AlongFiles(stack[t][i])'
    BY <1>3, <1>4, <1>7, <1>17, <1>18, <1>19, <1>20, <1>21, <2>2
  <2>3. ASSUME NEW i \in DOMAIN stack'[t], NEW j \in DOMAIN stack'[t], stack'[t][i].entry = stack'[t][j].entry
        PROVE  i = j
    <3>1. \A k \in 1 .. n - 1 : /\ stack'[t][k].entry = stack[t][k].entry
                                /\ stack[t][k].entry # e /\ stack[t][k].entry # new
      BY <1>3, <1>4, <1>7
    <3>2. stack'[t][n].entry = e /\ e # new
      BY <1>3, <1>4, <1>7
    <3>3. stack'[t][n + 1].entry = new
      BY <1>20
    <3>4. \A k, l \in 1 .. n - 1 : stack[t][k].entry = stack[t][l].entry => k = l
      BY <1>3
    <3>5. i \in 1 .. n + 1 /\ j \in 1 .. n + 1
      BY <1>4, <2>3
    <3>6. (i \in 1 .. n - 1 \/ i = n \/ i = n + 1) /\ (j \in 1 .. n - 1 \/ j = n \/ j = n + 1)
      BY <1>21, <3>5
    <3> QED
      BY <2>3, <3>1, <3>2, <3>3, <3>4, <3>6
  <2>4. ASSUME NEW x \in DOMAIN dirs', ~InCall(x)' PROVE Whole(x)'
    <3>1. x \in DOMAIN dirs /\ ~InCall(x)
      BY <1>7, <1>22, <2>4
    <3>2. Whole(x)
      BY <3>1 DEF FullTree, Calls
    <3>3. x # e
      <4>1. f.entry = e /\ f = stack[t][n] /\ n \in 1 .. n
        BY <1>1, <1>3
      <4> QED
        BY <1>3, <3>1, <4>1
    <3>4. dirs'[x].meta = dirs[x].meta /\ dirs'[x].children = dirs[x].children /\ dirs'[x].files = dirs[x].files
      BY <1>4, <1>5, <3>1, <3>3
    <3>5. /\ \A k \in DOMAIN dirs[x].children : dirs'[dirs[x].children[k]].meta = dirs[dirs[x].children[k]].meta
          /\ \A k \in DOMAIN dirs[x].files : files'[dirs[x].files[k]].meta = files[dirs[x].files[k]].meta
      BY <1>4, <1>16, <3>1
    <3> QED
      BY <1>4, <3>1, <3>2, <3>4, <3>5, WholeStays
  <2> QED
    BY <2>1, <2>2, <2>3, <2>4 DEF Calls
<1> QED
  BY <1>4, <1>13, <1>15, <1>23 DEF FullTree

LEMMA FullParseFile ==
  ASSUME Shape, full, OneParse, NEW B \in Nat, NEW C \in Nat, FullTree(B, C),
         NEW t \in Threads, ParseFile(t)
  PROVE  FullTree(B, C)'
<1>1. PICK f, n, e, d, new, made, F :
        /\ f = Top(t) /\ n = Len(stack[t]) /\ e = f.entry /\ d = f.file /\ new = Len(files) + 1
        /\ made = dirs[e].files /\ F = DirFiles(image, dirs[e].meta)
  OBVIOUS
<1>2. pc[t] = "parse"
  BY DEF ParseFile
<1>3. /\ n \in Nat \ {0} /\ f = stack[t][n] /\ DOMAIN stack[t] = 1 .. n
      /\ e \in DOMAIN dirs /\ e > B /\ Along(f) /\ AlongFiles(f)
      /\ \A i \in 1 .. n - 1 :
           /\ stack[t][i].entry \in DOMAIN dirs /\ stack[t][i].entry > B
           /\ stack[t][i].entry # e /\ Along(stack[t][i]) /\ AlongFiles(stack[t][i])
      /\ \A i, j \in 1 .. n - 1 : stack[t][i].entry = stack[t][j].entry => i = j
      /\ \A u \in Threads : pc[u] = "parse" => u = t
      /\ \A x : InCall(x) <=> \E i \in 1 .. n : stack[t][i].entry = x
  BY <1>1, <1>2, InnermostOp
<1>4. /\ UNCHANGED <<image, full, pc>> /\ DOMAIN dirs' = DOMAIN dirs
      /\ \A x \in DOMAIN dirs :
           /\ dirs'[x].meta = dirs[x].meta /\ dirs'[x].parent = dirs[x].parent
           /\ dirs'[x].children = dirs[x].children
           /\ dirs[x].files \in Seq(Nat)
           /\ dirs'[x].files = IF x = e THEN Append(dirs[x].files, new) ELSE dirs[x].files
  <2>1. PICK e2, new2 :
          /\ e2 = Top(t).entry /\ new2 = Len(files) + 1 /\ e2 \in DOMAIN dirs
          /\ UNCHANGED <<image, full, pc, entries>> /\ DOMAIN dirs' = DOMAIN dirs
          /\ \A x \in DOMAIN dirs :
               /\ dirs'[x].meta = dirs[x].meta /\ dirs'[x].parent = dirs[x].parent
               /\ dirs'[x].children = dirs[x].children
               /\ dirs[x].files \in Seq(Nat)
               /\ dirs'[x].files = IF x = e2 THEN Append(dirs[x].files, new2) ELSE dirs[x].files
    BY FileDirs
  <2>2. e2 = e /\ new2 = new
    BY <1>1, <2>1
  <2> QED
    BY <2>1, <2>2
<1>5. /\ d # None
      /\ Len(files) \in Nat /\ DOMAIN files = 1 .. Len(files) /\ DOMAIN files' = 1 .. new /\ Len(files') = new
      /\ \A x \in DOMAIN files : files'[x] = files[x]
      /\ files'[new].meta = d /\ files'[new].parent = e
  BY <1>1, FileFiles
<1>6. /\ DOMAIN stack'[t] = 1 .. n
      /\ \A i \in 1 .. n - 1 : stack'[t][i] = stack[t][i]
      /\ stack'[t][n].entry = e /\ stack'[t][n].dir = None
      /\ stack'[t][n].file = image.files[d].sibling
  BY <1>1, FileCalls
<1>7. /\ new \in DOMAIN files' /\ new \notin DOMAIN files /\ new \in Nat
      /\ \A x \in DOMAIN files' : x \in DOMAIN files \/ x = new
      /\ \A x \in DOMAIN files : x \in DOMAIN files'
  BY <1>1, <1>5
<1>8. image \in Images /\ dirs[e].meta \in Places /\ DOMAIN dirs = 1 .. Len(dirs) /\ Len(dirs) \in Nat
  BY <1>3 DEF Shape
<1>9. /\ Len(F) \in Nat /\ DOMAIN F = 1 .. Len(F)
      /\ \A i \in 1 .. Len(F) :
           /\ F[i] \in DOMAIN image.files /\ image.files[F[i]].parent = dirs[e].meta
           /\ image.files[F[i]].sibling = IF i = Len(F) THEN None ELSE F[i + 1]
      /\ \A i, j \in 1 .. Len(F) : F[i] = F[j] => i = j
  <2>1. PICK m : m = dirs[e].meta
    OBVIOUS
  <2>2. m \in Places /\ F = DirFiles(image, m)
    BY <1>1, <1>8, <2>1
  <2>3. /\ Len(F) \in Nat /\ DOMAIN F = 1 .. Len(F)
        /\ \A i \in 1 .. Len(F) :
             F[i] \in DOMAIN image.files /\ image.files[F[i]].sibling = IF i = Len(F) THEN None ELSE F[i + 1]
    BY <1>8, <2>2, DirFilesOp
  <2>4. /\ \A i \in 1 .. Len(F) : image.files[F[i]].parent = m
        /\ \A i, j \in 1 .. Len(F) : F[i] = F[j] => i = j
    BY <1>8, <2>2, ChainsOp
  <2> QED
    BY <2>1, <2>3, <2>4
<1>10. /\ made \in Seq(Nat) /\ Len(made) \in Nat /\ DOMAIN made = 1 .. Len(made)
       /\ dirs'[e].files = Append(made, new)
       /\ Len(Append(made, new)) = Len(made) + 1 /\ DOMAIN Append(made, new) = 1 .. Len(made) + 1
       /\ \A i \in 1 .. Len(made) : Append(made, new)[i] = made[i]
       /\ Append(made, new)[Len(made) + 1] = new
  <2>1. made \in Seq(Nat) /\ dirs'[e].files = Append(made, new)
    BY <1>1, <1>3, <1>4
  <2> QED
    BY <1>7, <2>1, AppendOp
<1>11. /\ \A i \in 1 .. Len(made) : files[made[i]].meta = F[i]
       /\ Len(made) + 1 \in 1 .. Len(F) /\ d = F[Len(made) + 1]
  <2>1. /\ Len(made) <= Len(F)
        /\ \A i \in DOMAIN made : files[made[i]].meta = F[i]
        /\ d = IF Len(made) = Len(F) THEN None ELSE F[Len(made) + 1]
    BY <1>1, <1>3 DEF AlongFiles
  <2>2. Len(made) # Len(F) /\ d = F[Len(made) + 1]
    BY <1>5, <2>1
  <2>3. Len(made) + 1 \in 1 .. Len(F)
    <3>1. Len(made) \in Nat /\ Len(F) \in Nat /\ Len(made) <= Len(F)
      BY <1>9, <1>10, <2>1
    <3> QED
      BY <2>2, <3>1
  <2> QED
    BY <1>10, <2>1, <2>2, <2>3
<1>12. /\ C <= Len(files)
       /\ \A x \in DOMAIN dirs : \A i \in DOMAIN dirs[x].files :
            dirs[x].files[i] \in DOMAIN files /\ files[dirs[x].files[i]].parent = x
       /\ \A g \in DOMAIN files :
            /\ files[g].parent \in DOMAIN dirs /\ (g <= C <=> files[g].parent <= B)
            /\ files[g].meta \in DOMAIN image.files
            /\ image.files[files[g].meta].parent = dirs[files[g].parent].meta
            /\ \E i \in DOMAIN dirs[files[g].parent].files : dirs[files[g].parent].files[i] = g
       /\ \A g, h \in DOMAIN files : (g <= C <=> h <= C) /\ files[g].meta = files[h].meta => g = h
  BY DEF FullTree, TreeOfFiles
<1>13. TreeOfDirs(B) /\ \A x, y \in DOMAIN dirs : (x <= B <=> y <= B) /\ dirs[x].meta = dirs[y].meta => x = y
  BY DEF FullTree, TreeOfDirs
<1>14. \A i \in DOMAIN made : made[i] \in DOMAIN files /\ files[made[i]].parent = e
  BY <1>1, <1>3, <1>12
<1>15. \A g \in DOMAIN files : g > C => files[g].meta # d
  <2> SUFFICES ASSUME NEW g \in DOMAIN files, g > C, files[g].meta = d PROVE FALSE
    OBVIOUS
  <2>1. image.files[d].parent = dirs[e].meta
    BY <1>9, <1>11
  <2>2. PICK p : p = files[g].parent
    OBVIOUS
  <2>3. /\ p \in DOMAIN dirs /\ ~(p <= B) /\ dirs[p].meta = dirs[e].meta
        /\ \E i \in DOMAIN dirs[p].files : dirs[p].files[i] = g
    <3>1. ~(g <= C)
      BY <1>5
    <3> QED
      BY <1>12, <2>1, <2>2, <3>1
  <2>4. ~(e <= B)
    BY <1>3, <1>8
  <2>5. p = e
    BY <1>3, <1>13, <2>3, <2>4
  <2>6. PICK i \in 1 .. Len(made) : made[i] = g
    BY <1>1, <1>10, <2>3, <2>5
  <2>7. F[i] = F[Len(made) + 1]
    BY <1>11, <2>6
  <2>8. i \in 1 .. Len(F)
    <3>1. Len(made) \in Nat /\ Len(F) \in Nat /\ Len(made) + 1 \in 1 .. Len(F) /\ i \in 1 .. Len(made)
      BY <1>9, <1>10, <1>11, <2>6
    <3> QED
      BY <3>1
  <2>9. i = Len(made) + 1
    BY <1>9, <1>11, <2>7, <2>8
  <2> QED
    BY <1>10, <2>9
<1>16. \A x \in DOMAIN dirs : \A i \in DOMAIN dirs[x].children :
         /\ dirs[x].children[i] \in DOMAIN dirs
         /\ dirs'[dirs[x].children[i]].meta = dirs[dirs[x].children[i]].meta
  <2>1. \A x \in DOMAIN dirs : \A i \in DOMAIN dirs[x].children : dirs[x].children[i] \in DOMAIN dirs
    BY <1>13 DEF TreeOfDirs
  <2> QED
    BY <1>4, <2>1
<1>17. \A x \in DOMAIN dirs : \A i \in DOMAIN dirs[x].files :
         files'[dirs[x].files[i]].meta = files[dirs[x].files[i]].meta
  BY <1>5, <1>12
<1>18. TreeOfDirs(B)'
  <2>1. B + 1 \in DOMAIN dirs' /\ \A x \in {1, B + 1} : dirs'[x].meta = 1 /\ dirs'[x].parent = None
    <3>1. 1 \in DOMAIN dirs
      BY <1>3, <1>8
    <3> QED
      BY <1>4, <1>13, <3>1 DEF TreeOfDirs
  <2>2. ASSUME NEW x \in DOMAIN dirs' \ {1, B + 1}, NEW p, p = dirs'[x].parent
        PROVE  /\ p \in 1 .. x - 1 /\ (p <= B <=> x <= B)
               /\ dirs'[x].meta # 1 /\ image'.dirs[dirs'[x].meta].parent = dirs'[p].meta
               /\ \E i \in DOMAIN dirs'[p].children : dirs'[p].children[i] = x
    <3>1. x \in DOMAIN dirs \ {1, B + 1} /\ p = dirs[x].parent /\ dirs'[x].meta = dirs[x].meta
      BY <1>4, <2>2
    <3>2. /\ p \in 1 .. x - 1 /\ (p <= B <=> x <= B)
          /\ dirs[x].meta # 1 /\ image.dirs[dirs[x].meta].parent = dirs[p].meta
          /\ \E i \in DOMAIN dirs[p].children : dirs[p].children[i] = x
      BY <1>13, <3>1 DEF TreeOfDirs
    <3>3. p \in DOMAIN dirs
      BY <1>8, <3>1, <3>2
    <3> QED
      BY <1>4, <3>1, <3>2, <3>3
  <2>3. ASSUME NEW x \in DOMAIN dirs', NEW i \in DOMAIN dirs'[x].children
        PROVE  dirs'[x].children[i] \in DOMAIN dirs' \ {1, B + 1} /\ dirs'[dirs'[x].children[i]].parent = x
    <3>1. x \in DOMAIN dirs /\ i \in DOMAIN dirs[x].children /\ dirs'[x].children = dirs[x].children
      BY <1>4, <2>3
    <3>2. dirs[x].children[i] \in DOMAIN dirs \ {1, B + 1} /\ dirs[dirs[x].children[i]].parent = x
      BY <1>13, <3>1 DEF TreeOfDirs
    <3> QED
      BY <1>4, <3>1, <3>2
  <2>4. \A x, y \in DOMAIN dirs' : (x <= B <=> y <= B) /\ dirs'[x].meta = dirs'[y].meta => x = y
    BY <1>4, <1>13
  <2> QED
    BY <2>1, <2>2, <2>3, <2>4 DEF TreeOfDirs
<1>19. TreeOfFiles(B, C)'
  <2>1. ASSUME NEW x \in DOMAIN dirs', NEW i \in DOMAIN dirs'[x].files
        PROVE  dirs'[x].files[i] \in DOMAIN files' /\ files'[dirs'[x].files[i]].parent = x
    <3>1. x \in DOMAIN dirs
      BY <1>4
    <3>2. CASE x = e
      <4>1. CASE i \in 1 .. Len(made)
        BY <1>5, <1>7, <1>10, <1>14, <3>2, <4>1
      <4>2. CASE i = Len(made) + 1
        BY <1>5, <1>7, <1>10, <3>2, <4>2
      <4> QED
        BY <1>10, <2>1, <3>2, <4>1, <4>2
    <3>3. CASE x # e
      <4>1. dirs'[x].files = dirs[x].files
        BY <1>4, <3>1, <3>3
      <4>2. dirs[x].files[i] \in DOMAIN files /\ files[dirs[x].files[i]].parent = x
        BY <1>12, <2>1, <3>1, <4>1
      <4> QED
        BY <1>5, <1>7, <4>1, <4>2
    <3> QED
      BY <3>2, <3>3
  <2>2. ASSUME NEW g \in DOMAIN files', NEW x, x = files'[g].parent
        PROVE  /\ x \in DOMAIN dirs' /\ (g <= C <=> x <= B)
               /\ files'[g].meta \in DOMAIN image'.files
               /\ image'.files[files'[g].meta].parent = dirs'[x].meta
               /\ \E i \in DOMAIN dirs'[x].files : dirs'[x].files[i] = g
    <3>1. CASE g = new
      <4>1. x = e /\ files'[g].meta = d
        BY <1>5, <2>2, <3>1
      <4>2. x \in DOMAIN dirs' /\ image' = image /\ dirs'[x].meta = dirs[e].meta
        BY <1>3, <1>4, <4>1
      <4>3. d \in DOMAIN image.files /\ image.files[d].parent = dirs[e].meta
        BY <1>9, <1>11
      <4>4. ~(g <= C) /\ ~(x <= B)
        <5>1. e \in Nat /\ e > B /\ x = e /\ g = Len(files) + 1 /\ C <= Len(files) /\ Len(files) \in Nat
          <6>1. e \in Nat
            BY <1>3, <1>8
          <6>2. e > B
            BY <1>3
          <6>3. C <= Len(files)
            BY <1>12
          <6>4. Len(files) \in Nat
            BY <1>5
          <6> QED
            BY <1>1, <3>1, <4>1, <6>1, <6>2, <6>3, <6>4
        <5> QED
          BY <5>1
      <4>5. Len(made) + 1 \in DOMAIN dirs'[x].files /\ dirs'[x].files[Len(made) + 1] = g
        BY <1>10, <3>1, <4>1
      <4> QED
        BY <4>1, <4>2, <4>3, <4>4, <4>5
    <3>2. CASE g # new
      <4>1. g \in DOMAIN files /\ files'[g] = files[g] /\ x = files[g].parent
        BY <1>5, <1>7, <2>2, <3>2
      <4>2. /\ x \in DOMAIN dirs /\ (g <= C <=> x <= B) /\ files[g].meta \in DOMAIN image.files
            /\ image.files[files[g].meta].parent = dirs[x].meta
        BY <1>12, <4>1
      <4>3. PICK i \in DOMAIN dirs[x].files : dirs[x].files[i] = g
        BY <1>12, <4>1
      <4>4. i \in DOMAIN dirs'[x].files /\ dirs'[x].files[i] = g
        <5>1. CASE x = e
          <6>1. i \in DOMAIN made /\ made[i] = g
            BY <1>1, <4>3, <5>1
          <6>2. i \in 1 .. Len(made) /\ i \in 1 .. Len(made) + 1
            BY <1>10, <6>1
          <6> QED
            BY <1>10, <5>1, <6>1, <6>2
        <5>2. CASE x # e
          BY <1>4, <4>2, <4>3, <5>2
        <5> QED
          BY <5>1, <5>2
      <4>5. dirs'[x].meta = dirs[x].meta /\ x \in DOMAIN dirs' /\ image' = image
        BY <1>4, <4>2
      <4> QED
        BY <4>1, <4>2, <4>4, <4>5
    <3> QED
      BY <3>1, <3>2
  <2>3. ASSUME NEW g \in DOMAIN files', NEW h \in DOMAIN files', g <= C <=> h <= C, files'[g].meta = files'[h].meta
        PROVE  g = h
    <3>1. ~(new <= C) /\ \A x \in DOMAIN files : ~(x <= C) => x > C
      BY <1>1, <1>5, <1>12
    <3>2. CASE g \in DOMAIN files /\ h \in DOMAIN files
      <4>1. files[g].meta = files[h].meta
        BY <1>5, <2>3, <3>2
      <4> QED
        BY <1>12, <2>3, <3>2, <4>1
    <3>3. CASE g = new /\ h = new
      BY <3>3
    <3>4. CASE g \in DOMAIN files /\ h = new
      BY <1>5, <1>15, <2>3, <3>1, <3>4
    <3>5. CASE g = new /\ h \in DOMAIN files
      BY <1>5, <1>15, <2>3, <3>1, <3>5
    <3> QED
      BY <1>7, <3>2, <3>3, <3>4, <3>5
  <2>4. C <= Len(files')
    BY <1>1, <1>5, <1>12
  <2> QED
    BY <2>1, <2>2, <2>3, <2>4 DEF TreeOfFiles
<1>20. \A i \in 1 .. n - 1 : Along(stack[t][i])' /\ AlongFiles(stack[t][i])'
  <2> TAKE i \in 1 .. n - 1
  <2>1. PICK g, x : g = stack[t][i] /\ x = g.entry
    OBVIOUS
  <2>2. x \in DOMAIN dirs /\ x # e /\ Along(g) /\ AlongFiles(g) /\ stack'[t][i] = g
    BY <1>3, <1>6, <2>1
  <2>3. dirs'[x].meta = dirs[x].meta /\ dirs'[x].children = dirs[x].children /\ dirs'[x].files = dirs[x].files
    BY <1>4, <2>2
  <2>4. /\ \A k \in DOMAIN dirs[x].children : dirs'[dirs[x].children[k]].meta = dirs[dirs[x].children[k]].meta
        /\ \A k \in DOMAIN dirs[x].files : files'[dirs[x].files[k]].meta = files[dirs[x].files[k]].meta
    BY <1>16, <1>17, <2>2
  <2>5. stack'[t][i].entry = x /\ stack'[t][i].dir = g.dir /\ stack'[t][i].file = g.file /\ image' = image
    BY <1>4, <2>1, <2>2
  <2> QED
    BY <2>1, <2>2, <2>3, <2>4, <2>5, CallStays, ZenonT(60)
<1>21. Along(stack[t][n])'
  <2>1. PICK kids, S, g : kids = dirs[e].children /\ S = SubDirs(image, dirs[e].meta) /\ g = stack'[t][n]
    OBVIOUS
  <2>2. /\ Len(kids) <= Len(S) /\ \A i \in DOMAIN kids : dirs[kids[i]].meta = S[i]
        /\ f.dir = IF Len(kids) = Len(S) THEN None ELSE S[Len(kids) + 1]
    BY <1>1, <1>3, <2>1 DEF Along
  <2>3. g.entry = e /\ g.dir = f.dir /\ dirs'[e].children = kids /\ S = SubDirs(image', dirs'[e].meta)
    <3>1. f.dir = None
      BY <1>1 DEF ParseFile
    <3> QED
      BY <1>3, <1>4, <1>6, <2>1, <3>1
  <2>4. \A i \in DOMAIN kids : dirs'[kids[i]].meta = S[i]
    BY <1>3, <1>16, <2>1, <2>2
  <2> QED
    BY <2>1, <2>2, <2>3, <2>4 DEF Along
<1>22. AlongFiles(stack[t][n])'
  <2>1. PICK m, g : m = dirs'[e].files /\ g = stack'[t][n]
    OBVIOUS
  <2>2. Len(m) = Len(made) + 1 /\ DOMAIN m = 1 .. Len(made) + 1 /\ Len(m) \in 1 .. Len(F)
    BY <1>10, <1>11, <2>1
  <2>3. \A i \in DOMAIN m : files'[m[i]].meta = F[i]
    <3> TAKE i \in DOMAIN m
    <3>1. CASE i \in 1 .. Len(made)
      <4>1. m[i] = made[i] /\ files[made[i]].meta = F[i]
        BY <1>10, <1>11, <2>1, <3>1
      <4>2. files'[made[i]] = files[made[i]]
        BY <1>5, <1>10, <1>14, <3>1
      <4> QED
        BY <4>1, <4>2
    <3>2. CASE i = Len(made) + 1
      <4>1. m[i] = new /\ F[i] = d
        BY <1>10, <1>11, <2>1, <3>2
      <4> QED
        BY <1>5, <4>1
    <3> QED
      BY <1>10, <2>2, <3>1, <3>2
  <2>4. Len(m) <= Len(F) /\ g.file = IF Len(m) = Len(F) THEN None ELSE F[Len(m) + 1]
    <3>1. Len(F) \in Nat /\ d = F[Len(m)] /\ g.file = image.files[d].sibling
      BY <1>6, <1>9, <1>11, <2>1, <2>2
    <3>2. Len(m) <= Len(F)
      BY <2>2, <3>1
    <3>3. image.files[F[Len(m)]].sibling = IF Len(m) = Len(F) THEN None ELSE F[Len(m) + 1]
      BY <1>9, <2>2
    <3> QED
      BY <3>1, <3>2, <3>3
  <2>5. g.entry = e /\ g.dir = None /\ F = DirFiles(image', dirs'[e].meta)
    <3>1. dirs'[e].meta = dirs[e].meta /\ image' = image
      BY <1>3, <1>4
    <3> QED
      BY <1>1, <1>6, <2>1, <3>1
  <2> QED
    BY <2>1, <2>3, <2>4, <2>5 DEF AlongFiles
<1>23. \A i \in 1 .. n : i \in 1 .. n - 1 \/ i = n
  BY <1>3
<1>24. \A i \in 1 .. n : stack'[t][i].entry = stack[t][i].entry
  BY <1>1, <1>3, <1>6, <1>23
<1>25. \A x : InCall(x)' <=> InCall(x)
  <2>1. \A u \in Threads : pc'[u] = "parse" <=> u = t
    BY <1>2, <1>3, <1>4
  <2>2. \A x : InCall(x)' <=> \E i \in 1 .. n : stack'[t][i].entry = x
    BY <1>6, <2>1 DEF InCall
  <2> QED
    BY <1>3, <1>24, <2>2
<1>26. Calls(B)'
  <2>1. ASSUME NEW u \in Threads, pc'[u] = "parse" PROVE u = t
    BY <1>3, <1>4, <2>1
  <2>2. ASSUME NEW i \in DOMAIN stack'[t]
        PROVE  stack'[t][i].entry > B /\ Along(stack[t][i])' /\ AlongFiles(stack[t][i])'
    BY <1>3, <1>6, <1>20, <1>21, <1>22, <1>23, <2>2
  <2>3. ASSUME NEW i \in DOMAIN stack'[t], NEW j \in DOMAIN stack'[t], stack'[t][i].entry = stack'[t][j].entry
        PROVE  i = j
    <3>1. \A k \in 1 .. n - 1 : stack'[t][k].entry = stack[t][k].entry /\ stack[t][k].entry # e
      BY <1>3, <1>6
    <3> QED
      BY <1>3, <1>6, <1>23, <2>3, <3>1
  <2>4. ASSUME NEW x \in DOMAIN dirs', ~InCall(x)' PROVE Whole(x)'
    <3>1. x \in DOMAIN dirs /\ ~InCall(x)
      BY <1>4, <1>25, <2>4
    <3>2. Whole(x)
      BY <3>1 DEF FullTree, Calls
    <3>3. x # e
      <4>1. f.entry = e /\ f = stack[t][n] /\ n \in 1 .. n
        BY <1>1, <1>3
      <4> QED
        BY <1>3, <3>1, <4>1
    <3>4. dirs'[x].meta = dirs[x].meta /\ dirs'[x].children = dirs[x].children /\ dirs'[x].files = dirs[x].files
      BY <1>4, <3>1, <3>3
    <3>5. /\ \A k \in DOMAIN dirs[x].children : dirs'[dirs[x].children[k]].meta = dirs[dirs[x].children[k]].meta
          /\ \A k \in DOMAIN dirs[x].files : files'[dirs[x].files[k]].meta = files[dirs[x].files[k]].meta
      BY <1>16, <1>17, <3>1
    <3> QED
      BY <1>4, <3>1, <3>2, <3>4, <3>5, WholeStays
  <2> QED
    BY <2>1, <2>2, <2>3, <2>4 DEF Calls
<1> QED
  BY <1>4, <1>18, <1>19, <1>26 DEF FullTree

LEMMA FullParseReturns ==
  ASSUME Shape, full, OneParse, NEW B \in Nat, NEW C \in Nat, FullTree(B, C),
         NEW t \in Threads, ParseReturns(t)
  PROVE  FullTree(B, C)'
<1>1. PICK f, n, e : f = Top(t) /\ n = Len(stack[t]) /\ e = f.entry
  OBVIOUS
<1>2. /\ pc[t] = "parse" /\ f.dir = None /\ f.file = None
      /\ UNCHANGED <<image, full, dirs, files>>
      /\ stack' = [stack EXCEPT ![t] = Front(@)]
      /\ IF n > 1 THEN pc' = pc ELSE pc' = [pc EXCEPT ![t] = "entries"]
  BY <1>1 DEF ParseReturns, tree
<1>3. /\ n \in Nat \ {0} /\ f = stack[t][n] /\ DOMAIN stack[t] = 1 .. n
      /\ e \in DOMAIN dirs /\ e > B /\ Along(f) /\ AlongFiles(f)
      /\ \A i \in 1 .. n - 1 :
           /\ stack[t][i].entry \in DOMAIN dirs /\ stack[t][i].entry > B
           /\ stack[t][i].entry # e /\ Along(stack[t][i]) /\ AlongFiles(stack[t][i])
      /\ \A i, j \in 1 .. n - 1 : stack[t][i].entry = stack[t][j].entry => i = j
      /\ \A u \in Threads : pc[u] = "parse" => u = t
      /\ \A x : InCall(x) <=> \E i \in 1 .. n : stack[t][i].entry = x
  BY <1>1, <1>2, InnermostOp
<1>4. DOMAIN stack'[t] = 1 .. n - 1 /\ \A i \in 1 .. n - 1 : stack'[t][i] = stack[t][i]
  <2>1. PICK F : F = Front(stack[t])
    OBVIOUS
  <2>2. F \in Seq(FrameType) /\ Len(F) = n - 1 /\ \A i \in 1 .. n - 1 : F[i] = stack[t][i]
    BY <1>1, <1>2, <2>1, TopOp
  <2>3. stack'[t] = F
    BY <1>2, <2>1 DEF Shape
  <2> QED
    BY <1>3, <2>2, <2>3
<1>5. \A u \in Threads : pc'[u] = "parse" <=> u = t /\ n > 1
  <2>1. CASE n > 1
    BY <1>2, <1>3, <2>1
  <2>2. CASE ~(n > 1)
    BY <1>2, <1>3, <2>2 DEF Shape
  <2> QED
    BY <2>1, <2>2
<1>6. Whole(e)
  BY <1>1, <1>2, <1>3, CallDone
<1>7. \A x : Whole(x)' <=> Whole(x)
  BY <1>2 DEF Whole
<1>8. ASSUME NEW x \in DOMAIN dirs, ~InCall(x)' PROVE Whole(x)
  <2>1. CASE x = e
    BY <1>6, <2>1
  <2>2. CASE x # e
    <3>1. ~InCall(x)
      <4> SUFFICES ASSUME InCall(x) PROVE FALSE
        OBVIOUS
      <4>1. PICK i \in 1 .. n : stack[t][i].entry = x
        BY <1>3
      <4>2. i # n
        BY <1>1, <1>3, <2>2, <4>1
      <4>3. i \in 1 .. n - 1 /\ n > 1
        BY <1>3, <4>2
      <4>4. pc'[t] = "parse" /\ i \in DOMAIN stack'[t] /\ stack'[t][i].entry = x
        BY <1>4, <1>5, <4>1, <4>3
      <4> QED
        BY <1>8, <4>4 DEF InCall
    <3> QED
      BY <3>1 DEF FullTree, Calls
  <2> QED
    BY <2>1, <2>2
<1>9. Calls(B)'
  <2>1. \A u \in Threads : pc'[u] = "parse" => u = t
    BY <1>5
  <2>2. ASSUME NEW i \in DOMAIN stack'[t]
        PROVE  stack'[t][i].entry > B /\ Along(stack[t][i])' /\ AlongFiles(stack[t][i])'
    <3>1. PICK g, x : g = stack[t][i] /\ x = g.entry
      OBVIOUS
    <3>2. stack'[t][i] = g /\ x > B /\ Along(g) /\ AlongFiles(g)
      BY <1>3, <1>4, <2>2, <3>1
    <3>3. stack'[t][i].entry = x /\ stack'[t][i].dir = g.dir /\ stack'[t][i].file = g.file
      BY <3>1, <3>2
    <3>4. image' = image /\ dirs' = dirs /\ files' = files
      BY <1>2
    <3> QED
      BY <3>1, <3>2, <3>3, <3>4, CallStays
  <2>3. \A i, j \in DOMAIN stack'[t] : stack'[t][i].entry = stack'[t][j].entry => i = j
    BY <1>3, <1>4
  <2>4. \A x \in DOMAIN dirs' : Whole(x)' \/ InCall(x)'
    BY <1>2, <1>7, <1>8
  <2> QED
    BY <2>1, <2>2, <2>3, <2>4 DEF Calls
<1> QED
  BY <1>2, <1>9 DEF FullTree, TreeOfDirs, TreeOfFiles

\* Numbers from above a on that stand for 1 .. m, each for another.
\* The entries of the tree of r.
Beside(B, r) == {e \in DOMAIN dirs : e <= B <=> r <= B}

\* Either tree has an entry of every directory, and of every file.
LEMMA TreeCovers ==
  ASSUME Shape, Calm, NEW B \in Nat, NEW C \in Nat, FullTree(B, C), NEW r \in {1, B + 1}, NEW d \in Places
  PROVE  \E e \in Beside(B, r) : dirs[e].meta = d
<1>1. image \in Images /\ Len(image.dirs) \in Nat
  <2>1. image \in Images
    BY DEF Shape
  <2> QED
    BY <2>1, ImageOp
<1>2. \A e \in DOMAIN dirs : Whole(e)
  BY DEF FullTree, Calls, InCall, Calm
<1>3. /\ B + 1 \in DOMAIN dirs /\ \A x \in {1, B + 1} : dirs[x].meta = 1
      /\ \A x \in DOMAIN dirs \ {1, B + 1} : dirs[x].parent <= B <=> x <= B
      /\ \A x \in DOMAIN dirs : \A i \in DOMAIN dirs[x].children :
           dirs[x].children[i] \in DOMAIN dirs \ {1, B + 1} /\ dirs[dirs[x].children[i]].parent = x
  BY DEF FullTree, TreeOfDirs
<1>4. r \in Beside(B, r)
  <2>1. Len(dirs) \in Nat /\ DOMAIN dirs = 1 .. Len(dirs)
    BY DEF Shape
  <2>2. 1 \in DOMAIN dirs
    BY <1>3, <2>1
  <2> QED
    BY <1>3, <2>2 DEF Beside
<1> DEFINE T == {y \in Places : \E e \in Beside(B, r) : dirs[e].meta = y}
<1>5. ASSUME NEW k \in 1 .. Len(image.dirs), \A j \in 1 .. k - 1 : j \in T
      PROVE  k \in T
  <2>1. k \in Places
    BY DEF Places
  <2>2. CASE k = 1
    BY <1>3, <1>4, <2>1, <2>2
  <2>3. CASE k # 1
    <3>1. PICK p, S : p = image.dirs[k].parent /\ S = SubDirs(image, p)
      OBVIOUS
    <3>2. p \in 1 .. k - 1
      BY <1>1, <2>1, <2>3, <3>1, ParentOp
    <3>3. p \in Places
      BY <1>1, <3>2 DEF Places
    <3>4. PICK e \in Beside(B, r) : dirs[e].meta = p
      BY <1>5, <3>2
    <3>5. PICK kids : kids = dirs[e].children
      OBVIOUS
    <3>6. e \in DOMAIN dirs /\ (e <= B <=> r <= B)
      BY DEF Beside
    <3>7. PICK i \in 1 .. Len(S) : S[i] = k
      <4>1. \A c \in Places \ {1} : image.dirs[c].parent = p => \E i \in 1 .. Len(S) : S[i] = c
        BY <1>1, <3>1, <3>3, ChainsOp
      <4> QED
        BY <2>1, <2>3, <3>1, <4>1
    <3>8. i \in DOMAIN kids /\ dirs[kids[i]].meta = k
      <4>1. kids \in Seq(Nat)
        <5>1. dirs[e] \in DirEntry
          BY <3>6 DEF Shape
        <5> QED
          BY <3>5, <5>1 DEF DirEntry
      <4>2. Len(kids) = Len(S) /\ \A j \in DOMAIN kids : dirs[kids[j]].meta = S[j]
        BY <1>2, <3>1, <3>4, <3>5, <3>6 DEF Whole
      <4>3. DOMAIN kids = 1 .. Len(S)
        BY <4>1, <4>2
      <4> QED
        BY <3>7, <4>2, <4>3
    <3>9. kids[i] \in DOMAIN dirs \ {1, B + 1} /\ dirs[kids[i]].parent = e
      BY <1>3, <3>5, <3>6, <3>8
    <3>10. kids[i] \in Beside(B, r)
      BY <1>3, <3>6, <3>9 DEF Beside
    <3> QED
      BY <2>1, <3>8, <3>10
  <2> QED
    BY <2>2, <2>3
<1>6. \A k \in 1 .. Len(image.dirs) : k \in T
  <2> HIDE DEF T
  <2> QED
    BY <1>1, <1>5, StrongInduction
<1> QED
  BY <1>6 DEF Places

LEMMA FilesCover ==
  ASSUME Shape, Calm, NEW B \in Nat, NEW C \in Nat, FullTree(B, C), NEW r \in {1, B + 1},
         NEW f \in DOMAIN image.files
  PROVE  \E g \in DOMAIN files : files[g].meta = f /\ files[g].parent \in Beside(B, r)
<1>1. image \in Images
  BY DEF Shape
<1>2. PICK d, F : d = image.files[f].parent /\ F = DirFiles(image, d)
  OBVIOUS
<1>3. d \in Places
  <2>1. \E one \in Places : one = 1
    BY <1>1, ImageOp
  <2>2. \A x \in DOMAIN image.files : image.files[x].parent \in Places
    BY <1>1, <2>1, ChainsOp
  <2> QED
    BY <1>2, <2>2
<1>4. PICK e \in Beside(B, r) : dirs[e].meta = d
  BY <1>3, TreeCovers
<1>5. e \in DOMAIN dirs
  BY DEF Beside
<1>6. PICK leaves : leaves = dirs[e].files
  OBVIOUS
<1>7. PICK i \in 1 .. Len(F) : F[i] = f
  <2>1. \A x \in DOMAIN image.files : image.files[x].parent = d => \E i \in 1 .. Len(F) : F[i] = x
    BY <1>1, <1>2, <1>3, ChainsOp
  <2> QED
    BY <1>2, <2>1
<1>8. i \in DOMAIN leaves /\ files[leaves[i]].meta = f
  <2>1. leaves \in Seq(Nat)
    <3>1. dirs[e] \in DirEntry
      BY <1>5 DEF Shape
    <3> QED
      BY <1>6, <3>1 DEF DirEntry
  <2>2. Whole(e)
    BY <1>5 DEF FullTree, Calls, InCall, Calm
  <2>3. Len(leaves) = Len(F) /\ \A j \in DOMAIN leaves : files[leaves[j]].meta = F[j]
    BY <1>2, <1>4, <1>6, <2>2 DEF Whole
  <2>4. DOMAIN leaves = 1 .. Len(F)
    BY <2>1, <2>3
  <2> QED
    BY <1>7, <2>3, <2>4
<1>9. leaves[i] \in DOMAIN files /\ files[leaves[i]].parent = e
  BY <1>5, <1>6, <1>8 DEF FullTree, TreeOfFiles
<1> QED
  BY <1>8, <1>9

LEMMA CountOp ==
  ASSUME NEW a \in Nat, NEW n \in Nat, a <= n, NEW m \in Nat, NEW g \in Bijection(a + 1 .. n, 1 .. m)
  PROVE  n = a + m
<1>1. IsFiniteSet(a + 1 .. n) /\ Cardinality(a + 1 .. n) = IF a + 1 > n THEN 0 ELSE n - (a + 1) + 1
  <2>1. PICK b : b = a + 1
    OBVIOUS
  <2>2. b \in Int /\ n \in Int
    BY <2>1
  <2> QED
    BY <2>1, <2>2, FS_Interval
<1>2. Cardinality(1 .. m) = m
  BY FS_Interval
<1>3. Cardinality(1 .. m) = Cardinality(a + 1 .. n)
  BY <1>1, FS_Bijection DEF ExistsBijection
<1> QED
  BY <1>1, <1>2, <1>3

\* When parse_full is through, the tree it made is the whole of the image.
LEMMA FullCount ==
  ASSUME Shape, Calm, NEW B \in Nat, NEW C \in Nat, FullTree(B, C)
  PROVE  Len(dirs) = B + Len(image.dirs) /\ Len(files) = C + Len(image.files)
<1>1. /\ Len(dirs) \in Nat /\ DOMAIN dirs = 1 .. Len(dirs) /\ Len(files) \in Nat /\ DOMAIN files = 1 .. Len(files)
      /\ image \in Images /\ \A e \in DOMAIN dirs : dirs[e].meta \in Places
  BY DEF Shape
<1>2. Len(image.dirs) \in Nat /\ Len(image.files) \in Nat /\ DOMAIN image.files = 1 .. Len(image.files)
  BY <1>1, ImageOp
<1>3. /\ B + 1 \in DOMAIN dirs
      /\ \A x, y \in DOMAIN dirs : (x <= B <=> y <= B) /\ dirs[x].meta = dirs[y].meta => x = y
  BY DEF FullTree, TreeOfDirs
<1>4. /\ C <= Len(files)
      /\ \A g \in DOMAIN files :
           (g <= C <=> files[g].parent <= B) /\ files[g].meta \in DOMAIN image.files
      /\ \A g, h \in DOMAIN files : (g <= C <=> h <= C) /\ files[g].meta = files[h].meta => g = h
  BY DEF FullTree, TreeOfFiles
<1>5. \A x \in DOMAIN dirs : x > B <=> ~(x <= B)
  BY <1>1
<1>6. \A g \in DOMAIN files : g > C <=> ~(g <= C)
  BY <1>1
<1>7. \A d \in Places : \E e \in DOMAIN dirs : e > B /\ dirs[e].meta = d
  <2> TAKE d \in Places
  <2>1. PICK r : r = B + 1
    OBVIOUS
  <2>2. PICK e \in Beside(B, r) : dirs[e].meta = d
    BY <2>1, TreeCovers
  <2>3. ~(r <= B)
    BY <2>1
  <2> QED
    BY <1>5, <2>2, <2>3 DEF Beside
<1>8. Len(dirs) = B + Len(image.dirs)
  <2> DEFINE g == [k \in B + 1 .. Len(dirs) |-> dirs[k].meta]
  <2>1. \A k \in B + 1 .. Len(dirs) : k \in DOMAIN dirs /\ ~(k <= B)
    BY <1>1
  <2>2. \A k \in B + 1 .. Len(dirs) : g[k] \in 1 .. Len(image.dirs)
    BY <1>1, <2>1 DEF Places
  <2>3. \A j, k \in B + 1 .. Len(dirs) : g[j] = g[k] => j = k
    BY <1>3, <2>1
  <2>4. \A x \in 1 .. Len(image.dirs) : \E k \in B + 1 .. Len(dirs) : g[k] = x
    <3> TAKE x \in 1 .. Len(image.dirs)
    <3>1. PICK e \in DOMAIN dirs : e > B /\ dirs[e].meta = x
      BY <1>7 DEF Places
    <3>2. e \in B + 1 .. Len(dirs)
      BY <1>1, <3>1
    <3> QED
      BY <3>1, <3>2
  <2>5. B <= Len(dirs)
    BY <1>1, <1>3
  <2>6. DOMAIN g = B + 1 .. Len(dirs) /\ g = [k \in B + 1 .. Len(dirs) |-> g[k]]
    OBVIOUS
  <2> HIDE DEF g
  <2>7. g \in Bijection(B + 1 .. Len(dirs), 1 .. Len(image.dirs))
    BY <2>2, <2>3, <2>4, <2>6 DEF Bijection, Injection, Surjection, IsInjective
  <2> QED
    BY <1>1, <1>2, <2>5, <2>7, CountOp
<1>9. Len(files) = C + Len(image.files)
  <2> DEFINE g == [k \in C + 1 .. Len(files) |-> files[k].meta]
  <2>1. \A k \in C + 1 .. Len(files) : k \in DOMAIN files /\ ~(k <= C)
    BY <1>1
  <2>2. \A k \in C + 1 .. Len(files) : g[k] \in 1 .. Len(image.files)
    BY <1>2, <1>4, <2>1
  <2>3. \A j, k \in C + 1 .. Len(files) : g[j] = g[k] => j = k
    BY <1>4, <2>1
  <2>4. \A x \in 1 .. Len(image.files) : \E k \in C + 1 .. Len(files) : g[k] = x
    <3> TAKE x \in 1 .. Len(image.files)
    <3>1. PICK r : r = B + 1
      OBVIOUS
    <3>2. x \in DOMAIN image.files /\ ~(r <= B)
      BY <1>2, <3>1
    <3>3. PICK k \in DOMAIN files : files[k].meta = x /\ files[k].parent \in Beside(B, r)
      BY <3>1, <3>2, FilesCover
    <3>4. k > C
      BY <1>4, <1>6, <3>2, <3>3 DEF Beside
    <3>5. k \in C + 1 .. Len(files)
      BY <1>1, <3>3, <3>4
    <3> QED
      BY <3>3, <3>5
  <2>6. DOMAIN g = C + 1 .. Len(files) /\ g = [k \in C + 1 .. Len(files) |-> g[k]]
    OBVIOUS
  <2> HIDE DEF g
  <2>7. g \in Bijection(C + 1 .. Len(files), 1 .. Len(image.files))
    BY <2>2, <2>3, <2>4, <2>6 DEF Bijection, Injection, Surjection, IsInjective
  <2> QED
    BY <1>1, <1>2, <1>4, <2>7, CountOp
<1> QED
  BY <1>8, <1>9

\* parse_full begins: what there is so far is nothing, or one tree that is whole.
LEMMA FullOpen ==
  ASSUME FullInv, NEW t \in Threads, Open(t)
  PROVE  \E B, C \in Nat : FullTree(B, C)'
<1>1. PICK B, C, new : B = Len(dirs) /\ C = Len(files) /\ new = B + 1
  OBVIOUS
<1>2. /\ Shape /\ image \in Images
      /\ B \in Nat /\ C \in Nat /\ DOMAIN dirs = 1 .. B /\ DOMAIN files = 1 .. C
      /\ \A e \in DOMAIN dirs : dirs[e].meta \in Places
  BY <1>1 DEF FullInv, Shape
<1>3. /\ UNCHANGED <<image, full, files>> /\ pc[t] = "idle" /\ pc'[t] = "parse"
      /\ \A u \in Threads \ {t} : pc'[u] = pc[u] /\ stack'[u] = stack[u]
      /\ stack'[t] = <<Frame(new, 1)>>
      /\ dirs' = Append(dirs, [meta |-> 1, parent |-> None, children |-> <<>>, files |-> <<>>])
  <2>1. UNCHANGED files
    BY DEF Open
  <2> QED
    BY <1>1, <1>2, <2>1, OpenShape
<1>4. Calm
  <2>1. dirs = <<>> \/ Calm
    BY DEF Open
  <2> QED
    BY <1>2, <2>1 DEF Shape, Calm
<1>5. /\ (B = 0 /\ C = 0) \/ (B = Len(image.dirs) /\ C = Len(image.files))
      /\ \A x \in DOMAIN dirs : x = 1 => dirs[x].meta = 1 /\ dirs[x].parent = None
      /\ \A x \in DOMAIN dirs \ {1} :
           /\ dirs[x].parent \in 1 .. x - 1
           /\ dirs[x].meta # 1 /\ image.dirs[dirs[x].meta].parent = dirs[dirs[x].parent].meta
           /\ \E i \in DOMAIN dirs[dirs[x].parent].children : dirs[dirs[x].parent].children[i] = x
      /\ \A x \in DOMAIN dirs : \A i \in DOMAIN dirs[x].children :
           dirs[x].children[i] \in DOMAIN dirs \ {1} /\ dirs[dirs[x].children[i]].parent = x
      /\ \A x, y \in DOMAIN dirs : dirs[x].meta = dirs[y].meta => x = y
      /\ \A x \in DOMAIN dirs : \A i \in DOMAIN dirs[x].files :
           dirs[x].files[i] \in DOMAIN files /\ files[dirs[x].files[i]].parent = x
      /\ \A g \in DOMAIN files :
           /\ files[g].parent \in DOMAIN dirs /\ files[g].meta \in DOMAIN image.files
           /\ image.files[files[g].meta].parent = dirs[files[g].parent].meta
           /\ \E i \in DOMAIN dirs[files[g].parent].files : dirs[files[g].parent].files[i] = g
      /\ \A g, h \in DOMAIN files : files[g].meta = files[h].meta => g = h
      /\ \A x \in DOMAIN dirs : Whole(x)
  <2>1. CASE dirs = <<>> /\ files = <<>>
    <3>1. DOMAIN dirs = {} /\ DOMAIN files = {} /\ B = 0 /\ C = 0
      BY <1>1, <2>1
    <3> QED
      BY <3>1
  <2>2. CASE \E b, c \in Nat : FullTree(b, c)
    <3>1. PICK b, c \in Nat : FullTree(b, c)
      BY <2>2
    <3>2. B = b + Len(image.dirs) /\ C = c + Len(image.files)
      BY <1>1, <1>2, <1>4, <3>1, FullCount
    <3>3. b + 1 \in DOMAIN dirs
      BY <3>1 DEF FullTree, TreeOfDirs
    <3>4. B <= Len(image.dirs)
      <4>1. dirs # <<>>
        BY <3>3
      <4> QED
        BY <1>1, <4>1 DEF Open
    <3>5. Len(image.dirs) \in Nat \ {0} /\ Len(image.files) \in Nat
      BY <1>2, ImageOp
    <3>6. b = 0
      BY <3>2, <3>4, <3>5
    <3>7. c = 0
      BY <3>1, <3>5, <3>6 DEF FullTree
    <3>8. B = Len(image.dirs) /\ C = Len(image.files)
      BY <3>2, <3>5, <3>6, <3>7
    <3>9. TreeOfDirs(0) /\ TreeOfFiles(0, 0) /\ Calls(0)
      BY <3>1, <3>6, <3>7 DEF FullTree
    <3>10. /\ \A x \in DOMAIN dirs : x = 1 => dirs[x].meta = 1 /\ dirs[x].parent = None
           /\ \A x \in DOMAIN dirs \ {1} :
                /\ dirs[x].parent \in 1 .. x - 1
                /\ dirs[x].meta # 1 /\ image.dirs[dirs[x].meta].parent = dirs[dirs[x].parent].meta
                /\ \E i \in DOMAIN dirs[dirs[x].parent].children : dirs[dirs[x].parent].children[i] = x
           /\ \A x \in DOMAIN dirs : \A i \in DOMAIN dirs[x].children :
                dirs[x].children[i] \in DOMAIN dirs \ {1} /\ dirs[dirs[x].children[i]].parent = x
      BY <3>9 DEF TreeOfDirs
    <3>11. \A x, y \in DOMAIN dirs : dirs[x].meta = dirs[y].meta => x = y
      <4>1. \A x \in DOMAIN dirs : ~(x <= 0)
        BY <1>2
      <4> QED
        BY <3>9, <4>1 DEF TreeOfDirs
    <3>12. /\ \A x \in DOMAIN dirs : \A i \in DOMAIN dirs[x].files :
                dirs[x].files[i] \in DOMAIN files /\ files[dirs[x].files[i]].parent = x
           /\ \A g \in DOMAIN files :
                /\ files[g].parent \in DOMAIN dirs /\ files[g].meta \in DOMAIN image.files
                /\ image.files[files[g].meta].parent = dirs[files[g].parent].meta
                /\ \E i \in DOMAIN dirs[files[g].parent].files : dirs[files[g].parent].files[i] = g
      BY <3>9 DEF TreeOfFiles
    <3>13. \A g, h \in DOMAIN files : files[g].meta = files[h].meta => g = h
      <4>1. \A g \in DOMAIN files : ~(g <= 0)
        BY <1>2
      <4> QED
        BY <3>9, <4>1 DEF TreeOfFiles
    <3>14. \A x \in DOMAIN dirs : Whole(x)
      BY <1>4, <3>9 DEF Calls, Calm, InCall
    <3> QED
      BY <3>8, <3>10, <3>11, <3>12, <3>13, <3>14
  <2> QED
    BY <2>1, <2>2 DEF FullInv
<1>6. /\ DOMAIN dirs' = 1 .. new /\ \A x \in DOMAIN dirs : dirs'[x] = dirs[x]
      /\ dirs'[new].meta = 1 /\ dirs'[new].parent = None
      /\ dirs'[new].children = <<>> /\ dirs'[new].files = <<>>
  <2> DEFINE fresh == [meta |-> 1, parent |-> None, children |-> <<>>, files |-> <<>>]
  <2>1. dirs \in Seq(DirEntry) /\ dirs' = Append(dirs, fresh)
    BY <1>2, <1>3 DEF Shape
  <2>2. fresh \in DirEntry
    BY DEF DirEntry, None
  <2>3. fresh.meta = 1 /\ fresh.parent = None /\ fresh.children = <<>> /\ fresh.files = <<>>
    OBVIOUS
  <2> HIDE DEF fresh
  <2>4. DOMAIN dirs' = 1 .. new /\ (\A x \in DOMAIN dirs : dirs'[x] = dirs[x]) /\ dirs'[new] = fresh
    BY <1>1, <1>2, <2>1, <2>2, AppendOp
  <2> QED
    BY <2>3, <2>4
<1>7. /\ new \in DOMAIN dirs' /\ new \notin DOMAIN dirs /\ new > B /\ new \in Nat
      /\ \A x \in DOMAIN dirs' : x \in DOMAIN dirs \/ x = new
      /\ \A x \in DOMAIN dirs : x \in DOMAIN dirs' /\ x <= B
      /\ ~(new <= B) /\ DOMAIN <<>> = {}
  BY <1>1, <1>2, <1>6
<1>8. TreeOfDirs(B)'
  <2>1. ASSUME NEW x \in {1, B + 1} PROVE dirs'[x].meta = 1 /\ dirs'[x].parent = None
    <3>1. x = new \/ x = 1
      BY <1>1, <2>1
    <3>2. 1 \in DOMAIN dirs'
      BY <1>1, <1>2, <1>6
    <3> QED
      BY <1>5, <1>6, <1>7, <3>1, <3>2
  <2>2. ASSUME NEW x \in DOMAIN dirs' \ {1, B + 1}, NEW p, p = dirs'[x].parent
        PROVE  /\ p \in 1 .. x - 1 /\ (p <= B <=> x <= B)
               /\ dirs'[x].meta # 1 /\ image'.dirs[dirs'[x].meta].parent = dirs'[p].meta
               /\ \E i \in DOMAIN dirs'[p].children : dirs'[p].children[i] = x
    <3>1. x \in DOMAIN dirs \ {1} /\ dirs'[x] = dirs[x] /\ p = dirs[x].parent
      BY <1>1, <1>6, <1>7, <2>2
    <3>2. /\ p \in 1 .. x - 1
          /\ dirs[x].meta # 1 /\ image.dirs[dirs[x].meta].parent = dirs[p].meta
          /\ \E i \in DOMAIN dirs[p].children : dirs[p].children[i] = x
      <4>1. /\ dirs[x].parent \in 1 .. x - 1
            /\ dirs[x].meta # 1 /\ image.dirs[dirs[x].meta].parent = dirs[dirs[x].parent].meta
            /\ \E i \in DOMAIN dirs[dirs[x].parent].children : dirs[dirs[x].parent].children[i] = x
        BY <1>5, <3>1
      <4> QED
        BY <3>1, <4>1
    <3>3. p \in DOMAIN dirs
      BY <1>2, <3>1, <3>2
    <3>4. dirs'[p] = dirs[p] /\ p <= B /\ x <= B
      BY <1>6, <1>7, <3>1, <3>3
    <3> QED
      BY <1>3, <3>1, <3>2, <3>4
  <2>3. ASSUME NEW x \in DOMAIN dirs', NEW i \in DOMAIN dirs'[x].children
        PROVE  dirs'[x].children[i] \in DOMAIN dirs' \ {1, B + 1} /\ dirs'[dirs'[x].children[i]].parent = x
    <3>1. x \in DOMAIN dirs /\ dirs'[x] = dirs[x]
      BY <1>6, <1>7, <2>3
    <3>2. dirs[x].children[i] \in DOMAIN dirs \ {1} /\ dirs[dirs[x].children[i]].parent = x
      BY <1>5, <2>3, <3>1
    <3> QED
      BY <1>1, <1>6, <1>7, <3>1, <3>2
  <2>4. ASSUME NEW x \in DOMAIN dirs', NEW y \in DOMAIN dirs', x <= B <=> y <= B, dirs'[x].meta = dirs'[y].meta
        PROVE  x = y
    <3>1. (x \in DOMAIN dirs /\ y \in DOMAIN dirs) \/ (x = new /\ y = new)
      BY <1>7, <2>4
    <3>2. CASE x \in DOMAIN dirs /\ y \in DOMAIN dirs
      BY <1>5, <1>6, <2>4, <3>2
    <3> QED
      BY <3>1, <3>2
  <2>5. B + 1 \in DOMAIN dirs'
    BY <1>1, <1>7
  <2> QED
    BY <2>1, <2>2, <2>3, <2>4, <2>5 DEF TreeOfDirs
<1>9. TreeOfFiles(B, C)'
  <2>1. ASSUME NEW x \in DOMAIN dirs', NEW i \in DOMAIN dirs'[x].files
        PROVE  dirs'[x].files[i] \in DOMAIN files' /\ files'[dirs'[x].files[i]].parent = x
    <3>1. x \in DOMAIN dirs /\ dirs'[x] = dirs[x]
      BY <1>6, <1>7, <2>1
    <3>2. i \in DOMAIN dirs[x].files
      BY <2>1, <3>1
    <3> QED
      BY <1>3, <1>5, <3>1, <3>2
  <2>2. ASSUME NEW g \in DOMAIN files', NEW x, x = files'[g].parent
        PROVE  /\ x \in DOMAIN dirs' /\ (g <= C <=> x <= B)
               /\ files'[g].meta \in DOMAIN image'.files
               /\ image'.files[files'[g].meta].parent = dirs'[x].meta
               /\ \E i \in DOMAIN dirs'[x].files : dirs'[x].files[i] = g
    <3>1. files' = files /\ image' = image /\ g \in DOMAIN files /\ x = files[g].parent
      BY <1>3, <2>2
    <3>2. /\ x \in DOMAIN dirs /\ files[g].meta \in DOMAIN image.files
          /\ image.files[files[g].meta].parent = dirs[x].meta
          /\ \E i \in DOMAIN dirs[x].files : dirs[x].files[i] = g
      <4>1. /\ files[g].parent \in DOMAIN dirs /\ files[g].meta \in DOMAIN image.files
            /\ image.files[files[g].meta].parent = dirs[files[g].parent].meta
            /\ \E i \in DOMAIN dirs[files[g].parent].files : dirs[files[g].parent].files[i] = g
        BY <1>5, <3>1
      <4> QED
        BY <3>1, <4>1
    <3>3. dirs'[x] = dirs[x] /\ x \in DOMAIN dirs' /\ x <= B
      BY <1>6, <1>7, <3>2
    <3>4. g <= C
      BY <1>2, <3>1
    <3> QED
      BY <3>1, <3>2, <3>3, <3>4
  <2>3. \A g, h \in DOMAIN files' : files'[g].meta = files'[h].meta => g = h
    BY <1>3, <1>5
  <2>4. C <= Len(files')
    BY <1>1, <1>2, <1>3
  <2> QED
    BY <2>1, <2>2, <2>3, <2>4 DEF TreeOfFiles
<1>10. Calls(B)'
  <2>1. \A u \in Threads : pc'[u] = "parse" <=> u = t
    BY <1>3, <1>4 DEF Calm
  <2>2. /\ DOMAIN stack'[t] = {1} /\ stack'[t][1].entry = new
        /\ stack'[t][1].dir = image.dirs[1].child /\ stack'[t][1].file = image.dirs[1].file
    <3>1. PICK h : h = Frame(new, 1)
      OBVIOUS
    <3>2. stack'[t] = <<h>> /\ h.entry = new /\ h.dir = image.dirs[1].child /\ h.file = image.dirs[1].file
      BY <1>3, <3>1 DEF Frame
    <3> QED
      BY <3>2
  <2>3. Along(stack[t][1])' /\ AlongFiles(stack[t][1])'
    <3>1. PICK d : d = 1
      OBVIOUS
    <3>2. d \in Places
      BY <1>2, <3>1, ImageOp
    <3>3. image' = image
      BY <1>3
    <3>4. dirs'[new].meta = d /\ dirs'[new].children = <<>> /\ dirs'[new].files = <<>>
      BY <1>6, <3>1
    <3>5. /\ stack'[t][1].entry = new
          /\ stack'[t][1].dir = image.dirs[d].child /\ stack'[t][1].file = image.dirs[d].file
      BY <2>2, <3>1
    <3>6. PICK j : j = 1
      OBVIOUS
    <3>7. Along(stack[t][j])' /\ AlongFiles(stack[t][j])'
      BY <1>2, <3>2, <3>3, <3>4, <3>5, <3>6, CallBegins
    <3> QED
      BY <3>6, <3>7
  <2>4. ASSUME NEW x \in DOMAIN dirs', ~InCall(x)' PROVE Whole(x)'
    <3>1. x # new
      BY <2>1, <2>2, <2>4 DEF InCall
    <3>2. x \in DOMAIN dirs /\ dirs'[x] = dirs[x] /\ Whole(x)
      BY <1>5, <1>6, <1>7, <3>1
    <3>3. \A i \in DOMAIN dirs[x].children : dirs'[dirs[x].children[i]].meta = dirs[dirs[x].children[i]].meta
      BY <1>5, <1>6, <3>2
    <3>4. files' = files /\ image' = image
      BY <1>3
    <3> QED
      BY <3>2, <3>3, <3>4, WholeStays
  <2>5. stack'[t][1].entry > B
    BY <1>7, <2>2
  <2> QED
    BY <2>1, <2>2, <2>3, <2>4, <2>5 DEF Calls
<1>11. FullTree(B, C)'
  BY <1>3, <1>5, <1>8, <1>9, <1>10 DEF FullTree
<1> QED
  BY <1>2, <1>11

\* A step that leaves the entries and the calls alone.
LEMMA FullRests ==
  ASSUME NEW B, NEW C, FullTree(B, C), UNCHANGED <<image, dirs, files, stack>>,
         \A u \in Threads : pc'[u] = "parse" <=> pc[u] = "parse"
  PROVE  FullTree(B, C)'
<1>1. TreeOfDirs(B)' /\ TreeOfFiles(B, C)'
  BY DEF FullTree, TreeOfDirs, TreeOfFiles
<1>2. \A x : Whole(x)' <=> Whole(x)
  BY DEF Whole
<1>3. \A x : InCall(x)' <=> InCall(x)
  BY DEF InCall
<1>4. \A u \in Threads : \A i \in DOMAIN stack[u] :
        (Along(stack[u][i])' <=> Along(stack[u][i])) /\ (AlongFiles(stack[u][i])' <=> AlongFiles(stack[u][i]))
  BY DEF Along, AlongFiles
<1>5. Calls(B)'
  <2>1. Calls(B)
    BY DEF FullTree
  <2> QED
    BY <1>2, <1>3, <1>4, <2>1 DEF Calls
<1> QED
  BY <1>1, <1>5 DEF FullTree

LEMMA FullStep ==
  ASSUME FullInv, [Next]_vars
  PROVE  FullInv'
<1> DEFINE Goal == (dirs' = <<>> /\ files' = <<>>) \/ \E B, C \in Nat : FullTree(B, C)'
<1>1. Shape /\ full /\ OneParse /\ Shape' /\ full' /\ OneParse'
  BY PythonStep DEF FullInv
<1>2. ASSUME NEW t \in Threads, Open(t) PROVE Goal
  BY <1>2, FullOpen
<1>3. ASSUME NEW t \in Threads, Parse(t) PROVE Goal
  <2>1. pc[t] = "parse"
    BY <1>3 DEF Parse, ParseChild, ParseFile, ParseReturns
  <2>2. dirs # <<>>
    BY <1>1, <2>1 DEF Shape
  <2>3. PICK B, C \in Nat : FullTree(B, C)
    BY <2>2 DEF FullInv
  <2>4. FullTree(B, C)'
    BY <1>1, <1>3, <2>3, FullParseChild, FullParseFile, FullParseReturns DEF Parse
  <2> QED
    BY <2>4
<1>4. ASSUME UNCHANGED <<image, dirs, files, stack>>,
             \A u \in Threads : pc'[u] = "parse" <=> pc[u] = "parse"
      PROVE  Goal
  <2>1. CASE dirs = <<>> /\ files = <<>>
    BY <1>4, <2>1
  <2>2. CASE \E B, C \in Nat : FullTree(B, C)
    BY <1>4, <2>2, FullRests
  <2> QED
    BY <2>1, <2>2 DEF FullInv
<1>5. ASSUME NEW t \in Threads, GetEntries(t)
      PROVE  Goal
  <2>1. /\ pc[t] = "entries" /\ pc' = [pc EXCEPT ![t] = "idle"]
        /\ UNCHANGED <<image, dirs, files, stack>>
    BY <1>5 DEF GetEntries, Goto, tree
  <2>2. \A u \in Threads : pc'[u] = "parse" <=> pc[u] = "parse"
    BY <1>1, <2>1 DEF Shape
  <2> QED
    BY <1>4, <2>1, <2>2
<1>6. ASSUME UNCHANGED vars PROVE Goal
  <2>1. UNCHANGED <<image, dirs, files, stack, pc>>
    BY <1>6 DEF vars
  <2> QED
    BY <1>4, <2>1
<1>7. ASSUME NEW t \in Threads,
             \/ \E path \in Known : Begin(t, path)
             \/ LockFolder(t) \/ Find(t) \/ LockParse(t) \/ Unlock(t) \/ Collect(t)
      PROVE  FALSE
  BY <1>1, <1>7 DEF OneParse, Begin, LockFolder, Find, FindBegins, FindHash, FindChain, FindChild, Found,
                    LockParse, Unlock, Collect, Goto
<1>8. Goal
  <2> HIDE DEF Goal
  <2> QED
    BY <1>2, <1>3, <1>5, <1>6, <1>7 DEF Next, Handle
<1> QED
  BY <1>1, <1>8 DEF FullInv

LEMMA FullsTree == FullInv => TreeExact
<1> SUFFICES ASSUME FullInv PROVE TreeExact
  OBVIOUS
<1>1. Shape /\ full /\ image \in Images
  BY DEF FullInv, Shape
<1>2. Len(image.dirs) \in Nat \ {0} /\ Len(image.files) \in Nat
  BY <1>1, ImageOp
<1>3. CASE dirs = <<>> /\ files = <<>>
  <2>1. DOMAIN dirs = {} /\ Len(dirs) = 0 * Len(image.dirs) /\ Len(files) = 0 * Len(image.files)
    BY <1>2, <1>3
  <2> QED
    BY <2>1 DEF TreeExact
<1>4. CASE \E B, C \in Nat : FullTree(B, C)
  <2>1. PICK B, C \in Nat : FullTree(B, C)
    BY <1>4
  <2>2. /\ (B = 0 /\ C = 0) \/ (B = Len(image.dirs) /\ C = Len(image.files))
        /\ TreeOfDirs(B) /\ Calls(B)
    BY <2>1 DEF FullTree
  <2>3. ASSUME NEW e1 \in DOMAIN dirs, NEW e2 \in DOMAIN dirs, dirs[e1].meta = dirs[e2].meta, Copy(e1) = Copy(e2)
        PROVE  e1 = e2
    <3>1. e1 \in Nat \ {0} /\ e2 \in Nat \ {0}
      BY <1>1 DEF Shape
    <3>2. e1 <= Len(image.dirs) <=> e2 <= Len(image.dirs)
      <4>1. PICK n : n = Len(image.dirs)
        OBVIOUS
      <4>2. n \in Nat \ {0} /\ (e1 - 1) \div n = (e2 - 1) \div n
        BY <1>2, <2>3, <4>1 DEF Copy
      <4>3. e1 <= n <=> e2 <= n
        BY <3>1, <4>2, CopyOp
      <4> QED
        BY <4>1, <4>3
    <3>3. e1 <= B <=> e2 <= B
      BY <2>2, <3>1, <3>2
    <3> QED
      BY <2>2, <2>3, <3>3 DEF TreeOfDirs
  <2>4. ASSUME NEW e \in DOMAIN dirs PROVE Hung(e)
    <3>1. \A c \in ToSet(dirs[e].children) : dirs[c].parent = e
      BY <2>2 DEF TreeOfDirs, ToSet
    <3>2. Whole(e) \/ InCall(e)
      BY <2>2 DEF Calls
    <3>3. InCall(e) => ~Calm /\ \E t \in Threads : \E i \in DOMAIN stack[t] : stack[t][i].entry = e
      BY DEF InCall, Calm
    <3>4. Whole(e) =>
            /\ [i \in DOMAIN dirs[e].children |-> dirs[dirs[e].children[i]].meta] = SubDirs(image, dirs[e].meta)
            /\ [i \in DOMAIN dirs[e].files |-> files[dirs[e].files[i]].meta] = DirFiles(image, dirs[e].meta)
      BY <1>1, WholeOp
    <3> QED
      BY <3>1, <3>2, <3>3, <3>4 DEF Hung
  <2>5. ASSUME Calm
        PROVE  \E n \in 0 .. 2 : Len(dirs) = n * Len(image.dirs) /\ Len(files) = n * Len(image.files)
    <3>1. Len(dirs) = B + Len(image.dirs) /\ Len(files) = C + Len(image.files)
      BY <1>1, <2>1, <2>5, FullCount
    <3>2. CASE B = 0 /\ C = 0
      <4>1. Len(dirs) = 1 * Len(image.dirs) /\ Len(files) = 1 * Len(image.files)
        BY <1>2, <3>1, <3>2
      <4> QED
        BY <4>1
    <3>3. CASE B = Len(image.dirs) /\ C = Len(image.files)
      <4>1. Len(dirs) = 2 * Len(image.dirs) /\ Len(files) = 2 * Len(image.files)
        BY <1>2, <3>1, <3>3
      <4> QED
        BY <4>1
    <3> QED
      BY <2>2, <3>2, <3>3
  <2> QED
    BY <2>3, <2>4, <2>5 DEF TreeExact
<1> QED
  BY <1>3, <1>4 DEF FullInv

TreeInv == ExactInv /\ (full => FullInv)

LEMMA TreeInit == Init => TreeInv
BY ExactInit DEF Init, TreeInv, FullInv, ExactInv

LEMMA TreeKept == TreeInv /\ [Next]_vars => TreeInv'
<1> SUFFICES ASSUME TreeInv, [Next]_vars PROVE TreeInv'
  OBVIOUS
<1>1. ExactInv'
  BY ExactKept DEF TreeInv
<1>2. CASE full
  BY <1>1, <1>2, FullStep DEF TreeInv
<1>3. CASE ~full
  <2>1. PICK P : HandlerInv(P) /\ Exact(P)
    BY <1>3 DEF TreeInv, ExactInv
  <2>2. ~full'
    BY <1>3, <2>1, HandlerStep DEF TreeInv, ExactInv
  <2> QED
    BY <1>1, <2>2 DEF TreeInv
<1> QED
  BY <1>2, <1>3

LEMMA InvTreeExact == TreeInv => TreeExact
BY HandlersTree, FullsTree DEF TreeInv

\* The entries are a part of the tree the image describes: a place has one entry,
\* hung below the entry of its parent, and an entry that is not being parsed has
\* all or none of its children and files, in order.  parse_full leaves out none,
\* although it makes the files of a directory after all that is below its folders,
\* and a second call makes a tree apart from the first (romfs.cpp:22-31, 58-102).
THEOREM TreesAreExact == Spec => []TreeExact
<1>1. TreeInv /\ [Next]_vars => TreeInv'
  BY TreeKept
<1> QED
  BY <1>1, TreeInit, InvTreeExact, PTL DEF Spec

-----------------------------------------------------------------------------
(* The paths of an image, and those Python finds its entries under.        *)

\* Paths that are put together on the way up: up to None, or to a smaller index.
UpPaths(n, up, name, g) ==
  g = [d \in 1 .. n |-> IF up[d] = None THEN <<>> ELSE Append(g[up[d]], name[d])]

LEMMA UpPathsOp ==
  ASSUME NEW n \in Nat, NEW up, NEW name, NEW g
  PROVE  UpPaths(n, up, name, g) <=>
           /\ g = [d \in 1 .. n |-> g[d]]
           /\ \A d \in 1 .. n : g[d] = IF up[d] = None THEN <<>> ELSE Append(g[up[d]], name[d])
<1>1. ASSUME UpPaths(n, up, name, g)
      PROVE  /\ g = [d \in 1 .. n |-> g[d]]
             /\ \A d \in 1 .. n : g[d] = IF up[d] = None THEN <<>> ELSE Append(g[up[d]], name[d])
  BY <1>1 DEF UpPaths
<1>2. ASSUME /\ g = [d \in 1 .. n |-> g[d]]
             /\ \A d \in 1 .. n : g[d] = IF up[d] = None THEN <<>> ELSE Append(g[up[d]], name[d])
      PROVE  UpPaths(n, up, name, g)
  BY <1>2 DEF UpPaths
<1> QED
  BY <1>1, <1>2

LEMMA UpPathsExist ==
  ASSUME NEW n \in Nat, NEW up, NEW name, \A d \in 1 .. n : up[d] = None \/ up[d] \in 1 .. d - 1
  PROVE  \E g : UpPaths(n, up, name, g)
<1> DEFINE T == {k \in 0 .. n : \E g : UpPaths(k, up, name, g)}
<1>1. 0 \in T
  <2> DEFINE g == [d \in {} |-> 0]
  <2>1. g = [d \in {} |-> g[d]]
    OBVIOUS
  <2>2. 1 .. 0 = {} /\ 0 \in 0 .. n
    OBVIOUS
  <2> HIDE DEF g
  <2>3. UpPaths(0, up, name, g)
    <3>1. PICK z \in Nat : z = 0
      OBVIOUS
    <3>2. 1 .. z = {}
      BY <2>2, <3>1
    <3>3. UpPaths(z, up, name, g)
      BY <2>1, <3>2, UpPathsOp
    <3> QED
      BY <3>1, <3>3
  <2> QED
    BY <2>2, <2>3
<1>2. ASSUME NEW k \in 0 .. n - 1, k \in T PROVE k + 1 \in T
  <2>1. PICK g : UpPaths(k, up, name, g)
    BY <1>2
  <2>2. PICK m : m = k + 1
    OBVIOUS
  <2>3. /\ m \in 0 .. n /\ m \in 1 .. n /\ k \in Nat /\ m \in Nat /\ m \notin 1 .. k
        /\ \A d \in 1 .. m : d \in 1 .. n /\ (d # m => d \in 1 .. k) /\ \A j \in 1 .. d - 1 : j \in 1 .. k /\ j # m
        /\ \A d \in 1 .. k : d \in 1 .. m
    BY <2>2
  <2>4. \A d \in 1 .. k : g[d] = IF up[d] = None THEN <<>> ELSE Append(g[up[d]], name[d])
    BY <2>1, <2>3, UpPathsOp
  <2> DEFINE h == [d \in 1 .. m |-> IF d = m THEN IF up[d] = None THEN <<>> ELSE Append(g[up[d]], name[d])
                                    ELSE g[d]]
  <2>5. h = [d \in 1 .. m |-> h[d]]
    OBVIOUS
  <2>6. /\ \A d \in 1 .. m : d # m => h[d] = g[d]
        /\ h[m] = IF up[m] = None THEN <<>> ELSE Append(g[up[m]], name[m])
    BY <2>3
  <2> HIDE DEF h
  <2>7. ASSUME NEW d \in 1 .. m PROVE h[d] = IF up[d] = None THEN <<>> ELSE Append(h[up[d]], name[d])
    <3>1. up[d] # None => h[up[d]] = g[up[d]]
      BY <2>3, <2>6
    <3>2. CASE d = m
      BY <2>6, <3>1, <3>2
    <3>3. CASE d # m
      BY <2>3, <2>4, <2>6, <3>1, <3>3
    <3> QED
      BY <3>2, <3>3
  <2>8. UpPaths(m, up, name, h)
    BY <2>3, <2>5, <2>7, UpPathsOp
  <2> QED
    BY <2>2, <2>3, <2>8
<1>3. T \in SUBSET Nat
  OBVIOUS
<1>4. n \in T
  <2> HIDE DEF T
  <2> QED
    BY <1>1, <1>2, <1>3, SetInduction
<1> QED
  BY <1>4

\* What lies below, where children have greater indices.
Below(m, n, kids, g) == g = [d \in m .. n |-> {d} \cup UNION {g[c] : c \in kids[d]}]

LEMMA BelowExists ==
  ASSUME NEW n \in Nat, NEW kids, \A d \in 1 .. n : kids[d] \subseteq d + 1 .. n
  PROVE  \E g : Below(1, n, kids, g)
<1> DEFINE T == {k \in 0 .. n : \E g : Below(n - k + 1, n, kids, g)}
<1>1. 0 \in T
  <2> DEFINE g == [d \in {} |-> 0]
  <2>1. n - 0 + 1 .. n = {} /\ 0 \in 0 .. n
    OBVIOUS
  <2>2. Below(n - 0 + 1, n, kids, g)
    <3>1. PICK z : z = n - 0 + 1
      OBVIOUS
    <3>2. z .. n = {}
      BY <2>1, <3>1
    <3>3. Below(z, n, kids, g)
      BY <3>2 DEF Below
    <3> QED
      BY <3>1, <3>3
  <2> QED
    BY <2>1, <2>2
<1>2. ASSUME NEW k \in 0 .. n - 1, k \in T PROVE k + 1 \in T
  <2>1. PICK m, l : m = n - k /\ l = n - k + 1
    OBVIOUS
  <2>2. PICK g : Below(l, n, kids, g)
    BY <1>2, <2>1
  <2>3. /\ m \in 1 .. n /\ k + 1 \in 0 .. n /\ n - (k + 1) + 1 = m
        /\ \A d \in m .. n : d \in 1 .. n /\ (d # m => d \in l .. n)
                             /\ \A j \in d + 1 .. n : j \in m .. n /\ j # m
        /\ m \in m .. n
    BY <2>1
  <2> DEFINE h == [d \in m .. n |-> IF d = m THEN {d} \cup UNION {g[c] : c \in kids[d]} ELSE g[d]]
  <2>4. h = [d \in m .. n |-> h[d]]
    OBVIOUS
  <2>5. /\ \A d \in m .. n : d # m => h[d] = g[d]
        /\ h[m] = {m} \cup UNION {g[c] : c \in kids[m]}
    BY <2>3
  <2>6. \A d \in l .. n : g[d] = {d} \cup UNION {g[c] : c \in kids[d]}
    BY <2>2 DEF Below
  <2> HIDE DEF h
  <2>7. ASSUME NEW d \in m .. n PROVE h[d] = {d} \cup UNION {h[c] : c \in kids[d]}
    <3>1. \A c \in kids[d] : h[c] = g[c]
      BY <2>3, <2>5
    <3>2. {h[c] : c \in kids[d]} = {g[c] : c \in kids[d]}
      BY <3>1
    <3>3. CASE d = m
      BY <2>5, <3>2, <3>3
    <3>4. CASE d # m
      BY <2>3, <2>5, <2>6, <3>2, <3>4
    <3> QED
      BY <3>3, <3>4
  <2>8. Below(m, n, kids, h)
    BY <2>4, <2>7 DEF Below
  <2> QED
    BY <2>3, <2>8
<1>3. T \in SUBSET Nat
  OBVIOUS
<1>4. n \in T
  <2> HIDE DEF T
  <2> QED
    BY <1>1, <1>2, <1>3, SetInduction
<1>5. n - n + 1 = 1
  OBVIOUS
<1> QED
  BY <1>4, <1>5

LEMMA DirPathOp ==
  ASSUME image \in Images, NEW d \in Places
  PROVE  DirPath(d) = IF d = 1 THEN Root ELSE Append(DirPath(image.dirs[d].parent), DirName(d))
<1> DEFINE D(g) == g = [x \in DOMAIN image.dirs |->
                          IF x = 1 THEN Root ELSE Append(g[image.dirs[x].parent], DirName(x))]
           f == CHOOSE g : D(g)
           up == [x \in Places |-> IF x = 1 THEN None ELSE image.dirs[x].parent]
           name == [x \in Places |-> DirName(x)]
<1>1. DOMAIN image.dirs = Places /\ Len(image.dirs) \in Nat \ {0} /\ Places = 1 .. Len(image.dirs)
  BY ImageOp DEF Places
<1>2. \A x \in Places : x # 1 => image.dirs[x].parent \in 1 .. x - 1
  BY ParentOp
<1>3. \A x \in Places : up[x] = None <=> x = 1
  BY <1>2 DEF None
<1>4. \A x \in 1 .. Len(image.dirs) : up[x] = None \/ up[x] \in 1 .. x - 1
  BY <1>1, <1>2
<1>5. \A x : DirPath(x) = f[x]
  BY DEF DirPath
<1>6. \A g : D(g) <=> UpPaths(Len(image.dirs), up, name, g)
  <2> TAKE g
  <2>1. [x \in Places |-> IF x = 1 THEN Root ELSE Append(g[image.dirs[x].parent], DirName(x))]
          = [x \in Places |-> IF up[x] = None THEN <<>> ELSE Append(g[up[x]], name[x])]
    <3>1. \A x \in Places :
            (IF x = 1 THEN Root ELSE Append(g[image.dirs[x].parent], DirName(x)))
              = IF up[x] = None THEN <<>> ELSE Append(g[up[x]], name[x])
      BY <1>3 DEF Root
    <3> HIDE DEF up, name
    <3> QED
      BY <3>1
  <2> HIDE DEF up, name
  <2> QED
    BY <1>1, <2>1 DEF UpPaths
<1>7. \E g : D(g)
  <2> HIDE DEF D, up, name
  <2> QED
    BY <1>1, <1>4, <1>6, UpPathsExist
<1>8. D(f)
  <2> HIDE DEF D
  <2> QED
    BY <1>7
<1>9. f[d] = IF d = 1 THEN Root ELSE Append(f[image.dirs[d].parent], DirName(d))
  <2> HIDE DEF f
  <2> QED
    BY <1>1, <1>8
<1> HIDE DEF D, f, up, name
<1> QED
  BY <1>5, <1>9

\* find_dir goes along the path of a directory to the directory.
LEMMA DirPathNames ==
  ASSUME image \in Images, NEW d \in Places
  PROVE  DirPath(d) \in Seq(Components) /\ DirAt(DirPath(d)) = d
<1>1. Len(image.dirs) \in Nat /\ 1 \in Places /\ \A x \in Places : DirName(x) \in Components
  BY ImageOp DEF DirName
<1> DEFINE T == {x \in Places : DirPath(x) \in Seq(Components) /\ DirAt(DirPath(x)) = x}
<1>2. ASSUME NEW k \in 1 .. Len(image.dirs), \A j \in 1 .. k - 1 : j \in T
      PROVE  k \in T
  <2>1. k \in Places
    BY DEF Places
  <2>2. CASE k = 1
    <3>1. DirPath(k) = Root
      BY <2>1, <2>2, DirPathOp
    <3>2. Root \in Seq(Components)
      BY DEF Root
    <3> QED
      BY <2>1, <2>2, <3>1, <3>2, DirAtRoot
  <2>3. CASE k # 1
    <3>1. PICK p : p = image.dirs[k].parent
      OBVIOUS
    <3>2. p \in T
      BY <1>2, <2>1, <2>3, <3>1, ParentOp
    <3>3. DirPath(k) = Append(DirPath(p), DirName(k))
      BY <2>1, <2>3, <3>1, DirPathOp
    <3>4. DirPath(p) \in Seq(Components) /\ DirAt(DirPath(p)) = p /\ DirName(k) \in Components
      BY <1>1, <2>1, <3>2
    <3>5. DirPath(k) \in Seq(Components)
      BY <3>3, <3>4
    <3>6. DirAt(DirPath(k)) = Child(p, DirName(k))
      BY <3>3, <3>4, DirAtChild
    <3>7. Child(p, DirName(k)) = k
      BY <2>1, <2>3, <3>1, ChildIs
    <3> QED
      BY <2>1, <3>5, <3>6, <3>7
  <2> QED
    BY <2>2, <2>3
<1>3. \A k \in 1 .. Len(image.dirs) : k \in T
  <2> HIDE DEF T
  <2> QED
    BY <1>1, <1>2, StrongInduction
<1> QED
  BY <1>3 DEF Places

LEMMA LeafPathNames ==
  ASSUME image \in Images, NEW f \in DOMAIN image.files, NEW g \in DOMAIN image.files,
         LeafPath(f) = LeafPath(g)
  PROVE  f = g
<1>1. \A x \in DOMAIN image.files : image.files[x].parent \in Places /\ FileName(x) \in Components
  <2>1. image.files \in Seq(FileMetas(image)) /\ DOMAIN image.dirs = Places
    BY RomFsAssumption, ImageOp DEF WellFormed
  <2>2. \A x \in DOMAIN image.files : image.files[x] \in FileMetas(image)
    BY <2>1
  <2> QED
    BY <2>1, <2>2 DEF FileMetas, FileName, Components
<1>2. PICK d, e : d = image.files[f].parent /\ e = image.files[g].parent
  OBVIOUS
<1>3. d \in Places /\ e \in Places
  BY <1>1, <1>2
<1>4. DirPath(d) \in Seq(Components) /\ DirPath(e) \in Seq(Components)
  BY <1>3, DirPathNames
<1>5. Append(DirPath(d), FileName(f)) = Append(DirPath(e), FileName(g))
  BY <1>2 DEF LeafPath
<1>6. DirPath(d) = DirPath(e) /\ FileName(f) = FileName(g)
  BY <1>1, <1>4, <1>5, LongerUnique
<1>7. d = e
  BY <1>3, <1>6, DirPathNames
<1>8. \A x, y \in {z \in 1 .. Len(image.files) : image.files[z].parent = d} :
        image.files[x].name = image.files[y].name => x = y
  <2>1. d \in 1 .. Len(image.dirs)
    BY <1>3 DEF Places
  <2> QED
    BY <2>1, RomFsAssumption DEF WellFormed
<1>9. f \in 1 .. Len(image.files) /\ g \in 1 .. Len(image.files)
  BY ImageOp
<1> QED
  BY <1>2, <1>6, <1>7, <1>8, <1>9 DEF FileName

\* Entry::path.
LEMMA PathOfOp ==
  ASSUME Shape, NEW B \in Nat, TreeOfDirs(B), NEW e \in DOMAIN dirs
  PROVE  PathOf(e) = IF dirs[e].parent = None THEN <<>>
                     ELSE Append(PathOf(dirs[e].parent), DirName(dirs[e].meta))
<1> DEFINE D(g) == g = [d \in DOMAIN dirs |->
                          IF dirs[d].parent = None THEN <<>>
                          ELSE Append(g[dirs[d].parent], DirName(dirs[d].meta))]
           f == CHOOSE g : D(g)
           up == [d \in DOMAIN dirs |-> dirs[d].parent]
           name == [d \in DOMAIN dirs |-> DirName(dirs[d].meta)]
<1>1. Len(dirs) \in Nat /\ DOMAIN dirs = 1 .. Len(dirs)
  BY DEF Shape
<1>2. \A d \in 1 .. Len(dirs) : up[d] = None \/ up[d] \in 1 .. d - 1
  BY <1>1 DEF TreeOfDirs
<1>3. \A x : PathOf(x) = f[x]
  BY DEF PathOf
<1>4. \A g : D(g) <=> UpPaths(Len(dirs), up, name, g)
  <2> TAKE g
  <2>1. [d \in DOMAIN dirs |-> IF dirs[d].parent = None THEN <<>>
                               ELSE Append(g[dirs[d].parent], DirName(dirs[d].meta))]
          = [d \in DOMAIN dirs |-> IF up[d] = None THEN <<>> ELSE Append(g[up[d]], name[d])]
    OBVIOUS
  <2> HIDE DEF up, name
  <2> QED
    BY <1>1, <2>1 DEF UpPaths
<1>5. \E g : D(g)
  <2> HIDE DEF D, up, name
  <2> QED
    BY <1>1, <1>2, <1>4, UpPathsExist
<1>6. D(f)
  <2> HIDE DEF D
  <2> QED
    BY <1>5
<1>7. f[e] = IF dirs[e].parent = None THEN <<>> ELSE Append(f[dirs[e].parent], DirName(dirs[e].meta))
  <2> HIDE DEF f
  <2> QED
    BY <1>6
<1> HIDE DEF D, f, up, name
<1> QED
  BY <1>3, <1>7

\* The path of an entry is that of its directory.
LEMMA PathsAgree ==
  ASSUME Shape, NEW B \in Nat, TreeOfDirs(B), NEW e \in DOMAIN dirs
  PROVE  PathOf(e) = DirPath(dirs[e].meta)
<1>1. /\ Len(dirs) \in Nat /\ DOMAIN dirs = 1 .. Len(dirs)
      /\ image \in Images /\ \A x \in DOMAIN dirs : dirs[x].meta \in Places
  BY DEF Shape
<1> DEFINE T == {x \in DOMAIN dirs : PathOf(x) = DirPath(dirs[x].meta)}
<1>2. ASSUME NEW k \in 1 .. Len(dirs), \A j \in 1 .. k - 1 : j \in T
      PROVE  k \in T
  <2>1. k \in DOMAIN dirs /\ dirs[k].meta \in Places
    BY <1>1
  <2>2. CASE k \in {1, B + 1}
    <3>1. dirs[k].meta = 1 /\ dirs[k].parent = None
      BY <2>2 DEF TreeOfDirs
    <3>2. PathOf(k) = <<>>
      BY <2>1, <3>1, PathOfOp
    <3>3. DirPath(1) = Root
      BY <1>1, <2>1, <3>1, DirPathOp
    <3> QED
      BY <2>1, <3>1, <3>2, <3>3 DEF Root
  <2>3. CASE k \notin {1, B + 1}
    <3>1. PICK p, d : p = dirs[k].parent /\ d = dirs[k].meta
      OBVIOUS
    <3>2. p \in 1 .. k - 1 /\ d # 1 /\ image.dirs[d].parent = dirs[p].meta
      BY <2>1, <2>3, <3>1 DEF TreeOfDirs
    <3>3. p # None
      BY <3>2 DEF None
    <3>4. PathOf(k) = Append(PathOf(p), DirName(d))
      BY <2>1, <3>1, <3>3, PathOfOp
    <3>5. DirPath(d) = Append(DirPath(dirs[p].meta), DirName(d))
      BY <1>1, <2>1, <3>1, <3>2, DirPathOp
    <3>6. PathOf(p) = DirPath(dirs[p].meta)
      BY <1>2, <3>2
    <3> QED
      BY <2>1, <3>1, <3>4, <3>5, <3>6
  <2> QED
    BY <2>2, <2>3
<1>3. \A k \in 1 .. Len(dirs) : k \in T
  <2> HIDE DEF T
  <2> QED
    BY <1>1, <1>2, StrongInduction
<1> QED
  BY <1>1, <1>3

\* walk comes to all entries of the tree of the first, and to no other.
LEMMA WalkedAll ==
  ASSUME Shape, NEW B \in Nat, TreeOfDirs(B)
  PROVE  Walked(1) = Beside(B, 1)
<1> DEFINE D(g) == g = [d \in DOMAIN dirs |-> {d} \cup UNION {g[c] : c \in ToSet(dirs[d].children)}]
           f == CHOOSE g : D(g)
           kids == [d \in DOMAIN dirs |-> ToSet(dirs[d].children)]
<1>1. /\ Len(dirs) \in Nat /\ DOMAIN dirs = 1 .. Len(dirs)
      /\ B + 1 \in DOMAIN dirs /\ 1 \in DOMAIN dirs
  BY DEF Shape, TreeOfDirs
<1>2. \A d \in DOMAIN dirs : \A c \in ToSet(dirs[d].children) :
        c \in DOMAIN dirs \ {1, B + 1} /\ dirs[c].parent = d
  BY DEF TreeOfDirs, ToSet
<1>3. \A c \in DOMAIN dirs \ {1, B + 1} :
        /\ dirs[c].parent \in 1 .. c - 1 /\ (dirs[c].parent <= B <=> c <= B)
        /\ c \in ToSet(dirs[dirs[c].parent].children)
  BY DEF TreeOfDirs, ToSet
<1>4. \A d \in DOMAIN dirs : \A c \in kids[d] :
        c \in d + 1 .. Len(dirs) /\ c \in DOMAIN dirs /\ (c <= B <=> d <= B)
  <2> TAKE d \in DOMAIN dirs
  <2> TAKE c \in kids[d]
  <2>1. c \in DOMAIN dirs \ {1, B + 1} /\ dirs[c].parent = d
    BY <1>2
  <2>2. d \in 1 .. c - 1 /\ (d <= B <=> c <= B)
    BY <1>3, <2>1
  <2>3. c \in d + 1 .. Len(dirs)
    BY <1>1, <2>1, <2>2
  <2> QED
    BY <2>1, <2>2, <2>3
<1>5. Walked(1) = f[1]
  BY DEF Walked
<1>6. \A g : D(g) <=> Below(1, Len(dirs), kids, g)
  <2> TAKE g
  <2>1. [d \in DOMAIN dirs |-> {d} \cup UNION {g[c] : c \in ToSet(dirs[d].children)}]
          = [d \in DOMAIN dirs |-> {d} \cup UNION {g[c] : c \in kids[d]}]
    OBVIOUS
  <2> HIDE DEF kids
  <2> QED
    BY <1>1, <2>1 DEF Below
<1>7. \E g : D(g)
  <2> HIDE DEF D, kids
  <2>1. \A d \in 1 .. Len(dirs) : kids[d] \subseteq d + 1 .. Len(dirs)
    BY <1>1, <1>4
  <2> QED
    BY <1>1, <1>6, <2>1, BelowExists
<1>8. D(f)
  <2> HIDE DEF D
  <2> QED
    BY <1>7
<1>9. \A d \in DOMAIN dirs : f[d] = {d} \cup UNION {f[c] : c \in kids[d]}
  <2> HIDE DEF f
  <2> QED
    BY <1>8
<1> HIDE DEF D, f
<1>10. kids = [d \in DOMAIN dirs |-> ToSet(dirs[d].children)]
  OBVIOUS
<1> HIDE DEF kids
<1> DEFINE In == {d \in DOMAIN dirs : \A x \in f[d] : x \in DOMAIN dirs /\ (x <= B <=> d <= B)}
           Shut == {d \in DOMAIN dirs : \A x \in f[d] : \A c \in kids[x] : c \in f[d]}
<1>11. \A k \in 1 .. Len(dirs) : k \in In
  <2>1. ASSUME NEW k \in 1 .. Len(dirs), \A j \in k + 1 .. Len(dirs) : j \in In
        PROVE  k \in In
    <3>1. k \in DOMAIN dirs
      BY <1>1
    <3>2. ASSUME NEW x \in f[k] PROVE x \in DOMAIN dirs /\ (x <= B <=> k <= B)
      <4>1. x = k \/ \E c \in kids[k] : x \in f[c]
        BY <1>9, <3>1
      <4>2. CASE x = k
        BY <3>1, <4>2
      <4>3. ASSUME NEW c \in kids[k], x \in f[c] PROVE x \in DOMAIN dirs /\ (x <= B <=> k <= B)
        <5>1. c \in k + 1 .. Len(dirs) /\ (c <= B <=> k <= B)
          BY <1>4, <3>1
        <5>2. c \in In
          BY <2>1, <5>1
        <5> QED
          BY <4>3, <5>1, <5>2
      <4> QED
        BY <4>1, <4>2, <4>3
    <3> QED
      BY <3>1, <3>2
  <2> HIDE DEF In
  <2> QED
    BY <1>1, <2>1, DownInduction
<1>12. \A k \in 1 .. Len(dirs) : k \in Shut
  <2>1. ASSUME NEW k \in 1 .. Len(dirs), \A j \in k + 1 .. Len(dirs) : j \in Shut
        PROVE  k \in Shut
    <3>1. k \in DOMAIN dirs
      BY <1>1
    <3>2. ASSUME NEW x \in f[k], NEW c \in kids[x] PROVE c \in f[k]
      <4>1. x = k \/ \E y \in kids[k] : x \in f[y]
        BY <1>9, <3>1
      <4>2. CASE x = k
        <5>1. c \in kids[k] /\ c \in DOMAIN dirs
          BY <1>4, <3>1, <3>2, <4>2
        <5>2. c \in f[c]
          BY <1>9, <5>1
        <5> QED
          BY <1>9, <3>1, <5>1, <5>2
      <4>3. ASSUME NEW y \in kids[k], x \in f[y] PROVE c \in f[k]
        <5>1. y \in Shut
          BY <1>4, <2>1, <3>1
        <5>2. c \in f[y]
          BY <3>2, <4>3, <5>1
        <5> QED
          BY <1>9, <3>1, <5>2
      <4> QED
        BY <4>1, <4>2, <4>3
    <3> QED
      BY <3>1, <3>2
  <2> HIDE DEF Shut
  <2> QED
    BY <1>1, <2>1, DownInduction
<1> DEFINE Met == {x \in DOMAIN dirs : (x <= B <=> 1 <= B) => x \in f[1]}
<1>13. \A k \in 1 .. Len(dirs) : k \in Met
  <2>1. ASSUME NEW k \in 1 .. Len(dirs), \A j \in 1 .. k - 1 : j \in Met
        PROVE  k \in Met
    <3>1. k \in DOMAIN dirs
      BY <1>1
    <3>2. ASSUME k <= B <=> 1 <= B PROVE k \in f[1]
      <4>1. CASE k = 1
        BY <1>1, <1>9, <4>1
      <4>2. CASE k # 1 /\ k = B + 1
        BY <3>2, <4>2
      <4>3. CASE k \notin {1, B + 1}
        <5>1. PICK p : p = dirs[k].parent
          OBVIOUS
        <5>2. p \in 1 .. k - 1 /\ (p <= B <=> k <= B) /\ k \in ToSet(dirs[p].children)
          BY <1>3, <3>1, <4>3, <5>1
        <5>3. p \in Met
          BY <2>1, <5>2
        <5>4. p \in f[1] /\ k \in kids[p]
          BY <1>10, <3>2, <5>2, <5>3
        <5>5. 1 \in Shut
          BY <1>1, <1>12
        <5> QED
          BY <5>4, <5>5
      <4> QED
        BY <4>1, <4>2, <4>3
    <3> QED
      BY <3>1, <3>2
  <2> HIDE DEF Met
  <2> QED
    BY <1>1, <2>1, StrongInduction
<1>14. ASSUME NEW x PROVE x \in f[1] <=> x \in Beside(B, 1)
  <2>1. 1 \in In
    BY <1>1, <1>11
  <2>2. x \in DOMAIN dirs => x \in Met
    BY <1>1, <1>13
  <2> QED
    BY <2>1, <2>2 DEF Beside
<1> QED
  BY <1>5, <1>14

\* What get_entries makes of a tree that is whole is what the image has.
LEMMA EntriesMade ==
  ASSUME Shape, Calm, NEW B \in Nat, NEW C \in Nat, FullTree(B, C), NEW t \in Threads, GetEntries(t)
  PROVE  EntriesExact'
<1> DEFINE ds == Walked(1)
           fs == UNION {ToSet(dirs[d].files) : d \in ds}
<1>1. /\ image' = image
      /\ entries' =
           [files |-> [p \in {FilePath(f) : f \in fs} |-> files[CHOOSE f \in fs : FilePath(f) = p].meta],
            dirs |-> [p \in {PathOf(d) : d \in ds} |-> NamesOf(CHOOSE d \in ds : PathOf(d) = p)]]
  BY DEF GetEntries
<1>2. image \in Images /\ DOMAIN image.dirs = Places /\ \A e \in DOMAIN dirs : dirs[e].meta \in Places
  <2>1. image \in Images /\ \A e \in DOMAIN dirs : dirs[e].meta \in Places
    BY DEF Shape
  <2> QED
    BY <2>1, ImageOp
<1>3. ds = Beside(B, 1)
  BY WalkedAll DEF FullTree
<1>4. \A e \in ds : e \in DOMAIN dirs /\ (e <= B <=> 1 <= B) /\ PathOf(e) = DirPath(dirs[e].meta)
  <2>1. \A e \in DOMAIN dirs : PathOf(e) = DirPath(dirs[e].meta)
    BY PathsAgree DEF FullTree
  <2> QED
    BY <1>3, <2>1 DEF Beside
<1>5. \A d \in Places : \E e \in ds : dirs[e].meta = d
  BY <1>3, TreeCovers
<1>6. \A e1, e2 \in ds : PathOf(e1) = PathOf(e2) => e1 = e2
  <2> TAKE e1, e2 \in ds
  <2> HAVE PathOf(e1) = PathOf(e2)
  <2>1. PICK d1, d2 : d1 = dirs[e1].meta /\ d2 = dirs[e2].meta
    OBVIOUS
  <2>2. d1 \in Places /\ d2 \in Places /\ DirPath(d1) = DirPath(d2)
    BY <1>2, <1>4, <2>1
  <2>3. d1 = d2
    BY <1>2, <2>2, DirPathNames
  <2>4. \A x, y \in DOMAIN dirs : (x <= B <=> y <= B) /\ dirs[x].meta = dirs[y].meta => x = y
    BY DEF FullTree, TreeOfDirs
  <2> QED
    BY <1>4, <2>1, <2>3, <2>4
<1>7. \A g \in fs : g \in DOMAIN files /\ files[g].parent \in ds
  <2> TAKE g \in fs
  <2>1. PICK e \in ds : g \in ToSet(dirs[e].files)
    OBVIOUS
  <2>2. \A x \in DOMAIN dirs : \A i \in DOMAIN dirs[x].files :
          dirs[x].files[i] \in DOMAIN files /\ files[dirs[x].files[i]].parent = x
    BY DEF FullTree, TreeOfFiles
  <2> QED
    BY <1>4, <2>1, <2>2 DEF ToSet
<1>8. /\ \A g \in DOMAIN files :
           /\ (g <= C <=> files[g].parent <= B)
           /\ files[g].meta \in DOMAIN image.files
           /\ image.files[files[g].meta].parent = dirs[files[g].parent].meta
           /\ g \in ToSet(dirs[files[g].parent].files)
      /\ \A g, h \in DOMAIN files : (g <= C <=> h <= C) /\ files[g].meta = files[h].meta => g = h
  BY DEF FullTree, TreeOfFiles, ToSet
<1>9. \A g \in DOMAIN files : files[g].parent \in ds => g \in fs
  BY <1>8
<1>10. \A g \in fs : FilePath(g) = LeafPath(files[g].meta) /\ files[g].meta \in DOMAIN image.files
  BY <1>4, <1>7, <1>8 DEF FilePath, LeafPath
<1>11. \A f \in DOMAIN image.files : \E g \in fs : files[g].meta = f
  <2> TAKE f \in DOMAIN image.files
  <2>1. PICK g \in DOMAIN files : files[g].meta = f /\ files[g].parent \in Beside(B, 1)
    BY FilesCover
  <2> QED
    BY <1>3, <1>9, <2>1
<1>12. \A g, h \in fs : FilePath(g) = FilePath(h) => g = h
  <2> TAKE g, h \in fs
  <2> HAVE FilePath(g) = FilePath(h)
  <2>1. LeafPath(files[g].meta) = LeafPath(files[h].meta)
    BY <1>10
  <2>2. files[g].meta = files[h].meta
    BY <1>2, <1>10, <2>1, LeafPathNames
  <2>3. g <= C <=> h <= C
    BY <1>4, <1>7, <1>8
  <2> QED
    BY <1>7, <1>8, <2>2, <2>3
<1>13. \A e \in ds : NamesOf(e) = Names(image, dirs[e].meta)
  <2> TAKE e \in ds
  <2>1. PICK S, F : S = SubDirs(image, dirs[e].meta) /\ F = DirFiles(image, dirs[e].meta)
    OBVIOUS
  <2>2. e \in DOMAIN dirs /\ Whole(e)
    BY <1>4 DEF FullTree, Calls, InCall, Calm
  <2>3. /\ [i \in DOMAIN dirs[e].children |-> dirs[dirs[e].children[i]].meta] = S
        /\ [i \in DOMAIN dirs[e].files |-> files[dirs[e].files[i]].meta] = F
    BY <2>1, <2>2, WholeOp
  <2>4. [i \in DOMAIN dirs[e].files |-> FileName(files[dirs[e].files[i]].meta)]
          = [i \in DOMAIN F |-> image.files[F[i]].name]
    BY <2>3 DEF FileName
  <2>5. [i \in DOMAIN dirs[e].children |-> DirName(dirs[dirs[e].children[i]].meta)]
          = [i \in DOMAIN S |-> image.dirs[S[i]].name]
    BY <2>3 DEF DirName
  <2> QED
    BY <2>1, <2>4, <2>5 DEF NamesOf, Names
<1> HIDE DEF ds, fs
<1>14. /\ DOMAIN entries'.dirs = {PathOf(d) : d \in ds}
       /\ \A p \in {PathOf(d) : d \in ds} : entries'.dirs[p] = NamesOf(CHOOSE d \in ds : PathOf(d) = p)
       /\ DOMAIN entries'.files = {FilePath(f) : f \in fs}
       /\ \A p \in {FilePath(f) : f \in fs} : entries'.files[p] = files[CHOOSE f \in fs : FilePath(f) = p].meta
  BY <1>1
<1>15. {PathOf(e) : e \in ds} = {DirPath(d) : d \in DOMAIN image.dirs}
  BY <1>2, <1>4, <1>5
<1>16. ASSUME NEW d \in DOMAIN image.dirs
       PROVE  entries'.dirs[DirPath(d)] = Names(image, d)
  <2>1. PICK e \in ds : dirs[e].meta = d
    BY <1>2, <1>5
  <2>2. PICK p : p = PathOf(e)
    OBVIOUS
  <2>3. p = DirPath(d) /\ p \in {PathOf(x) : x \in ds}
    BY <1>4, <2>1, <2>2
  <2>4. (CHOOSE x \in ds : PathOf(x) = p) = e
    BY <1>6, <2>2
  <2>5. entries'.dirs[p] = NamesOf(e)
    BY <1>14, <2>3, <2>4
  <2> QED
    BY <1>13, <2>1, <2>3, <2>5
<1>17. {FilePath(g) : g \in fs} = {LeafPath(f) : f \in DOMAIN image.files}
  <2>1. \A g \in fs : \E f \in DOMAIN image.files : FilePath(g) = LeafPath(f)
    BY <1>10
  <2>2. \A f \in DOMAIN image.files : \E g \in fs : FilePath(g) = LeafPath(f)
    BY <1>10, <1>11
  <2> QED
    BY <2>1, <2>2
<1>18. ASSUME NEW f \in DOMAIN image.files
       PROVE  entries'.files[LeafPath(f)] = f
  <2>1. PICK g \in fs : files[g].meta = f
    BY <1>11
  <2>2. PICK p : p = FilePath(g)
    OBVIOUS
  <2>3. p = LeafPath(f) /\ p \in {FilePath(x) : x \in fs}
    BY <1>10, <2>1, <2>2
  <2>4. (CHOOSE x \in fs : FilePath(x) = p) = g
    BY <1>12, <2>2
  <2>5. entries'.files[p] = files[g].meta
    BY <1>14, <2>3, <2>4
  <2> QED
    BY <2>1, <2>3, <2>5
<1>19. \A x : DirPath(x)' = DirPath(x) /\ LeafPath(x)' = LeafPath(x) /\ Names(image, x)' = Names(image, x)
  BY <1>1 DEF DirPath, LeafPath, DirName, FileName, Root
<1>20. /\ {DirPath(d)' : d \in DOMAIN image.dirs} = {DirPath(d) : d \in DOMAIN image.dirs}
       /\ {LeafPath(f)' : f \in DOMAIN image.files} = {LeafPath(f) : f \in DOMAIN image.files}
  BY <1>19
<1>21. /\ DOMAIN entries'.dirs = {DirPath(d)' : d \in DOMAIN image'.dirs}
       /\ DOMAIN entries'.files = {LeafPath(f)' : f \in DOMAIN image'.files}
  BY <1>1, <1>14, <1>15, <1>17, <1>20
<1>22. /\ \A d \in DOMAIN image'.dirs : entries'.dirs[DirPath(d)'] = Names(image, d)'
       /\ \A f \in DOMAIN image'.files : entries'.files[LeafPath(f)'] = f
  BY <1>1, <1>16, <1>18, <1>19
<1> QED
  BY <1>21, <1>22 DEF EntriesExact

EntriesInv == TreeInv /\ EntriesExact

LEMMA EntriesKept == EntriesInv /\ [Next]_vars => EntriesInv'
<1> SUFFICES ASSUME EntriesInv, [Next]_vars PROVE EntriesInv'
  OBVIOUS
<1>1. TreeInv'
  BY TreeKept DEF EntriesInv
<1>2. ASSUME UNCHANGED <<image, entries>> PROVE EntriesExact'
  <2>1. \A x : /\ DirPath(x)' = DirPath(x) /\ LeafPath(x)' = LeafPath(x)
               /\ Names(image, x)' = Names(image, x)
    BY <1>2 DEF DirPath, LeafPath, DirName, FileName, Root
  <2>2. EntriesExact
    BY DEF EntriesInv
  <2> QED
    BY <1>2, <2>1, <2>2 DEF EntriesExact, NoEntries, None, Nothing
<1>3. ASSUME NEW t \in Threads, GetEntries(t) PROVE EntriesExact'
  <2>1. pc[t] = "entries" /\ Calm
    BY <1>3 DEF GetEntries, Goto
  <2>2. full
    <3> SUFFICES ASSUME ~full PROVE FALSE
      OBVIOUS
    <3>1. PICK P : HandlerInv(P) /\ Exact(P)
      BY DEF EntriesInv, TreeInv, ExactInv
    <3> QED
      BY <2>1, <3>1 DEF HandlerInv, Opened
  <2>3. FullInv
    BY <2>2 DEF EntriesInv, TreeInv
  <2>4. Shape /\ dirs # <<>>
    BY <2>1, <2>3 DEF FullInv, Shape
  <2>5. PICK B, C \in Nat : FullTree(B, C)
    BY <2>3, <2>4 DEF FullInv
  <2> QED
    BY <1>3, <2>1, <2>4, <2>5, EntriesMade
<1>4. ASSUME NEW t \in Threads, Open(t) \/ Parse(t) \/ (\E path \in Known : Begin(t, path))
      PROVE  UNCHANGED <<image, entries>>
  BY <1>4 DEF Open, Parse, ParseChild, ParseFile, ParseReturns, Begin, shared
<1>5. ASSUME NEW t \in Threads, LockFolder(t) \/ LockParse(t) \/ Unlock(t) \/ Collect(t) \/ Find(t)
      PROVE  UNCHANGED <<image, entries>>
  BY <1>5 DEF LockFolder, LockParse, Unlock, Collect, Find, FindBegins, FindHash, FindChain, FindChild, Found,
              NotFound, shared
<1>6. UNCHANGED vars => UNCHANGED <<image, entries>>
  BY DEF vars
<1>7. EntriesExact'
  BY <1>2, <1>3, <1>4, <1>5, <1>6 DEF Next, Handle
<1> QED
  BY <1>1, <1>7 DEF EntriesInv

\* The dictionaries a Python program gets have every directory and every file of
\* the image under its whole path, a directory with the names that are in it in
\* the order of the image, and nothing else, also when the program had parsed the
\* image before, so that every place has two entries (bindings.cpp:749-863,
\* romfs.cpp:22-31).
THEOREM PythonFindsAll == Spec => []EntriesExact
<1>1. Init => EntriesInv
  BY TreeInit DEF Init, EntriesInv, EntriesExact
<1>2. EntriesInv /\ [Next]_vars => EntriesInv'
  BY EntriesKept
<1>3. EntriesInv => EntriesExact
  BY DEF EntriesInv
<1> QED
  BY <1>1, <1>2, <1>3, PTL DEF Spec
=============================================================================
