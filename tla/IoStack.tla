------------------------------ MODULE IoStack ------------------------------
(***************************************************************************)
(* Reading a file of the mounted archive: the stacks of io::FileBase       *)
(* objects of src/include/fnx/io.hpp and src/lib/io.cpp, as the vfs::File  *)
(* nodes of src/src/vfs.hpp own them.                                      *)
(*                                                                         *)
(* A node owns a chain of clones: OffsetFile and CtrFile layers over a     *)
(* File.  Every clone has a position of its own; the FILE under all the    *)
(* Files, and the AES-CTR cipher under the clones of one CtrFile, are      *)
(* shared, each with a lock.  Several threads read: the workers of dump,   *)
(* or the handlers FUSE runs.                                              *)
(*                                                                         *)
(* A byte is the place it has in the archive and the number of ciphers     *)
(* taken off it; Junk is every byte no caller should see.                  *)
(***************************************************************************)
EXTENDS Integers, Sequences, FiniteSets

CONSTANTS
  Threads,   \* the reading threads
  Nobody,    \* the value of a free lock
  Nodes,     \* the vfs::File nodes that are read
  Layers,    \* node -> its layers, outermost first; the File below is implicit
  Ciphers,   \* the shared ciphers, named by the CtrFile layers
  FileLen,   \* bytes in the archive
  Block,     \* AesCtr::block_size
  Depth,     \* the levels of the deepest stack
  MayRead,   \* thread -> the nodes it may be asked to read
  MaxSize,   \* bound: the largest size asked for
  MaxReads   \* bound: reads per thread

OffsetLayer(offset, size) ==
  [kind |-> "offset", offset |-> offset, size |-> size]

CtrLayer(cipher, offset, size) ==
  [kind |-> "ctr", offset |-> offset, size |-> size, cipher |-> cipher]

\* Level 1 is the object the node owns, the last one is the File.
FileLevel(n) == Len(Layers[n]) + 1
SizeAt(n, l) == IF l = FileLevel(n) THEN FileLen ELSE Layers[n][l].size
Size(n) == SizeAt(n, 1)

\* FileBase::parent_offset of the object at level l: where its first byte is
\* in the archive.
ParentOffset(n) ==
  LET from[l \in 1 .. FileLevel(n)] ==
        IF l = FileLevel(n) THEN 0 ELSE Layers[n][l].offset + from[l + 1]
  IN  from

\* Layers describe ranges of what is below them, and an encrypted section
\* starts on a block of its cipher.
Layer ==
  [kind : {"offset"}, offset : Nat, size : Nat]
  \cup [kind : {"ctr"}, offset : Nat, size : Nat, cipher : Ciphers]

ASSUME IoAssumption ==
  /\ Nobody \notin Threads /\ Nodes # {}
  /\ Block \in Nat \ {0} /\ FileLen \in Nat /\ MaxSize \in Nat /\ MaxReads \in Nat
  /\ MayRead \in [Threads -> SUBSET Nodes]
  /\ Depth \in Nat
  /\ \A n \in Nodes : Layers[n] \in Seq(Layer) /\ FileLevel(n) <= Depth
  /\ \A n \in Nodes : \A l \in 1 .. Len(Layers[n]) :
       /\ Layers[n][l].offset + Layers[n][l].size <= SizeAt(n, l + 1)
       /\ Layers[n][l].kind = "ctr" => Layers[n][l].offset % Block = 0

Junk == [at |-> -1, clear |-> 0]
Byte == [at : -1 .. FileLen - 1, clear : Nat]

\* Byte i of node n, as the archive defines it.
CtrLevels(n) == {l \in 1 .. Len(Layers[n]) : Layers[n][l].kind = "ctr"}
Content(n, i) ==
  [at |-> ParentOffset(n)[1] + i, clear |-> Cardinality(CtrLevels(n))]

Lesser(a, b) == IF a < b THEN a ELSE b
AlignDownMut(v, a) == a * ((v + a - 1) \div a)
AlignDown(v, a) == a * (v \div a)
AlignUp(v, a) == AlignDown(v + a - 1, a)

\* The reads the callers make: below the end of the file, and on a block
\* boundary (dump's 4 MiB steps, the kernel's pages) or within the file (the
\* clamp of PyFileBase_read).
Askable(n, offset, size) ==
  /\ offset < Size(n)
  /\ offset % Block = 0 \/ offset + size <= Size(n)

-----------------------------------------------------------------------------
VARIABLES
  pos,      \* node -> level -> FileBase::pos of that clone
  fpos,     \* position of the shared FILE
  flock,    \* holder of the lock of the shared FILE
  stream,   \* cipher -> position in its key stream
  cmtx,     \* cipher -> holder of cipher_mtx
  pc,       \* where each thread is
  ask,      \* thread -> the node, offset and size it was asked for
  level,    \* thread -> the level whose read() it is in, 0 in the caller
  want,     \* thread -> the size argument of that read()
  frame,    \* thread -> level -> the locals of CtrFile::read there
  data,     \* thread -> what the innermost buffer holds
  reads     \* thread -> finished reads

vars == <<pos, fpos, flock, stream, cmtx, pc, ask, level, want, frame, data, reads>>
shared == <<fpos, flock, stream, cmtx>>
call == <<ask, reads>>

NoFrame == [size |-> 0, start |-> 0, skip |-> 0, span |-> 0]

NoAsk == [node |-> CHOOSE n \in Nodes : TRUE, offset |-> 0, size |-> 0]
Asks == [node : Nodes, offset : 0 .. FileLen, size : 0 .. MaxSize]

TypeOK ==
  /\ DOMAIN pos = Nodes
  /\ \A n \in Nodes : pos[n] \in [1 .. FileLevel(n) -> Nat]
  /\ fpos \in Nat
  /\ flock \in Threads \cup {Nobody}
  /\ stream \in [Ciphers -> Nat]
  /\ cmtx \in [Ciphers -> Threads \cup {Nobody}]
  /\ pc \in [Threads -> {"idle", "seek", "call", "lock", "setctr", "fseek",
                         "fread", "return", "decrypt"}]
  /\ ask \in [Threads -> Asks]
  /\ level \in [Threads -> 0 .. Depth]
  /\ want \in [Threads -> Nat]
  /\ frame \in [Threads -> [1 .. Depth -> [size : Nat, start : Nat, skip : Nat, span : Nat]]]
  /\ data \in [Threads -> Seq(Byte)]
  /\ reads \in [Threads -> 0 .. MaxReads]

Init ==
  /\ pos = [n \in Nodes |-> [l \in 1 .. FileLevel(n) |-> 0]]
  /\ fpos = 0
  /\ flock = Nobody
  /\ stream = [c \in Ciphers |-> 0]
  /\ cmtx = [c \in Ciphers |-> Nobody]
  /\ pc = [t \in Threads |-> "idle"]
  /\ ask = [t \in Threads |-> NoAsk]
  /\ level = [t \in Threads |-> 0]
  /\ want = [t \in Threads |-> 0]
  /\ frame = [t \in Threads |-> [l \in 1 .. Depth |-> NoFrame]]
  /\ data = [t \in Threads |-> <<>>]
  /\ reads = [t \in Threads |-> 0]

Goto(t, from, to) == pc[t] = from /\ pc' = [pc EXCEPT ![t] = to]

\* The layer whose read() thread t is in.
InLayer(t, kind) ==
  /\ level[t] \in 1 .. Len(Layers[ask[t].node])
  /\ Layers[ask[t].node][level[t]].kind = kind
InFile(t) == level[t] = FileLevel(ask[t].node)

\* base->seek(offset), then into base->read(size).
CallBase(t, offset, size) ==
  /\ pos' = [pos EXCEPT ![ask[t].node][level[t] + 1] = offset]
  /\ level' = [level EXCEPT ![t] = @ + 1]
  /\ want' = [want EXCEPT ![t] = size]

-----------------------------------------------------------------------------
(* vfs::File::read, FileBase::read_at.                                     *)

Ask(t, n, offset, size) ==
  /\ Askable(n, offset, size)
  /\ Goto(t, "idle", "seek")
  /\ ask' = [ask EXCEPT ![t] = [node |-> n, offset |-> offset, size |-> size]]
  /\ UNCHANGED <<pos, shared, level, want, frame, data, reads>>

Seek(t) ==
  /\ Goto(t, "seek", "call")
  /\ CallBase(t, ask[t].offset, ask[t].size)
  /\ UNCHANGED <<shared, frame, data, call>>

\* The caller has its bytes.
Deliver(t) ==
  /\ level[t] = 1
  /\ Goto(t, "return", "idle")
  /\ level' = [level EXCEPT ![t] = 0]
  /\ reads' = [reads EXCEPT ![t] = @ + 1]
  /\ ask' = [ask EXCEPT ![t] = NoAsk]
  /\ data' = [data EXCEPT ![t] = <<>>]
  /\ want' = [want EXCEPT ![t] = 0]
  /\ UNCHANGED <<pos, shared, frame>>

-----------------------------------------------------------------------------
(* OffsetFile::read.                                                       *)

\* The position and the size are clamped to the range of the layer; the
\* position advances by the size that was asked for.
CallOffset(t) ==
  LET n == ask[t].node
      l == level[t]
      at == Lesser(pos[n][l], SizeAt(n, l))
  IN  /\ InLayer(t, "offset")
      /\ Goto(t, "call", "call")
      /\ pos' = [pos EXCEPT ![n][l] = @ + want[t],
                            ![n][l + 1] = at + Layers[n][l].offset]
      /\ level' = [level EXCEPT ![t] = l + 1]
      /\ want' = [want EXCEPT ![t] = Lesser(@, SizeAt(n, l) - at)]
      /\ UNCHANGED <<shared, frame, data, call>>

\* return base->read(...): what the base delivered is the caller's.
ReturnOffset(t) ==
  /\ level[t] > 1
  /\ Layers[ask[t].node][level[t] - 1].kind = "offset"
  /\ Goto(t, "return", "return")
  /\ level' = [level EXCEPT ![t] = @ - 1]
  /\ UNCHANGED <<pos, shared, want, frame, data, call>>

-----------------------------------------------------------------------------
(* CtrFile::read.                                                          *)

CipherOf(t) == Layers[ask[t].node][level[t]].cipher
FrameOf(t) == frame[t][level[t]]

\* The blocks to read, computed before the mutex is taken.
CallCtr(t) ==
  LET n == ask[t].node
      l == level[t]
      start == AlignDown(Lesser(pos[n][l], SizeAt(n, l)), Block)
      skip == pos[n][l] - start
      span == AlignUp(Lesser(want[t] + skip, SizeAt(n, l) - start), Block)
  IN  /\ InLayer(t, "ctr")
      /\ Goto(t, "call", "lock")
      /\ frame' = [frame EXCEPT ![t][l] =
                     [size |-> want[t], start |-> start, skip |-> skip, span |-> span]]
      /\ UNCHANGED <<pos, shared, level, want, data, call>>

LockCipher(t) ==
  /\ Goto(t, "lock", "setctr")
  /\ cmtx[CipherOf(t)] = Nobody
  /\ cmtx' = [cmtx EXCEPT ![CipherOf(t)] = t]
  /\ UNCHANGED <<pos, fpos, flock, stream, level, want, frame, data, call>>

\* Both branches read the blocks from the base, after set_ctr.
SetCounter(t) ==
  LET at == FrameOf(t).start + Layers[ask[t].node][level[t]].offset
  IN  /\ Goto(t, "setctr", "call")
      /\ stream' = [stream EXCEPT ![CipherOf(t)] = AlignDown(at, Block)]
      /\ CallBase(t, at, FrameOf(t).span)
      /\ UNCHANGED <<fpos, flock, cmtx, frame, data, call>>

ReturnToCtr(t) ==
  /\ level[t] > 1
  /\ Layers[ask[t].node][level[t] - 1].kind = "ctr"
  /\ Goto(t, "return", "decrypt")
  /\ level' = [level EXCEPT ![t] = @ - 1]
  /\ UNCHANGED <<pos, shared, want, frame, data, call>>

\* Byte i of the buffer, after it is combined with the key stream: right when
\* the key stream is where the byte is in the base.
Decrypted(t, i) ==
  LET b == IF i < Len(data[t]) THEN data[t][i + 1] ELSE Junk
      place == stream[CipherOf(t)] + i + ParentOffset(ask[t].node)[level[t] + 1]
  IN  IF b.at = place THEN [b EXCEPT !.clear = @ + 1] ELSE Junk

DecryptMut(t) ==
  LET f == FrameOf(t)
      fits == f.span <= f.size
      skip == IF fits THEN 0 ELSE f.skip
      good == IF fits THEN f.size ELSE Lesser(f.size, f.span - f.skip)
  IN  /\ Goto(t, "decrypt", "return")
      /\ data' = [data EXCEPT ![t] = [i \in 1 .. f.size |->
                    IF i <= good THEN Decrypted(t, skip + i - 1) ELSE Junk]]
      /\ stream' = [stream EXCEPT ![CipherOf(t)] =
                      @ + IF fits THEN f.size ELSE f.span]
      /\ pos' = [pos EXCEPT ![ask[t].node][level[t]] = @ + f.size]
      /\ cmtx' = IF fits THEN cmtx ELSE [cmtx EXCEPT ![CipherOf(t)] = Nobody]
      /\ frame' = [frame EXCEPT ![t][level[t]] = NoFrame]
      /\ UNCHANGED <<fpos, flock, level, want, call>>

\* Decryption in place when the blocks fit the caller's buffer, else in a
\* buffer of their own from which the part asked for is copied.  The position
\* advances, and the call returns, the size that was asked for.
Decrypt(t) ==
  LET f == FrameOf(t)
      fits == f.span <= f.size
      skip == IF fits THEN 0 ELSE f.skip
      good == IF fits THEN f.size ELSE Lesser(f.size, f.span - f.skip)
  IN  /\ Goto(t, "decrypt", "return")
      /\ data' = [data EXCEPT ![t] = [i \in 1 .. f.size |->
                    IF i <= good THEN Decrypted(t, skip + i - 1) ELSE Junk]]
      /\ stream' = [stream EXCEPT ![CipherOf(t)] =
                      @ + IF fits THEN f.size ELSE f.span]
      /\ pos' = [pos EXCEPT ![ask[t].node][level[t]] = @ + f.size]
      /\ cmtx' = [cmtx EXCEPT ![CipherOf(t)] = Nobody]
      /\ frame' = [frame EXCEPT ![t][level[t]] = NoFrame]
      /\ UNCHANGED <<fpos, flock, level, want, call>>

-----------------------------------------------------------------------------
(* File::read: fseek and fread of the shared FILE under its lock.          *)

LockFileMut(t) ==
  /\ InFile(t)
  /\ Goto(t, "call", "fseek")
  /\ flock' = t
  /\ UNCHANGED <<pos, fpos, stream, cmtx, level, want, frame, data, call>>

LockFile(t) ==
  /\ InFile(t)
  /\ Goto(t, "call", "fseek")
  /\ flock = Nobody
  /\ flock' = t
  /\ UNCHANGED <<pos, fpos, stream, cmtx, level, want, frame, data, call>>

FSeek(t) ==
  /\ Goto(t, "fseek", "fread")
  /\ fpos' = pos[ask[t].node][level[t]]
  /\ UNCHANGED <<pos, flock, stream, cmtx, level, want, frame, data, call>>

\* fread stops at the end of the archive; the lock is released on return.
FRead(t) ==
  LET got == IF fpos < FileLen THEN Lesser(want[t], FileLen - fpos) ELSE 0
  IN  /\ Goto(t, "fread", "return")
      /\ data' = [data EXCEPT ![t] = [i \in 1 .. got |-> [at |-> fpos + i - 1, clear |-> 0]]]
      /\ fpos' = fpos + got
      /\ pos' = [pos EXCEPT ![ask[t].node][level[t]] = @ + got]
      /\ flock' = Nobody
      /\ UNCHANGED <<stream, cmtx, level, want, frame, call>>

-----------------------------------------------------------------------------
ThreadStep(t) ==
  \/ Seek(t)
  \/ Deliver(t)
  \/ CallOffset(t)
  \/ ReturnOffset(t)
  \/ CallCtr(t)
  \/ LockCipher(t)
  \/ SetCounter(t)
  \/ ReturnToCtr(t)
  \/ Decrypt(t)
  \/ LockFile(t)
  \/ FSeek(t)
  \/ FRead(t)

Done(t) == pc[t] = "idle" /\ reads[t] = MaxReads

Finished == (\A t \in Threads : Done(t)) /\ UNCHANGED vars

Next ==
  \/ \E t \in Threads :
       /\ pc[t] = "idle" /\ reads[t] < MaxReads
       /\ \E n \in MayRead[t], offset \in 0 .. FileLen, size \in 0 .. MaxSize :
            Ask(t, n, offset, size)
  \/ \E t \in Threads : ThreadStep(t)
  \/ Finished

Spec == Init /\ [][Next]_vars

\* A thread inside a read keeps running; nothing obliges a caller to read.
Fairness == \A t \in Threads : WF_vars(ThreadStep(t))

FairSpec == Spec /\ Fairness

-----------------------------------------------------------------------------
\* What a read returns is what the archive holds there: nobody moved the FILE
\* or the key stream between positioning it and using it (io.cpp:58-61 under
\* flockfile, io.cpp:105-114 under cipher_mtx), and the block alignment of
\* CtrFile::read cancels out.
ReadsCorrect ==
  \A t \in Threads : pc[t] = "return" /\ level[t] = 1 =>
    LET n == ask[t].node
        have == Lesser(ask[t].size, Size(n) - ask[t].offset)
    IN  /\ Len(data[t]) >= have
        /\ \A i \in 1 .. have : data[t][i] = Content(n, ask[t].offset + i - 1)

\* The cipher mutexes, outermost first, then the lock of the FILE: no order of
\* the threads leaves a read waiting for ever.
ReadReturns ==
  \A t \in Threads : (pc[t] # "idle") ~> (pc[t] = "idle")
=============================================================================
