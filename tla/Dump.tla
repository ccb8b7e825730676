-------------------------------- MODULE Dump --------------------------------
(***************************************************************************)
(* The commands as a whole.  In dump (src/src/dump.cpp) the walk of        *)
(* Walk.tla queues files on a pool, whose workers copy them while the walk *)
(* goes on; find and list only walk.                                       *)
(*                                                                         *)
(* The pool is the abstract run of jobs, JobRun, that ThreadPool.tla       *)
(* implements; job i is the i-th file the walk queued.  A byte of a file   *)
(* is its index, from 1; Junk is any byte that is not the file's.  Of a    *)
(* file f the archive still has the first req.left[f] bytes.               *)
(*                                                                         *)
(* What a read gives depends on the layers under the file (io.cpp): an     *)
(* OffsetFile cuts it at the file's size, a File at the end of the         *)
(* archive, but a CtrFile says it has read all it was asked for.           *)
(***************************************************************************)
EXTENDS Walk, Ordered

CONSTANTS
  Workers,   \* the threads of the pool
  Size,      \* file -> what get_size() says
  Ciphered,  \* the files that are read through a CtrFile
  Bare,      \* those that are one, with nothing around it: raw encrypted sections
  Chunk,     \* size of the copy buffer
  MaxItems   \* bound: files queued in one run

ASSUME DumpAssumption ==
  /\ \A f \in Files : Size[f] \in Nat /\ \A r \in Requests : r.left[f] \in 0 .. Size[f]
  /\ Bare \subseteq Ciphered /\ Ciphered \subseteq Files
  /\ Chunk \in Nat \ {0}

VARIABLES
  started,   \* jobs taken from the queue
  running,   \* jobs taken and not finished
  outcome,   \* "busy", then what run() reports
  job,       \* worker -> its job, 0 for none
  wpc,       \* worker -> where it is in the worker function
  offset,    \* worker -> its offset in the file
  pos,       \* file -> position of its FileBase
  disk,      \* path -> bytes of the dumped file
  put,       \* worker -> its position in the file it writes
  failed     \* history: the paths the host did not open, or not write in full

workerVars == <<job, wpc, offset, pos, disk, put, failed>>
dumpVars == <<vars, started, running, outcome, workerVars>>

Junk == 0

\* What callback_file has queued, in order; find and list queue nothing.
Queued ==
  LET jobs == InOrder({j \in DOMAIN visited : req.cmd = "dump" /\ visited[j].kind = "file"})
  IN  [i \in DOMAIN jobs |-> visited[jobs[i]].path]

\* The folders create_directories has made.
Created ==
  UNION {{SubSeq(e.path, 1, k) : k \in 0 .. Len(e.path)}
         : e \in {x \in ToSet(visited) : x.kind = "folder"}}

Pool == INSTANCE JobRun WITH submitted <- Len(Queued)

DumpInit ==
  /\ Init
  /\ started = 0
  /\ running = {}
  /\ outcome = "busy"
  /\ job = [w \in Workers |-> 0]
  /\ wpc = [w \in Workers |-> "idle"]
  /\ offset = [w \in Workers |-> 0]
  /\ pos = [f \in Files |-> 0]
  /\ disk = [p \in {} |-> <<>>]
  /\ put = [w \in Workers |-> 0]
  /\ failed = {}

Goto(w, from, to) == wpc[w] = from /\ wpc' = [wpc EXCEPT ![w] = to]
Dest(w) == Queued[job[w]]
Source(w) == files[Dest(w)]

-----------------------------------------------------------------------------
(* The thread of run().                                                    *)

WalkStep ==
  /\ WalkNext
  /\ UNCHANGED <<started, running, outcome, workerVars>>

ReturnsMut ==
  /\ pc = "done"
  /\ UNCHANGED <<vars, started, running, workerVars>>
  /\ IF rc = "0" THEN Pool!Succeed ELSE outcome = "busy" /\ outcome' = "failed"

\* wait() and the destructor of the pool, or the destructor alone.
Returns ==
  /\ pc = "done"
  /\ UNCHANGED <<vars, workerVars>>
  /\ IF rc = "0" THEN Pool!Succeed ELSE Pool!Fail

-----------------------------------------------------------------------------
(* The worker function.                                                    *)

\* A worker takes the next job and opens the file to write: not when it is a
\* folder, or in a folder that is not there; nor when the host refuses it, of
\* which run() learns nothing.
Open(w) ==
  LET dest == Queued[started + 1]
      place == Front(dest) \in Created /\ dest \notin Created
  IN  /\ wpc[w] = "idle"
      /\ UNCHANGED <<vars, pos>>
      /\ Pool!Start
      /\ job' = [job EXCEPT ![w] = started + 1]
      /\ offset' = [offset EXCEPT ![w] = 0]
      /\ put' = [put EXCEPT ![w] = 0]
      /\ \/ /\ place
            /\ Goto(w, "idle", "test")
            /\ disk' = [p \in DOMAIN disk \cup {dest} |-> IF p = dest THEN <<>> ELSE disk[p]]
            /\ UNCHANGED failed
         \/ /\ ~place \/ req.refused
            /\ Goto(w, "idle", "close")
            /\ failed' = IF place THEN failed \cup {dest} ELSE failed
            /\ UNCHANGED disk

\* offset < src->get_size().
Test(w) ==
  /\ \/ Goto(w, "test", "seek") /\ offset[w] < Size[Source(w)]
     \/ Goto(w, "test", "close") /\ offset[w] >= Size[Source(w)]
  /\ UNCHANGED <<vars, started, running, outcome, job, offset, pos, disk, put, failed>>

\* read_at: seek, then read, with the node's own position.
Seek(w) ==
  /\ Goto(w, "seek", "read")
  /\ pos' = [pos EXCEPT ![Source(w)] = offset[w]]
  /\ UNCHANGED <<vars, started, running, outcome, job, offset, disk, put, failed>>

Written(old, place, bytes) ==
  LET length == IF place + Len(bytes) > Len(old) THEN place + Len(bytes) ELSE Len(old)
  IN  [i \in 1 .. length |->
         IF i \in place + 1 .. place + Len(bytes) THEN bytes[i - place]
         ELSE IF i <= Len(old) THEN old[i] ELSE Junk]

\* How much a read of a chunk at p says it has read.
Got(f, p) ==
  LET end == IF f \in Ciphered THEN Size[f] ELSE req.left[f]
  IN  IF f \in Bare \/ p + Chunk <= end THEN Chunk ELSE IF p < end THEN end - p ELSE 0

\* The bytes it leaves in the buffer; what the archive has not, deciphered or
\* left from the chunk before, is junk.
Buffer(f, p) == [i \in 1 .. Got(f, p) |-> IF p + i <= req.left[f] THEN p + i ELSE Junk]

\* The host takes the whole buffer, or less of it, at once or when the file is
\* closed, and nobody looks.
Puts(w, bytes) ==
  \E k \in 0 .. Len(bytes) :
    /\ k = Len(bytes) \/ req.refused
    /\ disk' = [disk EXCEPT ![Dest(w)] = Written(@, put[w], SubSeq(bytes, 1, k))]
    /\ put' = [put EXCEPT ![w] = @ + k]
    /\ failed' = IF k = Len(bytes) THEN failed ELSE failed \cup {Dest(w)}

AdvanceMut(w) ==
  LET f == Source(w)
  IN  /\ Goto(w, "read", "test")
      /\ pos' = [pos EXCEPT ![f] = @ + Chunk]
      /\ Puts(w, Buffer(f, pos[f]))
      /\ offset' = [offset EXCEPT ![w] = @ + Chunk]
      /\ UNCHANGED <<vars, started, running, outcome, job>>

CountMut(w) ==
  LET f == Source(w)
  IN  /\ Goto(w, "read", "test")
      /\ pos' = [pos EXCEPT ![f] = @ + Chunk]
      /\ Puts(w, Buffer(f, pos[f]))
      /\ offset' = put'
      /\ UNCHANGED <<vars, started, running, outcome, job>>

\* The file's own layer moves its position by the size asked for, whatever it
\* got; the loop writes and counts what it was told it got.
ReadAndWrite(w) ==
  LET f == Source(w)
  IN  /\ Goto(w, "read", "test")
      /\ pos' = [pos EXCEPT ![f] = @ + Chunk]
      /\ Puts(w, Buffer(f, pos[f]))
      /\ offset' = [offset EXCEPT ![w] = @ + Got(f, pos[f])]
      /\ UNCHANGED <<vars, started, running, outcome, job>>

Close(w) ==
  /\ Goto(w, "close", "idle")
  /\ UNCHANGED <<vars, offset, pos, disk, put, failed>>
  /\ Pool!Finish(job[w])
  /\ job' = [job EXCEPT ![w] = 0]

WorkerStep(w) ==
  \/ Open(w)
  \/ Test(w)
  \/ Seek(w)
  \/ ReadAndWrite(w)
  \/ Close(w)

RunStep == WalkStep \/ Returns

DumpNext == RunStep \/ \E w \in Workers : WorkerStep(w)

DumpSpec == DumpInit /\ [][DumpNext]_dumpVars

\* The thread of run() and the workers go on whenever they can.
DumpFair ==
  /\ DumpSpec
  /\ WF_dumpVars(RunStep)
  /\ \A w \in Workers : WF_dumpVars(WorkerStep(w))

-----------------------------------------------------------------------------
DumpTypeOK ==
  /\ TypeOK
  /\ started \in 0 .. Len(Queued)
  /\ running \subseteq 1 .. started
  /\ outcome \in {"busy", "ok", "failed"}
  /\ job \in [Workers -> 0 .. started]
  /\ wpc \in [Workers -> {"idle", "test", "seek", "read", "close"}]
  /\ offset \in [Workers -> Nat]
  /\ pos \in [Files -> Nat]
  /\ DOMAIN disk \subseteq ToSet(Queued)
  /\ put \in [Workers -> Nat]
  /\ failed \subseteq ToSet(Queued)

\* What the archive has for a path.
FileAt(path) == {l.node : l \in {m \in UNION {ToSet(Leaves[f]) : f \in Named(Front(path))}
                                 : m.name = Last(path)}}

\* The sizes a copy may have: a raw encrypted section fills whole buffers.
Lengths(f) ==
  IF f \in Bare
  THEN {n \in Size[f] .. Size[f] + Chunk - 1 : \E k \in 0 .. Size[f] : n = k * Chunk}
  ELSE {Size[f]}

\* What is left of a copied file: all of it, junk behind it in a raw section, and
\* junk in an encrypted file where the archive is cut.
Dumped(path) ==
  \E f \in FileAt(path) : \E n \in Lengths(f) :
    /\ f \notin Ciphered => req.left[f] = Size[f]
    /\ disk[path] = [i \in 1 .. n |-> IF i <= req.left[f] THEN i ELSE Junk]

AskedFiles ==
  {e.path : e \in {x \in UNION {Asked(req, req.paths[i]) : i \in DOMAIN req.paths} : x.kind = "file"}}

\* When dump reports success, it has opened every file it was asked for and no
\* other, and copied it to the end, but for the files the host refused and those
\* whose path is a folder's: all that was queued is copied, whoever copies it and
\* however far the walk is, and no file that was cut is taken for whole, unless
\* it is encrypted (dump.cpp:39-92, thread_pool.hpp, vfs.cpp:147-172).
DumpExact ==
  req.cmd = "dump" /\ outcome = "ok" =>
    /\ DOMAIN disk \cup failed \subseteq AskedFiles
    /\ \A path \in AskedFiles : path \in DOMAIN disk \cup failed \/ Named(path) # {}
    /\ \A path \in DOMAIN disk \ failed : Dumped(path)

\* When dump fails, each file on the disk is copied to the end as well: a failure
\* stops jobs that have not started only (thread_pool.hpp:51-57, 81-90).
NothingHalf ==
  outcome # "busy" => \A path \in DOMAIN disk \ failed : Dumped(path)

\* A worker that copies a file of which the archive has lost a part.
Starved(w) ==
  /\ wpc[w] \in {"test", "seek", "read"}
  /\ Source(w) \notin Ciphered /\ req.left[Source(w)] < Size[Source(w)]

\* Every command comes to an end: the walk returns, and so does each copy loop,
\* whether or not the host takes what it writes; except one whose reads say that
\* they have read nothing (vfs.cpp:147-172, dump.cpp:55-58, thread_pool.hpp:59-62).
RunEnds == <>(outcome # "busy") \/ <>[](\E w \in Workers : Starved(w))
=============================================================================
