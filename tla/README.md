# Verification of fuse-nx

fuse-nx opens Nintendo Switch archives (NSP, NCA, HFS, XCI, RomFS) and presents
what is inside them, however deeply nested and encrypted, as one tree of files
and folders. Four commands use that tree: `mount` serves it through FUSE,
`dump` extracts files of it with a pool of threads, `find` and `list` walk it.
This directory holds TLA+ specifications of that program, the TLC
configurations that check them, and TLAPS proofs.

All paths below are relative to the repository; `src/src/vfs.cpp` is the file
`src/vfs.cpp` of the upstream tree.

## 1. The system

### Components

| Component | Code | State | Operations |
|---|---|---|---|
| Worker pool | `src/src/thread_pool.hpp` | `pending_args` (queue), `pending_args_mtx`, `condvar`, `is_exiting`, the threads | `start_workers`, `queue_item`, `wait`, `stop_workers`, `worker_thread_func` |
| dump command | `src/src/dump.{hpp,cpp}` | destination, the file system, a pool | `run`: walk the paths asked for, create folders, queue files; the worker copies one file |
| I/O stack | `src/include/fnx/io.hpp`, `src/lib/io.cpp` | per object: position, size; shared: the `FILE`, a cipher and its mutex | `seek`, `read`, `read_at`, `clone` of `File`, `OffsetFile`, `CtrFile` |
| Virtual file system | `src/src/vfs.{hpp,cpp}` | `Folder` objects (container, children, files, `processed`), maps path -> folder and path -> file | `process`, `process_dir`, `make_container`, `add_*`, `get_*`, `find_folder`, `walk` |
| mount command | `src/src/fuse.{hpp,cpp}` | the file system | `getattr`, `opendir`, `readdir`, `open`, `read` |
| find, list | `src/src/find.*`, `src/src/list.*` | a counter | one `walk` with a callback |
| Container adapters | `src/src/containers.{hpp,cpp}` | a parsed format object | `read_files`, `read_folders` |
| RomFS format | `src/lib/romfs.cpp` | entry tables, hash tables, the tree parsed so far | `parse_dir`, `parse_full`, `parse_fast`, `find_dir`, `find_file`, the paths of entries |
| NCA format | `src/lib/nca.cpp` | header, sections; a static header cipher | `match`, `parse`, section construction, key choice |
| PFS, HFS, XCI formats | `src/lib/{pfs,hfs,xci}.cpp` | header, entry tables, partitions | `match`, construction, `parse`, `open` |
| Key sets | `src/lib/keyset.cpp`, `src/src/keys.cpp`, `Keys` of `hac.py` | console keys, title keys, the key of the user | `set_key`, `get_*`, the parsers of key files |
| Crypto wrappers | `src/include/fnx/crypto.hpp` | AES-CTR counter, AES-XTS sector | `set_ctr`, `decrypt` |
| Python bindings | `src/bindings` | a `FileBase` on a Python object, lazily parsed objects with dictionaries of names | wrappers; `hac.py` |
| Command line, build | `src/src/main.cpp`, `src/src/options.hpp` | options | none to check |

### How they interact

    mount ── FUSE threads ──┐
    find, list ─ walk ──────┤                    read_files      clones
    dump ─ walk ─ queue ────┼─> virtual file ──> container ──> I/O stack ──> FILE
             └─> pool ──────┘    system           formats       └─> ciphers
                                  │                 │
                                  └─ title keys <───┘

    Python threads ─ hac.py ─ bindings ─> formats ─> I/O stack ─> FILE
                                                        └─> seek, readinto of
                                                            a Python object

Everything is synchronous calls; the only concurrency is that of threads: the
workers of `dump`, and the handlers FUSE runs on threads of its own (`mount`
passes `-osync_read` but not `-s`). What threads share is the path maps and
`Folder` objects, the `FILE` of the archive, one cipher per encrypted section,
the `FileBase` of each file node, the title keys, and a static cipher for NCA
headers. A Python
program has the interpreter's lock, which a call of the bindings keeps, except
while it calls the methods of a Python object the bytes come from.
Nothing is persisted, so there is no recovery to model; failure is a
folder or file that cannot be created, a write the disk has no room for, a key
that is not known, an archive that ends early, and a Python object that raises.

### What is hard, and what would make it right

* **Pool.** Lost and spurious wakeups; a job run twice or never; `wait` that
  returns while jobs run; shutting down with work queued. Right: each job runs
  exactly once, in the order queued; success is reported after all jobs are
  done; every run ends.
* **dump.** Workers copy what a walk that goes on queues, and are told of no
  failure: what a read says it has read depends on the layers below it. Right:
  what is reported as dumped is there, to its end, and nothing else.
* **I/O stack.** Positions and key streams shared between clones; three kinds
  of lock nested in one read; block alignment at the ends of a section. Right:
  a read returns the bytes of the file, for every interleaving of readers; no
  read blocks for ever.
* **Virtual file system.** Folders filled lazily by whoever comes first, nodes
  registered one at a time while others look them up; title keys that arrive
  while containers are opened. Right: listings are exact, whatever is listed
  can be looked up, a path always leads to the same node, and to the right one.
* **Walk.** Depth limits, early stops, colliding names. Right: it visits what
  the depth allows, each path once, folders before what is in them.
* **Formats.** Tables that index each other (RomFS hash chains and sibling
  lists, NCA section numbers), counts that disagree, capacity guesses that
  pointers depend on. Right: what is parsed is what the table describes.
* **Key files.** Names compared by their beginnings, generations there is no
  room for, values of the wrong form, keys given twice, from files, tickets and
  calls in any order. Right: each key is the last one given for its own name,
  whatever other names are between.
* **Python.** Archives parsed when they are first needed, from bytes that come
  from Python code, which lets other threads in and may fail. Right: what was
  parsed is what the archive holds, also after a parse that failed half way.

The full list of hazards, with lines and the properties that cover each of
them, is in `PROJECT.json`.

## 2. The modules

| Module | Models | State it keeps |
|---|---|---|
| `JobRun` | what a run of jobs promises its caller | jobs submitted, started, running; outcome |
| `ThreadPool` | `thread_pool.hpp`, driven as `dump.cpp` drives it | mutex, queue, exit flag, where each thread is |
| `ThreadPoolProofs` | theorems about `ThreadPool` | |
| `IoStack` | reading through `FileBase` chains | positions, `FILE` position and lock, key streams and mutexes, one call stack per thread |
| `IoStackProofs` | theorems about `IoStack` | |
| `Vfs` | `Folder::process`, `process_dir`, the maps, `wrap_getattr`, `wrap_readdir` | folder objects, maps, title keys, where each handler is |
| `VfsProofs` | theorems about `Vfs` | |
| `RomFs` | `parse_dir` and `find_dir` of a RomFS, under `RomFsContainer` and `Folder::process`; the dictionaries of `Romfs` in `hac.py` | entries, `parse_mtx`, parsed flags, where each handler is |
| `Walk` | `find_folder` and `walk` with the callbacks of `find`, `list` and `dump` | maps, the calls of `walk`, the paths given to the callback |
| `Dump` | `Walk`, the pool (`JobRun`) and the copy loop of `dump.cpp` composed | jobs, offset and position of each worker, the files on disk |
| `DumpProofs` | theorems about `Walk` and `Dump` | |
| `Nca` | `decrypt_header` and its static cipher, `parse`, `read_files` of an NCA; the `Nca` class of `hac.py` | the cipher, the keys that are loaded, the header and sections of each NCA |
| `NcaProofs` | theorems about `Nca` | |
| `RomFsProofs` | theorems about `RomFs` | |
| `KeySet` | `KeySet`, `TitlekeySet`, the two parsers of key files | the rows of the key set, the title keys, the lines given so far |
| `KeySetProofs` | theorems about `KeySet` | |
| `Bindings` | the PFS, HFS and XCI formats, files on Python objects, and `Pfs`, `Hfs`, `Xci`, `File` of `hac.py` | archives, files with positions, who holds the interpreter, where each call is |
| `BindingsProofs` | theorems about `Bindings` | |
| `Ordered` | the loops that take some of the entries from 1 to n, for `Vfs`, `Nca` and `Dump` | |
| `MCThreadPool`, `MCIoStack`, `MCVfs`, `MCRomFs`, `MCDump`, `MCNca`, `MCKeySet`, `MCBindings` | instances for TLC | |

Definitions whose name ends in `Mut` are deliberate mistakes, each beside the
definition it distorts; no specification uses them. They show that the
property paired with them in `PROJECT.json` can fail.

### ThreadPool

An action is one access to shared state: taking the mutex, the push, the
notification, the release, the test of the loop, the predicate, blocking, the
read of `front()` and the `pop()`. `condvar.wait` is what the standard says it
is: release and block in one step, wake on a notification or for no reason
(`SpuriousWakeup`), take the mutex again and re-evaluate the predicate.
`notify_one` wakes any one waiter or nobody. A worker is "asleep" (`sleep`)
between a false predicate and the moment it blocks, holding the mutex; that is
the window `stop_workers`, which takes no mutex, can fall in.

`queue_item` is called only by the owner, so when `wait()` polls
`pending_args.empty()` without the mutex only `pop()` can run beside it. The
poll is modelled as an atomic read that comes true after the last pop; a poll
that finds work changes nothing. `is_exiting` is a `std::atomic_bool` that is
written without the mutex and read under it and in the loop condition, so each
access is a step.

The owner is `DumpContext::run`: it creates the threads, queues items, and then
either waits and is destroyed, or (`Abort`: a folder could not be created) is
destroyed with items in the queue. A job is the number of its `queue_item`
call; what the worker function does with it is `Dump`'s subject.

`JobRun` is the same thing for a caller who knows of no threads. `ThreadPool`
implements it with the refinement mapping `Run`: started jobs are those issued
and no longer in the queue, running jobs are the items of busy workers, the
outcome is known when `run()` returns.

### IoStack

A node of the file system owns a chain of objects, outermost first, ending in
a `File`. `FileBase::clone` copies the chain, so positions belong to a node,
while the `FILE` and the cipher of a `CtrFile` (with its mutex) are shared by
all clones. A read is a call stack: `Seek`, then the `read` of each level,
calling the next one and being returned to. A byte is a record of where in the
archive it comes from and how many ciphers have been taken off it; decryption
removes one only if the key stream stands where the byte was encrypted, and
yields `Junk` otherwise. So one property, `ReadsCorrect`, says both that the
arithmetic of offsets, clamps and block alignment is right and that nobody
moves the `FILE` or the key stream at the wrong moment.

The sizes and offsets asked for (`Askable`) are those the callers make: below
the end of the file, and block-aligned (4 MiB steps of `dump`, pages of the
kernel) or within the file (`PyFileBase_read` clamps). Outside them, a read
that starts inside a block and runs past the end is not shifted into place by
`CtrFile::read`.

### Vfs

The archive is a constant: for every container, the entries `read_files`
returns, the folders `read_folders` returns, the title keys its sections need
and those its tickets provide; `Keys` are the title keys of its tickets. A
container may need a key that no ticket has; a key that some ticket has is
assumed by the two properties of listings to be in one beside or above what
needs it (`TicketsBefore`, a property of the archive: each container has a set
of keys loaded before it is tried, the union of those of its folder and of its
own tickets; `MCVfs` assumes it of its instance, so TLC evaluates it). A handler is a path through `get_folder`,
`is_processed`, the mutex, one step per entry of `Folder::process`, one step
per node registered, and the listing. Locks of single map operations are the
atomicity of the step. The vectors of a folder are iterated without a lock: the
iterators keep the begin and end the vector had when the loop started, and if
another thread appends to it meanwhile the loop may go on over what the old
buffer holds or the process may die (`Crash`), both of which TLC explores.

`keep_raw` is an option of `mount` (`-r`) and is always on in the other
commands; it is chosen in `Init`. So is `serial`, which says whether the host
avoids reading one directory twice at the same time: FUSE gives no such promise
for two processes that list a directory, so both are explored. `ListingExact`
and `ListedIsFound` speak of the serial case, the other properties of both.

### RomFs

The image is chosen in `Init` from `Images`: tables whose links are the places
of entries, and a hash function that is any function of parent and name, since
all that matters of `calc_path_hash` is who shares a bucket with whom.
`WellFormed` says what a builder of such images guarantees, the bucket count
among it that `read_tables` relies on. `parse_dir` makes one entry per step, its
recursion (`parse_full`) a stack of frames; `find_dir` takes a step per access
of the tables and entries, so that it interleaves with the `parse_dir` of other
threads, which is under `parse_mtx` while `find_dir` and the loops over
`children` and `files` are not. A handler is `Folder::process` of one directory
of the image: it holds that folder's `processed_mtx`, finds, parses and reads
the files, then finds and reads the children. A directory is `Known` when its
parent's container has returned it.

The other host is a Python program: `parse_full` of the whole image, as often
as it likes, and after it the dictionaries of files and directories `hac.py`
builds from the first entry, with the paths that entries put together from
their parents. A second `parse_full` makes a second tree next to the first.
`EntriesExact` says that every directory and file of the image is in them,
under its path, all the same.

### Nca

A header is its sectors, and a sector is right or noise: right if it was
decrypted with the header key and under the number it was encrypted with. The
magic, the entries, the rights id and the key area are in sector 1, what is
told of entry `i` in sector `1 + i`. `decrypt_header` takes one step for each
access of the static cipher: the test of `init_ctx`, the construction, the flag,
then for each sector the tweak, the decryption and the increment. A noise magic
is none of the known ones, noise entries exist, noise encryptions are none of the
supported ones, a noise rights id has no key.

`Init` chooses between a mount, whose threads open files while tickets bring
title keys, and a Python program, of whose threads one is in a call at a time
and which loads keys between calls. The history `alone` says that no other
thread stepped on the cipher during a call: what such a call yields must be
right whatever state earlier races left the cipher in. What a disturbed call
yields is `Recognised`'s subject.

The keys a mount has read may be any: none, all (`header` and `area`, which
stands for what an archive needs besides: its master key and the sources, or its
title key encryption key), or one kind without the other, since `parse_console`
takes a key file as it is. Without a header key nothing is recognised. With it
and without the others, `decrypt_titlekey` and `decrypt_keyarea` go on with keys of
zeros: the archive opens and its sections are listed under a key that is wrong
(`unloaded`). `OpenRight` says that this happens with such a key file only. It
also says when `read_files` reads behind the sections that were parsed: when
one of them has an encryption the library does not support, and never else.

In `hac.py`, `sections` parses when `parse`
has not succeeded yet, and `parse` called by the program parses again.

### KeySet

A key set is its memory, one row per key in the order of declaration. Names are
sequences of syllables, so that one can begin another: `operator ==` of
`keyset.cpp` compares over the length of its left side only, and `Same` does.
`set_key` takes any name: one that begins a key's name sets that key, a
generation with more than two digits is cut off after them, one with fewer makes
`at()` throw, which nobody catches, and one the arrays have no room for is
undefined: the program ends where the index is checked, or the key goes to the
row behind, or outside the set, after which nothing more is told.
Lines have a form (name and value apart by blanks, by tabs, name only, comment,
empty), which the two programs read differently: `ReadLine` takes a tab for a
part of the name, the regular expression of `hac.py` does not. The command line
reads one file of each kind and takes the option, a Python program any number of
files, with calls between. The histories `given` and `tgiven` are the lines and
calls in order; `KeysFaithful` and `TitleRight` compare each key with the last
of them that is about it.

What a name means (`Means`) is defined apart from what the code makes of it: a
key's whole name, or two digits of a generation there is. `KeysFaithful` says of
lines with any names that a key is the last one given for a name that means it,
unless a later line strays to it, and `Strays` names the three kinds of names that
do; that nothing but a number that cannot be read ends the program; and so that no
other name, tab or comment disturbs any key.

### Bindings

The file under everything is a sequence of cells: headers, table entries, names,
data. A call from Python runs in the bindings read by read; each read is one
step on a file opened by its path, and two on a Python object, `seek` and
`readinto`, with the interpreter given up around both and an exception possible
in either. `Parsed` of the three formats decodes what the reads returned; a
buffer not read into is zeros. Archives keep their entries, and `hac.py` its
dictionaries, between calls, so a parse that fails half way leaves what it has
pushed, and the next one appends.

The code has no lock for two threads in one Python object: the history
`disturbed` is set when that has happened (one thread between `seek` and
`readinto` of another, or a failing call leaving zeros that another thread may
collect), and the exploration stops there. The properties say that nothing else
can go wrong.

A `readinto` that returns fewer bytes than it was asked for, but for the end of
the file, is left out: the formats read a header or a table at once and do not look
at the count, so what they decode then is the object's own doing.

### Walk and Dump

`Walk` is one thread. Folders are filled as a whole here, `Kids` and `Leaves`
being what `Vfs` computes; registered by `process_dir` under the path that was
used to get there, so a path written `a/` or without its leading slash makes
keys of its own. The recursion of `walk` is a stack of frames. The callbacks
are `Report`, `Enough` (`find` stops at `max_count`) and `CreateFails`
(`create_directories` of `dump` reports an error); `BadPattern` is the end of a
`find` whose regular expression does not compile. `VisitsExact` and
`CountExact` compare what the callbacks saw with `Asked`, which defines the
paths within a depth from the tree alone.

`Dump` extends it with the workers. The pool is the instance `Pool` of
`JobRun`, with `submitted` substituted by the number of files the walk has
queued; that `ThreadPool` implements `JobRun` is what makes the composition
stand for the code. A worker opens its destination, then alternates between the
test of its offset, the seek of the node and the read and write of one chunk.
`find` and `list` are the same specification with nothing queued.

What a read gives is that of the layers below (`Got`, `Buffer`). An `OffsetFile`
cuts it at the file's size, a `File` at what the archive has (`req.left`), a `CtrFile`
(`Ciphered`) says it has read what it was asked for. A raw encrypted section is a
bare `CtrFile` (`Bare`): its copy is filled up to whole chunks, with junk. Of an
archive that was cut, a plain file makes its worker ask for ever (`Starved`), and
an encrypted one is copied with junk for what is missing. `Dumped` says what a
copied file is in each of these cases.

The worker tells `run()` nothing. When `req.refused` is true the host may refuse any folder,
any `fopen`, and a part of any write; the files of which it refused something are
collected in the history `failed`, and the properties speak of the others.
`DumpExact` says that success means every file asked for was opened or refused, or
has the path of a folder, no other was, and each of those not refused was copied to
its end; `NothingHalf` says the last of a run that failed as well.

## 3. The runs

| Run | Instance | Shows |
|---|---|---|
| `pool_run` | 2 workers, up to 3 jobs, 1 spurious wakeup | types, each job once, success after all work, the inductive invariant of the proofs; the pool implements `JobRun`; every queued job runs or the run fails; the run ends unless a worker is stranded by the shutdown |
| `pool_wakeup` | 2 workers, 1 job | **violated**: a worker that is waiting when `is_exiting` is set may wait for ever |
| `io_reads` | 2 threads, 5 nodes, sizes to 3, a section of 5 bytes in blocks of 2 | the bytes read are the bytes of the file: raw section, files inside it, section inside a section, plain file; every read returns |
| `io_shared` | 2 threads, 1 node | **violated**: readers of one node race on its position |
| `vfs_mount` | 2 handler threads, 2 calls each, 6 containers | paths stay faithful and stable; handlers answer; listings are exact and what is listed can be looked up while no directory is read twice at once |
| `vfs_twice` | as above, 1 call each | **violated**: two handlers fill one folder and double its listing |
| `romfs` | 5 directories, 4 files, 4 images (hash chains of one to four entries, both orders), 2 threads; or a Python program that parses twice | listings equal the image's; lookups lead to the right directory; no thread reads a vector another appends to; no directory is parsed twice and `dir_entries` never moves; handlers end; `parse_full` yields the whole tree, and Python finds everything under its path |
| `commands` | 5 folders, 6 files, every depth to 5, limits to 4, 2 workers, chunks of 2 bytes; dumps of few files with a host that may refuse every folder, file and part of a write; dumps of an archive cut in the middle of a plain file, with the encrypted files behind it lost | the commands visit what was asked for; dump queues a file only when its node and folder are there; success means that every file that was not refused is there, copied to its end, with junk where `Dumped` says so, and no plain file that was cut is reported; after a failure the files on the disk are copied to their ends too; every command ends, unless a worker copies such a plain file |
| `nca` | 2 threads, one call each, headers of 2 entries, 4 files: NCA3 with a rights id, NCA3 with an unsupported section, NCA2 with a gap, no NCA | undisturbed calls decrypt whole headers, whatever races came before; an undisturbed handler opens what it has title keys for and lists each section once, in order, under the right key if the key file has it; so does a Python program, however often its parse failed before |
| `nca_race` | the NCA3 | **violated**: a handler decrypts under another one's sector number |
| `keys` | 2 values, 3 generations, 3 lines, tickets or calls of every kind, names that are right, begun, too long and out of range, both programs | a row only ever becomes a key; each key is the last one given for its name unless a name of one of three kinds came after it, each title key the last one given |
| `python` | 2 threads (3 calls and 1), an XCI and an NSP, paths and Python objects, 1 call that raises | parsed entries, dictionaries and bytes read are those of the archive, also when a parse is repeated after a failure |

### Bounds, and why they are enough

* Pool: every hazard needs at most one waiting worker, one working worker and
  one arriving job; three jobs leave room for two more than that. One
  spurious wakeup is as good as several, since a woken worker re-tests its
  predicate. The proofs remove these bounds for safety.
* I/O: blocks of two bytes have an inside and a boundary; a section of five
  bytes has a first, a middle and a short last block; sizes to three span no,
  one or two boundaries. Two threads suffice for a race on a lock-protected
  resource. One read per thread is enough because a read starts with a seek at
  every level it reaches, the position of the `FILE` and the key streams being
  whatever the other thread left.
* Vfs: the archive has each kind of entry the code tells apart: a container
  that opens, one that needs the key of the ticket after or before it, a plain
  file, a RomFS directory, an archive inside the archive with a ticket of its
  own. With two calls a thread lists and descends, or lists and looks up, in
  what either of the two has listed.
* RomFs: two directories have one name and, in two images, one bucket, so the
  parent test of the chain decides; with two threads one parses while the other
  searches, reads or waits. A third would do what one of the two does.
* Nca: with two entries there are two fs headers, enough for the second to
  follow the first or start anew. One call of a mount decrypts twice, so the
  cipher is met new, used, and in use. A Python program has a match and a
  constructor, or two of them, and any number of parses up to three sections,
  with keys arriving between any two.
* Keys: three lines set a key, set another whose name begins like it, and set
  one of them again, or mix a line with a ticket and a call. To base
  four, two digits name sixteen generations, of which the arrays have three: the
  others fall on a row of another key or outside the set, and the places of both
  digits count. The proofs remove the bound.
* Python: one thread goes three calls deep (parse, open an entry, open or read
  in it), the other comes across it with one; one exception, at any `seek` or
  `readinto`. Tables have names in another order than the entries, and the XCI a
  partition whose name is not known.
* Commands: the tree has a folder inside a folder inside a folder, an empty
  folder, an empty file, files of less and of more than a chunk, one name at
  three places. Depth 5 is more than the tree has. The requests hold every
  start (root, folder, nested folder, file, nothing, a trailing slash) and
  pairs of paths, none with a file in common. One container's name has no
  extension, so that its raw file and its folder have one path. There are a raw
  encrypted section that is no whole number of chunks, plain files, and encrypted
  files inside the section. The requests with refusals and with a cut archive
  are fewer: what they add happens in the workers.

### Fairness

`FairSpec` of `ThreadPool` asks that each thread that can go on eventually
does (threads of an operating system), and nothing of spurious wakeups, which
no standard promises. `DumpFair` asks the same of the walk and of each worker, and
`FairSpec` of `IoStack`, `Vfs` and `RomFs` of threads inside a call; nothing is asked
of the callers. Weak fairness does not
promise a mutex to a thread that finds it taken again and again; it suffices
here because the bounds of calls end the competition, and the results are to be
read so: no deadlock, no lost wakeup, not freedom from starvation.

`CHECK_DEADLOCK FALSE` is set where a run ends in states that have no
successor: a finished `run()`, and handlers that have used up their calls.
`IoStack` has an explicit final step instead, so its runs do check for deadlock.

## 4. What is proved

Eight modules hold the theorems, each for every value of the constants of its
module. Listed are the theorems; each rests on one lemma per action, and under
it on lemmas about the operators the action uses.

| Theorem | States |
|---|---|
| `ThreadPoolProofs!Invariance` | `Spec => [](TypeOK /\ PoolInv)` |
| `ThreadPoolProofs!TypeCorrect` | `Spec => []TypeOK` |
| `ThreadPoolProofs!EachJobRunsOnce` | `Spec => []EachJobOnce` |
| `ThreadPoolProofs!ReturnMeansDone` | `Spec => []ReturnsAfterWork` |
| `ThreadPoolProofs!Implements` | `Spec => ImplementsJobRun` |
| `IoStackProofs!TypeCorrect` | `Spec => []TypeOK` |
| `IoStackProofs!ReadsAreCorrect` | `Apart => (Spec => []ReadsCorrect)` |
| `VfsProofs!TypeCorrect` | `Spec => []TypeOK` |
| `VfsProofs!PathsAreFaithful` | `Spec => []PathsFaithful` |
| `VfsProofs!NodesAreKept` | `Spec => NodesStay` |
| `VfsProofs!OnePathPerNode` | `Spec => []OnePath(folders)` |
| `VfsProofs!ListingsAreExact` | `TicketsBefore` implies `Spec => []ListingExact` |
| `VfsProofs!ListedNamesAreFound` | `TicketsBefore` implies `Spec => []ListedIsFound` |
| `RomFsProofs!NoRaces` | `Spec => []RaceFree` |
| `RomFsProofs!TableStays` | `Spec => []StaysPut` |
| `RomFsProofs!FindsRight` | `Spec => []FoundRight` |
| `RomFsProofs!ContainersListExactly` | `Spec => []ListsExact` |
| `RomFsProofs!TreesAreExact` | `Spec => []TreeExact` |
| `RomFsProofs!PythonFindsAll` | `Spec => []EntriesExact` |
| `DumpProofs!JobsAreReady` | `DumpSpec => []JobsReady` |
| `DumpProofs!VisitsAreExact` | `Rooted`, `Distinct` imply `DumpSpec => []VisitsExact` |
| `DumpProofs!CountIsExact` | `Rooted`, `Distinct` imply `DumpSpec => []CountExact` |
| `DumpProofs!DumpTypes` | `DumpSpec => []DumpTypeOK` |
| `DumpProofs!FilesAreCopied` | `Rooted`, `Distinct`, `Disjoint` imply `DumpSpec => []NothingHalf` |
| `DumpProofs!DumpIsExact` | `Rooted`, `Distinct`, `Disjoint` imply `DumpSpec => []DumpExact` |
| `NcaProofs!HeadersAreRight` | `Spec => []HeaderRight` |
| `NcaProofs!HandlersOpenRight` | `Spec => []OpenRight` |
| `NcaProofs!ProgramSectionsRight` | `Spec => []SectionsRight` |
| `BindingsProofs!TypeCorrect` | `Spec => []TypeOK` |
| `BindingsProofs!FilesCorrect` | `Spec => []FilesExact` |
| `BindingsProofs!ArchivesCorrect` | `Spec => []ArchivesExact` |
| `BindingsProofs!NamesCorrect` | `Spec => []NamesFound` |
| `BindingsProofs!ReadsCorrect` | `Spec => []ReadsRight` |
| `KeySetProofs!TypeCorrect` | `Spec => []TypeOK` |
| `KeySetProofs!KeysAreFaithful` | `Spec => []KeysFaithful` |
| `KeySetProofs!TitlesAreRight` | `Spec => []TitleRight` |

### The pool

The only assumption is `PoolAssumption`: the workers are a finite set with at
least as many members as threads asked for, the owner is not one of them, and
the bounds are numbers.

`EachJobOnce` is not inductive: a step may break it in a state that holds it,
if the front of the queue is a ticket someone already has. `PoolInv` adds what
is missing, in named parts:

* `MutexInv`: the threads in the critical sections are exactly the holder of
  the mutex, so no two threads are in them.
* `PredicateInv`: what a worker knows once its predicate was true: the queue is
  not empty (or the pool is exiting), and between `front()` and `pop()` its
  item is still the head. It needs `MutexInv`, since only a holder of the mutex
  changes the queue.
* `TicketsInv`: the queue holds consecutive tickets, those after the `Started`
  first ones; each started ticket is done or in the hands of a worker. From
  this, a popped ticket is new, which gives `EachJobOnce`.
* `OwnerInv`: after `wait()` the queue is empty unless the run failed, and when
  `run()` returns all threads have exited. With `TicketsInv`: every ticket is
  started, none is in a worker's hands, so all are done.

For the refinement one lemma maps every step to a step of `JobRun` or to a
stutter.

### The I/O stack

`ReadsAreCorrect` is about every stack of layers, block size, number of threads
and request. It assumes `IoAssumption` (layers are ranges of what is below them,
encrypted sections begin on a block of their cipher) and `Apart`: no two threads
read one node. `io_shared` shows that it is false without `Apart`; the instance
of `io_reads` satisfies it.

The argument has two halves. Of the layers: a request that fits a layer becomes
one that fits its base (`BelowFits`), so the requests of all levels exist
(`ChainOK`), and if a base gives its request the bytes it is owed, so does the
layer (`OffsetGives`, `CtrGives`, `FileGives`). These need an induction down the
stack, over `ParentOffset` too, which is a recursive function; it is made from
the least member of a set of numbers (`SetInduction`). Of the threads: the
invariant `IInv` says of a thread inside a read what it holds and has
positioned: the `FILE` between `flockfile` and the end of `fread`; of every
`CtrFile` it is inside of, the mutex, the locals, and the key stream at the byte
the base was asked for. `SharedStays` shows that no other thread can move any of
that, and the rest is one lemma per action.

`TypeCorrect` needs no `Apart`: also when handlers share nodes, no size or
position becomes negative and no level is left.

### The virtual file system

The theorems hold for every archive, with any number of threads and calls, also
when directories are filled twice at the same time. `TypeOK` of `Vfs` is
inductive as it stands: `HeapOK` (folders are made of entries of their parents),
`MapsOK` (paths lead to objects), `ThreadOK` (what a handler in each place knows
of its folder, and that no iterator is beyond the elements). `PathsFaithful`
follows since a path is registered with a child of the folder that its parent
path leads to, `try_emplace` never replaces, and a folder never loses a child.
A run would add nothing to the type theorem, so no run lists `TypeOK` here.

A listing is right because of everything that happened before it, so
`ListingsAreExact` and `ListedNamesAreFound` share a larger invariant, `ListInv`:

* `Tree`: folder objects are a tree (`OneParent`, `RootIsTop`), and a registered
  path is the parent's with the name of the child (`PathsAlong`); so two paths
  never lead to one object (`OnePath`), and a handler that alone has a path also
  alone has the object. It holds with or without `serial`.
* `KeysLoaded`: a folder stands for a container only if the keys of
  `TicketsBefore` are loaded, so the answer of "does it open" is the same whether
  it is asked by the handler that fills the folder or by the specification of
  the listing. Keys only arrive, so it stays.
* `Readers`: every handler is where it is with the folder of its own path.
* `SerialInv`, for the serial case: one reader per path (`OneReader`); of each
  object, that its vectors are empty, or are being filled, or are the full lists
  (`ObjectState`); of each path, that once its folder is `processed` its nodes are
  registered or a handler is about to do so (`PathState`); of each handler, how
  far it is: the vectors are the openable and other entries among the first
  `idx - 1` (`FillState`), the first `idx - 1` nodes are registered
  (`PublishState`), the names so far are the first ones of the two vectors
  (`ListState`).

With `InOrder` the entries taken so far are a prefix of those the listing wants,
and one more entry extends it by one or not at all; these are the lemmas on
`InOrder` at the beginning of that part.

### RomFS

For every set of images that are `WellFormed` (what an image builder guarantees:
chains end and hold the children of one directory, names in a directory are
unique, each directory is in the bucket of its name, and the buckets are at
least as many as the directories), any hash and any number of handlers.

Neither property says why it holds: nothing but a path ties the parsed flag of a
container to the entry `find_dir` comes to. `RomFsInv` says that there is a
labelling `P` of the entries with paths, and grows it with each entry made:

* `Labelled`: the entries are a tree below the root, each made of a place of its
  own and with a path of its own. `StaysPut` follows, since there are no more
  places than buckets.
* `Parsing`: the one call of `parse_dir` is at the entry of the path its handler
  was asked for, which has no flag yet, and has made entries of the places up to
  the one it is at; an entry whose path has no flag has no children otherwise.
* `AllReady`: of each path a handler or a list knows, every directory above it
  has its flag, and there is an entry for each directory on the way.
* `Searching`: `find_dir` is at the entry of the path it went through, and the
  place it looks for lies ahead of it in the bucket, so it comes to an entry
  whose flag is set, and not to the one being parsed. That is `RaceFree`.

Of a Python program the argument is that its calls have the interpreter to
themselves (`OneParse`).

`FoundRight` compares what `find_dir` returns with `DirAt`, which follows the
path from the root by a recursive function. `LabelIsRight` unfolds it along the
tree of entries, by induction on the length of the path (the least length at
which it would fail, `LeastNumber`): the label of an entry leads to its place.

`ListsExact` needs what is behind an entry, and who is at it. `Exact(P)` adds:

* `Parsed`: a directory whose flag is set has an entry, and each entry of its
  path is `Whole`, that is its children and files are those of the image, in
  order; of a directory without a flag there are no files unless a call of
  `parse_dir` is at it.
* `AlongFiles`: that call has made the files up to the one it is at, and the
  directories before them.
* `Collected`: a handler has taken a prefix of the names of its directory, all
  files before any child; `Listed`: a list that was returned has all of them.

`FindsAll` closes it: `find_dir` always finds the directory, as the chains of
its path are whole before it is looked for.

`TreeExact` follows from `ExactInv` under handlers. Of a Python program it needs
`FullInv`: there is no entry yet, or the entries are two trees (`FullTree(B, C)`),
the first `B` directories and `C` files of an earlier `parse_full` and what the last
one made behind them.

* `TreeOfDirs`, `TreeOfFiles`: in either tree each place has one entry, it hangs
  below the entry of its parent, and is in that one's list.
* `Calls`: the calls of `parse_dir` on the stack are each for an entry of its own in
  the second tree and have made what lies before their places (`Along`,
  `AlongFiles`); an entry no call is for is `Whole`. That no entry is forgotten
  between a caller and its callee is what an inductive invariant must say:
  `parse_dir` makes the files of a directory after all that is below its folders.

When no thread is in `parse_full` all entries are whole, so the places that have an
entry are closed under children and files, and by induction over places (a parent
comes before its children) all have one (`TreeCovers`, `FilesCover`): the tree has as
many entries as the image (`FullCount`). Then the next call finds nothing or one whole
tree (`FullOpen`).

`EntriesExact` is about three recursive functions: the paths of the image, the paths
entries put together from their parents, and what `walk` comes to. Their equations
have solutions since a parent has a smaller index than what is below it
(`UpPathsExist`, `BelowExists`), so the `CHOOSE` they stand for satisfies them. Then
an entry has the path of its place (`PathsAgree`), different places have different
paths (`DirPathNames`: following the path of a place leads to it; `LeafPathNames`),
and `walk` from the first entry comes to exactly the first of the two trees
(`WalkedAll`), which has every place and is `Whole`. So `get_entries` writes each
path once, with what the image has there (`EntriesMade`), and no other step writes
the dictionaries.

### The dump command

`DumpProofs` first shows that what `dump` does to the state of `walk` is a step
of `Walk` or nothing, then proves `JobsReady` of `Walk`, for every tree of
folders, list of paths and depth. `JobsReady` alone says nothing of what comes
next, so `WalkInv` adds `MapsOK` (a folder has one path, and the files of a
processed folder are all registered) and `Linked` (each call of `walk` is in the
folder its path leads to, and that folder was created). What it assumes of the
tree is `TreeAssumption`: `process` makes each child anew, so a folder is the
child of one folder. With it the worker's `get_file` is never null, whatever the
other workers do.

`VisitsAreExact` and `CountIsExact` have two hypotheses, and the code fails
without either (section 5). `Rooted`: the paths of a command line begin with
"/". `Distinct`: in a folder no two children, and no two files, have one name.
The tree may be infinite and the requests may overlap.

What was visited is compared with what was asked for by counting: `Times` is how
often an entry was visited, `Asks` how many of the paths so far ask for it, and
between two paths they agree (`Counted`). `ToldInv` adds to `WalkInv`:

* `KidsOK`: the children of a processed folder are registered under their own
  paths. With it `Looking` says that `find_folder` has gone through processed
  folders only, and that the path it misses is in no map because it is not in
  the tree.
* `Told`, for a walk that goes on: `Going`. What was visited since it began is
  visited `Once`, and is told by the calls of `walk` that are open: a child is
  reported if its parent was entered and no open call of that path has yet to
  come to it, a file likewise (`Seen`); the calls are at consecutive levels of
  the tree, with the depth that is left (`Calls`). When no call is open, that is
  all of `Entries`, which `Asked` wants.
* `Told`, for `find`: `matched` is the number of names that match among what
  was visited, and below what it may print while it goes on (`Finding`).

`Level` is a recursive function; the lemmas about it go up from a folder to what
it is a child of, by induction over the level (`SetInduction`), and give: a
path leads to one folder of the tree (`LevelUnique`), and what is below a
folder is its children and what is below them.

The files `dump` writes are told by the queue and the workers. The queue is a
function of what was visited (`QueueOf`), so the walk only appends to it
(`QueueGrows`), and a worker's job keeps its path and its node while the walk
goes on. `WorkInv` says who has which job (`Hands`): no two workers have one, a
worker without a job is idle, the running jobs are the workers', and when the
run has reported no job runs; with it `DumpTypes` needs no hypothesis.

`Copies` follows the bytes. What a copy has after its first chunks is a function of
the file and the place (`Content`: the file's bytes up to what the archive has, junk
behind), and the places a loop comes to are `Reached`: multiples of the chunk, or
for a file with a layer around it that cuts at the end, that end. A worker that
writes and was refused nothing has written `Content` up to its `offset`
(`Copying`), and between its seek and its read the node's position is its offset;
`ReachedNext` and `ReachedEnd` say that one more read goes to the next place, and that
a loop which leaves is at one of the sizes `Dumped` allows. A job that was opened
and is over, and not refused, is `Copied`. That holds only while no other worker
has the same node, so `CopyInv` is inductive together with `FilesOnce`: each file was
visited once. `FilesOnce` comes from the counting above under a third hypothesis,
`Disjoint`: no file is asked for by two paths of the command line. Without it two
workers share one position (section 5). `ToldInv` tells nothing of a walk that
failed, but that step visits no file, so `FilesOnce` is proved by steps: it holds
wherever the walk goes on or succeeded, and a step that fails keeps it.

`DumpExact` also says that no file is missing. A worker that has taken a job has
opened its file, or the host refused it, or `dump` has made a folder of that path
(`Opened`): the folder the file goes to is there by `JobsReady`, and a folder `dump`
has made stays (`CreatedStays`). The folders it makes are those of the tree only
(`FoldersThere`, `CreatedInTree`), so a file in whose place one is has the path of a
folder of the archive (`CreatedNamed`). Nothing is assumed of the sizes, the layers,
what the archive has lost and what the host refuses.

### NCA headers

`HeaderInv` follows the static cipher through a call: between the first key and
the last sector, the number in the cipher is the one of the sector `decrypt_header`
is at, and the sectors before it came out well (`InStep`), for a thread that
nobody has disturbed (`alone`). In a mount the cipher is made with one key
(`KeyStays`); in a Python program one call runs at a time (`OneCall`). Nothing is
assumed of the archives but the shape of their headers.

`OpenRight` and `SectionsRight` are about what is made of the header, and rest on
`ObjectInv`: an NCA object has taken its key area through the cipher at most
once, and then with sections one after the other, each of the next supported
entry (`ObjectOK`); in a mount, a handler's object is the one of its own call,
whose key is the user's, or the archive's if it was loaded (`MountObject`,
`MountKeys`) and whose answer says so (`MountAnswer`); the sections that were parsed
are as many as the header counts exactly if all are supported (`WholeHeader`); in a Python program, an
object that was not parsed has no sections, however many parses have raised
(`PythonObject`, `PythonCalls`). A section list is then compared with the
specified one by its members and its order (`Ordered`).

### The Python bindings

For any images, threads, numbers of calls and of exceptions. What is assumed of
an image is `WellFormed`: names in an archive differ, a PFS or HFS is laid out as a
builder lays it out, a file that is no archive does not look like one, and the
partitions of an XCI are HFS. Images are functions from paths to nodes, so
nesting has no bound and no recursion is needed.

`Inv` has two halves. `Types` and the equivalence of `disturbed` and `Mixed` hold
always; `Undisturbed` holds until two threads have met in one object, after
which `Next` has no step. It says of every archive that it covers its node and has
that node's header (`ArchExact`), and that its dictionary has exactly the node's names,
each with its own cells, while nobody is between emptying and filling it
(`DictExact`, `Settled`). Neither is inductive without what the calls in flight
are about to do (`CallExact`): each buffer a parse holds is the table or the name
block of its node unless a read raised (`TableReads`, `CardReads`); an
archive in `collect` has the entries of the node, or, if it is an XCI, its last
partition of each known name has the right header (`PartsMade`). The last is
where repeated parses matter: a parse that raised in its loop leaves
partitions with a header of zeros, a later one appends good ones behind them, and
the dictionary takes the last of a name. `PartsExact` keeps the earlier ones
harmless: whatever header was read, name and place are those of an entry. A
parse that failed before its loop has names of zeros only, and no partition is
called so (`NoName \notin Partitions`).

A step of one thread leaves the others' calls exact (`StepOp`): it does not move
the Python object while another one is between `seek` and `readinto`, and of
an archive another one has in hand it leaves what `Kept` names, the base, the
entries that were right, and the last partition of each name. A parse that has
failed would not; that is the case in which it is alone with its archive, or
`Mixed` holds.

### Key sets

For key files of any length, with any names, and both programs. `KeysFaithful` is
inductive with `TypeOK`; the work is in what one line does to one key: a name that
means a key sets its rows and no others, although it is compared with the beginnings
of all (`MeantIsSet`: no name that is tested begins another one, `SinglesApart`), and
a name that sets a row otherwise is one of those `Strays` lists (`SetIsMeant`). What is assumed of the
constants is that keys differ from the special values, and that no rights id is the
tab of a line.

### What stays with TLC

Liveness under fairness (`EveryJobRuns`, `EndsUnlessStranded`, `ReadReturns`,
`HandlerReturns`, `HandlerEnds`, `RunEnds`) and everything about `ENABLED` are
out of the prover's reach. So is induction over data where the library states
it with operator parameters: what a recursively defined operator computes for
every input; where a recursive function is needed in a
proof, it is unfolded by a least counterexample. No safety invariant of a run is
without a theorem. The type invariants
of `RomFs` and `Nca` are stated in the modules; no run of this project lists them.

## 5. Where code and documentation part

Four runs expect a violation; `PROJECT.json` quotes the lines.

* `pool_wakeup`: the destructor's `is_exiting = true; notify_all()` without the
  mutex can fall between a worker's test and its wait: `dump` hangs in `join`.
  `EndsUnlessStranded` shows that it is the only way to hang.
* `io_shared`: `File::read` of a node seeks and reads an unlocked position.
  `-osync_read` orders the reads of one open file, not those of two.
* `vfs_twice`: the guard of `Folder::process` never holds, so a folder can be
  filled twice.
* `nca_race`: the cipher of `decrypt_header` is static and unlocked, so an NCA
  opened while another one is may not be recognised and stays a raw file.

Known, and not a run of its own:

* Dump. The copy loop advances by what it read, so on an archive that ends
  inside a plain file it repeats for ever, and for an encrypted one, whose
  reads say they have read all, junk is written and success reported. For the
  same reason (`io.cpp:118`) a dumped raw encrypted section is padded to a multiple of
  4 MiB with what the buffer holds. `DumpExact` states these outcomes, and `commands`
  reaches them.
  A file `fopen` refuses and a write that falls short are not reported either
  (`dump.cpp:49-57`). A file asked for through two paths is copied by two workers
  from one position (the race of `io_shared`).
* Paths. `find_folder` takes a path without its leading slash, `walk` looks the
  same path up among keys that all have one, so `find` reports success without
  having looked. A folder is named by cutting the extension off, and the first of
  two nodes of one path stays, so of `a.nca` and `a.nsp` only one can be reached
  and `walk` goes through it twice. A container whose name has no extension has
  the path of its own folder, so its raw file cannot be opened for writing,
  silently. `getattr` answers from maps that only `readdir` of the parent fills
  (`fuse.cpp:93`), so a path opened by name first does not exist. The map of title
  keys is read and written by several threads without a lock (`vfs.cpp:40`).
* NCA. `read_files` counts the sections of the header and indexes those that
  were parsed (`containers.cpp:86`); one of an unsupported encryption makes it
  read beyond the end. A Python program that matches a file before it loads its
  keys never recognises an NCA (the static cipher keeps the key of the first
  call); with a header key and without the key of its generation it is listed under a
  key of zeros, without an error (`nca.cpp:132-141`); `Nca.parse` called twice lists sections twice, the second time under a
  wrong key; `Nca.num_sections` of `hac.py` raises before anything was parsed.
* RomFS. `find_dir` of a name that does not exist can return another child that
  ends the hash chain (no caller looks up such a name). Parsing an image again
  appends a second tree.
* Keys. Identifiers are compared over the length of the name looked up or of
  its prefix (`keyset.cpp:27`): a name that begins another one sets it, and
  `master_key_100` sets generation 0x10. A generation of 0x20 or more writes
  behind its array (a `master_key_` into a title key encryption key);
  `master_key_0` makes `at()` throw, which ends the program. `parse_line` makes a view that begins before
  the line when there is no value. A tab between name and value, which Python
  reads, becomes part of the name in the program. `Keys.init_keys` of `hac.py`
  adds to the keys there are.
* Python. A `File` on a Python object does not advance its position
  (`bindings.cpp:86-113`), so two reads return the same bytes; two threads in one
  such object can read at each other's position. `match` of a `File` reads from
  its current position, so a second one looks at other bytes (`hac.py:530-537`).
  A parse that fails on one thread fills the archive with what another thread may
  collect; an `Xci` whose parse failed keeps partitions with undefined headers,
  and a parse of an `Xci` that was parsed empties its dictionary first
  (`hac.py:425`). `readall` of `hac.py` returns a buffer of the size asked for,
  zeros behind what was read.

`parse_fast` and `find_file` have no caller.

## 6. Not modelled

Not modelled for good: option parsing, mounting, the build, the block ciphers
and `fnmatch`/RE2 (pure functions of libraries), the text of messages, the
argument conversions and reference counts of the Python bindings, `File::open`,
`update_size` and `write`, which nothing calls on a file that is shared.

The layouts of headers are constants: fields are cells of `Bindings`, and where
a section of an NCA or a file of a RomFS lies is a layer of `IoStack`.
