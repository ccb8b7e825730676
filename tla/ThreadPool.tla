----------------------------- MODULE ThreadPool -----------------------------
(***************************************************************************)
(* The worker pool of src/src/thread_pool.hpp, driven the way              *)
(* DumpContext::run (src/src/dump.cpp) drives it: start_workers, some      *)
(* calls of queue_item, then wait() and the destructor, or - when creating *)
(* a destination folder fails - the destructor alone.                      *)
(*                                                                         *)
(* A job is the ticket number of the queue_item call that queued it; what  *)
(* the worker function does with it is left out here.                      *)
(***************************************************************************)
EXTENDS Naturals, Sequences, FiniteSets

CONSTANTS
  Workers,      \* the threads the pool can be given
  Owner,        \* the thread that owns the pool
  NoThread,     \* the value of a free mutex
  Jobs,         \* options.jobs, the argument of start_workers
  MaxItems,     \* bound: calls of queue_item in one run
  MaxSpurious   \* bound: spurious wakeups of the condition variable

\* start_workers raises its argument to at least one.
NumWorkers == IF Jobs = 0 THEN 1 ELSE Jobs

ASSUME PoolAssumption ==
  /\ IsFiniteSet(Workers)
  /\ Owner \notin Workers
  /\ NoThread \notin Workers \cup {Owner}
  /\ Jobs \in Nat
  /\ MaxItems \in Nat
  /\ MaxSpurious \in Nat
  /\ NumWorkers <= Cardinality(Workers)

VARIABLES
  mtx,       \* holder of pending_args_mtx
  queue,     \* pending_args
  exiting,   \* is_exiting
  wpc,       \* where each worker is in worker_thread_func
  item,      \* args of each worker, 0 for none
  opc,       \* where the owner is in run()
  issued,    \* number of tickets handed out
  done,      \* the tickets whose worker function has returned
  failed,    \* run() is returning 1
  spurious   \* spurious wakeups so far

vars == <<mtx, queue, exiting, wpc, item, opc, issued, done, failed, spurious>>
workerVars == <<wpc, item>>
ownerVars == <<opc, issued, failed>>

Tickets == 1 .. MaxItems

WorkerPCs ==
  {"unstarted",  \* no std::thread yet
   "loop",       \* while (!is_exiting)
   "lock",       \* unique_lock lk(pending_args_mtx)
   "test",       \* holds the mutex, about to evaluate the wait predicate
   "sleep",      \* predicate was false, about to release the mutex and block
   "blocked",    \* in the condition variable
   "relock",     \* woken, must take the mutex again
   "ready",      \* predicate was true
   "pop",        \* args moved out of front(), element not popped yet
   "unlock",     \* popped, lk.unlock() next
   "work",       \* in worker_func
   "exit"}       \* thread function returned

OwnerPCs ==
  {"spawn", "run", "lock", "push", "notify", "unlock",
   "wait", "stop", "notifyall", "join", "done"}

TypeOK ==
  /\ mtx \in Workers \cup {Owner, NoThread}
  /\ queue \in Seq(Tickets)
  /\ exiting \in BOOLEAN
  /\ wpc \in [Workers -> WorkerPCs]
  /\ item \in [Workers -> Tickets \cup {0}]
  /\ opc \in OwnerPCs
  /\ issued \in 0 .. MaxItems
  /\ done \subseteq Tickets
  /\ failed \in BOOLEAN
  /\ spurious \in 0 .. MaxSpurious

Init ==
  /\ mtx = NoThread
  /\ queue = <<>>
  /\ exiting = FALSE
  /\ wpc = [w \in Workers |-> "unstarted"]
  /\ item = [w \in Workers |-> 0]
  /\ opc = "spawn"
  /\ issued = 0
  /\ done = {}
  /\ failed = FALSE
  /\ spurious = 0

Spawned == {w \in Workers : wpc[w] # "unstarted"}
Waiters == {w \in Workers : wpc[w] = "blocked"}

\* A worker that has popped a job and not finished it.
Busy == {w \in Workers : wpc[w] \in {"unlock", "work"}}

OwnerGoto(from, to) == opc = from /\ opc' = to
WorkerGoto(w, from, to) == wpc[w] = from /\ wpc' = [wpc EXCEPT ![w] = to]

-----------------------------------------------------------------------------
(* The owner: DumpContext::run and the member functions it calls.          *)

\* start_workers: one iteration of the loop that creates the threads.
Spawn(w) ==
  /\ opc = "spawn"
  /\ Cardinality(Spawned) < NumWorkers
  /\ WorkerGoto(w, "unstarted", "loop")
  /\ UNCHANGED <<mtx, queue, exiting, item, ownerVars, done, spurious>>

StartReturns ==
  /\ Cardinality(Spawned) = NumWorkers
  /\ OwnerGoto("spawn", "run")
  /\ UNCHANGED <<mtx, queue, exiting, workerVars, issued, done, failed, spurious>>

\* queue_item: lock, push, notify_one, unlock.
QueueLock ==
  /\ issued < MaxItems
  /\ OwnerGoto("run", "lock")
  /\ UNCHANGED <<mtx, queue, exiting, workerVars, issued, done, failed, spurious>>

QueueLocked ==
  /\ mtx = NoThread
  /\ mtx' = Owner
  /\ OwnerGoto("lock", "push")
  /\ UNCHANGED <<queue, exiting, workerVars, issued, done, failed, spurious>>

QueuePushMut ==
  /\ OwnerGoto("push", "notify")
  /\ queue' = Append(queue, issued)
  /\ issued' = issued + 1
  /\ UNCHANGED <<mtx, exiting, workerVars, done, failed, spurious>>

QueuePush ==
  /\ OwnerGoto("push", "notify")
  /\ queue' = Append(queue, issued + 1)
  /\ issued' = issued + 1
  /\ UNCHANGED <<mtx, exiting, workerVars, done, failed, spurious>>

NotifyOne ==
  IF Waiters = {}
    THEN UNCHANGED wpc
    ELSE \E w \in Waiters : wpc' = [wpc EXCEPT ![w] = "relock"]

QueueNotifyMut ==
  /\ OwnerGoto("notify", "unlock")
  /\ UNCHANGED <<mtx, queue, exiting, workerVars, issued, done, failed, spurious>>

QueueNotify ==
  /\ OwnerGoto("notify", "unlock")
  /\ NotifyOne
  /\ UNCHANGED <<mtx, queue, exiting, item, issued, done, failed, spurious>>

QueueUnlock ==
  /\ OwnerGoto("unlock", "run")
  /\ mtx' = NoThread
  /\ UNCHANGED <<queue, exiting, workerVars, issued, done, failed, spurious>>

\* callback_folder reports an error: run() returns 1 with the queue as it is.
Abort ==
  /\ OwnerGoto("run", "stop")
  /\ failed' = TRUE
  /\ UNCHANGED <<mtx, queue, exiting, workerVars, issued, done, spurious>>

AllQueued ==
  /\ OwnerGoto("run", "wait")
  /\ UNCHANGED <<mtx, queue, exiting, workerVars, issued, done, failed, spurious>>

\* wait(): polls pending_args.empty() without the mutex.  A poll that finds the
\* queue non-empty changes nothing.
WaitReturns ==
  /\ queue = <<>>
  /\ OwnerGoto("wait", "stop")
  /\ UNCHANGED <<mtx, queue, exiting, workerVars, issued, done, failed, spurious>>

\* stop_workers, called by the destructor: is_exiting is set, and the waiters
\* are notified, without taking the mutex.
StopFlag ==
  /\ OwnerGoto("stop", "notifyall")
  /\ exiting' = TRUE
  /\ UNCHANGED <<mtx, queue, workerVars, issued, done, failed, spurious>>

StopNotifyAllMut ==
  /\ OwnerGoto("notifyall", "join")
  /\ UNCHANGED <<mtx, queue, exiting, workerVars, issued, done, failed, spurious>>

StopNotifyAll ==
  /\ OwnerGoto("notifyall", "join")
  /\ wpc' = [w \in Workers |-> IF wpc[w] = "blocked" THEN "relock" ELSE wpc[w]]
  /\ UNCHANGED <<mtx, queue, exiting, item, issued, done, failed, spurious>>

StopJoinedMut ==
  /\ OwnerGoto("join", "done")
  /\ UNCHANGED <<mtx, queue, exiting, workerVars, issued, done, failed, spurious>>

StopJoined ==
  /\ \A w \in Spawned : wpc[w] = "exit"
  /\ OwnerGoto("join", "done")
  /\ UNCHANGED <<mtx, queue, exiting, workerVars, issued, done, failed, spurious>>

-----------------------------------------------------------------------------
(* A worker: worker_thread_func.                                           *)

LoopTest(w) ==
  /\ \/ exiting /\ WorkerGoto(w, "loop", "exit")
     \/ ~exiting /\ WorkerGoto(w, "loop", "lock")
  /\ UNCHANGED <<mtx, queue, exiting, item, ownerVars, done, spurious>>

\* The first acquisition, and the one wait() makes after a wakeup.
LockMut(w) ==
  /\ mtx' = w
  /\ \/ WorkerGoto(w, "lock", "test")
     \/ WorkerGoto(w, "relock", "test")
  /\ UNCHANGED <<queue, exiting, item, ownerVars, done, spurious>>

Lock(w) ==
  /\ mtx = NoThread
  /\ mtx' = w
  /\ \/ WorkerGoto(w, "lock", "test")
     \/ WorkerGoto(w, "relock", "test")
  /\ UNCHANGED <<queue, exiting, item, ownerVars, done, spurious>>

\* The predicate of condvar.wait, evaluated with the mutex held.
TestPredicate(w) ==
  /\ \/ (exiting \/ queue # <<>>) /\ WorkerGoto(w, "test", "ready")
     \/ ~(exiting \/ queue # <<>>) /\ WorkerGoto(w, "test", "sleep")
  /\ UNCHANGED <<mtx, queue, exiting, item, ownerVars, done, spurious>>

\* The mutex is released and the worker joins the waiters in one step.
Sleep(w) ==
  /\ WorkerGoto(w, "sleep", "blocked")
  /\ mtx' = NoThread
  /\ UNCHANGED <<queue, exiting, item, ownerVars, done, spurious>>

\* A condition variable may wake a waiter nobody notified.
SpuriousWakeup(w) ==
  /\ spurious < MaxSpurious
  /\ spurious' = spurious + 1
  /\ WorkerGoto(w, "blocked", "relock")
  /\ UNCHANGED <<mtx, queue, exiting, item, ownerVars, done>>

\* if (is_exiting) return: the unique_lock releases the mutex.
ReturnExiting(w) ==
  /\ exiting
  /\ WorkerGoto(w, "ready", "exit")
  /\ mtx' = NoThread
  /\ UNCHANGED <<queue, exiting, item, ownerVars, done, spurious>>

TakeFront(w) ==
  /\ ~exiting
  /\ WorkerGoto(w, "ready", "pop")
  /\ item' = [item EXCEPT ![w] = Head(queue)]
  /\ UNCHANGED <<mtx, queue, exiting, ownerVars, done, spurious>>

PopMut(w) ==
  /\ WorkerGoto(w, "pop", "unlock")
  /\ UNCHANGED <<mtx, queue, exiting, item, ownerVars, done, spurious>>

Pop(w) ==
  /\ WorkerGoto(w, "pop", "unlock")
  /\ queue' = Tail(queue)
  /\ UNCHANGED <<mtx, exiting, item, ownerVars, done, spurious>>

Unlock(w) ==
  /\ WorkerGoto(w, "unlock", "work")
  /\ mtx' = NoThread
  /\ UNCHANGED <<queue, exiting, item, ownerVars, done, spurious>>

\* worker_func returns.
Work(w) ==
  /\ WorkerGoto(w, "work", "loop")
  /\ done' = done \cup {item[w]}
  /\ item' = [item EXCEPT ![w] = 0]
  /\ UNCHANGED <<mtx, queue, exiting, ownerVars, spurious>>

-----------------------------------------------------------------------------
OwnerNext ==
  \/ \E w \in Workers : Spawn(w)
  \/ StartReturns
  \/ QueueLock
  \/ QueueLocked
  \/ QueuePush
  \/ QueueNotify
  \/ QueueUnlock
  \/ Abort
  \/ AllQueued
  \/ WaitReturns
  \/ StopFlag
  \/ StopNotifyAll
  \/ StopJoined

WorkerNext(w) ==
  \/ LoopTest(w)
  \/ Lock(w)
  \/ TestPredicate(w)
  \/ Sleep(w)
  \/ ReturnExiting(w)
  \/ TakeFront(w)
  \/ Pop(w)
  \/ Unlock(w)
  \/ Work(w)

Next ==
  \/ OwnerNext
  \/ \E w \in Workers : WorkerNext(w)
  \/ \E w \in Workers : SpuriousWakeup(w)

Spec == Init /\ [][Next]_vars

\* Every thread that can take a step eventually does; nothing makes a
\* condition variable wake up spuriously.
Fairness ==
  /\ WF_vars(OwnerNext)
  /\ \A w \in Workers : WF_vars(WorkerNext(w))

FairSpec == Spec /\ Fairness

-----------------------------------------------------------------------------
(* Safety.                                                                 *)

\* No job is in the hands of two workers, and no finished job is run again
\* (the two-step front()/pop() of worker_thread_func under the mutex).
EachJobOnce ==
  \A w \in Busy :
    /\ item[w] \notin done
    /\ \A v \in Busy : item[v] = item[w] => v = w

\* When run() returns 0 every queued file has been dumped, although wait()
\* returns as soon as the queue is empty, with jobs still in the workers' hands.
ReturnsAfterWork == opc = "done" /\ ~failed => done = 1 .. issued

\* The strengthening of EachJobOnce and ReturnsAfterWork that every step keeps:
\* who holds pending_args_mtx, what its holder knows of the queue, where every
\* ticket is, and how far the owner has got.
Holding == {"test", "sleep", "ready", "pop", "unlock"}

MutexInv ==
  /\ \A w \in Workers : wpc[w] \in Holding <=> mtx = w
  /\ opc \in {"push", "notify", "unlock"} <=> mtx = Owner

PredicateInv ==
  \A w \in Workers :
    /\ wpc[w] = "ready" => exiting \/ queue # <<>>
    /\ wpc[w] = "pop" => queue # <<>> /\ item[w] = Head(queue)

Started == issued - Len(queue)

TicketsInv ==
  /\ Started \in Nat
  /\ \A i \in 1 .. Len(queue) : queue[i] = Started + i
  /\ \A w \in Busy : item[w] \in 1 .. Started
  /\ done \subseteq 1 .. Started
  /\ \A t \in 1 .. Started : t \in done \/ \E w \in Busy : item[w] = t

OwnerInv ==
  /\ opc \in {"lock", "push"} => issued < MaxItems
  /\ opc \in {"stop", "notifyall", "join", "done"} /\ ~failed => queue = <<>>
  /\ opc = "done" => \A w \in Workers : wpc[w] \in {"unstarted", "exit"}

PoolInv == MutexInv /\ PredicateInv /\ TicketsInv /\ EachJobOnce /\ OwnerInv

\* A run of jobs as the caller sees it.
Run == INSTANCE JobRun WITH
  submitted <- issued,
  started   <- Started,
  running   <- {item[w] : w \in Busy},
  outcome   <- IF opc # "done" THEN "busy" ELSE IF failed THEN "failed" ELSE "ok"

\* The pool implements the run of jobs its caller relies on.
ImplementsJobRun == Run!Spec

-----------------------------------------------------------------------------
(* Liveness.                                                               *)

\* A file queued for dumping is dumped, unless run() gives up: no notify_one
\* of queue_item is lost.
EveryJobRuns ==
  \A t \in Tickets : (issued >= t) ~> (t \in done \/ failed)

\* A worker stop_workers cannot wake: it found the predicate false before
\* is_exiting was set, and is not blocked yet when notify_all is over.
Stranded(w) == opc = "join" /\ wpc[w] = "sleep"

\* run() returns, unless a worker is stranded: that window is the only way the
\* pool can hang.
EndsUnlessStranded == <>(opc = "done" \/ \E w \in Workers : Stranded(w))

\* The predicate of condvar.wait says that a worker stops waiting once
\* is_exiting is set.
WaitEndsOnExit ==
  \A w \in Workers : (exiting /\ wpc[w] = "blocked") ~> (wpc[w] # "blocked")
=============================================================================
