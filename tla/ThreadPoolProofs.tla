-------------------------- MODULE ThreadPoolProofs --------------------------
(***************************************************************************)
(* Theorems about ThreadPool, for every set of workers, every number of    *)
(* jobs and items and any number of spurious wakeups.                      *)
(***************************************************************************)
EXTENDS ThreadPool, TLAPS

USE DEF OwnerGoto, WorkerGoto

\* What push() does to the queue.
LEMMA PushOp ==
  ASSUME NEW q \in Seq(Tickets), NEW t \in Tickets
  PROVE  /\ Append(q, t) \in Seq(Tickets)
         /\ Len(Append(q, t)) = Len(q) + 1
         /\ \A i \in 1 .. Len(q) : Append(q, t)[i] = q[i]
         /\ Append(q, t)[Len(q) + 1] = t
OBVIOUS

\* What front() and pop() find in a queue that is not empty.
LEMMA PopOp ==
  ASSUME NEW q \in Seq(Tickets), q # <<>>
  PROVE  /\ Len(q) \in Nat \ {0}
         /\ Head(q) = q[1] /\ Head(q) \in Tickets
         /\ Tail(q) \in Seq(Tickets)
         /\ Len(Tail(q)) = Len(q) - 1
         /\ \A i \in 1 .. Len(q) - 1 : Tail(q)[i] = q[i + 1]
OBVIOUS

-----------------------------------------------------------------------------
\* Initially every part of the invariant holds.
LEMMA InitInv == Init => TypeOK /\ PoolInv
<1> SUFFICES ASSUME Init PROVE TypeOK /\ PoolInv
  OBVIOUS
<1> USE DEF Init
<1>1. queue \in Seq(Tickets) /\ Len(queue) = 0
  OBVIOUS
<1>2. TypeOK
  <2>1. wpc \in [Workers -> WorkerPCs] /\ item \in [Workers -> Tickets \cup {0}]
    BY DEF WorkerPCs
  <2>2. issued \in 0 .. MaxItems /\ spurious \in 0 .. MaxSpurious
    BY PoolAssumption
  <2> QED
    BY <1>1, <2>1, <2>2 DEF TypeOK, OwnerPCs
<1>3. MutexInv /\ PredicateInv /\ OwnerInv
  BY PoolAssumption DEF MutexInv, PredicateInv, OwnerInv, Holding
<1>4. TicketsInv /\ EachJobOnce
  BY <1>1 DEF TicketsInv, EachJobOnce, Started, Busy
<1> QED
  BY <1>2, <1>3, <1>4 DEF PoolInv

-----------------------------------------------------------------------------
\* Every step keeps every variable in its type; TakeFront needs the predicate
\* of condvar.wait for front() of the queue to exist.
LEMMA TypeStep ==
  TypeOK /\ PredicateInv /\ TicketsInv /\ OwnerInv /\ [Next]_vars => TypeOK'
<1> SUFFICES ASSUME TypeOK, PredicateInv, TicketsInv, OwnerInv, [Next]_vars
             PROVE  TypeOK'
  OBVIOUS
<1> USE DEF TypeOK
<1>1. ASSUME NEW w \in Workers, Spawn(w) PROVE TypeOK'
  BY <1>1 DEF Spawn, ownerVars, WorkerPCs
<1>2. CASE StartReturns \/ QueueLock \/ QueueUnlock \/ Abort \/ AllQueued
           \/ WaitReturns \/ StopFlag \/ StopJoined
  BY <1>2 DEF StartReturns, QueueLock, QueueUnlock, Abort, AllQueued,
              WaitReturns, StopFlag, StopJoined, workerVars, OwnerPCs
<1>3. CASE QueueLocked
  BY <1>3 DEF QueueLocked, workerVars, OwnerPCs
<1>4. CASE QueuePush
  <2>1. issued + 1 \in Tickets
    BY <1>4, PoolAssumption DEF QueuePush, OwnerInv, Tickets
  <2>2. queue' \in Seq(Tickets)
    BY <1>4, <2>1, PushOp DEF QueuePush
  <2> QED
    BY <1>4, <2>1, <2>2 DEF QueuePush, workerVars, OwnerPCs, Tickets
<1>5. CASE QueueNotify
  BY <1>5 DEF QueueNotify, NotifyOne, Waiters, OwnerPCs, WorkerPCs
<1>6. CASE StopNotifyAll
  BY <1>6 DEF StopNotifyAll, OwnerPCs, WorkerPCs
<1>7. ASSUME NEW w \in Workers, LoopTest(w) \/ TestPredicate(w) PROVE TypeOK'
  BY <1>7 DEF LoopTest, TestPredicate, ownerVars, WorkerPCs
<1>8. ASSUME NEW w \in Workers, Lock(w) PROVE TypeOK'
  BY <1>8 DEF Lock, ownerVars, WorkerPCs
<1>9. ASSUME NEW w \in Workers, Sleep(w) \/ ReturnExiting(w) \/ Unlock(w) PROVE TypeOK'
  BY <1>9 DEF Sleep, ReturnExiting, Unlock, ownerVars, WorkerPCs
<1>10. ASSUME NEW w \in Workers, TakeFront(w) PROVE TypeOK'
  <2>1. Head(queue) \in Tickets
    BY <1>10, PopOp DEF TakeFront, PredicateInv, Tickets
  <2> QED
    BY <1>10, <2>1 DEF TakeFront, ownerVars, WorkerPCs
<1>11. ASSUME NEW w \in Workers, Pop(w) PROVE TypeOK'
  <2>1. queue' \in Seq(Tickets)
    BY <1>11, PopOp DEF Pop, PredicateInv, Tickets
  <2> QED
    BY <1>11, <2>1 DEF Pop, ownerVars, WorkerPCs
<1>12. ASSUME NEW w \in Workers, Work(w) PROVE TypeOK'
  <2>1. item[w] \in 1 .. Started /\ Started \in Nat /\ Started <= MaxItems
    BY <1>12, PoolAssumption DEF Work, TicketsInv, Busy, Started
  <2>2. item[w] \in Tickets
    BY <2>1, PoolAssumption DEF Tickets
  <2>3. done' \subseteq Tickets
    BY <1>12, <2>2 DEF Work
  <2> QED
    BY <1>12, <2>3 DEF Work, ownerVars, WorkerPCs
<1>13. ASSUME NEW w \in Workers, SpuriousWakeup(w) PROVE TypeOK'
  BY <1>13, PoolAssumption DEF SpuriousWakeup, ownerVars, WorkerPCs
<1>14. CASE UNCHANGED vars
  BY <1>14 DEF vars
<1> QED
  BY <1>1, <1>2, <1>3, <1>4, <1>5, <1>6, <1>7, <1>8, <1>9, <1>10, <1>11, <1>12,
     <1>13, <1>14 DEF Next, OwnerNext, WorkerNext

-----------------------------------------------------------------------------
\* Every step keeps the mutex with the thread whose program counter says so.
LEMMA MutexStep ==
  TypeOK /\ MutexInv /\ [Next]_vars => MutexInv'
<1> SUFFICES ASSUME TypeOK, MutexInv, [Next]_vars PROVE MutexInv'
  OBVIOUS
<1> USE PoolAssumption DEF TypeOK, MutexInv, Holding
<1>1. ASSUME NEW w \in Workers, Spawn(w) PROVE MutexInv'
  BY <1>1 DEF Spawn, ownerVars
<1>2. CASE StartReturns \/ QueueLock \/ QueueLocked \/ QueuePush \/ QueueUnlock
           \/ Abort \/ AllQueued \/ WaitReturns \/ StopFlag \/ StopJoined
  BY <1>2 DEF StartReturns, QueueLock, QueueLocked, QueuePush, QueueUnlock,
              Abort, AllQueued, WaitReturns, StopFlag, StopJoined, workerVars
<1>3. CASE QueueNotify
  BY <1>3 DEF QueueNotify, NotifyOne, Waiters
<1>4. CASE StopNotifyAll
  BY <1>4 DEF StopNotifyAll
<1>5. ASSUME NEW w \in Workers,
             LoopTest(w) \/ Lock(w) \/ TestPredicate(w) \/ Sleep(w)
      PROVE  MutexInv'
  BY <1>5 DEF LoopTest, Lock, TestPredicate, Sleep, ownerVars
<1>6. ASSUME NEW w \in Workers,
             ReturnExiting(w) \/ TakeFront(w) \/ Pop(w) \/ Unlock(w)
      PROVE  MutexInv'
  BY <1>6 DEF ReturnExiting, TakeFront, Pop, Unlock, ownerVars
<1>7. ASSUME NEW w \in Workers, Work(w) \/ SpuriousWakeup(w) PROVE MutexInv'
  BY <1>7 DEF Work, SpuriousWakeup, ownerVars
<1>8. CASE UNCHANGED vars
  BY <1>8 DEF vars
<1> QED
  BY <1>1, <1>2, <1>3, <1>4, <1>5, <1>6, <1>7, <1>8 DEF Next, OwnerNext, WorkerNext

\* Every step keeps what the holder of the mutex has found out about the
\* queue: nobody else can push or pop.
LEMMA PredicateStep ==
  TypeOK /\ MutexInv /\ PredicateInv /\ [Next]_vars => PredicateInv'
<1> SUFFICES ASSUME TypeOK, MutexInv, PredicateInv, [Next]_vars PROVE PredicateInv'
  OBVIOUS
<1> USE DEF TypeOK, PredicateInv
<1>1. ASSUME NEW w \in Workers, Spawn(w) PROVE PredicateInv'
  BY <1>1 DEF Spawn
<1>2. CASE StartReturns \/ QueueLock \/ QueueLocked \/ QueueUnlock \/ Abort
           \/ AllQueued \/ WaitReturns \/ StopFlag \/ StopJoined
  BY <1>2 DEF StartReturns, QueueLock, QueueLocked, QueueUnlock, Abort,
              AllQueued, WaitReturns, StopFlag, StopJoined, workerVars
<1>3. CASE QueuePush
  <2>1. \A w \in Workers : wpc[w] \notin Holding
    BY <1>3, PoolAssumption DEF QueuePush, MutexInv
  <2> QED
    BY <1>3, <2>1 DEF QueuePush, workerVars, Holding
<1>4. CASE QueueNotify
  BY <1>4 DEF QueueNotify, NotifyOne, Waiters
<1>5. CASE StopNotifyAll
  BY <1>5 DEF StopNotifyAll
<1>6. ASSUME NEW w \in Workers, WorkerNext(w) \/ SpuriousWakeup(w), ~Pop(w)
      PROVE  PredicateInv'
  <2>1. CASE LoopTest(w) \/ Lock(w) \/ TestPredicate(w) \/ Sleep(w) \/ ReturnExiting(w)
    BY <2>1 DEF LoopTest, Lock, TestPredicate, Sleep, ReturnExiting
  <2>2. CASE TakeFront(w)
    BY <2>2 DEF TakeFront
  <2>3. CASE Unlock(w) \/ Work(w) \/ SpuriousWakeup(w)
    BY <2>3 DEF Unlock, Work, SpuriousWakeup
  <2> QED
    BY <1>6, <2>1, <2>2, <2>3 DEF WorkerNext
<1>7. ASSUME NEW w \in Workers, Pop(w) PROVE PredicateInv'
  <2>1. \A v \in Workers \ {w} : wpc[v] \notin Holding
    BY <1>7 DEF Pop, MutexInv, Holding
  <2> QED
    BY <1>7, <2>1 DEF Pop, Holding
<1>8. CASE UNCHANGED vars
  BY <1>8 DEF vars
<1> QED
  BY <1>1, <1>2, <1>3, <1>4, <1>5, <1>6, <1>7, <1>8 DEF Next, OwnerNext

-----------------------------------------------------------------------------
\* A step that leaves the queue, the tickets and the jobs in the workers' hands
\* alone keeps every ticket where it is.
LEMMA TicketsStutter ==
  ASSUME TicketsInv, EachJobOnce, UNCHANGED <<queue, issued, done>>,
         Busy' = Busy, \A w \in Busy : item'[w] = item[w]
  PROVE  TicketsInv' /\ EachJobOnce'
BY DEF TicketsInv, EachJobOnce, Started

\* Every step moves a ticket on, once, from the queue to a worker to done, or
\* leaves the tickets alone.
LEMMA TicketsStep ==
  TypeOK /\ PoolInv /\ [Next]_vars
    => TicketsInv' /\ EachJobOnce'
<1> SUFFICES ASSUME TypeOK, PoolInv, [Next]_vars
             PROVE  TicketsInv' /\ EachJobOnce'
  OBVIOUS
<1> USE DEF TypeOK, PoolInv
<1>1. CASE OwnerNext /\ ~QueuePush
  <2>1. UNCHANGED <<queue, issued, done, item>>
    BY <1>1 DEF OwnerNext, Spawn, StartReturns, QueueLock, QueueLocked, QueueNotify,
                QueueUnlock, Abort, AllQueued, WaitReturns, StopFlag, StopNotifyAll,
                StopJoined, workerVars, ownerVars
  <2>2. Busy' = Busy
    BY <1>1 DEF OwnerNext, Spawn, StartReturns, QueueLock, QueueLocked, QueueNotify,
                NotifyOne, Waiters, QueueUnlock, Abort, AllQueued, WaitReturns,
                StopFlag, StopNotifyAll, StopJoined, workerVars, ownerVars, Busy
  <2> QED
    BY <2>1, <2>2, TicketsStutter
<1>2. CASE QueuePush
  <2>1. issued + 1 \in Tickets
    BY <1>2, PoolAssumption DEF QueuePush, OwnerInv, Tickets
  <2>2. /\ Len(queue') = Len(queue) + 1
        /\ \A i \in 1 .. Len(queue) : queue'[i] = queue[i]
        /\ queue'[Len(queue) + 1] = issued + 1
    BY <1>2, <2>1, PushOp DEF QueuePush
  <2>3. Started' = Started /\ Busy' = Busy /\ item' = item /\ done' = done
    BY <1>2, <2>2 DEF QueuePush, workerVars, Started, Busy
  <2>4. \A i \in 1 .. Len(queue') : queue'[i] = Started' + i
    BY <2>2, <2>3 DEF TicketsInv, Started
  <2> QED
    BY <2>3, <2>4 DEF TicketsInv, EachJobOnce
<1>3. ASSUME NEW w \in Workers, Pop(w) PROVE TicketsInv' /\ EachJobOnce'
  <2>1. /\ queue # <<>>
        /\ item[w] = queue[1]
        /\ Len(queue') = Len(queue) - 1
        /\ \A i \in 1 .. Len(queue) - 1 : queue'[i] = queue[i + 1]
    BY <1>3, PopOp DEF Pop, PredicateInv
  <2>2. Len(queue) \in Nat \ {0}
    BY <2>1, PopOp
  <2>3. Started' = Started + 1 /\ item[w] = Started' /\ item' = item /\ done' = done
    BY <1>3, <2>1, <2>2 DEF Pop, ownerVars, Started, TicketsInv
  <2>4. Busy' = Busy \cup {w} /\ w \notin Busy
    BY <1>3 DEF Pop, Busy
  <2>5. \A i \in 1 .. Len(queue') : queue'[i] = Started' + i
    BY <2>1, <2>2, <2>3 DEF TicketsInv
  <2>6. TicketsInv'
    <3>1. Started \in Nat /\ Started' \in Nat
      BY <2>3 DEF TicketsInv
    <3>2. \A v \in Busy' : item'[v] \in 1 .. Started'
      BY <2>3, <2>4, <3>1 DEF TicketsInv
    <3>3. done' \subseteq 1 .. Started'
      BY <2>3, <3>1 DEF TicketsInv
    <3>4. ASSUME NEW t \in 1 .. Started'
          PROVE  t \in done' \/ \E v \in Busy' : item'[v] = t
      <4>1. CASE t = Started'
        BY <2>3, <2>4, <4>1
      <4>2. CASE t # Started'
        <5>1. t \in 1 .. Started
          BY <2>3, <3>1, <4>2
        <5> QED
          BY <2>3, <2>4, <5>1 DEF TicketsInv
      <4> QED
        BY <4>1, <4>2
    <3> QED
      BY <2>5, <3>1, <3>2, <3>3, <3>4 DEF TicketsInv
  <2>7. EachJobOnce'
    BY <2>3, <2>4 DEF TicketsInv, EachJobOnce
  <2> QED
    BY <2>6, <2>7
<1>4. ASSUME NEW w \in Workers, Work(w) PROVE TicketsInv' /\ EachJobOnce'
  <2>1. w \in Busy /\ Busy' = Busy \ {w} /\ Started' = Started /\ queue' = queue
    BY <1>4 DEF Work, Busy, ownerVars, Started
  <2>2. done' = done \cup {item[w]} /\ \A v \in Busy' : item'[v] = item[v]
    BY <1>4, <2>1 DEF Work, Busy
  <2>3. \A v \in Busy' : item[v] # item[w]
    BY <2>1 DEF EachJobOnce
  <2> QED
    BY <2>1, <2>2, <2>3 DEF TicketsInv, EachJobOnce
<1>5. ASSUME NEW w \in Workers, WorkerNext(w) \/ SpuriousWakeup(w), ~Pop(w), ~Work(w)
      PROVE  TicketsInv' /\ EachJobOnce'
  <2>1. UNCHANGED <<queue, issued, done>>
    BY <1>5 DEF WorkerNext, SpuriousWakeup, LoopTest, Lock, TestPredicate, Sleep,
                ReturnExiting, TakeFront, Unlock, ownerVars
  <2>2. Busy' = Busy
    BY <1>5 DEF WorkerNext, SpuriousWakeup, LoopTest, Lock, TestPredicate, Sleep,
                ReturnExiting, TakeFront, Unlock, ownerVars, Busy
  <2>3. \A v \in Busy : item'[v] = item[v]
    BY <1>5 DEF WorkerNext, SpuriousWakeup, LoopTest, Lock, TestPredicate, Sleep,
                ReturnExiting, TakeFront, Unlock, ownerVars, Busy
  <2> QED
    BY <2>1, <2>2, <2>3, TicketsStutter
<1>6. CASE UNCHANGED vars
  BY <1>6, TicketsStutter DEF vars, Busy
<1> QED
  BY <1>1, <1>2, <1>3, <1>4, <1>5, <1>6 DEF Next

-----------------------------------------------------------------------------
\* Every step keeps the bound on queued items, an empty queue behind a wait()
\* that returned, and the workers joined when run() is over.
LEMMA OwnerStep ==
  TypeOK /\ PoolInv /\ [Next]_vars => OwnerInv'
<1> SUFFICES ASSUME TypeOK, PoolInv, [Next]_vars PROVE OwnerInv'
  OBVIOUS
<1> USE DEF TypeOK, PoolInv, OwnerInv
<1>1. ASSUME NEW w \in Workers, Spawn(w) PROVE OwnerInv'
  BY <1>1 DEF Spawn, ownerVars
<1>2. CASE StartReturns \/ QueueLock \/ QueueLocked \/ QueuePush \/ QueueNotify \/ QueueUnlock
  BY <1>2 DEF StartReturns, QueueLock, QueueLocked, QueuePush, QueueNotify, QueueUnlock
<1>3. CASE Abort \/ AllQueued \/ WaitReturns \/ StopFlag \/ StopNotifyAll
  BY <1>3 DEF Abort, AllQueued, WaitReturns, StopFlag, StopNotifyAll
<1>4. CASE StopJoined
  BY <1>4 DEF StopJoined, workerVars, Spawned, WorkerPCs
<1>5. ASSUME NEW w \in Workers, WorkerNext(w) \/ SpuriousWakeup(w), ~Pop(w)
      PROVE  OwnerInv'
  BY <1>5 DEF WorkerNext, SpuriousWakeup, LoopTest, Lock, TestPredicate, Sleep,
              ReturnExiting, TakeFront, Unlock, Work, ownerVars
<1>6. ASSUME NEW w \in Workers, Pop(w) PROVE OwnerInv'
  BY <1>6 DEF Pop, ownerVars, PredicateInv
<1>7. CASE UNCHANGED vars
  BY <1>7 DEF vars
<1> QED
  BY <1>1, <1>2, <1>3, <1>4, <1>5, <1>6, <1>7 DEF Next, OwnerNext

-----------------------------------------------------------------------------
\* The whole invariant holds in every reachable state.
THEOREM Invariance == Spec => [](TypeOK /\ PoolInv)
<1>1. TypeOK /\ PoolInv /\ [Next]_vars => TypeOK' /\ PoolInv'
  BY TypeStep, MutexStep, PredicateStep, TicketsStep, OwnerStep DEF PoolInv
<1> QED
  BY <1>1, InitInv, PTL DEF Spec

\* Every variable keeps its type.
THEOREM TypeCorrect == Spec => []TypeOK
BY Invariance, PTL

\* No two workers ever hold the same job, and no job is run again.
THEOREM EachJobRunsOnce == Spec => []EachJobOnce
<1>1. PoolInv => EachJobOnce
  BY DEF PoolInv
<1> QED
  BY <1>1, Invariance, PTL

\* A run that returns 0 has run every job that was queued.
THEOREM ReturnMeansDone == Spec => []ReturnsAfterWork
<1>1. TypeOK /\ PoolInv => ReturnsAfterWork
  <2> SUFFICES ASSUME TypeOK, PoolInv, opc = "done", ~failed PROVE done = 1 .. issued
    BY DEF ReturnsAfterWork
  <2>1. Busy = {}
    BY DEF PoolInv, OwnerInv, Busy
  <2>2. Started = issued
    BY DEF PoolInv, OwnerInv, Started, TypeOK
  <2> QED
    BY <2>1, <2>2 DEF PoolInv, TicketsInv
<1> QED
  BY <1>1, Invariance, PTL

-----------------------------------------------------------------------------
\* A step that moves no ticket and does not end the run is not seen by the
\* caller.
LEMMA RunStutter ==
  ASSUME UNCHANGED <<queue, issued>>, Busy' = Busy,
         \A w \in Busy : item'[w] = item[w],
         opc # "done", opc' # "done"
  PROVE  UNCHANGED Run!vars
<1>1. Started' = Started /\ {item[w] : w \in Busy}' = {item[w] : w \in Busy}
  BY DEF Started
<1> QED
  BY <1>1 DEF Run!vars

\* Every step of the pool is a step of the run its caller sees, or none.
LEMMA RunStep ==
  TypeOK /\ PoolInv /\ TypeOK' /\ PoolInv' /\ [Next]_vars => [Run!Next]_(Run!vars)
<1> SUFFICES ASSUME TypeOK, PoolInv, TypeOK', PoolInv', [Next]_vars
             PROVE  [Run!Next]_(Run!vars)
  OBVIOUS
<1> USE DEF TypeOK, PoolInv
<1>1. CASE OwnerNext /\ ~QueuePush /\ ~StopJoined
  <2>1. UNCHANGED <<queue, issued, item>> /\ opc # "done" /\ opc' # "done"
    BY <1>1 DEF OwnerNext, Spawn, StartReturns, QueueLock, QueueLocked, QueueNotify,
                QueueUnlock, Abort, AllQueued, WaitReturns, StopFlag, StopNotifyAll,
                workerVars, ownerVars
  <2>2. Busy' = Busy
    BY <1>1 DEF OwnerNext, Spawn, StartReturns, QueueLock, QueueLocked, QueueNotify,
                NotifyOne, Waiters, QueueUnlock, Abort, AllQueued, WaitReturns,
                StopFlag, StopNotifyAll, workerVars, ownerVars, Busy
  <2> QED
    BY <2>1, <2>2, RunStutter
<1>2. CASE QueuePush
  <2>1. issued < MaxItems /\ issued' = issued + 1 /\ opc # "done" /\ opc' # "done"
    BY <1>2 DEF QueuePush, OwnerInv
  <2>2. issued + 1 \in Tickets
    BY <2>1, PoolAssumption DEF Tickets
  <2>3. Len(queue') = Len(queue) + 1
    BY <1>2, <2>2, PushOp DEF QueuePush
  <2>4. Started' = Started /\ Busy' = Busy /\ item' = item
    BY <1>2, <2>3 DEF QueuePush, workerVars, Started, Busy
  <2>5. Run!Submit
    BY <2>1, <2>4 DEF Run!Submit
  <2> QED
    BY <2>5 DEF Run!Next
<1>3. CASE StopJoined
  <2>1. opc = "join" /\ opc' = "done" /\ UNCHANGED <<queue, wpc, item, issued, failed>>
    BY <1>3 DEF StopJoined, workerVars
  <2>2. Busy = {} /\ Busy' = {} /\ Started' = Started
    BY <2>1 DEF Busy, OwnerInv, Started
  <2>3. ~failed => Started = issued
    BY <2>1 DEF OwnerInv, Started
  <2>4. CASE failed
    BY <2>1, <2>2, <2>4 DEF Run!Next, Run!Fail
  <2>5. CASE ~failed
    BY <2>1, <2>2, <2>3, <2>5 DEF Run!Next, Run!Succeed
  <2> QED
    BY <2>4, <2>5
<1>4. ASSUME NEW w \in Workers, WorkerNext(w) \/ SpuriousWakeup(w)
      PROVE  [Run!Next]_(Run!vars)
  <2>1. opc' = opc /\ issued' = issued /\ failed' = failed
    BY <1>4 DEF WorkerNext, SpuriousWakeup, LoopTest, Lock, TestPredicate, Sleep,
                ReturnExiting, TakeFront, Pop, Unlock, Work, ownerVars
  <2>2. opc # "done" \/ LoopTest(w)
    BY <1>4 DEF WorkerNext, SpuriousWakeup, Lock, TestPredicate, Sleep,
                ReturnExiting, TakeFront, Pop, Unlock, Work, OwnerInv
  <2>3. opc # "done"
    BY <1>4, <2>2 DEF LoopTest, OwnerInv
  <2>4. CASE Pop(w)
    <3>1. queue # <<>> /\ item[w] = queue[1] /\ Len(queue') = Len(queue) - 1
      BY <2>4, PopOp DEF Pop, PredicateInv
    <3>2. Len(queue) \in Nat \ {0}
      BY <3>1, PopOp
    <3>3. Started' = Started + 1 /\ item[w] = Started + 1 /\ item' = item
      BY <2>4, <3>1, <3>2 DEF Pop, ownerVars, Started, TicketsInv
    <3>4. Busy' = Busy \cup {w}
      BY <2>4 DEF Pop, Busy
    <3>5. {item[v] : v \in Busy}' = {item[v] : v \in Busy} \cup {Started + 1}
      BY <3>3, <3>4
    <3>6. Started < issued
      BY <3>2 DEF Started
    <3>7. Run!Start
      BY <2>1, <2>3, <3>3, <3>5, <3>6 DEF Run!Start
    <3> QED
      BY <3>7 DEF Run!Next
  <2>5. CASE Work(w)
    <3>1. w \in Busy /\ Busy' = Busy \ {w} /\ Started' = Started
      BY <2>5 DEF Work, Busy, ownerVars, Started
    <3>2. \A v \in Busy' : item'[v] = item[v] /\ item[v] # item[w]
      BY <2>5, <3>1 DEF Work, Busy, EachJobOnce
    <3>3. {item[v] : v \in Busy}' = {item[v] : v \in Busy} \ {item[w]}
      BY <3>1, <3>2
    <3>4. PICK i \in {item[v] : v \in Busy} : i = item[w]
      BY <3>1
    <3>5. Run!Finish(i)
      BY <2>1, <2>3, <3>1, <3>3, <3>4 DEF Run!Finish
    <3> QED
      BY <3>5 DEF Run!Next
  <2>6. CASE ~Pop(w) /\ ~Work(w)
    <3>1. queue' = queue /\ Busy' = Busy /\ \A v \in Busy : item'[v] = item[v]
      BY <1>4, <2>6 DEF WorkerNext, SpuriousWakeup, LoopTest, Lock, TestPredicate,
                Sleep, ReturnExiting, TakeFront, Unlock, ownerVars, Busy
    <3> QED
      BY <2>1, <2>3, <3>1, RunStutter
  <2> QED
    BY <2>4, <2>5, <2>6
<1>5. CASE UNCHANGED vars
  <2>1. UNCHANGED Run!vars
    BY <1>5 DEF vars, Run!vars, Started, Busy
  <2> QED
    BY <2>1
<1> QED
  BY <1>1, <1>2, <1>3, <1>4, <1>5 DEF Next

\* The pool implements the run of jobs its caller relies on.
THEOREM Implements == Spec => ImplementsJobRun
<1>1. Init => Run!Init
  <2> SUFFICES ASSUME Init PROVE Run!Init
    OBVIOUS
  <2>1. Len(queue) = 0 /\ issued = 0 /\ opc = "spawn"
    BY DEF Init
  <2>2. Busy = {}
    BY DEF Init, Busy
  <2>3. Started = 0
    BY <2>1 DEF Started
  <2> QED
    BY <2>1, <2>2, <2>3 DEF Run!Init
<1>2. TypeOK /\ PoolInv /\ TypeOK' /\ PoolInv' /\ [Next]_vars => [Run!Next]_(Run!vars)
  BY RunStep
<1> QED
  BY <1>1, <1>2, Invariance, PTL DEF Spec, ImplementsJobRun, Run!Spec
=============================================================================
