------------------------------- MODULE JobRun -------------------------------
(***************************************************************************)
(* What a run of jobs over a pool of workers promises to the code that     *)
(* started it (DumpContext::run over ThreadPool): jobs start in the order  *)
(* they were submitted, each one once; a run that reports success returns  *)
(* after every job has finished; a run that reports failure may leave jobs *)
(* unstarted, but no job is still running when it returns.                 *)
(*                                                                         *)
(* No thread, lock or queue appears here: ThreadPool.tla implements this   *)
(* specification.                                                          *)
(***************************************************************************)
EXTENDS Naturals

CONSTANT MaxItems   \* bound: how many jobs one run submits

VARIABLES
  submitted,   \* number of jobs submitted; the jobs are 1 .. submitted
  started,     \* number of jobs started; they start in order
  running,     \* the jobs started and not finished
  outcome      \* "busy", then "ok" or "failed"

vars == <<submitted, started, running, outcome>>

Init ==
  /\ submitted = 0
  /\ started = 0
  /\ running = {}
  /\ outcome = "busy"

Submit ==
  /\ outcome = "busy"
  /\ submitted < MaxItems
  /\ submitted' = submitted + 1
  /\ UNCHANGED <<started, running, outcome>>

Start ==
  /\ outcome = "busy"
  /\ started < submitted
  /\ started' = started + 1
  /\ running' = running \cup {started + 1}
  /\ UNCHANGED <<submitted, outcome>>

Finish(i) ==
  /\ outcome = "busy"
  /\ i \in running
  /\ running' = running \ {i}
  /\ UNCHANGED <<submitted, started, outcome>>

Succeed ==
  /\ outcome = "busy"
  /\ started = submitted
  /\ running = {}
  /\ outcome' = "ok"
  /\ UNCHANGED <<submitted, started, running>>

Fail ==
  /\ outcome = "busy"
  /\ running = {}
  /\ outcome' = "failed"
  /\ UNCHANGED <<submitted, started, running>>

Next ==
  \/ Submit
  \/ Start
  \/ \E i \in running : Finish(i)
  \/ Succeed
  \/ Fail

Spec == Init /\ [][Next]_vars
=============================================================================
