---------------------------- MODULE WorkerBarrier ----------------------------
(***************************************************************************)
(* The worker-thread barrier of vlib (src/src/vlib/threads.c, threads.h).  *)
(*                                                                         *)
(* Thread 0 (main) stops every worker before it changes state they share:  *)
(* vlib_worker_thread_barrier_sync raises wait_at_barrier and spins until  *)
(* workers_at_barrier equals the number of workers; a worker polls the     *)
(* flag once around its loop (vlib_worker_thread_barrier_check).  A        *)
(* release that follows a change of the node graph also makes every worker *)
(* rebuild its clone of the graph (a "refork") before it runs a node.      *)
(*                                                                         *)
(* One action is one access to shared memory.  Time is abstracted: the     *)
(* hold-down timer only delays a close, and the os_panic after             *)
(* BARRIER_SYNC_TIMEOUT is what the liveness properties say never fires.   *)
(***************************************************************************)
EXTENDS Naturals, FiniteSets

CONSTANTS
  Workers,       \* the worker threads (vlib_mains[1..])
  MaxRecursion   \* bound on nested barrier syncs

ASSUME WorkersAssumption == IsFiniteSet(Workers) /\ Workers # {}
ASSUME MaxRecursionAssumption == MaxRecursion \in Nat \ {0}

VARIABLES
  wait_at_barrier,        \* *vlib_worker_threads->wait_at_barrier
  workers_at_barrier,     \* *vlib_worker_threads->workers_at_barrier
  node_reforks_required,  \* *vlib_worker_threads->node_reforks_required
  recursion_level,        \* vlib_worker_threads[0].recursion_level
  need_update,            \* need_vlib_worker_thread_node_runtime_update
  refork_needed,          \* local of vlib_worker_thread_barrier_release
  phase,                  \* of main: in start_workers, in the other main-loop-enter
                          \* functions, or past its initial sync and release
  main_pc,                \* where thread 0 is
  wpc,                    \* where each worker is
  stale,                  \* workers whose node runtime clone is out of date
  looped                  \* workers whose main_loop_count moved since main
                          \* recorded it in vlib_worker_wait_one_loop

mainVars == <<recursion_level, need_update, refork_needed, phase, main_pc>>
vars == <<wait_at_barrier, workers_at_barrier, node_reforks_required,
          mainVars, wpc, stale, looped>>

count == Cardinality(Workers)   \* vlib_get_n_threads () - 1

MainPC == {"loop", "syncWait", "closed", "relOpen", "relWait", "reforkWait",
           "initWait", "waitLoop"}

WorkerPC == {"boot", "bootParked", "bootLeave",
             "top", "check", "enter", "parked", "leave",
             "reforkCheck", "reforkDec", "reforkSpin", "run"}

WorkerGoto(w, from, to) ==
  /\ wpc[w] = from
  /\ wpc' = [wpc EXCEPT ![w] = to]

\* start_workers has asked for the initial barrier, created the threads and
\* called vlib_worker_thread_barrier_sync.
InitBoot ==
  /\ wait_at_barrier = 1
  /\ workers_at_barrier = 0
  /\ node_reforks_required = 0
  /\ recursion_level = 1
  /\ need_update = FALSE
  /\ refork_needed = FALSE
  /\ phase = "start"
  /\ main_pc = "syncWait"
  /\ wpc = [w \in Workers |-> "boot"]
  /\ stale = {}
  /\ looped = Workers

\* The process in service: main in its loop, every worker at the top of its own.
Init ==
  /\ wait_at_barrier = 0
  /\ workers_at_barrier = 0
  /\ node_reforks_required = 0
  /\ recursion_level = 0
  /\ need_update = FALSE
  /\ refork_needed = FALSE
  /\ phase = "run"
  /\ main_pc = "loop"
  /\ wpc = [w \in Workers |-> "top"]
  /\ stale = {}
  /\ looped = Workers
-----------------------------------------------------------------------------
(* Thread 0. *)

\* vlib_worker_thread_barrier_sync_int: a nested call only counts, the outer
\* one raises the flag and starts to spin.
BarrierSync ==
  /\ recursion_level < MaxRecursion
  /\ recursion_level' = recursion_level + 1
  /\ \/ /\ main_pc = "closed"
        /\ UNCHANGED <<main_pc, wait_at_barrier>>
     \/ /\ main_pc = "loop"
        /\ main_pc' = "syncWait"
        /\ wait_at_barrier' = 1
  /\ UNCHANGED <<workers_at_barrier, node_reforks_required, need_update,
                 refork_needed, phase, wpc, stale, looped>>

\* The spin on workers_at_barrier ends.
BarrierClosed ==
  /\ main_pc = "syncWait"
  /\ workers_at_barrier = count
  /\ main_pc' = "closed"
  /\ UNCHANGED <<wait_at_barrier, workers_at_barrier, node_reforks_required,
                 recursion_level, need_update, refork_needed, phase, wpc,
                 stale, looped>>

\* vlib_worker_thread_node_runtime_update, called under the barrier by the
\* functions that add nodes or arcs to the graph (the num_workers_change
\* functions that start_workers runs add none).
NodeRuntimeUpdate ==
  /\ main_pc = "closed"
  /\ phase # "start"
  /\ need_update' = TRUE
  /\ UNCHANGED <<wait_at_barrier, workers_at_barrier, node_reforks_required,
                 recursion_level, refork_needed, phase, main_pc, wpc, stale,
                 looped>>

\* vlib_worker_thread_barrier_release: an inner release only counts ...
BarrierReleaseInner ==
  /\ main_pc = "closed"
  /\ recursion_level > 1
  /\ recursion_level' = recursion_level - 1
  /\ UNCHANGED <<wait_at_barrier, workers_at_barrier, node_reforks_required,
                 need_update, refork_needed, phase, main_pc, wpc, stale,
                 looped>>

\* Mutant: counts every thread, main included (vlib_get_n_threads ()).
BarrierReleaseMiscounted ==
  /\ main_pc = "closed"
  /\ recursion_level = 1
  /\ recursion_level' = 0
  /\ main_pc' = "relOpen"
  /\ refork_needed' = need_update
  /\ need_update' = FALSE
  /\ IF need_update
       THEN /\ node_reforks_required' = node_reforks_required + count + 1
            /\ stale' = Workers
       ELSE UNCHANGED <<node_reforks_required, stale>>
  /\ UNCHANGED <<wait_at_barrier, workers_at_barrier, phase, wpc, looped>>

\* Mutant: leaves node_reforks_required for later than the open.
BarrierReleaseUnasked ==
  /\ main_pc = "closed"
  /\ recursion_level = 1
  /\ recursion_level' = 0
  /\ main_pc' = "relOpen"
  /\ refork_needed' = need_update
  /\ need_update' = FALSE
  /\ stale' = IF need_update THEN Workers ELSE stale
  /\ UNCHANGED <<wait_at_barrier, workers_at_barrier, node_reforks_required,
                 phase, wpc, looped>>

\* ... the outer one rebuilds main's half of the runtime, if needed, and asks
\* each worker for a refork, then opens the barrier and waits.
BarrierRelease ==
  /\ main_pc = "closed"
  /\ recursion_level = 1
  /\ recursion_level' = 0
  /\ main_pc' = "relOpen"
  /\ refork_needed' = need_update
  /\ need_update' = FALSE
  /\ IF need_update
       THEN /\ node_reforks_required' = node_reforks_required + count
            /\ stale' = Workers
       ELSE UNCHANGED <<node_reforks_required, stale>>
  /\ UNCHANGED <<wait_at_barrier, workers_at_barrier, phase, wpc, looped>>

BarrierOpen ==
  /\ main_pc = "relOpen"
  /\ wait_at_barrier' = 0
  /\ main_pc' = "relWait"
  /\ UNCHANGED <<workers_at_barrier, node_reforks_required, recursion_level,
                 need_update, refork_needed, phase, wpc, stale, looped>>

\* Mutant: does not wait for the workers to leave.
BarrierDrainedEarly ==
  /\ main_pc = "relWait"
  /\ main_pc' = IF refork_needed THEN "reforkWait" ELSE "loop"
  /\ phase' = IF phase = "start" THEN "enter" ELSE phase
  /\ UNCHANGED <<wait_at_barrier, workers_at_barrier, node_reforks_required,
                 recursion_level, need_update, refork_needed, wpc, stale,
                 looped>>

\* Mutant: returns without waiting for the reforks.
BarrierDrainedNoRefork ==
  /\ main_pc = "relWait"
  /\ workers_at_barrier = 0
  /\ main_pc' = "loop"
  /\ refork_needed' = FALSE
  /\ phase' = IF phase = "start" THEN "enter" ELSE phase
  /\ UNCHANGED <<wait_at_barrier, workers_at_barrier, node_reforks_required,
                 recursion_level, need_update, wpc, stale, looped>>

\* The spin until workers_at_barrier drops to zero ends.
BarrierDrained ==
  /\ main_pc = "relWait"
  /\ workers_at_barrier = 0
  /\ main_pc' = IF refork_needed THEN "reforkWait" ELSE "loop"
  /\ phase' = IF phase = "start" THEN "enter" ELSE phase
  /\ UNCHANGED <<wait_at_barrier, workers_at_barrier, node_reforks_required,
                 recursion_level, need_update, refork_needed, wpc, stale,
                 looped>>

\* The spin until every worker has reforked ends.
ReforksDone ==
  /\ main_pc = "reforkWait"
  /\ node_reforks_required = 0
  /\ main_pc' = "loop"
  /\ refork_needed' = FALSE
  /\ UNCHANGED <<wait_at_barrier, workers_at_barrier, node_reforks_required,
                 recursion_level, need_update, phase, wpc, stale, looped>>

\* vlib_worker_thread_initial_barrier_sync_and_release, first half.
InitialSync ==
  /\ phase = "enter"
  /\ main_pc = "loop"
  /\ wait_at_barrier' = 1
  /\ main_pc' = "initWait"
  /\ UNCHANGED <<workers_at_barrier, node_reforks_required, recursion_level,
                 need_update, refork_needed, phase, wpc, stale, looped>>

\* ... and its second half: it does not wait for the workers to leave.
InitialRelease ==
  /\ main_pc = "initWait"
  /\ workers_at_barrier = count
  /\ wait_at_barrier' = 0
  /\ main_pc' = "loop"
  /\ phase' = "run"
  /\ UNCHANGED <<workers_at_barrier, node_reforks_required, recursion_level,
                 need_update, refork_needed, wpc, stale, looped>>

\* vlib_worker_wait_one_loop: returns at once when the barrier is held.
WaitOneLoop ==
  /\ main_pc = "loop"
  /\ wait_at_barrier = 0
  /\ looped' = {}
  /\ main_pc' = "waitLoop"
  /\ UNCHANGED <<wait_at_barrier, workers_at_barrier, node_reforks_required,
                 recursion_level, need_update, refork_needed, phase, wpc,
                 stale>>

WaitOneLoopDone ==
  /\ main_pc = "waitLoop"
  /\ looped = Workers
  /\ main_pc' = "loop"
  /\ UNCHANGED <<wait_at_barrier, workers_at_barrier, node_reforks_required,
                 recursion_level, need_update, refork_needed, phase, wpc,
                 stale, looped>>
-----------------------------------------------------------------------------
(* The workers. *)

\* The worker's own steps leave thread 0's locals alone.
WorkerUnchanged == UNCHANGED mainVars /\ UNCHANGED wait_at_barrier

\* vlib_worker_thread_init: enters the initial barrier without a check.
BootEnter(w) ==
  /\ WorkerGoto(w, "boot", "bootParked")
  /\ workers_at_barrier' = workers_at_barrier + 1
  /\ WorkerUnchanged /\ UNCHANGED <<node_reforks_required, stale, looped>>

BootLeaveSpin(w) ==
  /\ wait_at_barrier = 0
  /\ WorkerGoto(w, "bootParked", "bootLeave")
  /\ WorkerUnchanged
  /\ UNCHANGED <<workers_at_barrier, node_reforks_required, stale, looped>>

\* Mutant: leaves the initial barrier without the decrement.
BootLeaveUncounted(w) ==
  /\ WorkerGoto(w, "bootLeave", "top")
  /\ WorkerUnchanged
  /\ UNCHANGED <<workers_at_barrier, node_reforks_required, stale, looped>>

BootLeave(w) ==
  /\ WorkerGoto(w, "bootLeave", "top")
  /\ workers_at_barrier' = workers_at_barrier - 1
  /\ WorkerUnchanged /\ UNCHANGED <<node_reforks_required, stale, looped>>

\* The top of vlib_main_or_worker_loop, down to the barrier check.
LoopTop(w) ==
  /\ WorkerGoto(w, "top", "check")
  /\ WorkerUnchanged
  /\ UNCHANGED <<workers_at_barrier, node_reforks_required, stale, looped>>

\* vlib_worker_thread_barrier_check: the test of the flag ...
BarrierCheck(w) ==
  /\ WorkerGoto(w, "check", IF wait_at_barrier = 1 THEN "enter" ELSE "run")
  /\ WorkerUnchanged
  /\ UNCHANGED <<workers_at_barrier, node_reforks_required, stale, looped>>

\* Mutant: parks without the increment.
BarrierEnterUncounted(w) ==
  /\ WorkerGoto(w, "enter", "parked")
  /\ WorkerUnchanged
  /\ UNCHANGED <<workers_at_barrier, node_reforks_required, stale, looped>>

\* ... the increment ...
BarrierEnter(w) ==
  /\ WorkerGoto(w, "enter", "parked")
  /\ workers_at_barrier' = workers_at_barrier + 1
  /\ WorkerUnchanged /\ UNCHANGED <<node_reforks_required, stale, looped>>

\* ... the spin on the flag ...
BarrierLeaveSpin(w) ==
  /\ wait_at_barrier = 0
  /\ WorkerGoto(w, "parked", "leave")
  /\ WorkerUnchanged
  /\ UNCHANGED <<workers_at_barrier, node_reforks_required, stale, looped>>

\* ... the decrement ...
BarrierLeave(w) ==
  /\ WorkerGoto(w, "leave", "reforkCheck")
  /\ workers_at_barrier' = workers_at_barrier - 1
  /\ WorkerUnchanged /\ UNCHANGED <<node_reforks_required, stale, looped>>

\* ... and the refork, when main asked for one.
ReforkCheck(w) ==
  /\ WorkerGoto(w, "reforkCheck",
                IF node_reforks_required # 0 THEN "reforkDec" ELSE "run")
  /\ WorkerUnchanged
  /\ UNCHANGED <<workers_at_barrier, node_reforks_required, stale, looped>>

\* vlib_worker_thread_node_refork: the worker copies main's error heap, next-frames,
\* nodes and runtimes, and its clone is up to date.
NodeRefork(w) == stale' = stale \ {w}

\* Mutant: reforks without the decrement.
ReforkUncounted(w) ==
  /\ WorkerGoto(w, "reforkDec", "reforkSpin")
  /\ NodeRefork(w)
  /\ WorkerUnchanged
  /\ UNCHANGED <<workers_at_barrier, node_reforks_required, looped>>

\* The worker rebuilds its clone, then counts.
ReforkDec(w) ==
  /\ WorkerGoto(w, "reforkDec", "reforkSpin")
  /\ NodeRefork(w)
  /\ node_reforks_required' = node_reforks_required - 1
  /\ WorkerUnchanged /\ UNCHANGED <<workers_at_barrier, looped>>

ReforkSpin(w) ==
  /\ node_reforks_required = 0
  /\ WorkerGoto(w, "reforkSpin", "run")
  /\ WorkerUnchanged
  /\ UNCHANGED <<workers_at_barrier, node_reforks_required, stale, looped>>

\* Mutant: the loop counter does not move.
EndLoopUncounted(w) ==
  /\ WorkerGoto(w, "run", "top")
  /\ WorkerUnchanged
  /\ UNCHANGED <<workers_at_barrier, node_reforks_required, stale, looped>>

\* The rest of the loop: nodes are dispatched and the loop counter moves.
EndLoop(w) ==
  /\ WorkerGoto(w, "run", "top")
  /\ looped' = looped \cup {w}
  /\ WorkerUnchanged
  /\ UNCHANGED <<workers_at_barrier, node_reforks_required, stale>>

\* vlib_get_frame_queue_elt polls the barrier while it waits for a slot.
CheckInHandoff(w) ==
  /\ WorkerGoto(w, "run", "check")
  /\ WorkerUnchanged
  /\ UNCHANGED <<workers_at_barrier, node_reforks_required, stale, looped>>
-----------------------------------------------------------------------------
MainStep ==
  \/ BarrierSync \/ BarrierClosed \/ NodeRuntimeUpdate
  \/ BarrierReleaseInner \/ BarrierRelease \/ BarrierOpen
  \/ BarrierDrained \/ ReforksDone
  \/ InitialSync \/ InitialRelease
  \/ WaitOneLoop \/ WaitOneLoopDone

WorkerStep(w) ==
  \/ BootEnter(w) \/ BootLeaveSpin(w) \/ BootLeave(w)
  \/ LoopTop(w) \/ BarrierCheck(w) \/ BarrierEnter(w)
  \/ BarrierLeaveSpin(w) \/ BarrierLeave(w)
  \/ ReforkCheck(w) \/ ReforkDec(w) \/ ReforkSpin(w)
  \/ EndLoop(w) \/ CheckInHandoff(w)

Next == MainStep \/ \E w \in Workers : WorkerStep(w)

\* From start-up into service, under the assumption that main's first sync after
\* its initial release comes late enough for the workers to have left.
BootNext ==
  /\ Next
  /\ phase = "run" /\ main_pc = "loop" /\ BarrierSync => workers_at_barrier = 0

\* Every thread runs on its own core, so a thread whose next step is enabled
\* takes it; whether main calls into the barrier at all is up to its callers,
\* but a caller that holds it releases it.  A handoff that polls the barrier
\* gets its slot in the end, so a worker that can finish its loop again and
\* again does (FrameQueue checks the draining this rests on).
MainProgress ==
  BarrierClosed \/ BarrierReleaseInner \/ BarrierOpen \/ BarrierDrained
  \/ ReforksDone \/ InitialRelease \/ WaitOneLoopDone

WorkerFairness(w) == WF_vars(WorkerStep(w)) /\ SF_vars(EndLoop(w))

Fairness ==
  /\ WF_vars(MainProgress)
  /\ SF_vars(BarrierRelease)
  /\ \A w \in Workers : WorkerFairness(w)

Spec == Init /\ [][Next]_vars
FairSpec == Spec /\ Fairness
BootSpec == InitBoot /\ [][BootNext]_vars /\ Fairness /\ SF_vars(InitialSync)
BootThenRunSpec == InitBoot /\ [][Next]_vars
-----------------------------------------------------------------------------
\* Every variable has its type; counters stay within the number of workers.
TypeOK ==
  /\ wait_at_barrier \in {0, 1}
  /\ workers_at_barrier \in 0..count
  /\ node_reforks_required \in 0..count
  /\ recursion_level \in 0..MaxRecursion
  /\ need_update \in BOOLEAN
  /\ refork_needed \in BOOLEAN
  /\ phase \in {"start", "enter", "run"}
  /\ main_pc \in MainPC
  /\ wpc \in [Workers -> WorkerPC]
  /\ stale \subseteq Workers
  /\ looped \subseteq Workers

\* While main is between the end of its sync and the store that opens the
\* barrier, every worker is parked: __foreach_vlib_main_helper asserts
\* parked_at_barrier of each worker's vlib_main.
BarrierExclusion ==
  main_pc \in {"closed", "relOpen"} =>
    \A w \in Workers : wpc[w] \in {"parked", "bootParked"}

\* A worker never dispatches a node with a clone of the graph older than the
\* one main published when it last opened the barrier (the refork precedes
\* every return to the dispatch loop).
NoStaleDispatch ==
  \A w \in Workers : wpc[w] \in {"run", "top", "check"} => w \notin stale

\* A release that asked for reforks does not return to its caller before every
\* worker has its new node runtime.
ReforkBeforeReturn == main_pc \in {"loop", "waitLoop"} => stale = {}

\* A sync ends: no worker can keep main spinning (else it panics with "worker
\* thread deadlock").
SyncCompletes == main_pc = "syncWait" ~> main_pc = "closed"

\* A release ends, refork included (else "worker thread refork deadlock").
ReleaseCompletes == main_pc \in {"relWait", "reforkWait"} ~> main_pc = "loop"

\* vlib_worker_wait_one_loop returns, even though the main thread may not
\* serve anything while it spins.
WaitOneLoopReturns == main_pc = "waitLoop" ~> main_pc = "loop"

\* Start-up ends: main enters its loop and every worker gets to dispatch.
BootCompletes == <>(phase = "run") /\ \A w \in Workers : <>(wpc[w] = "run")
=============================================================================
