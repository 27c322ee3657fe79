----------------------------- MODULE WorkersSync -----------------------------
(***************************************************************************)
(* A barrier that a worker asks for: vlib_workers_sync, its pair           *)
(* vlib_workers_continue, and the RPC queue that carries the request to    *)
(* thread 0.  pool_get_aligned_safe (vnet/session/session.h) calls the     *)
(* pair when a pool that other workers read has to be moved.               *)
(*                                                                         *)
(* The worker's RPC goes to its own pending_rpc_requests vector, which the *)
(* worker appends to thread 0's at the top of its loop; thread 0 swaps     *)
(* that vector for its processing vector and runs the RPCs under a         *)
(* barrier.  All the RPCs of this module are vlib_worker_sync_rpc, so a    *)
(* vector is its length.  The nested sync and release around each RPC      *)
(* only count and are left out.                                            *)
(***************************************************************************)
EXTENDS WorkerBarrier

CONSTANT MaxSyncs   \* bound on vlib_workers_sync calls in one loop of a worker

ASSUME MaxSyncsAssumption == MaxSyncs \in Nat \ {0}

VARIABLES
  wait_before_barrier,       \* vlib_worker_threads->wait_before_barrier
  workers_before_barrier,    \* vlib_worker_threads->workers_before_barrier
  done_work_before_barrier,  \* vlib_worker_threads->done_work_before_barrier
  pending_rpc_requests,      \* length of each worker's vector
  main_pending,              \* length of thread 0's pending_rpc_requests
  processing,                \* RPCs of processing_rpc_requests still to run
  spc,                       \* where a worker is inside the pair
  seen,                      \* the counter it read for a comparison
  calls                      \* syncs of the worker's current loop

rpcVars == <<pending_rpc_requests, main_pending, processing>>
beforeVars == <<wait_before_barrier, workers_before_barrier,
                done_work_before_barrier>>
syncVars == <<beforeVars, rpcVars, spc, seen, calls>>
allVars == <<vars, syncVars>>

SyncPC == {"out", "swap", "post", "wait", "count", "gather", "gathered",
           "work", "done", "doneRead", "undone", "leave"}

\* The places where workers_before_barrier counts the worker.
BeforeBarrier == {"gather", "gathered", "work", "done", "doneRead", "undone",
                  "leave"}

SyncInit ==
  /\ Init
  /\ wait_before_barrier = 0
  /\ workers_before_barrier = 0
  /\ done_work_before_barrier = 0
  /\ pending_rpc_requests = [w \in Workers |-> 0]
  /\ main_pending = 0
  /\ processing = 0
  /\ spc = [w \in Workers |-> "out"]
  /\ seen = [w \in Workers |-> 0]
  /\ calls = [w \in Workers |-> 0]
-----------------------------------------------------------------------------
(* Thread 0. *)

\* vl_mem_api_handle_rpc: swap the vectors, take the barrier.
HandleRpc ==
  /\ main_pc = "loop"
  /\ main_pending > 0
  /\ processing' = main_pending
  /\ main_pending' = 0
  /\ BarrierSync
  /\ UNCHANGED <<beforeVars, pending_rpc_requests, spc, seen, calls>>

\* vlib_worker_sync_rpc, run under the barrier.
SyncRpc ==
  /\ main_pc = "closed"
  /\ processing > 0
  /\ processing' = processing - 1
  /\ wait_before_barrier' = 0
  /\ UNCHANGED <<vars, workers_before_barrier, done_work_before_barrier,
                 pending_rpc_requests, main_pending, spc, seen, calls>>

\* Anything else thread 0 does with the barrier; the release that ends
\* vl_mem_api_handle_rpc comes after its last RPC.
MainOther ==
  /\ MainStep
  /\ BarrierRelease => processing = 0
  /\ UNCHANGED syncVars
-----------------------------------------------------------------------------
(* The workers. *)

SyncGoto(w, from, to) ==
  /\ wpc[w] = "run"
  /\ spc[w] = from
  /\ spc' = [spc EXCEPT ![w] = to]

\* The top of the loop: vl_api_send_pending_rpc_requests, then the check.
SendPendingRpcRequests(w) ==
  /\ LoopTop(w)
  /\ main_pending' = main_pending + pending_rpc_requests[w]
  /\ pending_rpc_requests' = [pending_rpc_requests EXCEPT ![w] = 0]
  /\ UNCHANGED <<beforeVars, processing, spc, seen, calls>>

\* The rest of a worker's loop, outside the pair.
WorkerOther(w) ==
  /\ spc[w] = "out"
  /\ WorkerStep(w)
  /\ wpc[w] # "top"
  /\ calls' = [calls EXCEPT ![w] = IF wpc'[w] = "top" THEN 0 ELSE calls[w]]
  /\ UNCHANGED <<beforeVars, rpcVars, spc, seen>>

\* vlib_workers_sync: is a barrier already asked for?
WorkersSync(w) ==
  /\ calls[w] < MaxSyncs
  /\ calls' = [calls EXCEPT ![w] = calls[w] + 1]
  /\ SyncGoto(w, "out", IF wait_at_barrier = 1 THEN "wait" ELSE "swap")
  /\ UNCHANGED <<vars, beforeVars, rpcVars, seen>>

\* Mutant: the flag is stored, its old value ignored.
SwapWaitBeforeAlwaysPosts(w) ==
  /\ SyncGoto(w, "swap", "post")
  /\ wait_before_barrier' = 1
  /\ UNCHANGED <<vars, workers_before_barrier, done_work_before_barrier,
                 rpcVars, seen, calls>>

\* ... the first worker to swap the flag ...
SwapWaitBefore(w) ==
  /\ SyncGoto(w, "swap", IF wait_before_barrier = 0 THEN "post" ELSE "wait")
  /\ wait_before_barrier' = 1
  /\ UNCHANGED <<vars, workers_before_barrier, done_work_before_barrier,
                 rpcVars, seen, calls>>

\* ... posts the RPC, to its own vector ...
RpcCallMainThread(w) ==
  /\ SyncGoto(w, "post", "wait")
  /\ pending_rpc_requests' = [pending_rpc_requests EXCEPT ![w] = @ + 1]
  /\ UNCHANGED <<vars, beforeVars, main_pending, processing, seen, calls>>

\* ... all wait until main asks for the barrier ...
WaitForBarrier(w) ==
  /\ wait_at_barrier = 1
  /\ SyncGoto(w, "wait", "count")
  /\ UNCHANGED <<vars, beforeVars, rpcVars, seen, calls>>

\* ... count themselves ...
CountBefore(w) ==
  /\ SyncGoto(w, "count", "gather")
  /\ workers_before_barrier' = workers_before_barrier + 1
  /\ UNCHANGED <<vars, wait_before_barrier, done_work_before_barrier, rpcVars,
                 seen, calls>>

\* ... and spin until everyone is counted; the two counters are two reads.
ReadAtBarrier(w) ==
  /\ SyncGoto(w, "gather", "gathered")
  /\ seen' = [seen EXCEPT ![w] = workers_at_barrier]
  /\ UNCHANGED <<vars, beforeVars, rpcVars, calls>>

\* Mutant: the sum may miss one worker.
ReadBeforeBarrierOffByOne(w) ==
  /\ SyncGoto(w, "gathered",
              IF count > seen[w] + workers_before_barrier + 1
                THEN "gather" ELSE "work")
  /\ UNCHANGED <<vars, beforeVars, rpcVars, seen, calls>>

ReadBeforeBarrier(w) ==
  /\ SyncGoto(w, "gathered",
              IF count > seen[w] + workers_before_barrier
                THEN "gather" ELSE "work")
  /\ UNCHANGED <<vars, beforeVars, rpcVars, seen, calls>>

\* The caller's work is over: vlib_workers_continue.
WorkersContinue(w) ==
  /\ SyncGoto(w, "work", "done")
  /\ done_work_before_barrier' = done_work_before_barrier + 1
  /\ UNCHANGED <<vars, wait_before_barrier, workers_before_barrier, rpcVars,
                 seen, calls>>

\* It spins until all that are before the barrier are done, again two reads.
ReadDone(w) ==
  /\ SyncGoto(w, "done", "doneRead")
  /\ seen' = [seen EXCEPT ![w] = done_work_before_barrier]
  /\ UNCHANGED <<vars, beforeVars, rpcVars, calls>>

\* Mutant: waits for one more than there are.
CompareDoneOffByOne(w) ==
  /\ SyncGoto(w, "doneRead",
              IF seen[w] <= workers_before_barrier THEN "done" ELSE "undone")
  /\ UNCHANGED <<vars, beforeVars, rpcVars, seen, calls>>

CompareDone(w) ==
  /\ SyncGoto(w, "doneRead",
              IF seen[w] < workers_before_barrier THEN "done" ELSE "undone")
  /\ UNCHANGED <<vars, beforeVars, rpcVars, seen, calls>>

UncountDone(w) ==
  /\ SyncGoto(w, "undone", "leave")
  /\ done_work_before_barrier' = done_work_before_barrier - 1
  /\ UNCHANGED <<vars, wait_before_barrier, workers_before_barrier, rpcVars,
                 seen, calls>>

\* Mutant: the second decrement is forgotten.
UncountBeforeSkipped(w) ==
  /\ SyncGoto(w, "leave", "out")
  /\ seen' = [seen EXCEPT ![w] = 0]
  /\ UNCHANGED <<vars, beforeVars, rpcVars, calls>>

UncountBefore(w) ==
  /\ SyncGoto(w, "leave", "out")
  /\ workers_before_barrier' = workers_before_barrier - 1
  /\ seen' = [seen EXCEPT ![w] = 0]
  /\ UNCHANGED <<vars, wait_before_barrier, done_work_before_barrier, rpcVars,
                 calls>>
-----------------------------------------------------------------------------
SyncMainStep == HandleRpc \/ SyncRpc \/ MainOther

\* The steps of the pair once a worker is in it.
PairStep(w) ==
  \/ SwapWaitBefore(w) \/ RpcCallMainThread(w)
  \/ WaitForBarrier(w) \/ CountBefore(w) \/ ReadAtBarrier(w)
  \/ ReadBeforeBarrier(w) \/ WorkersContinue(w) \/ ReadDone(w)
  \/ CompareDone(w) \/ UncountDone(w) \/ UncountBefore(w)

SyncNext ==
  \/ SyncMainStep
  \/ \E w \in Workers :
       SendPendingRpcRequests(w) \/ WorkerOther(w) \/ WorkersSync(w) \/ PairStep(w)

\* As in WorkerBarrier: threads run; main serves the RPC queue and releases
\* what it holds; a worker in the pair takes its next step.
SyncFairness ==
  /\ WF_allVars(MainOther /\ MainProgress)
  /\ SF_allVars(MainOther /\ BarrierRelease)
  /\ SF_allVars(HandleRpc \/ SyncRpc)
  /\ \A w \in Workers :
       /\ WF_allVars(SendPendingRpcRequests(w) \/ WorkerOther(w))
       /\ SF_allVars(WorkerOther(w) /\ EndLoop(w))
       /\ WF_allVars(PairStep(w))

SyncSpec == SyncInit /\ [][SyncNext]_allVars
SyncFairSpec == SyncSpec /\ SyncFairness
-----------------------------------------------------------------------------
\* The counters count the workers that are where the code says they are.
SyncTypeOK ==
  /\ wait_before_barrier \in {0, 1}
  /\ workers_before_barrier = Cardinality({w \in Workers : spc[w] \in BeforeBarrier})
  /\ done_work_before_barrier =
       Cardinality({w \in Workers : spc[w] \in {"done", "doneRead", "undone"}})
  /\ pending_rpc_requests \in [Workers -> Nat]
  /\ main_pending \in Nat /\ processing \in Nat
  /\ spc \in [Workers -> SyncPC]
  /\ seen \in [Workers -> 0..count]
  /\ calls \in [Workers -> 0..MaxSyncs]

\* A worker that polls the barrier has stopped at it, or is counted before it.
Stopped(v) == wpc[v] \in {"enter", "parked"} \/ spc[v] \in BeforeBarrier

\* A worker that has been through the pair since it last polled the barrier: it
\* runs on, perhaps into the pair again, or is on its way to the barrier.
HasLeft(v) ==
  \/ spc[v] = "out" /\ wpc[v] \in {"top", "check"}
  \/ wpc[v] = "run" /\ spc[v] \in {"out", "wait", "count"} /\ calls[v] > 0

\* While a worker does its work before the barrier, between vlib_workers_sync
\* and vlib_workers_continue, no worker dispatches that has not itself been
\* through the pair in its current loop, however often each calls it.
SyncRendezvous ==
  \A w, v \in Workers : spc[w] = "work" => Stopped(v) \/ HasLeft(v)

\* What the comment in vlib_workers_sync says: all other workers are at the
\* barrier or before it. True when a worker calls the pair once around its
\* loop; a second call finds its counters still raised by the first rendezvous
\* and passes while the others leave.
SyncIsolates ==
  \A w, v \in Workers : spc[w] = "work" => Stopped(v)

\* A raised wait_before_barrier always has its RPC, on the way or in hand, so
\* no later vlib_workers_sync relies on a request that nobody will serve.
OneSyncRpc ==
  LET posting == {w \in Workers : spc[w] = "post"}
      queued == {w \in Workers : pending_rpc_requests[w] > 0}
  IN /\ main_pending + processing + Cardinality(posting \cup queued)
          = wait_before_barrier
     /\ \A w \in queued : pending_rpc_requests[w] = 1

\* A worker in vlib_workers_sync when main has asked for the barrier comes out
\* of vlib_workers_continue: the two rendezvous do not deadlock.
PairCompletes ==
  \A w \in Workers : spc[w] \in BeforeBarrier ~> spc[w] = "out"

\* vlib_workers_sync returns: thread 0, when it is not itself waiting for the
\* workers, gives the barrier that the sync asks for.
SyncReturns ==
  <>[](main_pc # "waitLoop") =>
    \A w \in Workers : spc[w] = "wait" ~> spc[w] = "work"
=============================================================================
