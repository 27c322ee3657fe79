-------------------------- MODULE WorkersSyncProofs --------------------------
(***************************************************************************)
(* The pair vlib_workers_sync, vlib_workers_continue for any finite set of *)
(* workers.  The specification takes the steps of WorkerBarrier, so the    *)
(* inductive invariant IInv of the barrier carries over; to it come the    *)
(* counts of the pair, where its members can be, the request on its way to *)
(* main and the rendezvous: once one worker has passed it, every other has *)
(* stopped or has been through it, however often each calls the pair.      *)
(***************************************************************************)
EXTENDS WorkersSync, WorkerBarrierProofs

\* The workers that the two counters of the pair count.
Before == {w \in Workers : spc[w] \in BeforeBarrier}
DoneWork == {w \in Workers : spc[w] \in {"done", "doneRead", "undone"}}

\* The workers that OneSyncRpc counts: about to post the request, or with the
\* request in the vector.
Requesters == {w \in Workers : spc[w] = "post"}
                \cup {w \in Workers : pending_rpc_requests[w] > 0}

PairTypes ==
  /\ wait_before_barrier \in {0, 1}
  /\ pending_rpc_requests \in [Workers -> Nat]
  /\ main_pending \in Nat /\ processing \in Nat
  /\ spc \in [Workers -> SyncPC]
  /\ seen \in [Workers -> 0..count]
  /\ calls \in [Workers -> 0..MaxSyncs]

PairCounts ==
  /\ workers_before_barrier = Cardinality(Before)
  /\ done_work_before_barrier = Cardinality(DoneWork)

\* A worker in the pair is in its dispatch loop, so main cannot close the
\* barrier that the worker has seen asked for.
PairPlace(w) ==
  /\ spc[w] # "out" => wpc[w] = "run" /\ calls[w] > 0
  /\ spc[w] \in BeforeBarrier \cup {"count"} => main_pc = "syncWait"
  /\ spc[w] = "gathered" => seen[w] <= workers_at_barrier
  /\ spc[w] = "post" => pending_rpc_requests[w] = 0

\* The one request is with a worker, in main's vector or being handled; main
\* handles the RPCs of one barrier before the next.
RpcInv ==
  /\ main_pending + processing + Cardinality(Requesters) = wait_before_barrier
  /\ \A w \in Workers : pending_rpc_requests[w] \in {0, 1}
  /\ processing > 0 => main_pc \in {"syncWait", "closed"}

PairInv ==
  IInv /\ PairTypes /\ PairCounts /\ (\A w \in Workers : PairPlace(w)) /\ RpcInv

\* The rendezvous.  Once a worker has passed the gathering everyone is stopped
\* or has left the pair, on its way to the barrier or to another call.
Passed(w) == spc[w] \in {"work", "done", "doneRead", "undone", "leave"}

RoundInv ==
  \A v, u \in Workers : Passed(v) => Stopped(u) \/ HasLeft(u)
-----------------------------------------------------------------------------
\* What the provers need of the two sets that the counters count.
LEMMA PairSets ==
  /\ IsFiniteSet(Before) /\ IsFiniteSet(DoneWork)
  /\ Cardinality(Before) \in 0..count
  /\ Cardinality(DoneWork) \in 0..count
  /\ IsFiniteSet(Requesters) /\ Cardinality(Requesters) \in Nat
  /\ Cardinality(Requesters) = 0 => Requesters = {}
  /\ count \in Nat
<1>1. /\ Before \in SUBSET Workers /\ DoneWork \in SUBSET Workers
      /\ Requesters \in SUBSET Workers
  BY DEF Before, DoneWork, Requesters
<1>2. IsFiniteSet(Workers)
  BY WorkersAssumption
<1>3. IsFiniteSet(Before) /\ Cardinality(Before) <= count
  BY <1>1, <1>2, FS_Subset DEF count
<1>4. IsFiniteSet(DoneWork) /\ Cardinality(DoneWork) <= count
  BY <1>1, <1>2, FS_Subset DEF count
<1>5. IsFiniteSet(Requesters)
  BY <1>1, <1>2, FS_Subset
<1>6. /\ Cardinality(Before) \in Nat
      /\ Cardinality(DoneWork) \in Nat
      /\ Cardinality(Requesters) \in Nat
      /\ count \in Nat
  BY <1>2, <1>3, <1>4, <1>5, FS_CardinalityType DEF count
<1> QED
  BY <1>3, <1>4, <1>5, <1>6, FS_EmptySet

\* Nobody is in the pair when the process goes into service.
LEMMA InitPairInv == SyncInit => PairInv /\ RoundInv
<1> SUFFICES ASSUME SyncInit PROVE PairInv /\ RoundInv
  OBVIOUS
<1> USE DEF SyncInit
<1>1. IInv
  BY InitIInv
<1>2. Before = {} /\ DoneWork = {}
  BY DEF Before, DoneWork, BeforeBarrier
<1>3. PairCounts
  BY <1>2, FS_EmptySet DEF PairCounts
<1>4. PairTypes
  BY PairSets, MaxSyncsAssumption DEF PairTypes, SyncPC
<1>5. \A w \in Workers : PairPlace(w)
  BY DEF PairPlace, BeforeBarrier
<1>6. RpcInv
  <2>1. Requesters = {}
    BY DEF Requesters
  <2> QED
    BY <2>1, FS_EmptySet DEF RpcInv
<1>7. RoundInv
  BY DEF RoundInv, Passed
<1> QED
  BY <1>1, <1>3, <1>4, <1>5, <1>6, <1>7 DEF PairInv

\* Each step of the composed specification is a step of the barrier or leaves
\* the barrier alone.
LEMMA BarrierStep == [SyncNext]_allVars => [Next]_vars
<1> SUFFICES ASSUME [SyncNext]_allVars PROVE [Next]_vars
  OBVIOUS
<1>1. CASE SyncMainStep
  BY <1>1 DEF SyncMainStep, HandleRpc, SyncRpc, MainOther, MainStep, Next
<1>2. ASSUME NEW w \in Workers, SendPendingRpcRequests(w) \/ WorkerOther(w)
      PROVE  [Next]_vars
  BY <1>2 DEF SendPendingRpcRequests, WorkerOther, WorkerStep, Next
<1>3. ASSUME NEW w \in Workers, WorkersSync(w) \/ PairStep(w)
      PROVE  UNCHANGED vars
  BY <1>3 DEF WorkersSync, PairStep, SwapWaitBefore, RpcCallMainThread,
     WaitForBarrier, CountBefore, ReadAtBarrier, ReadBeforeBarrier,
     WorkersContinue, ReadDone, CompareDone, UncountDone, UncountBefore
<1> QED
  BY <1>1, <1>2, <1>3 DEF SyncNext, allVars

\* So the barrier's own invariant holds of it.
LEMMA BarrierKept == IInv /\ [SyncNext]_allVars => IInv'
<1> SUFFICES ASSUME IInv, [Next]_vars PROVE IInv'
  BY BarrierStep
<1>1. CASE UNCHANGED vars
  BY <1>1 DEF vars, mainVars, IInv, Types, MainInv, PlaceInv, CountInv,
     AtBarrier, Owing
<1> QED
  BY <1>1, MainPreserves, WorkerPreserves DEF Next

\* No step of main touches the workers or the counters of the pair.
LEMMA MainLeavesPair ==
  SyncMainStep => UNCHANGED <<wpc, workers_at_barrier, workers_before_barrier,
    done_work_before_barrier, pending_rpc_requests, spc, seen, calls>>
<1>1. MainStep => UNCHANGED <<wpc, workers_at_barrier>>
  BY DEF MainStep, BarrierSync, BarrierClosed, NodeRuntimeUpdate,
     BarrierReleaseInner, BarrierRelease, BarrierOpen, BarrierDrained,
     ReforksDone, InitialSync, InitialRelease, WaitOneLoop, WaitOneLoopDone
<1> QED
  BY <1>1 DEF SyncMainStep, HandleRpc, SyncRpc, MainOther, MainStep, syncVars,
     beforeVars, rpcVars, vars

\* main keeps the invariant of the pair: it cannot close a barrier while a
\* worker that has seen it asked for is still running.
LEMMA MainKeepsPair ==
  ASSUME PairInv, SyncMainStep
  PROVE  PairInv'
<1> USE MainLeavesPair DEF PairInv
<1>1. IInv'
  BY BarrierKept DEF SyncNext
<1>2. Before' = Before /\ DoneWork' = DoneWork /\ Requesters' = Requesters
  BY DEF Before, DoneWork, Requesters
<1>3. PairTypes' /\ PairCounts'
  BY <1>2 DEF PairTypes, PairCounts, SyncMainStep, HandleRpc, SyncRpc,
     MainOther, syncVars, beforeVars, rpcVars
<1>4. (\A w \in Workers : PairPlace(w))'
  <2>1. CASE \E w \in Workers : spc[w] \in BeforeBarrier \cup {"count"}
    <3>1. PICK w \in Workers : wpc[w] = "run" /\ main_pc = "syncWait"
      BY <2>1 DEF PairPlace, BeforeBarrier
    <3>2. wpc'[w] = "run"
      BY <3>1
    <3>3. main_pc' # "closed"
      BY <1>1, <3>2 DEF IInv, PlaceInv
    <3>4. main_pc' = "syncWait"
      BY <3>1, <3>3 DEF SyncMainStep, HandleRpc, SyncRpc, MainOther, vars, mainVars,
         MainStep, BarrierSync, BarrierClosed, NodeRuntimeUpdate,
         BarrierReleaseInner, BarrierRelease, BarrierOpen, BarrierDrained,
         ReforksDone, InitialSync, InitialRelease, WaitOneLoop, WaitOneLoopDone
    <3> QED
      BY <3>4 DEF PairPlace
  <2>2. CASE \A w \in Workers : spc[w] \notin BeforeBarrier \cup {"count"}
    BY <2>2 DEF PairPlace
  <2> QED
    BY <2>1, <2>2
<1>5. RpcInv'
  <2>1. CASE HandleRpc
    <3>1. processing = 0
      BY <2>1 DEF HandleRpc, RpcInv, PairTypes
    <3>2. main_pc' = "syncWait" /\ UNCHANGED wait_before_barrier
      BY <2>1 DEF HandleRpc, BarrierSync, beforeVars
    <3> QED
      BY <1>2, <2>1, <3>1, <3>2, PairSets
      DEF HandleRpc, RpcInv, PairTypes
  <2>2. CASE SyncRpc
    <3>1. /\ processing = 1 /\ main_pending = 0 /\ Cardinality(Requesters) = 0
      BY <2>2, PairSets DEF SyncRpc, RpcInv, PairTypes
    <3> QED
      BY <1>2, <2>2, <3>1 DEF SyncRpc, RpcInv
  <2>3. CASE MainOther
    <3>1. /\ (main_pending + processing + Cardinality(Requesters) = wait_before_barrier)'
          /\ (\A w \in Workers : pending_rpc_requests[w] \in {0, 1})'
      BY <1>2, <2>3
      DEF MainOther, RpcInv, syncVars, rpcVars, beforeVars
    <3>2. processing' > 0 => main_pc' \in {"syncWait", "closed"}
      BY <2>3 DEF MainOther, RpcInv, syncVars, rpcVars,
         MainStep, BarrierSync, BarrierClosed, NodeRuntimeUpdate, PairTypes,
         BarrierReleaseInner, BarrierRelease, BarrierOpen, BarrierDrained,
         ReforksDone, InitialSync, InitialRelease, WaitOneLoop, WaitOneLoopDone
    <3> QED
      BY <3>1, <3>2 DEF RpcInv
  <2> QED
    BY <2>1, <2>2, <2>3 DEF SyncMainStep
<1> QED
  BY <1>1, <1>3, <1>4, <1>5

\* What a step of the barrier by a worker leaves alone; workers_at_barrier only
\* falls when the worker leaves a barrier.
LEMMA WorkerMoves ==
  ASSUME IInv, NEW w \in Workers, WorkerStep(w)
  PROVE  /\ UNCHANGED <<main_pc, wait_at_barrier>>
         /\ \A u \in Workers \ {w} : wpc'[u] = wpc[u]
         /\ wpc' \in [Workers -> WorkerPC]
         /\ wpc[w] # "leave" => /\ workers_at_barrier' >= workers_at_barrier
                               /\ workers_at_barrier' \in Nat
         /\ wpc[w] = "run" => wpc'[w] \in {"top", "check"}
         /\ wpc[w] = "top" => wpc'[w] = "check"
         /\ wpc[w] = "check" /\ wait_at_barrier = 1 => wpc'[w] = "enter"
         /\ wpc[w] = "enter" => wpc'[w] = "parked"
         /\ ~(wpc[w] = "parked" /\ wait_at_barrier = 1)
<1>1. workers_at_barrier \in Nat
  BY CountedSets DEF IInv, CountInv
<1>2. wpc \in [Workers -> WorkerPC \ {"boot", "bootParked", "bootLeave"}]
  BY DEF IInv, Types
<1> QED
  BY <1>1, <1>2 DEF WorkerStep, BootEnter, BootLeaveSpin, BootLeave, LoopTop,
     BarrierCheck, BarrierEnter, BarrierLeaveSpin, BarrierLeave, ReforkCheck,
     ReforkDec, ReforkSpin, EndLoop, CheckInHandoff, WorkerGoto, WorkerUnchanged,
     mainVars, WorkerPC

\* A worker that polls the barrier, parks or runs its loop keeps the pair's
\* invariant; at the top of the loop its request goes to main.
LEMMA LoopKeepsPair ==
  ASSUME PairInv, NEW w \in Workers, SendPendingRpcRequests(w) \/ WorkerOther(w)
  PROVE  PairInv'
<1> USE DEF PairInv
<1>1. IInv'
  BY BarrierKept DEF SyncNext
<1>2. WorkerStep(w) /\ spc[w] = "out"
  BY DEF SendPendingRpcRequests, WorkerOther, WorkerStep, LoopTop, WorkerGoto, PairPlace
<1>3. UNCHANGED <<beforeVars, processing, spc, seen>>
  BY DEF SendPendingRpcRequests, WorkerOther, rpcVars
<1>4. Before' = Before /\ DoneWork' = DoneWork
  BY <1>3 DEF Before, DoneWork
<1>5. PairCounts'
  BY <1>3, <1>4 DEF PairCounts, beforeVars
<1>6. CASE SendPendingRpcRequests(w)
  <2>1. /\ main_pending' = main_pending + pending_rpc_requests[w]
        /\ pending_rpc_requests' = [pending_rpc_requests EXCEPT ![w] = 0]
        /\ UNCHANGED calls
    BY <1>6 DEF SendPendingRpcRequests
  <2>2. PairTypes'
    BY <1>3, <2>1 DEF PairTypes, beforeVars
  <2>3. RpcInv'
    <3>1. CASE pending_rpc_requests[w] = 0
      <4>1. Requesters' = Requesters
        BY <1>3, <2>1, <3>1 DEF Requesters, PairTypes
      <4> QED
        BY <1>2, <1>3, <2>1, <3>1, <4>1, WorkerMoves DEF RpcInv, PairTypes, beforeVars
    <3>2. CASE pending_rpc_requests[w] = 1
      <4>1. Requesters' = Requesters \ {w} /\ w \in Requesters
        BY <1>2, <1>3, <2>1, <3>2 DEF Requesters, PairTypes
      <4>2. Cardinality(Requesters') = Cardinality(Requesters) - 1
        BY <4>1, PairSets, FS_RemoveElement
      <4> QED
        BY <1>2, <1>3, <2>1, <3>2, <4>2, WorkerMoves, PairSets
        DEF RpcInv, PairTypes, beforeVars
    <3> QED
      BY <3>1, <3>2 DEF RpcInv
  <2>4. (\A u \in Workers : PairPlace(u))'
    BY <1>2, <1>3, <1>6, <2>1, WorkerMoves
    DEF PairPlace, SendPendingRpcRequests, LoopTop, PairTypes
  <2> QED
    BY <1>1, <1>5, <2>2, <2>3, <2>4
<1>7. CASE WorkerOther(w)
  <2>1. /\ UNCHANGED <<main_pending, pending_rpc_requests>>
        /\ calls' = [calls EXCEPT ![w] = IF wpc'[w] = "top" THEN 0 ELSE calls[w]]
    BY <1>7 DEF WorkerOther, rpcVars
  <2>2. PairTypes'
    BY <1>3, <2>1, MaxSyncsAssumption DEF PairTypes, beforeVars
  <2>3. RpcInv'
    <3>1. Requesters' = Requesters
      BY <1>3, <2>1 DEF Requesters
    <3> QED
      BY <1>2, <1>3, <2>1, <3>1, WorkerMoves DEF RpcInv, beforeVars
  <2>4. (\A u \in Workers : PairPlace(u))'
    <3> SUFFICES ASSUME NEW u \in Workers PROVE PairPlace(u)'
      OBVIOUS
    <3>1. CASE u = w
      BY <1>2, <1>3, <3>1 DEF PairPlace, BeforeBarrier
    <3>2. CASE u # w
      <4>1. wpc'[u] = wpc[u] /\ calls'[u] = calls[u]
        BY <1>2, <2>1, <3>2, WorkerMoves DEF PairTypes
      <4>2. main_pc = "syncWait" => /\ workers_at_barrier' >= workers_at_barrier
                                    /\ workers_at_barrier' \in Nat
        BY <1>2, WorkerMoves DEF IInv, PlaceInv
      <4>3. workers_at_barrier \in Nat /\ seen[u] \in Nat
        BY CountedSets, PairSets DEF IInv, CountInv, PairTypes
      <4> QED
        BY <1>2, <1>3, <2>1, <4>1, <4>2, <4>3, WorkerMoves
        DEF PairPlace, BeforeBarrier
    <3> QED
      BY <3>1, <3>2
  <2> QED
    BY <1>1, <1>5, <2>2, <2>3, <2>4
<1> QED
  BY <1>6, <1>7

\* A step of the pair that leaves the counters and the requests alone.
LEMMA UncountedStep ==
  ASSUME PairInv, NEW w \in Workers, NEW p \in SyncPC, NEW q \in SyncPC,
         SyncGoto(w, p, q), UNCHANGED <<vars, beforeVars, rpcVars>>,
         p \in BeforeBarrier <=> q \in BeforeBarrier,
         p \in {"done", "doneRead", "undone"} <=> q \in {"done", "doneRead", "undone"},
         p # "post", q # "post"
  PROVE  PairCounts' /\ RpcInv' /\ IInv'
<1> USE DEF PairInv, SyncGoto, vars, mainVars, beforeVars, rpcVars
<1>1. Before' = Before /\ DoneWork' = DoneWork /\ Requesters' = Requesters
  BY DEF Before, DoneWork, Requesters, PairTypes
<1>2. IInv'
  BY DEF IInv, Types, MainInv, PlaceInv, CountInv, AtBarrier, Owing
<1> QED
  BY <1>1, <1>2 DEF PairCounts, RpcInv

\* Every step of vlib_workers_sync and vlib_workers_continue keeps the pair's
\* invariant.
LEMMA PairKeepsPair ==
  ASSUME PairInv, NEW w \in Workers, WorkersSync(w) \/ PairStep(w)
  PROVE  PairInv'
<1> USE DEF PairInv, SyncGoto, vars, mainVars, beforeVars, rpcVars
<1>1. IInv' /\ UNCHANGED vars
  <2>1. UNCHANGED vars
    BY DEF WorkersSync, PairStep, SwapWaitBefore, RpcCallMainThread,
       WaitForBarrier, CountBefore, ReadAtBarrier, ReadBeforeBarrier,
       WorkersContinue, ReadDone, CompareDone, UncountDone, UncountBefore
  <2> QED
    BY <2>1, BarrierKept DEF SyncNext
<1>2. CASE WorkersSync(w)
  <2>1. PairCounts' /\ RpcInv'
    BY <1>2, UncountedStep DEF WorkersSync, SyncPC, BeforeBarrier
  <2>2. PairTypes'
    BY <1>2, MaxSyncsAssumption DEF WorkersSync, PairTypes, SyncPC
  <2>3. (\A u \in Workers : PairPlace(u))'
    BY <1>2, MaxSyncsAssumption DEF WorkersSync, PairPlace, PairTypes, BeforeBarrier
  <2> QED
    BY <1>1, <2>1, <2>2, <2>3
<1>3. CASE SwapWaitBefore(w)
  <2>1. Before' = Before /\ DoneWork' = DoneWork
    BY <1>3 DEF SwapWaitBefore, Before, DoneWork, PairTypes, BeforeBarrier
  <2>2. RpcInv'
    <3>1. CASE wait_before_barrier = 0
      <4>1. Requesters = {} /\ main_pending = 0 /\ processing = 0
        BY <3>1, PairSets DEF RpcInv, PairTypes
      <4>2. Requesters' = {w}
        BY <1>3, <3>1, <4>1 DEF SwapWaitBefore, Requesters, PairTypes
      <4>3. Cardinality(Requesters') = 1
        BY <4>2, FS_Singleton
      <4> QED
        BY <1>3, <4>1, <4>3 DEF SwapWaitBefore, RpcInv
    <3>2. CASE wait_before_barrier = 1
      <4>1. Requesters' = Requesters
        BY <1>3, <3>2 DEF SwapWaitBefore, Requesters, PairTypes
      <4> QED
        BY <1>3, <3>2, <4>1 DEF SwapWaitBefore, RpcInv
    <3> QED
      BY <3>1, <3>2 DEF PairTypes
  <2>3. PairTypes' /\ PairCounts'
    BY <1>3, <2>1 DEF SwapWaitBefore, PairTypes, PairCounts, SyncPC
  <2>4. wait_before_barrier = 0 => pending_rpc_requests[w] = 0
    BY PairSets DEF RpcInv, PairTypes, Requesters
  <2>5. (\A u \in Workers : PairPlace(u))'
    BY <1>3, <2>4 DEF SwapWaitBefore, PairPlace, PairTypes, BeforeBarrier
  <2> QED
    BY <1>1, <2>2, <2>3, <2>5
<1>4. CASE RpcCallMainThread(w)
  <2>1. Before' = Before /\ DoneWork' = DoneWork
    BY <1>4 DEF RpcCallMainThread, Before, DoneWork, PairTypes, BeforeBarrier
  <2>2. Requesters' = Requesters /\ pending_rpc_requests[w] = 0
    BY <1>4 DEF RpcCallMainThread, Requesters, PairTypes, PairPlace
  <2>3. PairTypes' /\ PairCounts'
    BY <1>4, <2>1 DEF RpcCallMainThread, PairTypes, PairCounts, SyncPC
  <2>4. RpcInv'
    BY <1>4, <2>2 DEF RpcCallMainThread, RpcInv, PairTypes
  <2>5. (\A u \in Workers : PairPlace(u))'
    BY <1>4 DEF RpcCallMainThread, PairPlace, PairTypes, BeforeBarrier
  <2> QED
    BY <1>1, <2>3, <2>4, <2>5
<1>5. CASE WaitForBarrier(w)
  <2>1. PairCounts' /\ RpcInv'
    BY <1>5, UncountedStep DEF WaitForBarrier, SyncPC, BeforeBarrier
  <2>2. PairTypes'
    BY <1>5 DEF WaitForBarrier, PairTypes, SyncPC
  <2>3. main_pc = "syncWait"
    BY <1>5 DEF WaitForBarrier, IInv, MainInv, PlaceInv
  <2>4. (\A u \in Workers : PairPlace(u))'
    BY <1>5, <2>3 DEF WaitForBarrier, PairPlace, PairTypes
  <2> QED
    BY <1>1, <2>1, <2>2, <2>4
<1>6. CASE CountBefore(w)
  <2>1. Before' = Before \cup {w} /\ w \notin Before
    BY <1>6 DEF CountBefore, Before, PairTypes, BeforeBarrier
  <2>2. DoneWork' = DoneWork /\ Requesters' = Requesters
    BY <1>6 DEF CountBefore, DoneWork, Requesters, PairTypes
  <2>3. PairCounts'
    BY <1>6, <2>1, <2>2, PairSets, FS_AddElement DEF CountBefore, PairCounts
  <2>4. PairTypes'
    BY <1>6 DEF CountBefore, PairTypes, SyncPC
  <2>5. RpcInv'
    BY <1>6, <2>2 DEF CountBefore, RpcInv
  <2>6. (\A u \in Workers : PairPlace(u))'
    BY <1>6 DEF CountBefore, PairPlace, PairTypes, BeforeBarrier
  <2> QED
    BY <1>1, <2>3, <2>4, <2>5, <2>6
<1>7. CASE ReadAtBarrier(w)
  <2>1. PairCounts' /\ RpcInv'
    BY <1>7, UncountedStep DEF ReadAtBarrier, SyncPC, BeforeBarrier
  <2>2. workers_at_barrier \in 0..count
    BY CountedSets DEF IInv, CountInv
  <2>3. PairTypes'
    BY <1>7, <2>2 DEF ReadAtBarrier, PairTypes, SyncPC
  <2>4. (\A u \in Workers : PairPlace(u))'
    BY <1>7, <2>2, PairSets DEF ReadAtBarrier, PairPlace, PairTypes, BeforeBarrier
  <2> QED
    BY <1>1, <2>1, <2>3, <2>4
<1>8. CASE ReadBeforeBarrier(w)
  <2>1. PairCounts' /\ RpcInv'
    BY <1>8, UncountedStep DEF ReadBeforeBarrier, SyncPC, BeforeBarrier
  <2>2. PairTypes'
    BY <1>8 DEF ReadBeforeBarrier, PairTypes, SyncPC
  <2>3. (\A u \in Workers : PairPlace(u))'
    BY <1>8 DEF ReadBeforeBarrier, PairPlace, PairTypes, BeforeBarrier
  <2> QED
    BY <1>1, <2>1, <2>2, <2>3
<1>9. CASE WorkersContinue(w)
  <2>1. DoneWork' = DoneWork \cup {w} /\ w \notin DoneWork
    BY <1>9 DEF WorkersContinue, DoneWork, PairTypes
  <2>2. Before' = Before /\ Requesters' = Requesters
    BY <1>9 DEF WorkersContinue, Before, Requesters, PairTypes, BeforeBarrier
  <2>3. PairCounts'
    BY <1>9, <2>1, <2>2, PairSets, FS_AddElement DEF WorkersContinue, PairCounts
  <2>4. PairTypes'
    BY <1>9 DEF WorkersContinue, PairTypes, SyncPC
  <2>5. RpcInv'
    BY <1>9, <2>2 DEF WorkersContinue, RpcInv
  <2>6. (\A u \in Workers : PairPlace(u))'
    BY <1>9 DEF WorkersContinue, PairPlace, PairTypes, BeforeBarrier
  <2> QED
    BY <1>1, <2>3, <2>4, <2>5, <2>6
<1>10. CASE ReadDone(w)
  <2>1. PairCounts' /\ RpcInv'
    BY <1>10, UncountedStep DEF ReadDone, SyncPC, BeforeBarrier
  <2>2. PairTypes'
    BY <1>10, PairSets DEF ReadDone, PairTypes, PairCounts, SyncPC
  <2>3. (\A u \in Workers : PairPlace(u))'
    BY <1>10 DEF ReadDone, PairPlace, PairTypes, BeforeBarrier
  <2> QED
    BY <1>1, <2>1, <2>2, <2>3
<1>11. CASE CompareDone(w)
  <2>1. PairCounts' /\ RpcInv'
    BY <1>11, UncountedStep DEF CompareDone, SyncPC, BeforeBarrier
  <2>2. PairTypes'
    BY <1>11 DEF CompareDone, PairTypes, SyncPC
  <2>3. (\A u \in Workers : PairPlace(u))'
    BY <1>11 DEF CompareDone, PairPlace, PairTypes, BeforeBarrier
  <2> QED
    BY <1>1, <2>1, <2>2, <2>3
<1>12. CASE UncountDone(w)
  <2>1. DoneWork' = DoneWork \ {w} /\ w \in DoneWork
    BY <1>12 DEF UncountDone, DoneWork, PairTypes
  <2>2. Before' = Before /\ Requesters' = Requesters
    BY <1>12 DEF UncountDone, Before, Requesters, PairTypes, BeforeBarrier
  <2>3. PairCounts'
    BY <1>12, <2>1, <2>2, PairSets, FS_RemoveElement DEF UncountDone, PairCounts
  <2>4. PairTypes'
    BY <1>12 DEF UncountDone, PairTypes, SyncPC
  <2>5. RpcInv'
    BY <1>12, <2>2 DEF UncountDone, RpcInv
  <2>6. (\A u \in Workers : PairPlace(u))'
    BY <1>12 DEF UncountDone, PairPlace, PairTypes, BeforeBarrier
  <2> QED
    BY <1>1, <2>3, <2>4, <2>5, <2>6
<1>13. CASE UncountBefore(w)
  <2>1. Before' = Before \ {w} /\ w \in Before
    BY <1>13 DEF UncountBefore, Before, PairTypes, BeforeBarrier
  <2>2. DoneWork' = DoneWork /\ Requesters' = Requesters
    BY <1>13 DEF UncountBefore, DoneWork, Requesters, PairTypes
  <2>3. PairCounts'
    BY <1>13, <2>1, <2>2, PairSets, FS_RemoveElement DEF UncountBefore, PairCounts
  <2>4. PairTypes'
    BY <1>13, PairSets DEF UncountBefore, PairTypes, SyncPC
  <2>5. RpcInv'
    BY <1>13, <2>2 DEF UncountBefore, RpcInv
  <2>6. (\A u \in Workers : PairPlace(u))'
    BY <1>13 DEF UncountBefore, PairPlace, PairTypes, BeforeBarrier
  <2> QED
    BY <1>1, <2>3, <2>4, <2>5, <2>6
<1> QED
  BY <1>2, <1>3, <1>4, <1>5, <1>6, <1>7, <1>8, <1>9, <1>10, <1>11, <1>12, <1>13
  DEF PairStep
-----------------------------------------------------------------------------
\* The rendezvous.

\* A worker that finds everyone counted has found everyone stopped: those at
\* the barrier and those before it are different workers.
LEMMA AllCounted ==
  ASSUME PairInv, NEW w \in Workers, spc[w] = "gathered",
         ~(count > seen[w] + workers_before_barrier)
  PROVE  \A u \in Workers : Stopped(u)
<1> USE DEF PairInv
<1>1. main_pc = "syncWait" /\ seen[w] <= workers_at_barrier
  BY DEF PairPlace, BeforeBarrier
<1>2. AtBarrier \cap Before = {}
  BY DEF AtBarrier, Before, BeforeBarrier, PairPlace
<1>3. Cardinality(AtBarrier \cup Before) = Cardinality(AtBarrier) + Cardinality(Before)
  <2>1. Cardinality(AtBarrier \cap Before) = 0
    BY <1>2, FS_EmptySet
  <2>2. Cardinality(AtBarrier \cup Before) =
          Cardinality(AtBarrier) + Cardinality(Before) - Cardinality(AtBarrier \cap Before)
    <3>1. IsFiniteSet(AtBarrier) /\ IsFiniteSet(Before)
      BY CountedSets, PairSets
    <3> QED
      BY <3>1, FS_Union
  <2> QED
    BY <2>1, <2>2, CountedSets, PairSets
<1>4. Cardinality(AtBarrier \cup Before) >= count
  BY <1>1, <1>3, CountedSets, PairSets DEF IInv, CountInv, PairCounts, PairTypes
<1>5. AtBarrier \cup Before = Workers
  <2>1. AtBarrier \cup Before \in SUBSET Workers
    BY DEF AtBarrier, Before
  <2>2. /\ Cardinality(AtBarrier \cup Before) <= count
        /\ Cardinality(AtBarrier \cup Before) = count => AtBarrier \cup Before = Workers
    BY <2>1, WorkersAssumption, FS_Subset DEF count
  <2> QED
    BY <1>3, <1>4, <2>2, CountedSets, PairSets
<1> QED
  BY <1>1, <1>5 DEF AtBarrier, Before, Stopped, IInv, PlaceInv

\* A worker is out of step only on its way to the barrier, which is asked for:
\* who polls it stops, and who has stopped stays.
LEMMA LoopKeepsRound ==
  ASSUME PairInv, RoundInv, NEW w \in Workers,
         SendPendingRpcRequests(w) \/ WorkerOther(w)
  PROVE  RoundInv'
<1> USE DEF PairInv
<1>1. WorkerStep(w) /\ spc[w] = "out"
  BY DEF SendPendingRpcRequests, WorkerOther, WorkerStep, LoopTop, WorkerGoto, PairPlace
<1>2. UNCHANGED spc
  BY DEF SendPendingRpcRequests, WorkerOther
<1>3. \A u \in Workers \ {w} : wpc'[u] = wpc[u] /\ calls'[u] = calls[u]
  BY <1>1, WorkerMoves DEF SendPendingRpcRequests, WorkerOther, PairTypes
<1>4. ASSUME NEW v \in Workers, Passed(v)
      PROVE  wait_at_barrier = 1
  BY <1>4 DEF Passed, PairPlace, BeforeBarrier, IInv, MainInv
<1>5. ASSUME NEW v \in Workers, Passed(v)
      PROVE  (Stopped(w) \/ HasLeft(w))'
  <2>1. Stopped(w) \/ HasLeft(w)
    BY <1>5 DEF RoundInv
  <2>2. wpc[w] \in {"enter", "top", "check", "run"}
    BY <1>1, <1>4, <1>5, <2>1, WorkerMoves DEF Stopped, HasLeft, BeforeBarrier
  <2> QED
    BY <1>1, <1>2, <1>4, <1>5, <2>1, <2>2, WorkerMoves
    DEF Stopped, HasLeft, BeforeBarrier
<1>6. \A u \in Workers \ {w} : (Stopped(u) \/ HasLeft(u)) => (Stopped(u) \/ HasLeft(u))'
  BY <1>2, <1>3 DEF Stopped, HasLeft
<1>7. \A u \in Workers : Passed(u)' <=> Passed(u)
  BY <1>2 DEF Passed
<1> QED
  BY <1>5, <1>6, <1>7 DEF RoundInv

\* The pair begins with everyone stopped, and who leaves it has been through it.
LEMMA PairKeepsRound ==
  ASSUME PairInv, RoundInv, NEW w \in Workers, WorkersSync(w) \/ PairStep(w)
  PROVE  RoundInv'
<1> USE DEF PairInv, SyncGoto, vars, mainVars, beforeVars, rpcVars
<1>1. /\ UNCHANGED <<wpc, wait_at_barrier>> /\ wpc[w] = "run"
      /\ \A u \in Workers \ {w} : spc'[u] = spc[u] /\ calls'[u] = calls[u]
  BY DEF WorkersSync, PairStep, SwapWaitBefore, RpcCallMainThread, PairTypes,
     WaitForBarrier, CountBefore, ReadAtBarrier, ReadBeforeBarrier,
     WorkersContinue, ReadDone, CompareDone, UncountDone, UncountBefore
<1>2. \A u \in Workers \ {w} :
        /\ (Stopped(u) \/ HasLeft(u)) => (Stopped(u) \/ HasLeft(u))'
        /\ Passed(u)' <=> Passed(u)
  BY <1>1 DEF Stopped, HasLeft, Passed
<1>3. ASSUME NEW v \in Workers, Passed(v)
      PROVE  wait_at_barrier = 1
  BY <1>3 DEF Passed, PairPlace, BeforeBarrier, IInv, MainInv
<1>4. CASE Passed(w)' /\ ~Passed(w)
  <2>1. spc[w] = "gathered" /\ ~(count > seen[w] + workers_before_barrier)
    BY <1>4 DEF Passed, WorkersSync, PairStep, SwapWaitBefore, RpcCallMainThread,
       PairTypes, WaitForBarrier, CountBefore, ReadAtBarrier, ReadBeforeBarrier,
       WorkersContinue, ReadDone, CompareDone, UncountDone, UncountBefore
  <2>2. \A u \in Workers : Stopped(u)
    BY <2>1, AllCounted
  <2>3. Stopped(w)'
    BY <1>4 DEF Passed, Stopped, BeforeBarrier
  <2> QED
    BY <1>2, <2>2, <2>3 DEF RoundInv
<1>5. CASE Passed(w)' => Passed(w)
  <2>1. ASSUME NEW v \in Workers, Passed(v)
        PROVE  (Stopped(w) \/ HasLeft(w))'
    <3>1. spc[w] \in BeforeBarrier \cup {"out", "wait", "count"}
      BY <1>1, <2>1 DEF RoundInv, Stopped, HasLeft
    <3>2. /\ spc'[w] \in BeforeBarrier \cup {"out", "wait", "count"}
          /\ calls'[w] > 0
      BY <1>3, <2>1, <3>1 DEF BeforeBarrier, PairPlace, PairTypes, WorkersSync,
         PairStep, SwapWaitBefore, RpcCallMainThread, WaitForBarrier, CountBefore,
         ReadAtBarrier, ReadBeforeBarrier, WorkersContinue, ReadDone, CompareDone,
         UncountDone, UncountBefore
    <3> QED
      BY <1>1, <3>2 DEF Stopped, HasLeft
  <2> QED
    BY <1>2, <1>5, <2>1 DEF RoundInv
<1> QED
  BY <1>4, <1>5
-----------------------------------------------------------------------------
\* The workers that ask for a barrier, and the RPC queue that carries their
\* request to main, leave the barrier what it is: the composition implements
\* WorkerBarrier, and so main is alone while it holds the barrier and no worker
\* dispatches with an outdated clone, the callers of vlib_workers_sync included.
THEOREM BarrierUnderSync ==
  SyncSpec => Spec /\ [](BarrierExclusion /\ NoStaleDispatch)
<1>1. SyncInit => Init
  BY DEF SyncInit
<1>2. SyncSpec => Spec
  BY <1>1, BarrierStep, PTL DEF SyncSpec, Spec
<1> QED
  BY <1>2, Exclusion, Refork, PTL

\* The invariant of the pair holds in every reachable state.
THEOREM PairInductive == SyncSpec => []PairInv
<1>1. SyncInit => PairInv
  BY InitPairInv
<1>2. PairInv /\ [SyncNext]_allVars => PairInv'
  <2> SUFFICES ASSUME PairInv, [SyncNext]_allVars PROVE PairInv'
    OBVIOUS
  <2>1. CASE SyncMainStep
    BY <2>1, MainKeepsPair
  <2>2. CASE \E w \in Workers : SendPendingRpcRequests(w) \/ WorkerOther(w)
    BY <2>2, LoopKeepsPair
  <2>3. CASE \E w \in Workers : WorkersSync(w) \/ PairStep(w)
    BY <2>3, PairKeepsPair
  <2>4. CASE UNCHANGED allVars
    <3>1. IInv'
      BY <2>4, BarrierKept DEF PairInv
    <3> QED
      BY <2>4, <3>1 DEF allVars, vars, mainVars, syncVars, beforeVars, rpcVars, PairInv,
         PairTypes, PairCounts, PairPlace, RpcInv, Before, DoneWork, Requesters
  <2> QED
    BY <2>1, <2>2, <2>3, <2>4 DEF SyncNext
<1> QED
  BY <1>1, <1>2, PTL DEF SyncSpec

\* The two counters of the pair count exactly the workers between their
\* increments and decrements, for any number of workers and of calls.
THEOREM SyncTypeCorrect == SyncSpec => []SyncTypeOK
<1>1. PairInv => SyncTypeOK
  BY DEF PairInv, PairTypes, PairCounts, Before, DoneWork, SyncTypeOK
<1> QED
  BY <1>1, PairInductive, PTL

\* Whenever wait_before_barrier is raised exactly one RPC is on its way to main
\* or in its hands: a vlib_workers_sync that finds the flag raised may rely on
\* the request of another.
THEOREM OneRpc == SyncSpec => []OneSyncRpc
<1>1. PairInv => OneSyncRpc
  BY DEF PairInv, RpcInv, Requesters, OneSyncRpc
<1> QED
  BY <1>1, PairInductive, PTL

\* While a worker does the work that it called vlib_workers_sync for, nobody
\* dispatches that has not been through the pair since it last polled the
\* barrier, for any number of workers and of calls in a loop.
THEOREM Rendezvous == SyncSpec => []SyncRendezvous
<1>1. SyncInit => PairInv /\ RoundInv
  BY InitPairInv
<1>2. PairInv /\ RoundInv /\ [SyncNext]_allVars => RoundInv'
  <2> SUFFICES ASSUME PairInv, RoundInv, [SyncNext]_allVars PROVE RoundInv'
    OBVIOUS
  <2>1. CASE SyncMainStep
    BY <2>1, MainLeavesPair DEF RoundInv, Passed, Stopped, HasLeft
  <2>2. CASE \E w \in Workers : SendPendingRpcRequests(w) \/ WorkerOther(w)
    BY <2>2, LoopKeepsRound
  <2>3. CASE \E w \in Workers : WorkersSync(w) \/ PairStep(w)
    BY <2>3, PairKeepsRound
  <2>4. CASE UNCHANGED allVars
    BY <2>4 DEF allVars, vars, mainVars, syncVars, beforeVars, rpcVars, RoundInv,
       Passed, Stopped, HasLeft
  <2> QED
    BY <2>1, <2>2, <2>3, <2>4 DEF SyncNext
<1>3. RoundInv => SyncRendezvous
  BY DEF RoundInv, SyncRendezvous, Passed
<1> QED
  BY <1>1, <1>2, <1>3, PairInductive, PTL DEF SyncSpec
=============================================================================
