------------------------- MODULE WorkerBarrierProofs -------------------------
(***************************************************************************)
(* The barrier is correct for any finite set of workers and any depth of   *)
(* nesting.  The inductive invariant ties the two shared counters to the   *)
(* places where the workers are; none of the safety invariants is          *)
(* inductive without those counts.                                         *)
(***************************************************************************)
EXTENDS WorkerBarrier, FiniteSetTheorems, TLAPS

\* The workers that workers_at_barrier counts.
AtBarrier == {w \in Workers : wpc[w] \in {"parked", "leave"}}

\* The workers that still owe the refork of the release in progress.
Owing == {w \in Workers :
            wpc[w] \in {"parked", "leave", "reforkCheck", "reforkDec"}}

Types ==
  /\ wait_at_barrier \in {0, 1}
  /\ recursion_level \in 0..MaxRecursion
  /\ need_update \in BOOLEAN
  /\ refork_needed \in BOOLEAN
  /\ phase = "run"
  /\ main_pc \in MainPC \ {"initWait"}
  /\ wpc \in [Workers -> WorkerPC \ {"boot", "bootParked", "bootLeave"}]
  /\ stale \subseteq Workers
  /\ looped \subseteq Workers

\* The flag and the locals of main, by where main is.
MainInv ==
  /\ wait_at_barrier = 1 <=> main_pc \in {"syncWait", "closed", "relOpen"}
  /\ refork_needed => main_pc \in {"relOpen", "relWait", "reforkWait"}
  /\ main_pc = "reforkWait" => refork_needed

\* Where a worker can be, by where main is.
PlaceInv(w) ==
  /\ wpc[w] = "enter" => main_pc = "syncWait"
  /\ wpc[w] = "parked" => main_pc \in {"syncWait", "closed", "relOpen", "relWait"}
  /\ wpc[w] = "leave" => main_pc = "relWait"
  /\ main_pc \in {"closed", "relOpen"} => wpc[w] = "parked"
  /\ wpc[w] = "reforkDec" => refork_needed

CountInv ==
  /\ workers_at_barrier = Cardinality(AtBarrier)
  /\ refork_needed => /\ node_reforks_required = Cardinality(Owing)
                      /\ stale = Owing
  /\ ~refork_needed => node_reforks_required = 0 /\ stale = {}

IInv == Types /\ MainInv /\ (\A w \in Workers : PlaceInv(w)) /\ CountInv
-----------------------------------------------------------------------------
\* Both sets are finite, so their cardinalities are numbers that only zero
\* and the number of workers characterise as "nobody" and "everybody".
LEMMA CountedSets ==
  /\ IsFiniteSet(AtBarrier) /\ IsFiniteSet(Owing)
  /\ Cardinality(AtBarrier) \in 0..count
  /\ Cardinality(Owing) \in 0..count
  /\ Cardinality(AtBarrier) = count => AtBarrier = Workers
  /\ Cardinality(AtBarrier) = 0 => AtBarrier = {}
  /\ Cardinality(Owing) = 0 => Owing = {}
<1>1. AtBarrier \in SUBSET Workers /\ Owing \in SUBSET Workers
  BY DEF AtBarrier, Owing
<1>2. IsFiniteSet(Workers)
  BY WorkersAssumption
<1>3. /\ IsFiniteSet(AtBarrier)
      /\ Cardinality(AtBarrier) <= count
      /\ Cardinality(AtBarrier) = count => AtBarrier = Workers
  BY <1>1, <1>2, FS_Subset DEF count
<1>4. IsFiniteSet(Owing) /\ Cardinality(Owing) <= count
  BY <1>1, <1>2, FS_Subset DEF count
<1>5. /\ Cardinality(AtBarrier) \in Nat
      /\ Cardinality(Owing) \in Nat
      /\ count \in Nat
  BY <1>2, <1>3, <1>4, FS_CardinalityType DEF count
<1> QED
  BY <1>3, <1>4, <1>5, FS_EmptySet

\* A process in service starts with nobody at the barrier.
LEMMA InitIInv == Init => IInv
<1> SUFFICES ASSUME Init PROVE IInv
  OBVIOUS
<1>1. AtBarrier = {}
  BY DEF Init, AtBarrier
<1>2. Cardinality(AtBarrier) = 0
  BY <1>1, FS_EmptySet
<1>3. Types
  <2>1. wpc \in [Workers -> WorkerPC \ {"boot", "bootParked", "bootLeave"}]
    BY DEF Init, WorkerPC
  <2>2. recursion_level \in 0..MaxRecursion
    BY MaxRecursionAssumption DEF Init
  <2> QED
    BY <2>1, <2>2 DEF Init, Types, MainPC
<1>5. MainInv
  BY DEF Init, MainInv
<1>4. \A w \in Workers : PlaceInv(w)
  BY DEF Init, PlaceInv
<1> QED
  BY <1>2, <1>3, <1>4, <1>5 DEF IInv, CountInv, Init

\* No step of the main thread breaks the invariant.
LEMMA MainPreserves == IInv /\ MainStep => IInv'
<1> SUFFICES ASSUME IInv, MainStep PROVE IInv'
  OBVIOUS
<1> USE DEF IInv
<1>0. wpc' = wpc /\ AtBarrier' = AtBarrier /\ Owing' = Owing
  BY DEF MainStep, BarrierSync, BarrierClosed, NodeRuntimeUpdate,
     BarrierReleaseInner, BarrierRelease, BarrierOpen, BarrierDrained,
     ReforksDone, InitialSync, InitialRelease, WaitOneLoop, WaitOneLoopDone,
     AtBarrier, Owing
<1>1. CASE BarrierSync
  <2>1. recursion_level' \in 0..MaxRecursion
    BY <1>1, MaxRecursionAssumption DEF BarrierSync, Types
  <2>2. Types'
    BY <1>0, <1>1, <2>1 DEF BarrierSync, Types, MainPC
  <2>3. MainInv'
    BY <1>1 DEF BarrierSync, Types, MainInv
  <2>4. (\A w \in Workers : PlaceInv(w))'
    BY <1>0, <1>1 DEF BarrierSync, PlaceInv
  <2>5. CountInv'
    BY <1>0, <1>1 DEF BarrierSync, CountInv
  <2> QED
    BY <2>2, <2>3, <2>4, <2>5
<1>2. CASE BarrierClosed
  <2>1. AtBarrier = Workers
    BY <1>2, CountedSets DEF BarrierClosed, CountInv
  <2>2. \A w \in Workers : wpc[w] = "parked"
    BY <1>2, <2>1 DEF BarrierClosed, AtBarrier, PlaceInv
  <2>3. (\A w \in Workers : PlaceInv(w))'
    BY <1>0, <1>2, <2>2 DEF BarrierClosed, PlaceInv
  <2>4. CountInv'
    BY <1>0, <1>2 DEF BarrierClosed, CountInv
  <2>5. Types' /\ MainInv'
    BY <1>0, <1>2 DEF BarrierClosed, Types, MainInv, MainPC
  <2> QED
    BY <2>3, <2>4, <2>5
<1>3. CASE NodeRuntimeUpdate
  BY <1>0, <1>3 DEF NodeRuntimeUpdate, Types, MainInv, PlaceInv, CountInv
<1>4. CASE BarrierReleaseInner
  BY <1>0, <1>4, MaxRecursionAssumption
  DEF BarrierReleaseInner, Types, MainInv, PlaceInv, CountInv
<1>5. CASE BarrierRelease
  <2>1. Owing = Workers /\ node_reforks_required = 0 /\ stale = {}
    BY <1>5 DEF BarrierRelease, Owing, PlaceInv, MainInv, CountInv
  <2>2. count \in Nat
    BY WorkersAssumption, FS_CardinalityType DEF count
  <2>3. CountInv'
    BY <1>0, <1>5, <2>1, <2>2 DEF BarrierRelease, CountInv, Types, count
  <2>4. Types' /\ MainInv'
    <3>1. recursion_level' \in 0..MaxRecursion
      BY <1>5, MaxRecursionAssumption DEF BarrierRelease
    <3>2. stale' \subseteq Workers
      BY <1>5 DEF BarrierRelease, Types
    <3>3. MainInv'
      BY <1>5 DEF BarrierRelease, MainInv
    <3> QED
      BY <1>0, <1>5, <3>1, <3>2, <3>3 DEF BarrierRelease, Types, MainPC
  <2>5. (\A w \in Workers : PlaceInv(w))'
    BY <1>0, <1>5 DEF BarrierRelease, PlaceInv
  <2> QED
    BY <2>3, <2>4, <2>5
<1>6. CASE BarrierOpen
  BY <1>0, <1>6 DEF BarrierOpen, Types, MainInv, PlaceInv, CountInv, MainPC
<1>7. CASE BarrierDrained
  <2>1. AtBarrier = {}
    BY <1>7, CountedSets DEF BarrierDrained, CountInv
  <2>2. \A w \in Workers : wpc[w] \notin {"parked", "leave", "enter"}
    BY <1>7, <2>1 DEF BarrierDrained, AtBarrier, PlaceInv
  <2>3. (\A w \in Workers : PlaceInv(w))'
    BY <1>0, <1>7, <2>2 DEF BarrierDrained, PlaceInv
  <2> QED
    BY <1>0, <1>7, <2>3 DEF BarrierDrained, Types, MainInv, CountInv, MainPC
<1>8. CASE ReforksDone
  <2>1. Owing = {}
    BY <1>8, CountedSets DEF ReforksDone, CountInv, MainInv
  <2>2. (\A w \in Workers : PlaceInv(w))'
    BY <1>0, <1>8, <2>1 DEF ReforksDone, PlaceInv, Owing
  <2>3. CountInv'
    BY <1>0, <1>8, <2>1 DEF ReforksDone, CountInv, MainInv
  <2> QED
    BY <1>0, <1>8, <2>2, <2>3 DEF ReforksDone, Types, MainInv, MainPC
<1>9. CASE InitialSync
  BY <1>9 DEF InitialSync, Types
<1>10. CASE InitialRelease
  BY <1>10 DEF InitialRelease, Types
<1>11. CASE WaitOneLoop
  BY <1>0, <1>11 DEF WaitOneLoop, Types, MainInv, PlaceInv, CountInv, MainPC
<1>12. CASE WaitOneLoopDone
  BY <1>0, <1>12 DEF WaitOneLoopDone, Types, MainInv, PlaceInv, CountInv, MainPC
<1> QED
  BY <1>1, <1>2, <1>3, <1>4, <1>5, <1>6, <1>7, <1>8, <1>9, <1>10, <1>11, <1>12
  DEF MainStep

\* A step of a worker between two places that count alike keeps both sets.
LEMMA Uncounted ==
  ASSUME IInv, NEW w \in Workers, NEW p, NEW q, WorkerGoto(w, p, q),
         p \in {"parked", "leave"} <=> q \in {"parked", "leave"},
         p \in {"parked", "leave", "reforkCheck", "reforkDec"}
           <=> q \in {"parked", "leave", "reforkCheck", "reforkDec"}
  PROVE  AtBarrier' = AtBarrier /\ Owing' = Owing
BY DEF IInv, Types, WorkerGoto, AtBarrier, Owing

\* No step of a worker breaks the invariant.
LEMMA WorkerPreserves ==
  ASSUME IInv, NEW w \in Workers, WorkerStep(w)
  PROVE  IInv'
<1> USE DEF IInv, WorkerUnchanged, mainVars, WorkerGoto
<1>1. CASE BootEnter(w)
  BY <1>1 DEF BootEnter, Types
<1>2. CASE BootLeaveSpin(w)
  BY <1>2 DEF BootLeaveSpin, Types
<1>3. CASE BootLeave(w)
  BY <1>3 DEF BootLeave, Types
<1>4. CASE LoopTop(w)
  <2>1. AtBarrier' = AtBarrier /\ Owing' = Owing
    BY <1>4, Uncounted DEF LoopTop
  <2> QED
    BY <1>4, <2>1 DEF LoopTop, Types, MainInv, PlaceInv, CountInv, WorkerPC
<1>5. CASE BarrierCheck(w)
  <2>1. AtBarrier' = AtBarrier /\ Owing' = Owing
    BY <1>5, Uncounted DEF BarrierCheck
  <2>2. main_pc \notin {"closed", "relOpen"}
    BY <1>5 DEF BarrierCheck, PlaceInv
  <2>3. wpc'[w] = "enter" => main_pc = "syncWait"
    BY <1>5, <2>2 DEF BarrierCheck, MainInv, Types
  <2>4. (\A v \in Workers : PlaceInv(v))'
    BY <1>5, <2>2, <2>3 DEF BarrierCheck, PlaceInv, Types
  <2> QED
    BY <1>5, <2>1, <2>4 DEF BarrierCheck, Types, MainInv, CountInv, WorkerPC
<1>6. CASE BarrierEnter(w)
  <2>1. main_pc = "syncWait" /\ ~refork_needed
    BY <1>6 DEF BarrierEnter, PlaceInv, MainInv
  <2>2. AtBarrier' = AtBarrier \cup {w} /\ w \notin AtBarrier
    BY <1>6 DEF BarrierEnter, AtBarrier, Types
  <2>3. workers_at_barrier' = Cardinality(AtBarrier')
    BY <1>6, <2>2, CountedSets, FS_AddElement DEF BarrierEnter, CountInv
  <2>4. (\A v \in Workers : PlaceInv(v))'
    BY <1>6, <2>1 DEF BarrierEnter, PlaceInv, Types
  <2> QED
    BY <1>6, <2>1, <2>3, <2>4 DEF BarrierEnter, Types, MainInv, CountInv, WorkerPC
<1>7. CASE BarrierLeaveSpin(w)
  <2>1. AtBarrier' = AtBarrier /\ Owing' = Owing
    BY <1>7, Uncounted DEF BarrierLeaveSpin
  <2>2. main_pc = "relWait"
    BY <1>7 DEF BarrierLeaveSpin, PlaceInv, MainInv
  <2>3. (\A v \in Workers : PlaceInv(v))'
    BY <1>7, <2>2 DEF BarrierLeaveSpin, PlaceInv, Types
  <2> QED
    BY <1>7, <2>1, <2>3 DEF BarrierLeaveSpin, Types, MainInv, CountInv, WorkerPC
<1>8. CASE BarrierLeave(w)
  <2>1. AtBarrier' = AtBarrier \ {w} /\ w \in AtBarrier /\ Owing' = Owing
    BY <1>8 DEF BarrierLeave, AtBarrier, Owing, Types
  <2>2. workers_at_barrier' = Cardinality(AtBarrier')
    BY <1>8, <2>1, CountedSets, FS_RemoveElement DEF BarrierLeave, CountInv
  <2>3. (\A v \in Workers : PlaceInv(v))'
    BY <1>8 DEF BarrierLeave, PlaceInv, Types
  <2> QED
    BY <1>8, <2>1, <2>2, <2>3 DEF BarrierLeave, Types, MainInv, CountInv, WorkerPC
<1>9. CASE ReforkCheck(w)
  <2>1. w \in Owing /\ main_pc \notin {"closed", "relOpen"}
    BY <1>9 DEF ReforkCheck, Owing, PlaceInv
  <2>2. node_reforks_required # 0 <=> refork_needed
    BY <2>1, CountedSets, FS_EmptySet DEF CountInv
  <2>3. (\A v \in Workers : PlaceInv(v))'
    BY <1>9, <2>1, <2>2 DEF ReforkCheck, PlaceInv, Types
  <2>4. AtBarrier' = AtBarrier /\ (refork_needed => Owing' = Owing)
    BY <1>9, <2>2 DEF ReforkCheck, AtBarrier, Owing, Types
  <2> QED
    BY <1>9, <2>3, <2>4 DEF ReforkCheck, Types, MainInv, CountInv, WorkerPC
<1>10. CASE ReforkDec(w)
  <2>1. refork_needed /\ main_pc \notin {"closed", "relOpen"}
    BY <1>10 DEF ReforkDec, NodeRefork, PlaceInv
  <2>2. AtBarrier' = AtBarrier /\ Owing' = Owing \ {w} /\ w \in Owing
    BY <1>10 DEF ReforkDec, NodeRefork, AtBarrier, Owing, Types
  <2>3. node_reforks_required' = Cardinality(Owing')
    BY <1>10, <2>1, <2>2, CountedSets, FS_RemoveElement DEF ReforkDec, NodeRefork, CountInv
  <2>4. CountInv'
    BY <1>10, <2>1, <2>2, <2>3 DEF ReforkDec, NodeRefork, CountInv
  <2>5. (\A v \in Workers : PlaceInv(v))'
    BY <1>10, <2>1 DEF ReforkDec, NodeRefork, PlaceInv, Types
  <2> QED
    BY <1>10, <2>4, <2>5 DEF ReforkDec, NodeRefork, Types, MainInv, WorkerPC
<1>11. CASE ReforkSpin(w)
  <2>1. AtBarrier' = AtBarrier /\ Owing' = Owing
    BY <1>11, Uncounted DEF ReforkSpin
  <2> QED
    BY <1>11, <2>1 DEF ReforkSpin, Types, MainInv, PlaceInv, CountInv, WorkerPC
<1>12. CASE EndLoop(w)
  <2>1. AtBarrier' = AtBarrier /\ Owing' = Owing
    BY <1>12, Uncounted DEF EndLoop
  <2> QED
    BY <1>12, <2>1 DEF EndLoop, Types, MainInv, PlaceInv, CountInv, WorkerPC
<1>13. CASE CheckInHandoff(w)
  <2>1. AtBarrier' = AtBarrier /\ Owing' = Owing
    BY <1>13, Uncounted DEF CheckInHandoff
  <2> QED
    BY <1>13, <2>1 DEF CheckInHandoff, Types, MainInv, PlaceInv, CountInv, WorkerPC
<1> QED
  BY <1>1, <1>2, <1>3, <1>4, <1>5, <1>6, <1>7, <1>8, <1>9, <1>10, <1>11, <1>12,
     <1>13 DEF WorkerStep

\* The invariant holds in every reachable state.
THEOREM Inductive == Spec => []IInv
<1>1. Init => IInv
  BY InitIInv
<1>2. IInv /\ [Next]_vars => IInv'
  <2> SUFFICES ASSUME IInv, [Next]_vars PROVE IInv'
    OBVIOUS
  <2>1. CASE MainStep
    BY <2>1, MainPreserves
  <2>2. CASE \E w \in Workers : WorkerStep(w)
    BY <2>2, WorkerPreserves
  <2>3. CASE UNCHANGED vars
    BY <2>3 DEF vars, mainVars, IInv, Types, MainInv, PlaceInv, CountInv,
       AtBarrier, Owing
  <2> QED
    BY <2>1, <2>2, <2>3 DEF Next
<1> QED
  BY <1>1, <1>2, PTL DEF Spec

\* The counters of the barrier stay within the number of workers and every
\* other variable keeps its type, for any number of workers.
THEOREM TypeCorrect == Spec => []TypeOK
<1>1. IInv => TypeOK
  <2> SUFFICES ASSUME IInv PROVE TypeOK
    OBVIOUS
  <2>1. workers_at_barrier \in 0..count
    BY CountedSets DEF IInv, CountInv
  <2>2. count \in Nat
    BY WorkersAssumption, FS_CardinalityType DEF count
  <2>3. node_reforks_required \in 0..count
    BY <2>2, CountedSets DEF IInv, CountInv, Types
  <2> QED
    BY <2>1, <2>3 DEF IInv, Types, TypeOK
<1> QED
  BY <1>1, Inductive, PTL

\* While main holds the barrier every worker is parked, for any number of
\* workers: vlib_worker_thread_barrier_sync_int returns only when all are.
THEOREM Exclusion == Spec => []BarrierExclusion
<1>1. IInv => BarrierExclusion
  BY DEF IInv, PlaceInv, BarrierExclusion
<1> QED
  BY <1>1, Inductive, PTL

\* No worker dispatches with an outdated clone of the graph.
THEOREM Refork == Spec => []NoStaleDispatch
<1>1. IInv => NoStaleDispatch
  BY DEF IInv, CountInv, Owing, NoStaleDispatch
<1> QED
  BY <1>1, Inductive, PTL

\* A release that changed the graph does not return before every worker has
\* its new clone.
THEOREM ReforkComplete == Spec => []ReforkBeforeReturn
<1>1. IInv => ReforkBeforeReturn
  BY DEF IInv, MainInv, CountInv, ReforkBeforeReturn
<1> QED
  BY <1>1, Inductive, PTL
-----------------------------------------------------------------------------
(* From start-up into service.  The workers first park in a barrier of their *)
(* own, and main's second release does not wait for them to leave.           *)

\* The workers that workers_at_barrier counts, start-up included.
Counted == {w \in Workers : wpc[w] \in {"bootParked", "bootLeave", "parked", "leave"}}

BootTypes ==
  /\ wait_at_barrier \in {0, 1}
  /\ recursion_level \in 0..MaxRecursion
  /\ need_update \in BOOLEAN
  /\ refork_needed \in BOOLEAN
  /\ phase \in {"start", "enter", "run"}
  /\ main_pc \in MainPC
  /\ wpc \in [Workers -> WorkerPC]
  /\ stale \subseteq Workers
  /\ looped \subseteq Workers

\* As MainInv; nothing is reforked before the first release has returned.
BootMain ==
  /\ wait_at_barrier = 1 <=> main_pc \in {"syncWait", "closed", "relOpen", "initWait"}
  /\ refork_needed => main_pc \in {"relOpen", "relWait", "reforkWait"}
  /\ main_pc = "reforkWait" => refork_needed
  /\ phase = "start" => /\ main_pc \in {"syncWait", "closed", "relOpen", "relWait"}
                        /\ ~need_update /\ ~refork_needed
  /\ main_pc = "initWait" => phase = "enter"

\* As PlaceInv; workers may still leave when main is back in its loop.
BootPlace(w) ==
  LET late == phase = "run" /\ main_pc \in {"loop", "waitLoop"}
  IN /\ wpc[w] = "boot" => phase = "start" /\ main_pc = "syncWait"
     /\ wpc[w] = "bootParked" => phase = "start"
     /\ wpc[w] = "bootLeave" => phase = "start" /\ main_pc = "relWait"
     /\ wpc[w] = "enter" => main_pc \in {"syncWait", "initWait"}
     /\ wpc[w] = "parked" =>
          main_pc \in {"syncWait", "closed", "relOpen", "relWait", "initWait"} \/ late
     /\ wpc[w] = "leave" => main_pc = "relWait" \/ late
     /\ main_pc \in {"closed", "relOpen"} => wpc[w] \in {"parked", "bootParked"}
     /\ wpc[w] = "reforkDec" => refork_needed

BootCount ==
  /\ workers_at_barrier = Cardinality(Counted)
  /\ refork_needed => /\ node_reforks_required = Cardinality(Owing)
                      /\ stale = Owing
  /\ ~refork_needed => node_reforks_required = 0 /\ stale = {}

BootInv == BootTypes /\ BootMain /\ (\A w \in Workers : BootPlace(w)) /\ BootCount

LEMMA BootSets ==
  /\ IsFiniteSet(Counted) /\ IsFiniteSet(Owing)
  /\ Cardinality(Counted) \in 0..count
  /\ Cardinality(Owing) \in 0..count
  /\ Cardinality(Counted) = count => Counted = Workers
  /\ Cardinality(Counted) = 0 => Counted = {}
  /\ Cardinality(Owing) = 0 => Owing = {}
<1>1. Counted \in SUBSET Workers
  BY DEF Counted
<1>2. IsFiniteSet(Workers)
  BY WorkersAssumption
<1>3. /\ IsFiniteSet(Counted)
      /\ Cardinality(Counted) <= count
      /\ Cardinality(Counted) = count => Counted = Workers
  BY <1>1, <1>2, FS_Subset DEF count
<1>4. Cardinality(Counted) \in Nat /\ count \in Nat
  BY <1>2, <1>3, FS_CardinalityType DEF count
<1> QED
  BY <1>3, <1>4, FS_EmptySet, CountedSets

LEMMA InitBootInv == InitBoot => BootInv
<1> SUFFICES ASSUME InitBoot PROVE BootInv
  OBVIOUS
<1>1. Counted = {}
  BY DEF InitBoot, Counted
<1>2. Cardinality(Counted) = 0
  BY <1>1, FS_EmptySet
<1>3. BootTypes
  <2>1. wpc \in [Workers -> WorkerPC]
    BY DEF InitBoot, WorkerPC
  <2>2. recursion_level \in 0..MaxRecursion
    BY MaxRecursionAssumption DEF InitBoot
  <2> QED
    BY <2>1, <2>2 DEF InitBoot, BootTypes, MainPC
<1>4. BootMain
  BY DEF InitBoot, BootMain
<1>5. \A w \in Workers : BootPlace(w)
  BY DEF InitBoot, BootPlace
<1> QED
  BY <1>2, <1>3, <1>4, <1>5 DEF BootInv, BootCount, InitBoot

\* No step of the main thread breaks it, when main's first sync after its
\* initial release comes after the workers have left.
LEMMA BootMainStep ==
  ASSUME BootInv, MainStep,
         phase = "run" /\ main_pc = "loop" /\ BarrierSync => workers_at_barrier = 0
  PROVE  BootInv'
<1> USE DEF BootInv
<1>0. wpc' = wpc /\ Counted' = Counted /\ Owing' = Owing
  BY DEF MainStep, BarrierSync, BarrierClosed, NodeRuntimeUpdate,
     BarrierReleaseInner, BarrierRelease, BarrierOpen, BarrierDrained,
     ReforksDone, InitialSync, InitialRelease, WaitOneLoop, WaitOneLoopDone,
     Counted, Owing
<1>1. CASE BarrierSync
  <2>1. recursion_level' \in 0..MaxRecursion
    BY <1>1, MaxRecursionAssumption DEF BarrierSync, BootTypes
  <2>2. BootTypes'
    BY <1>0, <1>1, <2>1 DEF BarrierSync, BootTypes, MainPC
  <2>3. BootMain'
    BY <1>1 DEF BarrierSync, BootTypes, BootMain
  <2>4. main_pc = "loop" => \A w \in Workers : wpc[w] \notin {"parked", "leave"}
    <3>1. CASE main_pc = "loop" /\ phase = "run"
      <4>1. Counted = {}
        BY <1>1, <3>1, BootSets DEF BootCount
      <4> QED
        BY <4>1 DEF Counted
    <3>2. CASE main_pc = "loop" /\ phase # "run"
      BY <3>2 DEF BootPlace
    <3> QED
      BY <3>1, <3>2
  <2>5. (\A w \in Workers : BootPlace(w))'
    BY <1>0, <1>1, <2>4 DEF BarrierSync, BootPlace, BootMain
  <2>6. BootCount'
    BY <1>0, <1>1 DEF BarrierSync, BootCount
  <2> QED
    BY <2>2, <2>3, <2>5, <2>6
<1>2. CASE BarrierClosed
  <2>1. Counted = Workers
    BY <1>2, BootSets DEF BarrierClosed, BootCount
  <2>2. \A w \in Workers : wpc[w] \in {"parked", "bootParked"}
    BY <1>2, <2>1 DEF BarrierClosed, Counted, BootPlace
  <2>3. (\A w \in Workers : BootPlace(w))'
    BY <1>0, <1>2, <2>2 DEF BarrierClosed, BootPlace
  <2>4. BootCount'
    BY <1>0, <1>2 DEF BarrierClosed, BootCount
  <2>5. BootTypes' /\ BootMain'
    BY <1>0, <1>2 DEF BarrierClosed, BootTypes, BootMain, MainPC
  <2> QED
    BY <2>3, <2>4, <2>5
<1>3. CASE NodeRuntimeUpdate
  BY <1>0, <1>3 DEF NodeRuntimeUpdate, BootTypes, BootMain, BootPlace, BootCount
<1>4. CASE BarrierReleaseInner
  BY <1>0, <1>4, MaxRecursionAssumption
  DEF BarrierReleaseInner, BootTypes, BootMain, BootPlace, BootCount
<1>5. CASE BarrierRelease
  <2>1. node_reforks_required = 0 /\ stale = {}
    BY <1>5 DEF BarrierRelease, BootMain, BootCount
  <2>2. need_update => Owing = Workers
    BY <1>5 DEF BarrierRelease, Owing, BootPlace, BootMain
  <2>3. count \in Nat
    BY WorkersAssumption, FS_CardinalityType DEF count
  <2>4. BootCount'
    BY <1>0, <1>5, <2>1, <2>2, <2>3 DEF BarrierRelease, BootCount, BootTypes, count
  <2>5. BootTypes'
    <3>1. recursion_level' \in 0..MaxRecursion
      BY <1>5, MaxRecursionAssumption DEF BarrierRelease
    <3>2. stale' \subseteq Workers
      BY <1>5 DEF BarrierRelease, BootTypes
    <3> QED
      BY <1>0, <1>5, <3>1, <3>2 DEF BarrierRelease, BootTypes, MainPC
  <2>6. BootMain'
    BY <1>5 DEF BarrierRelease, BootMain, BootTypes
  <2>7. (\A w \in Workers : BootPlace(w))'
    BY <1>0, <1>5 DEF BarrierRelease, BootPlace
  <2> QED
    BY <2>4, <2>5, <2>6, <2>7
<1>6. CASE BarrierOpen
  <2>1. (\A w \in Workers : BootPlace(w))'
    BY <1>0, <1>6 DEF BarrierOpen, BootPlace
  <2> QED
    BY <1>0, <1>6, <2>1 DEF BarrierOpen, BootTypes, BootMain, BootCount, MainPC
<1>7. CASE BarrierDrained
  <2>1. Counted = {}
    BY <1>7, BootSets DEF BarrierDrained, BootCount
  <2>2. \A w \in Workers :
          wpc[w] \notin {"parked", "leave", "enter", "boot", "bootParked", "bootLeave"}
    BY <1>7, <2>1 DEF BarrierDrained, Counted, BootPlace
  <2>3. (\A w \in Workers : BootPlace(w))'
    BY <1>0, <1>7, <2>2 DEF BarrierDrained, BootPlace
  <2>4. BootMain'
    BY <1>7 DEF BarrierDrained, BootMain, BootTypes
  <2> QED
    BY <1>0, <1>7, <2>3, <2>4 DEF BarrierDrained, BootTypes, BootCount, MainPC
<1>8. CASE ReforksDone
  <2>1. Owing = {}
    BY <1>8, BootSets DEF ReforksDone, BootCount, BootMain
  <2>2. (\A w \in Workers : BootPlace(w))'
    BY <1>0, <1>8, <2>1 DEF ReforksDone, BootPlace, Owing
  <2>3. BootCount'
    BY <1>0, <1>8, <2>1 DEF ReforksDone, BootCount, BootMain
  <2> QED
    BY <1>0, <1>8, <2>2, <2>3 DEF ReforksDone, BootTypes, BootMain, MainPC
<1>9. CASE InitialSync
  <2>1. (\A w \in Workers : BootPlace(w))'
    BY <1>0, <1>9 DEF InitialSync, BootPlace
  <2> QED
    BY <1>0, <1>9, <2>1 DEF InitialSync, BootTypes, BootMain, BootCount, MainPC
<1>10. CASE InitialRelease
  <2>1. Counted = Workers /\ phase = "enter"
    BY <1>10, BootSets DEF InitialRelease, BootCount, BootMain
  <2>2. \A w \in Workers : wpc[w] = "parked"
    BY <1>10, <2>1 DEF InitialRelease, Counted, BootPlace
  <2>3. (\A w \in Workers : BootPlace(w))'
    BY <1>0, <1>10, <2>2 DEF InitialRelease, BootPlace
  <2> QED
    BY <1>0, <1>10, <2>3 DEF InitialRelease, BootTypes, BootMain, BootCount, MainPC
<1>11. CASE WaitOneLoop
  <2>1. (\A w \in Workers : BootPlace(w))'
    BY <1>0, <1>11 DEF WaitOneLoop, BootPlace
  <2> QED
    BY <1>0, <1>11, <2>1 DEF WaitOneLoop, BootTypes, BootMain, BootCount, MainPC
<1>12. CASE WaitOneLoopDone
  <2>1. (\A w \in Workers : BootPlace(w))'
    BY <1>0, <1>12 DEF WaitOneLoopDone, BootPlace
  <2> QED
    BY <1>0, <1>12, <2>1 DEF WaitOneLoopDone, BootTypes, BootMain, BootCount, MainPC
<1> QED
  BY <1>1, <1>2, <1>3, <1>4, <1>5, <1>6, <1>7, <1>8, <1>9, <1>10, <1>11, <1>12
  DEF MainStep

LEMMA BootUncounted ==
  ASSUME BootInv, NEW w \in Workers, NEW p, NEW q, WorkerGoto(w, p, q),
         p \in {"bootParked", "bootLeave", "parked", "leave"}
           <=> q \in {"bootParked", "bootLeave", "parked", "leave"},
         p \in {"parked", "leave", "reforkCheck", "reforkDec"}
           <=> q \in {"parked", "leave", "reforkCheck", "reforkDec"}
  PROVE  Counted' = Counted /\ Owing' = Owing
BY DEF BootInv, BootTypes, WorkerGoto, Counted, Owing

LEMMA BootWorkerStep ==
  ASSUME BootInv, NEW w \in Workers, WorkerStep(w)
  PROVE  BootInv'
<1> USE DEF BootInv, WorkerUnchanged, mainVars, WorkerGoto
<1>1. CASE BootEnter(w)
  <2>1. Counted' = Counted \cup {w} /\ w \notin Counted /\ Owing' = Owing
    BY <1>1 DEF BootEnter, Counted, Owing, BootTypes
  <2>2. workers_at_barrier' = Cardinality(Counted')
    BY <1>1, <2>1, BootSets, FS_AddElement DEF BootEnter, BootCount
  <2>3. (\A v \in Workers : BootPlace(v))'
    BY <1>1 DEF BootEnter, BootPlace, BootTypes
  <2> QED
    BY <1>1, <2>1, <2>2, <2>3 DEF BootEnter, BootTypes, BootMain, BootCount, WorkerPC
<1>2. CASE BootLeaveSpin(w)
  <2>1. Counted' = Counted /\ Owing' = Owing
    BY <1>2, BootUncounted DEF BootLeaveSpin
  <2>2. phase = "start" /\ main_pc = "relWait"
    BY <1>2 DEF BootLeaveSpin, BootPlace, BootMain
  <2>3. (\A v \in Workers : BootPlace(v))'
    BY <1>2, <2>2 DEF BootLeaveSpin, BootPlace, BootTypes
  <2> QED
    BY <1>2, <2>1, <2>3 DEF BootLeaveSpin, BootTypes, BootMain, BootCount, WorkerPC
<1>3. CASE BootLeave(w)
  <2>1. Counted' = Counted \ {w} /\ w \in Counted /\ Owing' = Owing
    BY <1>3 DEF BootLeave, Counted, Owing, BootTypes
  <2>2. workers_at_barrier' = Cardinality(Counted')
    BY <1>3, <2>1, BootSets, FS_RemoveElement DEF BootLeave, BootCount
  <2>3. (\A v \in Workers : BootPlace(v))'
    BY <1>3 DEF BootLeave, BootPlace, BootTypes
  <2> QED
    BY <1>3, <2>1, <2>2, <2>3 DEF BootLeave, BootTypes, BootMain, BootCount, WorkerPC
<1>4. CASE LoopTop(w)
  <2>1. Counted' = Counted /\ Owing' = Owing
    BY <1>4, BootUncounted DEF LoopTop
  <2>2. (\A v \in Workers : BootPlace(v))'
    BY <1>4 DEF LoopTop, BootPlace, BootTypes
  <2> QED
    BY <1>4, <2>1, <2>2 DEF LoopTop, BootTypes, BootMain, BootCount, WorkerPC
<1>5. CASE BarrierCheck(w)
  <2>1. Counted' = Counted /\ Owing' = Owing
    BY <1>5, BootUncounted DEF BarrierCheck
  <2>2. main_pc \notin {"closed", "relOpen"}
    BY <1>5 DEF BarrierCheck, BootPlace
  <2>3. wpc'[w] = "enter" => main_pc \in {"syncWait", "initWait"}
    BY <1>5, <2>2 DEF BarrierCheck, BootMain, BootTypes
  <2>4. (\A v \in Workers : BootPlace(v))'
    BY <1>5, <2>2, <2>3 DEF BarrierCheck, BootPlace, BootTypes
  <2> QED
    BY <1>5, <2>1, <2>4 DEF BarrierCheck, BootTypes, BootMain, BootCount, WorkerPC
<1>6. CASE BarrierEnter(w)
  <2>1. main_pc \in {"syncWait", "initWait"} /\ ~refork_needed
    BY <1>6 DEF BarrierEnter, BootPlace, BootMain
  <2>2. Counted' = Counted \cup {w} /\ w \notin Counted
    BY <1>6 DEF BarrierEnter, Counted, BootTypes
  <2>3. workers_at_barrier' = Cardinality(Counted')
    BY <1>6, <2>2, BootSets, FS_AddElement DEF BarrierEnter, BootCount
  <2>4. (\A v \in Workers : BootPlace(v))'
    BY <1>6, <2>1 DEF BarrierEnter, BootPlace, BootTypes
  <2> QED
    BY <1>6, <2>1, <2>3, <2>4 DEF BarrierEnter, BootTypes, BootMain, BootCount, WorkerPC
<1>7. CASE BarrierLeaveSpin(w)
  <2>1. Counted' = Counted /\ Owing' = Owing
    BY <1>7, BootUncounted DEF BarrierLeaveSpin
  <2>2. main_pc = "relWait" \/ (phase = "run" /\ main_pc \in {"loop", "waitLoop"})
    BY <1>7 DEF BarrierLeaveSpin, BootPlace, BootMain
  <2>3. (\A v \in Workers : BootPlace(v))'
    BY <1>7, <2>2 DEF BarrierLeaveSpin, BootPlace, BootTypes
  <2> QED
    BY <1>7, <2>1, <2>3 DEF BarrierLeaveSpin, BootTypes, BootMain, BootCount, WorkerPC
<1>8. CASE BarrierLeave(w)
  <2>1. Counted' = Counted \ {w} /\ w \in Counted /\ Owing' = Owing
    BY <1>8 DEF BarrierLeave, Counted, Owing, BootTypes
  <2>2. workers_at_barrier' = Cardinality(Counted')
    BY <1>8, <2>1, BootSets, FS_RemoveElement DEF BarrierLeave, BootCount
  <2>3. (\A v \in Workers : BootPlace(v))'
    BY <1>8 DEF BarrierLeave, BootPlace, BootTypes
  <2> QED
    BY <1>8, <2>1, <2>2, <2>3 DEF BarrierLeave, BootTypes, BootMain, BootCount, WorkerPC
<1>9. CASE ReforkCheck(w)
  <2>1. w \in Owing /\ main_pc \notin {"closed", "relOpen"}
    BY <1>9 DEF ReforkCheck, Owing, BootPlace
  <2>2. node_reforks_required # 0 <=> refork_needed
    BY <2>1, BootSets, FS_EmptySet DEF BootCount
  <2>3. (\A v \in Workers : BootPlace(v))'
    BY <1>9, <2>1, <2>2 DEF ReforkCheck, BootPlace, BootTypes
  <2>4. Counted' = Counted /\ (refork_needed => Owing' = Owing)
    BY <1>9, <2>2 DEF ReforkCheck, Counted, Owing, BootTypes
  <2> QED
    BY <1>9, <2>3, <2>4 DEF ReforkCheck, BootTypes, BootMain, BootCount, WorkerPC
<1>10. CASE ReforkDec(w)
  <2>1. refork_needed /\ main_pc \notin {"closed", "relOpen"}
    BY <1>10 DEF ReforkDec, NodeRefork, BootPlace
  <2>2. Counted' = Counted /\ Owing' = Owing \ {w} /\ w \in Owing
    BY <1>10 DEF ReforkDec, NodeRefork, Counted, Owing, BootTypes
  <2>3. node_reforks_required' = Cardinality(Owing')
    BY <1>10, <2>1, <2>2, BootSets, FS_RemoveElement DEF ReforkDec, NodeRefork, BootCount
  <2>4. BootCount'
    BY <1>10, <2>1, <2>2, <2>3 DEF ReforkDec, NodeRefork, BootCount
  <2>5. (\A v \in Workers : BootPlace(v))'
    BY <1>10, <2>1 DEF ReforkDec, NodeRefork, BootPlace, BootTypes
  <2> QED
    BY <1>10, <2>4, <2>5 DEF ReforkDec, NodeRefork, BootTypes, BootMain, WorkerPC
<1>11. CASE ReforkSpin(w) \/ EndLoop(w) \/ CheckInHandoff(w)
  <2>1. Counted' = Counted /\ Owing' = Owing
    BY <1>11, BootUncounted DEF ReforkSpin, EndLoop, CheckInHandoff
  <2>2. (\A v \in Workers : BootPlace(v))'
    BY <1>11 DEF ReforkSpin, EndLoop, CheckInHandoff, BootPlace, BootTypes
  <2> QED
    BY <1>11, <2>1, <2>2
    DEF ReforkSpin, EndLoop, CheckInHandoff, BootTypes, BootMain, BootCount, WorkerPC
<1> QED
  BY <1>1, <1>2, <1>3, <1>4, <1>5, <1>6, <1>7, <1>8, <1>9, <1>10, <1>11 DEF WorkerStep

\* From the creation of the threads on, through the barrier that the workers
\* enter at start-up and main's two first releases, main holds the barrier only
\* while every worker is parked, and clones are as current as in service, for
\* any number of workers; main's first sync of its own has to come after the
\* workers have left the initial barrier.
THEOREM StartUp ==
  BootSpec => [](TypeOK /\ BarrierExclusion /\ NoStaleDispatch /\ ReforkBeforeReturn)
<1>1. BootInv /\ [BootNext]_vars => BootInv'
  <2> SUFFICES ASSUME BootInv, [BootNext]_vars PROVE BootInv'
    OBVIOUS
  <2>1. CASE BootNext
    BY <2>1, BootMainStep, BootWorkerStep DEF BootNext, Next
  <2>2. CASE UNCHANGED vars
    BY <2>2 DEF vars, mainVars, BootInv, BootTypes, BootMain, BootPlace, BootCount, Counted, Owing
  <2> QED
    BY <2>1, <2>2
<1>2. BootInv => TypeOK /\ BarrierExclusion /\ NoStaleDispatch /\ ReforkBeforeReturn
  <2> SUFFICES ASSUME BootInv
               PROVE  TypeOK /\ BarrierExclusion /\ NoStaleDispatch /\ ReforkBeforeReturn
    OBVIOUS
  <2>1. count \in Nat
    BY WorkersAssumption, FS_CardinalityType DEF count
  <2>2. workers_at_barrier \in 0..count /\ node_reforks_required \in 0..count
    BY <2>1, BootSets DEF BootInv, BootCount, BootTypes
  <2>3. TypeOK
    BY <2>2 DEF BootInv, BootTypes, TypeOK
  <2>4. BarrierExclusion
    BY DEF BootInv, BootPlace, BarrierExclusion
  <2>5. NoStaleDispatch
    BY DEF BootInv, BootCount, Owing, NoStaleDispatch
  <2>6. ReforkBeforeReturn
    BY DEF BootInv, BootMain, BootCount, ReforkBeforeReturn
  <2> QED
    BY <2>3, <2>4, <2>5, <2>6
<1> QED
  BY <1>1, <1>2, InitBootInv, PTL DEF BootSpec
=============================================================================
