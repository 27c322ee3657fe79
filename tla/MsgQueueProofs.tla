---------------------------- MODULE MsgQueueProofs ----------------------------
(***************************************************************************)
(* The counts of the message queue are safe for any number of producers,   *)
(* rings and slots, whoever dies: the argument is that a count only grows  *)
(* in the hands of the owner of the mutex and only shrinks in those of the *)
(* consumer, so what either has found stays true until it acts on it.      *)
(***************************************************************************)
EXTENDS MsgQueue, TLAPS

Types ==
  /\ mutex \in Threads \cup {Free, Dead}
  /\ qcursize \in 0..Maxsize
  /\ rcursize \in [Rings -> Int]
  /\ ppc \in [Producers -> ProducerPC]
  /\ pring \in [Producers -> Rings]
  /\ cpc \in ConsumerPC
  /\ cn \in Nat

\* Who is past a lock holds it.
MutexInv ==
  /\ \A p \in Producers : ppc[p] \in Locked => mutex = p
  /\ cpc \in {"waitTest", "timedTest", "sigCast"} => mutex = Consumer

\* What a producer found stays true until it publishes.
RoomInv ==
  /\ \A r \in Rings : rcursize[r] <= Nitems[r]
  /\ \A p \in Producers : ppc[p] \in {"fill", "add", "publish"} => qcursize < Maxsize

\* What the consumer found stays true until it counts.
TakeInv ==
  /\ cpc \in {"sub", "subDec"} => qcursize > 0
  /\ cpc = "batchDec" => cn <= qcursize

\* A timed wait that is signalled finds a message.
TimedInv ==
  /\ cpc = "timedAsleep" /\ Consumer \notin waiting => qcursize > 0
  /\ \A p \in Producers : cpc = "timedAsleep" /\ ppc[p] = "signal" => qcursize > 0

IInv == Types /\ MutexInv /\ RoomInv /\ TakeInv /\ TimedInv
-----------------------------------------------------------------------------
\* svm_msg_q_init leaves an empty queue and empty rings.
LEMMA InitIInv == Init => IInv
<1> SUFFICES ASSUME Init PROVE IInv
  OBVIOUS
<1>1. AnyRing \in Rings
  BY SizesAssumption DEF AnyRing
<1>2. Types
  BY <1>1, SizesAssumption DEF Init, Types, ProducerPC, ConsumerPC
<1>3. MutexInv /\ TakeInv /\ TimedInv
  BY DEF Init, MutexInv, TakeInv, TimedInv, Locked
<1>4. RoomInv
  BY SizesAssumption DEF Init, RoomInv
<1> QED
  BY <1>2, <1>3, <1>4 DEF IInv

\* A producer is neither the consumer nor one of the two marks of the mutex.
LEMMA Distinct ==
  ASSUME NEW p \in Producers
  PROVE  /\ p # Consumer /\ p # Free /\ p # Dead
         /\ Consumer # Free /\ Consumer # Dead
BY ThreadsAssumption DEF Threads

\* No step of a producer breaks the invariant.
LEMMA ProducerPreserves ==
  ASSUME IInv, NEW p \in Producers, Lock(p) \/ ProducerStep(p) \/ Crash(p)
  PROVE  IInv'
<1> USE DEF IInv, ProducerGoto, producerVars, consumerVars, queueVars, ringVars
<1>a. Maxsize \in Nat \ {0} /\ Nitems \in [Rings -> Nat \ {0}]
  BY SizesAssumption
<1>1. CASE Lock(p)
  <2>1. Types'
    BY <1>1, <1>a DEF Lock, Types, Threads, ProducerPC, RoomInv
  <2>2. MutexInv'
    BY <1>1, Distinct DEF Lock, MutexInv, Types, Locked
  <2>3. RoomInv'
    BY <1>1, <1>a DEF Lock, RoomInv, Types, OrRingIsFull
  <2>4. TakeInv'
    BY <1>1, <1>a DEF Lock, TakeInv, Types
  <2>5. TimedInv'
    BY <1>1, <1>a DEF Lock, TimedInv, Types
  <2> QED
    BY <2>1, <2>2, <2>3, <2>4, <2>5
<1>2. CASE Refused(p)
  <2>1. Types'
    BY <1>2, <1>a DEF Refused, Types, Threads, ProducerPC, RoomInv
  <2>2. MutexInv'
    BY <1>2, Distinct DEF Refused, MutexInv, Types, Locked
  <2>3. RoomInv'
    BY <1>2, <1>a DEF Refused, RoomInv, Types, OrRingIsFull
  <2>4. TakeInv'
    BY <1>2, <1>a DEF Refused, TakeInv, Types
  <2>5. TimedInv'
    BY <1>2, <1>a DEF Refused, TimedInv, Types
  <2> QED
    BY <2>1, <2>2, <2>3, <2>4, <2>5
<1>3. CASE OrRingWaitProd(p)
  <2>1. Types'
    BY <1>3, <1>a DEF OrRingWaitProd, Types, Threads, ProducerPC, RoomInv
  <2>2. MutexInv'
    BY <1>3, Distinct DEF OrRingWaitProd, MutexInv, Types, Locked
  <2>3. RoomInv'
    BY <1>3, <1>a DEF OrRingWaitProd, RoomInv, Types, OrRingIsFull
  <2>4. TakeInv'
    BY <1>3, <1>a DEF OrRingWaitProd, TakeInv, Types
  <2>5. TimedInv'
    BY <1>3, <1>a DEF OrRingWaitProd, TimedInv, Types
  <2> QED
    BY <2>1, <2>2, <2>3, <2>4, <2>5
<1>4. CASE Woken(p)
  <2>1. Types'
    BY <1>4, <1>a DEF Woken, Types, Threads, ProducerPC, RoomInv
  <2>2. MutexInv'
    BY <1>4, Distinct DEF Woken, MutexInv, Types, Locked
  <2>3. RoomInv'
    BY <1>4, <1>a DEF Woken, RoomInv, Types, OrRingIsFull
  <2>4. TakeInv'
    BY <1>4, <1>a DEF Woken, TakeInv, Types
  <2>5. TimedInv'
    BY <1>4, <1>a DEF Woken, TimedInv, Types
  <2> QED
    BY <2>1, <2>2, <2>3, <2>4, <2>5
<1>5. CASE AllocMsgWRing(p)
  <2>1. Types'
    BY <1>5, <1>a DEF AllocMsgWRing, Types, Threads, ProducerPC, RoomInv
  <2>2. MutexInv'
    BY <1>5, Distinct DEF AllocMsgWRing, MutexInv, Types, Locked
  <2>3. RoomInv'
    <3> DEFINE r == pring[p]
    <3>1. r \in Rings /\ rcursize[r] < Nitems[r] /\ qcursize < Maxsize
      <4>1. r \in Rings /\ rcursize \in [Rings -> Int] /\ qcursize \in 0..Maxsize
        BY DEF Types
      <4>2. ~(qcursize = Maxsize \/ rcursize[r] >= Nitems[r])
        BY <1>5 DEF AllocMsgWRing, OrRingIsFull
      <4>3. rcursize[r] \in Int /\ Nitems[r] \in Nat
        BY <1>a, <4>1
      <4> QED
        BY <1>a, <4>1, <4>2, <4>3
    <3>2. \A s \in Rings : rcursize'[s] = IF s = r THEN rcursize[s] + 1 ELSE rcursize[s]
      <4>1. rcursize' = [rcursize EXCEPT ![r] = @ + 1]
        BY <1>5 DEF AllocMsgWRing
      <4> QED
        BY <4>1 DEF Types
    <3>3. \A s \in Rings : rcursize'[s] <= Nitems[s]
      BY <1>a, <3>1, <3>2 DEF Types, RoomInv
    <3> QED
      BY <1>5, <3>1, <3>3 DEF AllocMsgWRing, Types, RoomInv
  <2>4. TakeInv'
    BY <1>5, <1>a DEF AllocMsgWRing, TakeInv, Types
  <2>5. TimedInv'
    BY <1>5, <1>a DEF AllocMsgWRing, TimedInv, Types
  <2> QED
    BY <2>1, <2>2, <2>3, <2>4, <2>5
<1>6. CASE FillMsg(p)
  <2>1. Types'
    BY <1>6, <1>a DEF FillMsg, Types, Threads, ProducerPC, RoomInv
  <2>2. MutexInv'
    BY <1>6, Distinct DEF FillMsg, MutexInv, Types, Locked
  <2>3. RoomInv'
    BY <1>6, <1>a DEF FillMsg, RoomInv, Types, OrRingIsFull
  <2>4. TakeInv'
    BY <1>6, <1>a DEF FillMsg, TakeInv, Types
  <2>5. TimedInv'
    BY <1>6, <1>a DEF FillMsg, TimedInv, Types
  <2> QED
    BY <2>1, <2>2, <2>3, <2>4, <2>5
<1>7. CASE AddRaw(p)
  <2>1. Types'
    BY <1>7, <1>a DEF AddRaw, Types, Threads, ProducerPC, RoomInv
  <2>2. MutexInv'
    BY <1>7, Distinct DEF AddRaw, MutexInv, Types, Locked
  <2>3. RoomInv'
    BY <1>7, <1>a DEF AddRaw, RoomInv, Types, OrRingIsFull
  <2>4. TakeInv'
    BY <1>7, <1>a DEF AddRaw, TakeInv, Types
  <2>5. TimedInv'
    BY <1>7, <1>a DEF AddRaw, TimedInv, Types
  <2> QED
    BY <2>1, <2>2, <2>3, <2>4, <2>5
<1>8. CASE Publish(p)
  <2>1. Types'
    BY <1>8, <1>a DEF Publish, Types, Threads, ProducerPC, RoomInv
  <2>2. MutexInv'
    BY <1>8, Distinct DEF Publish, MutexInv, Types, Locked
  <2>3. RoomInv'
    <3>1. \A q \in Producers : q # p => ppc[q] \notin {"fill", "add", "publish"}
      BY <1>8 DEF Publish, MutexInv, Locked
    <3> QED
      BY <1>8, <1>a, <3>1 DEF Publish, RoomInv, Types
  <2>4. TakeInv'
    BY <1>8, <1>a DEF Publish, TakeInv, Types
  <2>5. TimedInv'
    BY <1>8, <1>a DEF Publish, TimedInv, Types
  <2> QED
    BY <2>1, <2>2, <2>3, <2>4, <2>5
<1>9. CASE SendSignal(p)
  <2>1. Types'
    BY <1>9, <1>a DEF SendSignal, Types, Threads, ProducerPC, RoomInv
  <2>2. MutexInv'
    BY <1>9, Distinct DEF SendSignal, MutexInv, Types, Locked
  <2>3. RoomInv'
    BY <1>9, <1>a DEF SendSignal, RoomInv, Types, OrRingIsFull
  <2>4. TakeInv'
    BY <1>9, <1>a DEF SendSignal, TakeInv, Types
  <2>5. TimedInv'
    BY <1>9, <1>a DEF SendSignal, TimedInv, Types
  <2> QED
    BY <2>1, <2>2, <2>3, <2>4, <2>5
<1>10. CASE Unlock(p)
  <2>1. Types'
    BY <1>10, <1>a DEF Unlock, Types, Threads, ProducerPC, RoomInv
  <2>2. MutexInv'
    BY <1>10, Distinct DEF Unlock, MutexInv, Types, Locked
  <2>3. RoomInv'
    BY <1>10, <1>a DEF Unlock, RoomInv, Types, OrRingIsFull
  <2>4. TakeInv'
    BY <1>10, <1>a DEF Unlock, TakeInv, Types
  <2>5. TimedInv'
    BY <1>10, <1>a DEF Unlock, TimedInv, Types
  <2> QED
    BY <2>1, <2>2, <2>3, <2>4, <2>5
<1>11. CASE Crash(p)
  <2>1. Types'
    BY <1>11, <1>a DEF Crash, Types, Threads, ProducerPC, RoomInv
  <2>2. MutexInv'
    BY <1>11, Distinct DEF Crash, MutexInv, Types, Locked
  <2>3. RoomInv'
    BY <1>11, <1>a DEF Crash, RoomInv, Types, OrRingIsFull
  <2>4. TakeInv'
    BY <1>11, <1>a DEF Crash, TakeInv, Types
  <2>5. TimedInv'
    BY <1>11, <1>a DEF Crash, TimedInv, Types
  <2> QED
    BY <2>1, <2>2, <2>3, <2>4, <2>5
<1> QED
  BY <1>1, <1>2, <1>3, <1>4, <1>5, <1>6, <1>7, <1>8, <1>9, <1>10, <1>11
  DEF ProducerStep

\* No step of the consumer breaks the invariant, unless a timed wait may end
\* without a signal.
LEMMA ConsumerPreserves ==
  ASSUME IInv, Sub \/ SubRawBatch \/ FreeMsg \/ ConsumerStep
  PROVE  IInv'
<1> USE DEF IInv, ConsumerGoto, producerVars, consumerVars, queueVars, ringVars
<1>a. Maxsize \in Nat \ {0} /\ MaxBatch \in Nat \ {0}
  BY SizesAssumption
<1>1. CASE Sub
  <2>1. Types'
    BY <1>1, <1>a DEF Sub, Types, Threads, ConsumerPC, TakeInv
  <2>2. MutexInv'
    BY <1>1, Distinct DEF Sub, MutexInv, Types, Locked
  <2>3. RoomInv'
    BY <1>1, <1>a DEF Sub, RoomInv, Types, TakeInv
  <2>4. TakeInv'
    BY <1>1, <1>a DEF Sub, TakeInv, Types, TimedInv
  <2>5. TimedInv'
    BY <1>1, ModesAssumption DEF Sub, TimedInv, Types
  <2> QED
    BY <2>1, <2>2, <2>3, <2>4, <2>5
<1>2. CASE WaitLock
  <2>1. Types'
    BY <1>2, <1>a DEF WaitLock, Types, Threads, ConsumerPC, TakeInv
  <2>2. MutexInv'
    BY <1>2, Distinct DEF WaitLock, MutexInv, Types, Locked
  <2>3. RoomInv'
    BY <1>2, <1>a DEF WaitLock, RoomInv, Types, TakeInv
  <2>4. TakeInv'
    BY <1>2, <1>a DEF WaitLock, TakeInv, Types, TimedInv
  <2>5. TimedInv'
    BY <1>2, ModesAssumption DEF WaitLock, TimedInv, Types
  <2> QED
    BY <2>1, <2>2, <2>3, <2>4, <2>5
<1>3. CASE WaitTest
  <2>1. Types'
    BY <1>3, <1>a DEF WaitTest, Types, Threads, ConsumerPC, TakeInv
  <2>2. MutexInv'
    BY <1>3, Distinct DEF WaitTest, MutexInv, Types, Locked
  <2>3. RoomInv'
    BY <1>3, <1>a DEF WaitTest, RoomInv, Types, TakeInv
  <2>4. TakeInv'
    BY <1>3, <1>a DEF WaitTest, TakeInv, Types, TimedInv
  <2>5. TimedInv'
    BY <1>3, ModesAssumption DEF WaitTest, TimedInv, Types
  <2> QED
    BY <2>1, <2>2, <2>3, <2>4, <2>5
<1>4. CASE WaitWoken
  <2>1. Types'
    BY <1>4, <1>a DEF WaitWoken, Types, Threads, ConsumerPC, TakeInv
  <2>2. MutexInv'
    BY <1>4, Distinct DEF WaitWoken, MutexInv, Types, Locked
  <2>3. RoomInv'
    BY <1>4, <1>a DEF WaitWoken, RoomInv, Types, TakeInv
  <2>4. TakeInv'
    BY <1>4, <1>a DEF WaitWoken, TakeInv, Types, TimedInv
  <2>5. TimedInv'
    BY <1>4, ModesAssumption DEF WaitWoken, TimedInv, Types
  <2> QED
    BY <2>1, <2>2, <2>3, <2>4, <2>5
<1>5. CASE TimedLock
  <2>1. Types'
    BY <1>5, <1>a DEF TimedLock, Types, Threads, ConsumerPC, TakeInv
  <2>2. MutexInv'
    BY <1>5, Distinct DEF TimedLock, MutexInv, Types, Locked
  <2>3. RoomInv'
    BY <1>5, <1>a DEF TimedLock, RoomInv, Types, TakeInv
  <2>4. TakeInv'
    BY <1>5, <1>a DEF TimedLock, TakeInv, Types, TimedInv
  <2>5. TimedInv'
    BY <1>5, ModesAssumption DEF TimedLock, TimedInv, Types
  <2> QED
    BY <2>1, <2>2, <2>3, <2>4, <2>5
<1>6. CASE TimedTest
  <2>1. Types'
    BY <1>6, <1>a DEF TimedTest, Types, Threads, ConsumerPC, TakeInv
  <2>2. MutexInv'
    BY <1>6, Distinct DEF TimedTest, MutexInv, Types, Locked
  <2>3. RoomInv'
    BY <1>6, <1>a DEF TimedTest, RoomInv, Types, TakeInv
  <2>4. TakeInv'
    BY <1>6, <1>a DEF TimedTest, TakeInv, Types, TimedInv
  <2>5. TimedInv'
    <3>1. \A p \in Producers : ppc[p] # "signal"
      BY <1>6, Distinct DEF TimedTest, MutexInv, Locked
    <3> QED
      BY <1>6, <3>1 DEF TimedTest, TimedInv, Types
  <2> QED
    BY <2>1, <2>2, <2>3, <2>4, <2>5
<1>7. CASE TimedWoken
  <2>1. Types'
    BY <1>7, <1>a DEF TimedWoken, Types, Threads, ConsumerPC, TakeInv
  <2>2. MutexInv'
    BY <1>7, Distinct DEF TimedWoken, MutexInv, Types, Locked
  <2>3. RoomInv'
    BY <1>7, <1>a DEF TimedWoken, RoomInv, Types, TakeInv
  <2>4. TakeInv'
    BY <1>7, <1>a DEF TimedWoken, TakeInv, Types, TimedInv
  <2>5. TimedInv'
    BY <1>7, ModesAssumption DEF TimedWoken, TimedInv, Types
  <2> QED
    BY <2>1, <2>2, <2>3, <2>4, <2>5
<1>8. CASE TimedOut
  <2>1. Types'
    BY <1>8, <1>a DEF TimedOut, Types, Threads, ConsumerPC, TakeInv
  <2>2. MutexInv'
    BY <1>8, Distinct DEF TimedOut, MutexInv, Types, Locked
  <2>3. RoomInv'
    BY <1>8, <1>a DEF TimedOut, RoomInv, Types, TakeInv
  <2>4. TakeInv'
    BY <1>8, <1>a DEF TimedOut, TakeInv, Types, TimedInv
  <2>5. TimedInv'
    BY <1>8, ModesAssumption DEF TimedOut, TimedInv, Types
  <2> QED
    BY <2>1, <2>2, <2>3, <2>4, <2>5
<1>9. CASE SubRaw
  <2>1. Types'
    BY <1>9, <1>a DEF SubRaw, Types, Threads, ConsumerPC, TakeInv
  <2>2. MutexInv'
    BY <1>9, Distinct DEF SubRaw, MutexInv, Types, Locked
  <2>3. RoomInv'
    BY <1>9, <1>a DEF SubRaw, RoomInv, Types, TakeInv
  <2>4. TakeInv'
    BY <1>9, <1>a DEF SubRaw, TakeInv, Types, TimedInv
  <2>5. TimedInv'
    BY <1>9, ModesAssumption DEF SubRaw, TimedInv, Types
  <2> QED
    BY <2>1, <2>2, <2>3, <2>4, <2>5
<1>10. CASE SubRawDec
  <2>1. Types'
    BY <1>10, <1>a DEF SubRawDec, Types, Threads, ConsumerPC, TakeInv
  <2>2. MutexInv'
    BY <1>10, Distinct DEF SubRawDec, MutexInv, Types, Locked
  <2>3. RoomInv'
    BY <1>10, <1>a DEF SubRawDec, RoomInv, Types, TakeInv
  <2>4. TakeInv'
    BY <1>10, <1>a DEF SubRawDec, TakeInv, Types, TimedInv
  <2>5. TimedInv'
    BY <1>10, ModesAssumption DEF SubRawDec, TimedInv, Types
  <2> QED
    BY <2>1, <2>2, <2>3, <2>4, <2>5
<1>11. CASE SubRawBatch
  <2>1. Types'
    BY <1>11, <1>a DEF SubRawBatch, Types, Threads, ConsumerPC, TakeInv
  <2>2. MutexInv'
    BY <1>11, Distinct DEF SubRawBatch, MutexInv, Types, Locked
  <2>3. RoomInv'
    BY <1>11, <1>a DEF SubRawBatch, RoomInv, Types, TakeInv
  <2>4. TakeInv'
    BY <1>11, <1>a DEF SubRawBatch, TakeInv, Types, TimedInv
  <2>5. TimedInv'
    BY <1>11, ModesAssumption DEF SubRawBatch, TimedInv, Types
  <2> QED
    BY <2>1, <2>2, <2>3, <2>4, <2>5
<1>12. CASE SubRawBatchDec
  <2>1. Types'
    BY <1>12, <1>a DEF SubRawBatchDec, Types, Threads, ConsumerPC, TakeInv
  <2>2. MutexInv'
    BY <1>12, Distinct DEF SubRawBatchDec, MutexInv, Types, Locked
  <2>3. RoomInv'
    BY <1>12, <1>a DEF SubRawBatchDec, RoomInv, Types, TakeInv
  <2>4. TakeInv'
    BY <1>12, <1>a DEF SubRawBatchDec, TakeInv, Types, TimedInv
  <2>5. TimedInv'
    BY <1>12, ModesAssumption DEF SubRawBatchDec, TimedInv, Types
  <2> QED
    BY <2>1, <2>2, <2>3, <2>4, <2>5
<1>13. CASE FreeMsg
  <2>1. Types'
    BY <1>13, <1>a DEF FreeMsg, Types, Threads, ConsumerPC, TakeInv
  <2>2. MutexInv'
    BY <1>13, Distinct DEF FreeMsg, MutexInv, Types, Locked
  <2>3. RoomInv'
    BY <1>13, <1>a DEF FreeMsg, RoomInv, Types, TakeInv
  <2>4. TakeInv'
    BY <1>13, <1>a DEF FreeMsg, TakeInv, Types, TimedInv
  <2>5. TimedInv'
    BY <1>13, ModesAssumption DEF FreeMsg, TimedInv, Types
  <2> QED
    BY <2>1, <2>2, <2>3, <2>4, <2>5
<1>14. CASE FreeMsgDec
  <2>0. /\ rcursize' \in [Rings -> Int]
        /\ \A r \in Rings : rcursize'[r] = IF r = cring THEN rcursize[r] - 1 ELSE rcursize[r]
    <3>1. rcursize' = [rcursize EXCEPT ![cring] = @ - 1]
      BY <1>14 DEF FreeMsgDec
    <3>2. rcursize \in [Rings -> Int]
      BY DEF Types
    <3>3. CASE cring \in Rings
      BY <3>1, <3>2, <3>3
    <3>4. CASE cring \notin Rings
      BY <3>1, <3>2, <3>4
    <3> QED
      BY <3>3, <3>4
  <2>1. Types'
    BY <1>14, <1>a, <2>0 DEF FreeMsgDec, Types, ConsumerPC
  <2>2. MutexInv'
    BY <1>14, Distinct DEF FreeMsgDec, MutexInv, Types, Locked
  <2>3. RoomInv'
    BY <1>14, <2>0, SizesAssumption DEF FreeMsgDec, RoomInv, Types
  <2>4. TakeInv'
    BY <1>14, <1>a DEF FreeMsgDec, TakeInv, Types, TimedInv
  <2>5. TimedInv'
    BY <1>14, ModesAssumption DEF FreeMsgDec, TimedInv, Types
  <2> QED
    BY <2>1, <2>2, <2>3, <2>4, <2>5
<1>15. CASE SigLock
  <2>1. Types'
    BY <1>15, <1>a DEF SigLock, Types, Threads, ConsumerPC, TakeInv
  <2>2. MutexInv'
    BY <1>15, Distinct DEF SigLock, MutexInv, Types, Locked
  <2>3. RoomInv'
    BY <1>15, <1>a DEF SigLock, RoomInv, Types, TakeInv
  <2>4. TakeInv'
    BY <1>15, <1>a DEF SigLock, TakeInv, Types, TimedInv
  <2>5. TimedInv'
    BY <1>15, ModesAssumption DEF SigLock, TimedInv, Types
  <2> QED
    BY <2>1, <2>2, <2>3, <2>4, <2>5
<1>16. CASE SigCast
  <2>1. Types'
    BY <1>16, <1>a DEF SigCast, Types, Threads, ConsumerPC, TakeInv
  <2>2. MutexInv'
    BY <1>16, Distinct DEF SigCast, MutexInv, Types, Locked
  <2>3. RoomInv'
    BY <1>16, <1>a DEF SigCast, RoomInv, Types, TakeInv
  <2>4. TakeInv'
    BY <1>16, <1>a DEF SigCast, TakeInv, Types, TimedInv
  <2>5. TimedInv'
    BY <1>16, ModesAssumption DEF SigCast, TimedInv, Types
  <2> QED
    BY <2>1, <2>2, <2>3, <2>4, <2>5
<1> QED
  BY <1>1, <1>2, <1>3, <1>4, <1>5, <1>6, <1>7, <1>8, <1>9, <1>10, <1>11, <1>12, <1>13, <1>14, <1>15, <1>16
  DEF ConsumerStep

\* Nor does a wake-up without a signal, when it is not of a timed wait.
LEMMA SpuriousPreserves ==
  ASSUME IInv, "timed" \notin Spurious, NEW t \in Threads, SpuriousWake(t)
  PROVE  IInv'
<1> USE DEF IInv, SpuriousWake, producerVars, consumerVars, queueVars, ringVars
<1>1. cpc = "timedAsleep" => t # Consumer
  BY ThreadsAssumption
<1>2. TimedInv'
  BY <1>1 DEF TimedInv
<1> QED
  BY <1>2 DEF Types, MutexInv, RoomInv, TakeInv

\* The invariant holds in every reachable state.
LEMMA Inductive ==
  ASSUME "timed" \notin Spurious
  PROVE  Spec => []IInv
<1>1. Init => IInv
  BY InitIInv
<1>2. IInv /\ [Next]_vars => IInv'
  <2> SUFFICES ASSUME IInv, [Next]_vars PROVE IInv'
    OBVIOUS
  <2>1. CASE \E p \in Producers : Lock(p) \/ ProducerStep(p) \/ Crash(p)
    BY <2>1, ProducerPreserves
  <2>2. CASE Sub \/ SubRawBatch \/ FreeMsg \/ ConsumerStep
    BY <2>2, ConsumerPreserves
  <2>3. CASE \E t \in Threads : SpuriousWake(t)
    BY <2>3, SpuriousPreserves
  <2>4. CASE UNCHANGED vars
    BY <2>4 DEF vars, producerVars, consumerVars, queueVars, ringVars, IInv,
       Types, MutexInv, RoomInv, TakeInv, TimedInv
  <2> QED
    BY <2>1, <2>2, <2>3, <2>4 DEF Next
<1> QED
  BY <1>1, <1>2, PTL DEF Spec

\* No operation runs past the queue or a ring, for any number of producers and
\* any sizes, and even if producers die with the mutex held.
THEOREM NoOverrunCorrect ==
  ASSUME "timed" \notin Spurious
  PROVE  Spec => []NoOverrun
<1>1. IInv => NoOverrun
  BY DEF IInv, Types, RoomInv, NoOverrun
<1> QED
  BY <1>1, Inductive, PTL

\* svm_msg_q_sub_raw is never called on an empty queue, except after a timed
\* wait that the condvar ended without a signal.
THEOREM SubNotEmptyCorrect ==
  ASSUME "timed" \notin Spurious
  PROVE  Spec => []SubNotEmpty
<1>1. IInv => SubNotEmpty
  BY DEF IInv, TakeInv, SubNotEmpty
<1> QED
  BY <1>1, Inductive, PTL
=============================================================================
