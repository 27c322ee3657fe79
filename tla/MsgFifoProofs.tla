---------------------------- MODULE MsgFifoProofs ----------------------------
(***************************************************************************)
(* The message queue is a FIFO, for any number of producers, rings and     *)
(* slots, as long as no producer dies with the mutex held.                 *)
(*                                                                         *)
(* The argument is about the line of live messages: those the consumer     *)
(* holds, then the entries of the queue, then the one being sent.  The     *)
(* slots of a ring are in the line in the order of the ring, from its head *)
(* to its tail, so a free always finds its message at the head and no slot *)
(* is given away twice.                                                    *)
(***************************************************************************)
EXTENDS MsgQueueProofs, SequenceTheorems

Message == {m \in Rings \X Nat : m[2] \in Slots(m[1])}
Filling == {"fill", "add", "publish"}

\* The entries of the queue that the consumer has not copied.
QLen == qcursize - copied
Entry(k) == qdata[(qhead + k - 1) % Maxsize]

\* The slots of a ring in use; a free counts once the head has moved.
Cnt(r) == rcursize[r] - (IF cpc = "freeDec" /\ cring = r THEN 1 ELSE 0)
Off(r, e) == IF e >= rhead[r] THEN e - rhead[r] ELSE e - rhead[r] + Nitems[r]

\* Message m is at place i of the line.
At(i, m) ==
  \/ i \in 1..Len(held) /\ m = held[i]
  \/ \E k \in 1..QLen : i = Len(held) + k /\ m = Entry(k)
  \/ \E p \in Producers : /\ ppc[p] \in Filling
                          /\ i = Len(held) + QLen + 1 /\ m = <<pring[p], pelt[p]>>

LineTypes ==
  /\ qhead \in 0..(Maxsize - 1) /\ qtail \in 0..(Maxsize - 1)
  /\ qdata \in [0..(Maxsize - 1) -> Message \cup {NoData}]
  /\ rhead \in [Rings -> Nat] /\ rtail \in [Rings -> Nat]
  /\ \A r \in Rings : rhead[r] \in Slots(r) /\ rtail[r] \in Slots(r)
  /\ rdata = [r \in Rings |-> [e \in Slots(r) |-> rdata[r][e]]]
  /\ waiting \subseteq Threads
  /\ pwait \in [Producers -> BOOLEAN]
  /\ pelt \in [Producers -> Nat]
  /\ \A p \in Producers : pelt[p] \in AnySlot
  /\ sent \in [Producers -> 0..MaxMsgs]
  /\ held \in Seq(Message) /\ Len(held) <= MaxHeld
  /\ csz \in 0..Maxsize /\ cring \in Rings /\ cneed \in BOOLEAN
  /\ cn <= Maxsize
  /\ crashes = 0

\* What a call has checked when it began.
CallInv ==
  /\ \A p \in Producers :
       ppc[p] \in Filling \cup {"check", "asleep"} => sent[p] < MaxMsgs
  /\ cpc \in {"waitLock", "waitTest", "waitAsleep", "timedLock", "timedTest",
             "timedAsleep", "sub"} => Len(held) < MaxHeld

\* The line as it lies in the queue.
QueueInv ==
  /\ QLen \in 0..Maxsize
  /\ \A k \in 1..QLen : Entry(k) \in Message
  /\ \A p \in Producers :
       /\ ppc[p] \in Filling => <<pring[p], pelt[p]>> \in Message
       /\ ppc[p] = "publish" => /\ Entry(QLen + 1) = <<pring[p], pelt[p]>>
                                /\ qtail = (qhead + QLen + 1) % Maxsize
  /\ (\A p \in Producers : ppc[p] # "publish") => qtail = (qhead + QLen) % Maxsize

\* A producer publishes what it wrote.
DataInv ==
  \A p \in Producers : ppc[p] \in {"add", "publish"} =>
    rdata[pring[p]][pelt[p]] = <<p, sent[p] + 1>>

\* The line as it lies in the rings.
RingInv ==
  /\ \A r \in Rings : /\ Cnt(r) \in 0..Nitems[r]
                      /\ rtail[r] = (rhead[r] + Cnt(r)) % Nitems[r]
  /\ \A i \in Nat, m \in Message : At(i, m) => Off(m[1], m[2]) < Cnt(m[1])
  /\ \A i, j \in Nat, m, n \in Message :
       At(i, m) /\ At(j, n) /\ i < j /\ m[1] = n[1] => Off(m[1], m[2]) < Off(n[1], n[2])
  /\ \A r \in Rings, x \in Nat :
       x < Cnt(r) => \E i \in Nat, m \in Message : At(i, m) /\ m[1] = r /\ Off(r, m[2]) = x

LineInv == LineTypes /\ CallInv /\ QueueInv /\ DataInv /\ RingInv
-----------------------------------------------------------------------------
\* Indexes never run more than once around.
LEMMA Around ==
  ASSUME NEW M \in Nat \ {0}, NEW x \in 0..(2 * M - 1)
  PROVE  x % M = IF x < M THEN x ELSE x - M
<1>1. CASE x < M
  BY <1>1
<1>2. CASE x >= M
  <2>1. x - M \in 0..(M - 1)
    BY <1>2
  <2>2. (x - M) % M = x - M
    BY <2>1
  <2> QED
    BY <1>2, <2>1, <2>2
<1> QED
  BY <1>1, <1>2

LEMMA Shift ==
  ASSUME NEW M \in Nat \ {0}, NEW h \in 0..(M - 1), NEW n \in 0..M, NEW k \in 0..M, n + k <= M
  PROVE  /\ (h + n) % M \in 0..(M - 1)
         /\ (((h + n) % M) + k) % M = (h + (n + k)) % M
<1>a. h + n \in 0..(2 * M - 1) /\ h + (n + k) \in 0..(2 * M - 1)
  OBVIOUS
<1>1. (h + n) % M = IF h + n < M THEN h + n ELSE h + n - M
  BY <1>a, Around
<1>2. (h + (n + k)) % M = IF h + (n + k) < M THEN h + (n + k) ELSE h + (n + k) - M
  <2> DEFINE y == h + (n + k)
  <2> HIDE DEF y
  <2>1. y \in 0..(2 * M - 1)
    BY <1>a DEF y
  <2>2. y % M = IF y < M THEN y ELSE y - M
    BY <2>1, Around
  <2> QED
    BY <2>2 DEF y
<1>3. CASE h + n < M
  <2>1. (h + n) + k = h + (n + k)
    OBVIOUS
  <2> QED
    BY <1>1, <1>3, <2>1
<1>4. CASE h + n >= M
  <2>1. (h + n - M) + k \in 0..(M - 1)
    BY <1>4
  <2>2. ((h + n - M) + k) % M = (h + n - M) + k
    <3> DEFINE y == (h + n - M) + k
    <3>1. y \in 0..(2 * M - 1) /\ y < M
      BY <2>1
    <3> HIDE DEF y
    <3>2. y % M = y
      BY <3>1, Around
    <3> QED
      BY <3>2 DEF y
  <2> QED
    BY <1>1, <1>2, <1>4, <2>2
<1> QED
  BY <1>3, <1>4

\* The tail of a ring with room is as far from the head as there are slots in use.
LEMMA TailOff ==
  ASSUME NEW N \in Nat \ {0}, NEW h \in 0..(N - 1), NEW c \in 0..(N - 1),
         NEW t \in Nat, t = (h + c) % N
  PROVE  /\ (IF t >= h THEN t - h ELSE t - h + N) = c
         /\ (t + 1) % N = (h + (c + 1)) % N
<1>1. t = IF h + c < N THEN h + c ELSE h + c - N
  <2> DEFINE y == h + c
  <2>1. y \in 0..(2 * N - 1) /\ t = y % N
    OBVIOUS
  <2> HIDE DEF y
  <2>2. y % N = IF y < N THEN y ELSE y - N
    BY <2>1, Around
  <2> QED
    BY <2>1, <2>2 DEF y
<1>2. (t + 1) % N = (h + (c + 1)) % N
  <2>1. c \in 0..N /\ 1 \in 0..N /\ c + 1 <= N
    OBVIOUS
  <2> QED
    BY <2>1, Shift
<1> QED
  BY <1>1, <1>2

\* Less than a round apart, two indexes differ.
LEMMA Apart ==
  ASSUME NEW M \in Nat \ {0}, NEW h \in 0..(M - 1), NEW a \in 0..(M - 1), NEW b \in 0..(M - 1),
         a # b
  PROVE  (h + a) % M # (h + b) % M
<1> DEFINE x == h + a
           y == h + b
<1>1. /\ x \in 0..(2 * M - 1) /\ y \in 0..(2 * M - 1)
      /\ x # y /\ x - y < M /\ y - x < M
  OBVIOUS
<1> HIDE DEF x, y
<1>2. /\ x % M = IF x < M THEN x ELSE x - M
      /\ y % M = IF y < M THEN y ELSE y - M
  BY <1>1, Around
<1>3. x % M # y % M
  BY <1>1, <1>2
<1> QED
  BY <1>3 DEF x, y

LEMMA Sizes ==
  /\ Maxsize \in Nat \ {0} /\ MaxBatch \in Nat \ {0} /\ MaxHeld \in Nat /\ MaxMsgs \in Nat
  /\ \A r \in Rings : Nitems[r] \in Nat \ {0}
  /\ AnyRing \in Rings /\ 0 \in AnySlot
<1>1. AnyRing \in Rings
  BY SizesAssumption DEF AnyRing
<1>2. \A r \in Rings : Nitems[r] \in Nat \ {0}
  BY SizesAssumption
<1>3. 0 \in Slots(AnyRing)
  BY <1>1, <1>2 DEF Slots
<1> QED
  BY <1>1, <1>2, <1>3, SizesAssumption DEF AnySlot

LEMMA InitLine == Init => LineInv
<1> SUFFICES ASSUME Init PROVE LineInv
  OBVIOUS
<1>1. LineTypes
  <2>1. \A r \in Rings : 0 \in Slots(r)
    BY Sizes DEF Slots
  <2>2. held = <<>> /\ <<>> \in Seq(Message) /\ Len(<<>>) = 0
    BY EmptySeq DEF Init
  <2>3. qdata \in [0..(Maxsize - 1) -> Message \cup {NoData}]
    BY DEF Init
  <2>4. rdata = [r \in Rings |-> [e \in Slots(r) |-> rdata[r][e]]]
    BY DEF Init
  <2>5. rhead \in [Rings -> Nat] /\ rtail \in [Rings -> Nat]
    BY DEF Init
  <2>6. \A r \in Rings : rhead[r] \in Slots(r) /\ rtail[r] \in Slots(r)
    BY <2>1 DEF Init
  <2>7. pelt \in [Producers -> Nat] /\ \A p \in Producers : pelt[p] \in AnySlot
    BY Sizes DEF Init
  <2>8. pwait \in [Producers -> BOOLEAN] /\ sent \in [Producers -> 0..MaxMsgs]
    BY Sizes DEF Init
  <2>9. qhead \in 0..(Maxsize - 1) /\ qtail \in 0..(Maxsize - 1)
    BY Sizes DEF Init
  <2>10. csz \in 0..Maxsize /\ cring \in Rings /\ cneed \in BOOLEAN /\ cn <= Maxsize
    <3>1. csz \in 0..Maxsize /\ cn <= Maxsize
      BY Sizes DEF Init
    <3>2. cring \in Rings
      BY Sizes DEF Init
    <3>3. cneed \in BOOLEAN
      BY DEF Init
    <3> QED
      BY <3>1, <3>2, <3>3
  <2>11. waiting \subseteq Threads /\ crashes = 0
    BY DEF Init
  <2>12. held \in Seq(Message) /\ Len(held) <= MaxHeld
    BY <2>2, Sizes
  <2> QED
    BY <2>3, <2>4, <2>5, <2>6, <2>7, <2>8, <2>9, <2>10, <2>11, <2>12 DEF LineTypes
<1>2. CallInv /\ DataInv
  BY Sizes DEF Init, CallInv, DataInv, Filling
<1>3. QLen = 0 /\ \A r \in Rings : Cnt(r) = 0
  BY DEF Init, QLen, copied, Cnt
<1>4. QueueInv
  <2>1. qtail = (qhead + QLen) % Maxsize
    BY <1>3, Sizes DEF Init
  <2> QED
    BY <1>3, <2>1, Sizes DEF Init, QueueInv, Filling
<1>5. RingInv
  <2>1. \A i, m : ~At(i, m)
    BY <1>3 DEF Init, At, Filling
  <2>2. \A r \in Rings : rtail[r] = (rhead[r] + Cnt(r)) % Nitems[r]
    BY <1>3, Sizes DEF Init
  <2> QED
    BY <1>3, <2>1, <2>2, Sizes DEF RingInv
<1> QED
  BY <1>1, <1>2, <1>4, <1>5 DEF LineInv

-----------------------------------------------------------------------------
\* At most one producer is past the lock.
LEMMA OneLocked ==
  ASSUME IInv, NEW p \in Producers, NEW q \in Producers, ppc[p] \in Locked, ppc[q] \in Locked
  PROVE  p = q
BY DEF IInv, MutexInv

\* A step that moves no message: no index changes, and a count only once the
\* message it counts has been taken or freed.
Quiet ==
  /\ UNCHANGED <<held, qhead, qtail, qdata, rhead, rtail, pelt>>
  /\ QLen' = QLen
  /\ \A r \in Rings : Cnt(r)' = Cnt(r)
  /\ \A p \in Producers : /\ (ppc'[p] \in Filling) <=> (ppc[p] \in Filling)
                          /\ (ppc'[p] = "publish") <=> (ppc[p] = "publish")
                          /\ ppc[p] \in Filling => pring'[p] = pring[p]

\* The rings are as they were when the line is.
LEMMA SameLine ==
  ASSUME RingInv, UNCHANGED <<rhead, rtail>>, \A r \in Rings : Cnt(r)' = Cnt(r),
         \A i, m : At(i, m)' <=> At(i, m)
  PROVE  RingInv'
<1>1. \A r, e : Off(r, e)' = Off(r, e)
  BY DEF Off
<1>2. (\A r \in Rings : /\ Cnt(r) \in 0..Nitems[r]
                        /\ rtail[r] = (rhead[r] + Cnt(r)) % Nitems[r])'
  BY DEF RingInv
<1>3. (\A i \in Nat, m \in Message : At(i, m) => Off(m[1], m[2]) < Cnt(m[1]))'
  BY <1>1 DEF RingInv, Message
<1>4. (\A i, j \in Nat, m, n \in Message :
         At(i, m) /\ At(j, n) /\ i < j /\ m[1] = n[1]
           => Off(m[1], m[2]) < Off(n[1], n[2]))'
  BY <1>1 DEF RingInv, Message
<1>5. (\A r \in Rings, x \in Nat :
         x < Cnt(r) => \E i \in Nat, m \in Message : At(i, m) /\ m[1] = r /\ Off(r, m[2]) = x)'
  BY <1>1 DEF RingInv, Message
<1> QED
  BY <1>2, <1>3, <1>4, <1>5 DEF RingInv

LEMMA QuietLine ==
  ASSUME QueueInv, RingInv, Quiet
  PROVE  QueueInv' /\ RingInv'
<1>1. \A k : Entry(k)' = Entry(k)
  BY DEF Quiet, Entry
<1>2. QueueInv'
  <2>1. (QLen \in 0..Maxsize)' /\ (\A k \in 1..QLen : Entry(k) \in Message)'
    BY <1>1 DEF QueueInv, Quiet, Message
  <2>2. ASSUME NEW p \in Producers, ppc'[p] \in Filling
        PROVE  <<pring'[p], pelt'[p]>> \in Message
    BY <2>2 DEF Quiet, QueueInv
  <2>3. ASSUME NEW p \in Producers, ppc'[p] = "publish"
        PROVE  /\ Entry(QLen + 1)' = <<pring'[p], pelt'[p]>>
               /\ qtail' = (qhead' + QLen' + 1) % Maxsize
    <3>1. ppc[p] = "publish" /\ ppc[p] \in Filling
      BY <2>3 DEF Quiet, Filling
    <3>2. Entry(QLen + 1) = <<pring[p], pelt[p]>> /\ qtail = (qhead + QLen + 1) % Maxsize
      BY <3>1 DEF QueueInv
    <3>3. Entry(QLen + 1)' = Entry(QLen + 1)
      BY DEF Quiet, Entry
    <3> QED
      BY <3>1, <3>2, <3>3 DEF Quiet
  <2>4. (\A p \in Producers : ppc'[p] # "publish") => qtail' = (qhead' + QLen') % Maxsize
    BY DEF Quiet, QueueInv
  <2> QED
    BY <2>1, <2>2, <2>3, <2>4 DEF QueueInv, Message
<1>3. \A i, m : At(i, m)' <=> At(i, m)
  <2>1. ASSUME NEW i, NEW m
        PROVE  At(i, m)' <=> At(i, m)
    <3>1. (\E k \in 1..QLen' : i = Len(held') + k /\ m = Entry(k)')
            <=> (\E k \in 1..QLen : i = Len(held) + k /\ m = Entry(k))
      BY <1>1 DEF Quiet
    <3>2. (\E p \in Producers : /\ ppc'[p] \in Filling
                                /\ i = Len(held') + QLen' + 1 /\ m = <<pring'[p], pelt'[p]>>)
            <=> (\E p \in Producers : /\ ppc[p] \in Filling
                                      /\ i = Len(held) + QLen + 1 /\ m = <<pring[p], pelt[p]>>)
      BY DEF Quiet
    <3>3. (i \in 1..Len(held') /\ m = held'[i]) <=> (i \in 1..Len(held) /\ m = held[i])
      BY DEF Quiet
    <3> QED
      BY <3>1, <3>2, <3>3 DEF At
  <2> QED
    BY <2>1
<1>4. RingInv'
  BY <1>3, SameLine DEF Quiet
<1> QED
  BY <1>2, <1>4

\* Taking and releasing the mutex, sleeping and signalling move no message.
LEMMA ProducerQuiet ==
  ASSUME IInv, LineInv, NEW p \in Producers,
         \/ Lock(p) \/ Refused(p) \/ OrRingWaitProd(p) \/ Woken(p) \/ SendSignal(p) \/ Unlock(p)
  PROVE  LineInv' /\ Quiet
<1> USE DEF ProducerGoto, producerVars, consumerVars, queueVars, ringVars
<1>a. LineTypes /\ CallInv /\ DataInv /\ QueueInv /\ RingInv
  BY DEF LineInv
<1>b. ppc \in [Producers -> ProducerPC] /\ pring \in [Producers -> Rings]
  BY DEF IInv, Types
<1>c. p \in Threads
  BY DEF Threads
<1>1. CASE Lock(p)
  <2>1. LineTypes'
    <3>1. pwait' \in [Producers -> BOOLEAN]
      BY <1>1, <1>a, ModesAssumption DEF Lock, LineTypes
    <3> QED
      BY <1>1, <1>a, <3>1 DEF Lock, LineTypes
  <2>2. CallInv' /\ DataInv'
    BY <1>1, <1>a, <1>b DEF Lock, CallInv, DataInv, Filling
  <2>3. Quiet
    BY <1>1, <1>b DEF Lock, Quiet, QLen, copied, Cnt, Filling
  <2> QED
    BY <1>a, <2>1, <2>2, <2>3, QuietLine DEF LineInv
<1>2. CASE Refused(p)
  <2>1. LineTypes'
    BY <1>2, <1>a, <1>c DEF Refused, LineTypes
  <2>2. CallInv' /\ DataInv'
    BY <1>2, <1>a, <1>b DEF Refused, CallInv, DataInv, Filling
  <2>3. Quiet
    BY <1>2, <1>b DEF Refused, Quiet, QLen, copied, Cnt, Filling
  <2> QED
    BY <1>a, <2>1, <2>2, <2>3, QuietLine DEF LineInv
<1>3. CASE OrRingWaitProd(p)
  <2>1. LineTypes'
    BY <1>3, <1>a, <1>c DEF OrRingWaitProd, LineTypes
  <2>2. CallInv' /\ DataInv'
    BY <1>3, <1>a, <1>b DEF OrRingWaitProd, CallInv, DataInv, Filling
  <2>3. Quiet
    BY <1>3, <1>b DEF OrRingWaitProd, Quiet, QLen, copied, Cnt, Filling
  <2> QED
    BY <1>a, <2>1, <2>2, <2>3, QuietLine DEF LineInv
<1>4. CASE Woken(p)
  <2>1. LineTypes'
    BY <1>4, <1>a, <1>c DEF Woken, LineTypes
  <2>2. CallInv' /\ DataInv'
    BY <1>4, <1>a, <1>b DEF Woken, CallInv, DataInv, Filling
  <2>3. Quiet
    BY <1>4, <1>b DEF Woken, Quiet, QLen, copied, Cnt, Filling
  <2> QED
    BY <1>a, <2>1, <2>2, <2>3, QuietLine DEF LineInv
<1>5. CASE SendSignal(p)
  <2>1. LineTypes'
    BY <1>5, <1>a, <1>c DEF SendSignal, LineTypes
  <2>2. CallInv' /\ DataInv'
    BY <1>5, <1>a, <1>b DEF SendSignal, CallInv, DataInv, Filling
  <2>3. Quiet
    BY <1>5, <1>b DEF SendSignal, Quiet, QLen, copied, Cnt, Filling
  <2> QED
    BY <1>a, <2>1, <2>2, <2>3, QuietLine DEF LineInv
<1>6. CASE Unlock(p)
  <2>1. LineTypes'
    BY <1>6, <1>a, <1>c DEF Unlock, LineTypes
  <2>2. CallInv' /\ DataInv'
    BY <1>6, <1>a, <1>b DEF Unlock, CallInv, DataInv, Filling
  <2>3. Quiet
    BY <1>6, <1>b DEF Unlock, Quiet, QLen, copied, Cnt, Filling
  <2> QED
    BY <1>a, <2>1, <2>2, <2>3, QuietLine DEF LineInv
<1> QED
  BY <1>1, <1>2, <1>3, <1>4, <1>5, <1>6

\* Nor do the waits of the consumer, and the counts it settles.
LEMMA ConsumerQuiet ==
  ASSUME IInv, LineInv,
         \/ Sub \/ WaitLock \/ WaitTest \/ WaitWoken \/ TimedLock \/ TimedTest \/ TimedWoken
         \/ TimedOut \/ SigLock \/ SigCast \/ SubRawDec \/ SubRawBatchDec \/ FreeMsgDec
  PROVE  LineInv' /\ Quiet
<1> USE DEF ConsumerGoto, producerVars, consumerVars, queueVars, ringVars
<1>a. LineTypes /\ CallInv /\ DataInv /\ QueueInv /\ RingInv
  BY DEF LineInv
<1>b. Consumer \in Threads
  BY DEF Threads
<1>c. /\ Maxsize \in Nat /\ qcursize \in Nat /\ cn \in Nat
      /\ rcursize \in [Rings -> Int] /\ cring \in Rings
  BY <1>a, Sizes DEF IInv, Types, LineTypes
<1>1. CASE Sub
  <2>1. LineTypes'
    BY <1>1, <1>a, <1>b DEF Sub, LineTypes
  <2>2. CallInv' /\ DataInv'
    BY <1>1, <1>a DEF Sub, CallInv, DataInv, Filling
  <2>3. Quiet
    BY <1>1 DEF Sub, Quiet, QLen, copied, Cnt
  <2> QED
    BY <1>a, <2>1, <2>2, <2>3, QuietLine DEF LineInv
<1>2. CASE WaitLock
  <2>1. LineTypes'
    BY <1>2, <1>a, <1>b DEF WaitLock, LineTypes
  <2>2. CallInv' /\ DataInv'
    BY <1>2, <1>a DEF WaitLock, CallInv, DataInv, Filling
  <2>3. Quiet
    BY <1>2 DEF WaitLock, Quiet, QLen, copied, Cnt
  <2> QED
    BY <1>a, <2>1, <2>2, <2>3, QuietLine DEF LineInv
<1>3. CASE WaitTest
  <2>1. LineTypes'
    BY <1>3, <1>a, <1>b DEF WaitTest, LineTypes
  <2>2. CallInv' /\ DataInv'
    BY <1>3, <1>a DEF WaitTest, CallInv, DataInv, Filling
  <2>3. Quiet
    BY <1>3 DEF WaitTest, Quiet, QLen, copied, Cnt
  <2> QED
    BY <1>a, <2>1, <2>2, <2>3, QuietLine DEF LineInv
<1>4. CASE WaitWoken
  <2>1. LineTypes'
    BY <1>4, <1>a, <1>b DEF WaitWoken, LineTypes
  <2>2. CallInv' /\ DataInv'
    BY <1>4, <1>a DEF WaitWoken, CallInv, DataInv, Filling
  <2>3. Quiet
    BY <1>4 DEF WaitWoken, Quiet, QLen, copied, Cnt
  <2> QED
    BY <1>a, <2>1, <2>2, <2>3, QuietLine DEF LineInv
<1>5. CASE TimedLock
  <2>1. LineTypes'
    BY <1>5, <1>a, <1>b DEF TimedLock, LineTypes
  <2>2. CallInv' /\ DataInv'
    BY <1>5, <1>a DEF TimedLock, CallInv, DataInv, Filling
  <2>3. Quiet
    BY <1>5 DEF TimedLock, Quiet, QLen, copied, Cnt
  <2> QED
    BY <1>a, <2>1, <2>2, <2>3, QuietLine DEF LineInv
<1>6. CASE TimedTest
  <2>1. LineTypes'
    BY <1>6, <1>a, <1>b DEF TimedTest, LineTypes
  <2>2. CallInv' /\ DataInv'
    BY <1>6, <1>a DEF TimedTest, CallInv, DataInv, Filling
  <2>3. Quiet
    BY <1>6 DEF TimedTest, Quiet, QLen, copied, Cnt
  <2> QED
    BY <1>a, <2>1, <2>2, <2>3, QuietLine DEF LineInv
<1>7. CASE TimedWoken
  <2>1. LineTypes'
    BY <1>7, <1>a, <1>b DEF TimedWoken, LineTypes
  <2>2. CallInv' /\ DataInv'
    BY <1>7, <1>a DEF TimedWoken, CallInv, DataInv, Filling
  <2>3. Quiet
    BY <1>7 DEF TimedWoken, Quiet, QLen, copied, Cnt
  <2> QED
    BY <1>a, <2>1, <2>2, <2>3, QuietLine DEF LineInv
<1>8. CASE TimedOut
  <2>1. LineTypes'
    BY <1>8, <1>a, <1>b DEF TimedOut, LineTypes
  <2>2. CallInv' /\ DataInv'
    BY <1>8, <1>a DEF TimedOut, CallInv, DataInv, Filling
  <2>3. Quiet
    BY <1>8 DEF TimedOut, Quiet, QLen, copied, Cnt
  <2> QED
    BY <1>a, <2>1, <2>2, <2>3, QuietLine DEF LineInv
<1>9. CASE SigLock
  <2>1. LineTypes'
    BY <1>9, <1>a, <1>b DEF SigLock, LineTypes
  <2>2. CallInv' /\ DataInv'
    BY <1>9, <1>a DEF SigLock, CallInv, DataInv, Filling
  <2>3. Quiet
    BY <1>9 DEF SigLock, Quiet, QLen, copied, Cnt
  <2> QED
    BY <1>a, <2>1, <2>2, <2>3, QuietLine DEF LineInv
<1>10. CASE SigCast
  <2>1. LineTypes'
    BY <1>10, <1>a, <1>b DEF SigCast, LineTypes
  <2>2. CallInv' /\ DataInv'
    BY <1>10, <1>a DEF SigCast, CallInv, DataInv, Filling
  <2>3. Quiet
    BY <1>10 DEF SigCast, Quiet, QLen, copied, Cnt
  <2> QED
    BY <1>a, <2>1, <2>2, <2>3, QuietLine DEF LineInv
<1>11. CASE SubRawDec
  <2>1. LineTypes'
    BY <1>11, <1>a, <1>b DEF SubRawDec, LineTypes
  <2>2. CallInv' /\ DataInv'
    BY <1>11, <1>a DEF SubRawDec, CallInv, DataInv, Filling
  <2>3. Quiet
    BY <1>11, <1>c DEF SubRawDec, Quiet, QLen, copied, Cnt
  <2> QED
    BY <1>a, <2>1, <2>2, <2>3, QuietLine DEF LineInv
<1>12. CASE SubRawBatchDec
  <2>1. LineTypes'
    BY <1>12, <1>a, <1>b, <1>c DEF SubRawBatchDec, LineTypes
  <2>2. CallInv' /\ DataInv'
    BY <1>12, <1>a DEF SubRawBatchDec, CallInv, DataInv, Filling
  <2>3. Quiet
    BY <1>12, <1>c DEF SubRawBatchDec, Quiet, QLen, copied, Cnt
  <2> QED
    BY <1>a, <2>1, <2>2, <2>3, QuietLine DEF LineInv
<1>13. CASE FreeMsgDec
  <2>1. LineTypes'
    BY <1>13, <1>a, <1>b DEF FreeMsgDec, LineTypes
  <2>2. CallInv' /\ DataInv'
    BY <1>13, <1>a DEF FreeMsgDec, CallInv, DataInv, Filling
  <2>3. Quiet
    BY <1>13, <1>c DEF FreeMsgDec, Quiet, QLen, copied, Cnt
  <2> QED
    BY <1>a, <2>1, <2>2, <2>3, QuietLine DEF LineInv
<1> QED
  BY <1>1, <1>2, <1>3, <1>4, <1>5, <1>6, <1>7, <1>8, <1>9, <1>10, <1>11, <1>12, <1>13

\* Nor does a thread that the condvar wakes for nothing.
LEMMA SpuriousQuiet ==
  ASSUME LineInv, NEW t \in Threads, SpuriousWake(t)
  PROVE  LineInv' /\ Quiet
<1> USE DEF producerVars, consumerVars, queueVars, ringVars, SpuriousWake
<1>a. LineTypes /\ CallInv /\ DataInv /\ QueueInv /\ RingInv
  BY DEF LineInv
<1>1. LineTypes' /\ CallInv' /\ DataInv'
  BY <1>a DEF LineTypes, CallInv, DataInv
<1>2. Quiet
  BY DEF Quiet, QLen, copied, Cnt
<1> QED
  BY <1>a, <1>1, <1>2, QuietLine DEF LineInv

-----------------------------------------------------------------------------
LEMMA LineFacts ==
  ASSUME IInv, LineInv
  PROVE  /\ Len(held) \in Nat /\ QLen \in Nat /\ QLen <= qcursize
         /\ \A r \in Rings : rhead[r] \in 0..(Nitems[r] - 1) /\ Cnt(r) \in Nat
<1>1. held \in Seq(Message) /\ \A r \in Rings : rhead[r] \in 0..(Nitems[r] - 1)
  BY DEF LineInv, LineTypes, Slots
<1>2. QLen \in Nat /\ QLen <= qcursize
  BY Sizes DEF LineInv, QueueInv, QLen, copied, IInv, Types
<1>3. \A r \in Rings : Cnt(r) \in Nat
  BY Sizes DEF LineInv, RingInv
<1> QED
  BY <1>1, <1>2, <1>3, LenProperties

\* Where a message may be.
LEMMA Places ==
  ASSUME IInv, LineInv, NEW i, NEW m, At(i, m)
  PROVE  /\ i \in Nat /\ i >= 1 /\ m \in Message
         /\ i <= Len(held) + QLen + 1
         /\ i <= Len(held) => m = held[i]
         /\ (\A p \in Producers : ppc[p] \notin Filling) => i <= Len(held) + QLen
<1>a. Len(held) \in Nat /\ QLen \in Nat /\ held \in Seq(Message)
  BY LineFacts DEF LineInv, LineTypes
<1>1. CASE i \in 1..Len(held) /\ m = held[i]
  BY <1>1, <1>a, ElementOfSeq
<1>2. CASE \E k \in 1..QLen : i = Len(held) + k /\ m = Entry(k)
  BY <1>2, <1>a DEF LineInv, QueueInv
<1>3. CASE \E p \in Producers : /\ ppc[p] \in Filling
                                /\ i = Len(held) + QLen + 1 /\ m = <<pring[p], pelt[p]>>
  BY <1>3, <1>a DEF LineInv, QueueInv
<1> QED
  BY <1>1, <1>2, <1>3 DEF At

LEMMA OffRange ==
  ASSUME IInv, LineInv, NEW m \in Message
  PROVE  /\ m[1] \in Rings
         /\ m[2] \in 0..(Nitems[m[1]] - 1)
         /\ Off(m[1], m[2]) \in 0..(Nitems[m[1]] - 1)
         /\ Off(m[1], m[2]) = 0 <=> m[2] = rhead[m[1]]
<1>1. m[1] \in Rings /\ m[2] \in 0..(Nitems[m[1]] - 1)
  BY DEF Message, Slots
<1>2. rhead[m[1]] \in 0..(Nitems[m[1]] - 1) /\ Nitems[m[1]] \in Nat
  BY <1>1, LineFacts, Sizes
<1> QED
  BY <1>1, <1>2 DEF Off

\* The producer writes its event into the slot it was given.
LEMMA FillMsgLine ==
  ASSUME IInv, LineInv, NEW p \in Producers, FillMsg(p)
  PROVE  LineInv' /\ Quiet
<1> USE DEF ProducerGoto, producerVars, consumerVars, queueVars, ringVars
<1>a. LineTypes /\ CallInv /\ DataInv /\ QueueInv /\ RingInv
  BY DEF LineInv
<1>b. ppc \in [Producers -> ProducerPC] /\ pring \in [Producers -> Rings]
  BY DEF IInv, Types
<1>c. pring[p] \in Rings /\ pelt[p] \in Slots(pring[p])
  <2>1. <<pring[p], pelt[p]>> \in Message
    BY <1>a DEF FillMsg, QueueInv, Filling
  <2> QED
    BY <2>1 DEF Message
<1>d. rdata' = [rdata EXCEPT ![pring[p]][pelt[p]] = <<p, sent[p] + 1>>]
  BY DEF FillMsg
<1>e. rdata = [r \in Rings |-> [e \in Slots(r) |-> rdata[r][e]]]
  BY <1>a DEF LineTypes
<1>1. /\ rdata' = [r \in Rings |-> [e \in Slots(r) |-> rdata'[r][e]]]
      /\ rdata'[pring[p]][pelt[p]] = <<p, sent[p] + 1>>
  BY <1>c, <1>d, <1>e
<1>2. LineTypes'
  BY <1>a, <1>1 DEF LineTypes, FillMsg, Slots
<1>3. CallInv'
  BY <1>a, <1>b DEF CallInv, FillMsg, Filling
<1>4. DataInv'
  <2>1. ASSUME NEW q \in Producers, ppc'[q] \in {"add", "publish"}
        PROVE  q = p
    BY <1>b, <2>1, OneLocked DEF FillMsg, Locked
  <2> QED
    BY <1>1, <2>1 DEF DataInv, FillMsg
<1>5. Quiet
  BY <1>b DEF FillMsg, Quiet, QLen, copied, Cnt, Filling
<1> QED
  BY <1>a, <1>2, <1>3, <1>4, <1>5, QuietLine DEF LineInv

\* A slot is given from the tail of its ring, to the message at the end of the
\* line.
LEMMA AllocMsgLine ==
  ASSUME IInv, LineInv, NEW p \in Producers, AllocMsgWRing(p)
  PROVE  /\ LineInv' /\ held' = held /\ QLen' = QLen
         /\ \A k \in 1..QLen : Entry(k)' = Entry(k)
<1> DEFINE s == pring[p]
           m0 == <<s, rtail[s]>>
           i0 == Len(held) + QLen + 1
<1> USE DEF ProducerGoto, producerVars, consumerVars, queueVars, ringVars
<1>a. LineTypes /\ CallInv /\ DataInv /\ QueueInv /\ RingInv
  BY DEF LineInv
<1>b. ppc \in [Producers -> ProducerPC] /\ s \in Rings /\ rcursize \in [Rings -> Int]
  BY DEF IInv, Types
<1>c. Nitems[s] \in Nat \ {0} /\ rhead[s] \in 0..(Nitems[s] - 1) /\ Cnt(s) \in Nat
  BY <1>b, Sizes, LineFacts
<1>d. rtail[s] \in 0..(Nitems[s] - 1) /\ m0 \in Message
  <2>1. rtail[s] \in Slots(s)
    BY <1>a, <1>b DEF LineTypes
  <2> QED
    BY <1>b, <1>c, <2>1 DEF Message, Slots
<1>e. Len(held) \in Nat /\ QLen \in Nat /\ i0 \in Nat
  BY LineFacts
<1>1. Cnt(s) < Nitems[s]
  <2>1. rcursize[s] < Nitems[s]
    BY <1>b, <1>c DEF AllocMsgWRing, OrRingIsFull
  <2> QED
    BY <1>b, <1>c, <2>1 DEF Cnt
<1>2. \A q \in Producers : ppc[q] \notin Filling
  BY OneLocked DEF AllocMsgWRing, Filling, Locked
<1>3. \A q \in Producers : /\ ppc'[q] \in Filling <=> q = p
                           /\ ppc'[q] # "publish" /\ ppc'[q] # "add"
  BY <1>2, <1>b DEF AllocMsgWRing, Filling
<1>4. pelt' = [pelt EXCEPT ![p] = rtail[s]] /\ pelt'[p] = rtail[s] /\ pring' = pring
  BY <1>a DEF AllocMsgWRing, LineTypes
<1>5. /\ rtail' = [rtail EXCEPT ![s] = (rtail[s] + 1) % Nitems[s]]
      /\ (rtail[s] + 1) % Nitems[s] \in 0..(Nitems[s] - 1)
  <2>1. rtail' = [rtail EXCEPT ![s] = (rtail[s] + 1) % Nitems[s]]
    BY DEF AllocMsgWRing
  <2> QED
    BY <1>c, <1>d, <2>1
<1>6. \A r \in Rings : rtail'[r] = IF r = s THEN (rtail[s] + 1) % Nitems[s] ELSE rtail[r]
  BY <1>a, <1>b, <1>5 DEF LineTypes
<1>7. /\ held' = held /\ QLen' = QLen /\ qdata' = qdata /\ qhead' = qhead
      /\ qtail' = qtail /\ rhead' = rhead /\ cpc' = cpc /\ cring' = cring
  BY DEF AllocMsgWRing, QLen, copied
<1>8. \A r \in Rings : Cnt(r)' = IF r = s THEN Cnt(r) + 1 ELSE Cnt(r)
  <2>1. \A r \in Rings : rcursize'[r] = IF r = s THEN rcursize[r] + 1 ELSE rcursize[r]
    BY <1>b DEF AllocMsgWRing
  <2> QED
    BY <1>b, <1>7, <2>1 DEF Cnt
<1>9. \A r, e : Off(r, e)' = Off(r, e)
  BY <1>7 DEF Off
<1>10. \A k : Entry(k)' = Entry(k)
  BY <1>7 DEF Entry
<1>11. LineTypes'
  <2>1. rtail' \in [Rings -> Nat] /\ \A r \in Rings : rtail'[r] \in Slots(r)
    <3>1. rtail' \in [Rings -> Nat]
      <4>1. (rtail[s] + 1) % Nitems[s] \in Nat /\ rtail \in [Rings -> Nat]
        BY <1>a, <1>c, <1>5 DEF LineTypes
      <4> QED
        BY <1>5, <4>1
    <3>2. \A r \in Rings : rtail'[r] \in Slots(r)
      BY <1>a, <1>5, <1>6 DEF LineTypes, Slots
    <3> QED
      BY <3>1, <3>2
  <2>2. pelt' \in [Producers -> Nat] /\ \A q \in Producers : pelt'[q] \in AnySlot
    <3>1. rtail[s] \in Nat /\ rtail[s] \in AnySlot
      BY <1>b, <1>d DEF AnySlot, Slots
    <3> QED
      BY <1>a, <1>4, <3>1 DEF LineTypes
  <2>3. /\ rhead' \in [Rings -> Nat] /\ \A r \in Rings : rhead'[r] \in Slots(r)
        /\ rdata' = [r \in Rings |-> [e \in Slots(r) |-> rdata'[r][e]]]
    BY <1>a DEF LineTypes, AllocMsgWRing, Slots
  <2> QED
    BY <1>a, <2>1, <2>2, <2>3 DEF LineTypes, AllocMsgWRing
<1>12. CallInv' /\ DataInv'
  BY <1>a, <1>b, <1>3 DEF AllocMsgWRing, CallInv, DataInv, Filling
<1>13. QueueInv'
  <2>1. (QLen \in 0..Maxsize)' /\ (\A k \in 1..QLen : Entry(k) \in Message)'
    BY <1>a, <1>7, <1>10 DEF QueueInv, Message
  <2>2. \A q \in Producers : ppc'[q] \in Filling => <<pring'[q], pelt'[q]>> \in Message
    BY <1>d, <1>3, <1>4
  <2>3. qtail' = (qhead' + QLen') % Maxsize
    BY <1>a, <1>2, <1>7 DEF QueueInv, Filling
  <2> QED
    BY <1>3, <2>1, <2>2, <2>3 DEF QueueInv, Message
<1>14. \A i, m : At(i, m)' <=> At(i, m) \/ (i = i0 /\ m = m0)
  <2>1. ASSUME NEW i, NEW m
        PROVE  At(i, m)' <=> At(i, m) \/ (i = i0 /\ m = m0)
    <3>1. (\E k \in 1..QLen' : i = Len(held') + k /\ m = Entry(k)')
            <=> (\E k \in 1..QLen : i = Len(held) + k /\ m = Entry(k))
      BY <1>7, <1>10
    <3>2. (\E q \in Producers : /\ ppc'[q] \in Filling
                                /\ i = Len(held') + QLen' + 1 /\ m = <<pring'[q], pelt'[q]>>)
            <=> (i = i0 /\ m = m0)
      BY <1>3, <1>4, <1>7
    <3>3. (i \in 1..Len(held') /\ m = held'[i]) <=> (i \in 1..Len(held) /\ m = held[i])
      BY <1>7
    <3> QED
      BY <1>2, <3>1, <3>2, <3>3 DEF At
  <2> QED
    BY <2>1
<1>15. Off(s, rtail[s]) = Cnt(s) /\ (rtail[s] + 1) % Nitems[s] = (rhead[s] + (Cnt(s) + 1)) % Nitems[s]
  <2>1. rtail[s] = (rhead[s] + Cnt(s)) % Nitems[s]
    BY <1>a, <1>b DEF RingInv
  <2> DEFINE N == Nitems[s]
             h == rhead[s]
             c == Cnt(s)
             t == rtail[s]
  <2>2. N \in Nat \ {0} /\ h \in 0..(N - 1) /\ c \in 0..(N - 1)
        /\ t \in Nat /\ t = (h + c) % N
    BY <1>c, <1>d, <1>1, <2>1
  <2> HIDE DEF N, h, c, t
  <2>3. /\ (IF t >= h THEN t - h ELSE t - h + N) = c
        /\ (t + 1) % N = (h + (c + 1)) % N
    BY <2>2, TailOff
  <2> QED
    BY <2>3 DEF N, h, c, t, Off
<1>16. RingInv'
  <2> HIDE DEF s, m0, i0
  <2>0. m0[1] = s /\ m0[2] = rtail[s] /\ Off(m0[1], m0[2]) = Cnt(s)
    BY <1>15 DEF m0
  <2>1. (\A r \in Rings : /\ Cnt(r) \in 0..Nitems[r]
                          /\ rtail[r] = (rhead[r] + Cnt(r)) % Nitems[r])'
    <3>1. ASSUME NEW r \in Rings
          PROVE  Cnt(r)' \in 0..Nitems[r] /\ rtail'[r] = (rhead'[r] + Cnt(r)') % Nitems[r]
      <4>1. CASE r = s
        BY <1>c, <1>1, <1>6, <1>7, <1>8, <1>15, <4>1
      <4>2. CASE r # s
        BY <1>a, <1>6, <1>7, <1>8, <4>2 DEF RingInv
      <4> QED
        BY <4>1, <4>2
    <3> QED
      BY <3>1
  <2>2. ASSUME NEW i \in Nat, NEW m \in Message, At(i, m)'
        PROVE  Off(m[1], m[2])' < Cnt(m[1])'
    <3>1. CASE At(i, m)
      <4>1. Off(m[1], m[2]) < Cnt(m[1]) /\ m[1] \in Rings /\ Off(m[1], m[2]) \in Nat
        BY <1>a, <3>1, OffRange DEF RingInv
      <4>2. Cnt(m[1]) \in Nat
        BY <4>1, LineFacts
      <4> QED
        BY <1>8, <1>9, <4>1, <4>2
    <3>2. CASE m = m0
      BY <1>b, <1>c, <1>8, <1>9, <2>0, <3>2
    <3> QED
      BY <1>14, <2>2, <3>1, <3>2
  <2>3. ASSUME NEW i \in Nat, NEW j \in Nat, NEW m \in Message, NEW n \in Message,
               At(i, m)', At(j, n)', i < j, m[1] = n[1]
        PROVE  Off(m[1], m[2])' < Off(n[1], n[2])'
    <3>1. CASE At(i, m) /\ At(j, n)
      BY <1>a, <1>9, <2>3, <3>1 DEF RingInv
    <3>2. CASE At(i, m) /\ j = i0 /\ n = m0
      BY <1>a, <1>9, <2>0, <2>3, <3>2 DEF RingInv
    <3>3. CASE i = i0 /\ At(j, n)
      <4>1. j <= Len(held) + QLen
        BY <1>2, <3>3, Places
      <4> QED
        BY <1>e, <2>3, <3>3, <4>1 DEF i0
    <3>4. CASE i = i0 /\ j = i0
      BY <1>e, <2>3, <3>4
    <3> QED
      BY <1>14, <2>3, <3>1, <3>2, <3>3, <3>4
  <2>4. ASSUME NEW r \in Rings, NEW x \in Nat, x < Cnt(r)'
        PROVE  \E i \in Nat, m \in Message : At(i, m)' /\ m[1] = r /\ Off(r, m[2])' = x
    <3>1. CASE r = s /\ x = Cnt(s)
      <4>1. PICK i \in Nat, m \in Message : i = i0 /\ m = m0
        BY <1>d, <1>e
      <4>2. At(i, m)' /\ m[1] = r /\ Off(r, m[2])' = x
        BY <1>9, <1>14, <2>0, <3>1, <4>1
      <4> QED
        BY <4>1, <4>2
    <3>2. CASE x < Cnt(r)
      <4>1. PICK i \in Nat, m \in Message : At(i, m) /\ m[1] = r /\ Off(r, m[2]) = x
        BY <1>a, <3>2 DEF RingInv
      <4>2. At(i, m)' /\ Off(r, m[2])' = x
        BY <1>9, <1>14, <4>1
      <4> QED
        BY <4>1, <4>2
    <3> QED
      BY <1>c, <1>8, <2>4, <3>1, <3>2, LineFacts
  <2> QED
    BY <2>1, <2>2, <2>3, <2>4 DEF RingInv, Message
<1> QED
  BY <1>7, <1>10, <1>11, <1>12, <1>13, <1>16 DEF LineInv

\* The entry is written behind the last one and is no part of the queue yet.
LEMMA AddRawLine ==
  ASSUME IInv, LineInv, NEW p \in Producers, AddRaw(p)
  PROVE  /\ LineInv' /\ held' = held /\ QLen' = QLen
         /\ \A k \in 1..QLen : Entry(k)' = Entry(k)
<1> USE DEF ProducerGoto, producerVars, consumerVars, queueVars, ringVars
<1>a. LineTypes /\ CallInv /\ DataInv /\ QueueInv /\ RingInv
  BY DEF LineInv
<1>b. ppc \in [Producers -> ProducerPC] /\ pring \in [Producers -> Rings]
  BY DEF IInv, Types
<1>c. Maxsize \in Nat \ {0} /\ qhead \in 0..(Maxsize - 1) /\ qtail \in 0..(Maxsize - 1)
  BY <1>a, Sizes DEF LineTypes
<1>d. QLen \in Nat /\ QLen < Maxsize
  <2>1. qcursize < Maxsize /\ qcursize \in Nat
    BY Sizes DEF IInv, RoomInv, Types, AddRaw
  <2> QED
    BY <1>c, <2>1, LineFacts
<1>e. <<pring[p], pelt[p]>> \in Message
  BY <1>a DEF QueueInv, AddRaw, Filling
<1>1. \A q \in Producers : ppc[q] # "publish" /\ (ppc'[q] = "publish" => q = p)
  <2>1. \A q \in Producers : ppc[q] = "publish" => q = p
    BY OneLocked DEF AddRaw, Locked
  <2> QED
    BY <1>b, <2>1 DEF AddRaw
<1>2. \A q \in Producers : ppc'[q] \in Filling <=> ppc[q] \in Filling
  BY <1>b DEF AddRaw, Filling
<1>3. /\ held' = held /\ QLen' = QLen /\ qhead' = qhead /\ rhead' = rhead /\ rtail' = rtail
      /\ pring' = pring /\ pelt' = pelt /\ \A r \in Rings : Cnt(r)' = Cnt(r)
  BY DEF AddRaw, QLen, copied, Cnt
<1>4. qtail = (qhead + QLen) % Maxsize
  BY <1>a, <1>1 DEF QueueInv
<1>5. /\ qdata' = [qdata EXCEPT ![qtail] = <<pring[p], pelt[p]>>]
      /\ qdata \in [0..(Maxsize - 1) -> Message \cup {NoData}]
  BY <1>a DEF AddRaw, LineTypes
<1>6. Entry(QLen + 1)' = <<pring[p], pelt[p]>>
  <2>1. (qhead + (QLen + 1) - 1) % Maxsize = qtail
    BY <1>c, <1>d, <1>4
  <2>2. qdata'[qtail] = <<pring[p], pelt[p]>>
    BY <1>c, <1>5
  <2>3. (qhead' + (QLen' + 1) - 1) % Maxsize = qtail
    BY <1>3, <2>1
  <2> QED
    BY <2>2, <2>3 DEF Entry
<1>7. \A k \in 1..QLen : Entry(k)' = Entry(k)
  <2>1. ASSUME NEW k \in 1..QLen
        PROVE  Entry(k)' = Entry(k)
    <3> DEFINE a == k - 1
               b == QLen
    <3>1. a \in 0..(Maxsize - 1) /\ b \in 0..(Maxsize - 1) /\ a # b
      BY <1>c, <1>d
    <3> HIDE DEF a, b
    <3>2. (qhead + a) % Maxsize # (qhead + b) % Maxsize
      BY <1>c, <3>1, Apart
    <3>3. (qhead + k - 1) % Maxsize = (qhead + a) % Maxsize
      BY <1>c, <1>d DEF a
    <3>4. (qhead + a) % Maxsize \in 0..(Maxsize - 1)
      BY <1>c, <3>1
    <3> QED
      BY <1>3, <1>4, <1>5, <3>2, <3>3, <3>4 DEF Entry, b
  <2> QED
    BY <2>1
<1>8. LineTypes'
  <2>1. qdata' \in [0..(Maxsize - 1) -> Message \cup {NoData}]
    BY <1>c, <1>e, <1>5
  <2>2. qtail' \in 0..(Maxsize - 1)
    BY <1>c DEF AddRaw
  <2>3. /\ rhead' \in [Rings -> Nat] /\ rtail' \in [Rings -> Nat]
        /\ \A r \in Rings : rhead'[r] \in Slots(r) /\ rtail'[r] \in Slots(r)
        /\ rdata' = [r \in Rings |-> [e \in Slots(r) |-> rdata'[r][e]]]
    BY <1>a DEF LineTypes, AddRaw, Slots
  <2> QED
    BY <1>a, <2>1, <2>2, <2>3 DEF LineTypes, AddRaw, Message, Slots
<1>9. CallInv' /\ DataInv'
  BY <1>a, <1>b DEF AddRaw, CallInv, DataInv, Filling
<1>10. QueueInv'
  <2>1. (QLen \in 0..Maxsize)' /\ (\A k \in 1..QLen : Entry(k) \in Message)'
    <3>1. QLen' \in 0..Maxsize
      BY <1>a, <1>3 DEF QueueInv
    <3>2. \A k \in 1..QLen : Entry(k)' \in Message
      BY <1>a, <1>7 DEF QueueInv
    <3> QED
      BY <1>3, <3>1, <3>2 DEF Message
  <2>2. \A q \in Producers : ppc'[q] \in Filling => <<pring'[q], pelt'[q]>> \in Message
    BY <1>a, <1>2, <1>3 DEF QueueInv
  <2>3. qtail' = (qhead' + QLen' + 1) % Maxsize
    <3> DEFINE h == qhead
               l == QLen
    <3>1. h \in 0..(Maxsize - 1) /\ l \in 0..Maxsize /\ 1 \in 0..Maxsize /\ l + 1 <= Maxsize
      BY <1>c, <1>d
    <3>2. qtail = (h + l) % Maxsize
      BY <1>4
    <3> HIDE DEF h, l
    <3>3. (qtail + 1) % Maxsize = (h + (l + 1)) % Maxsize
      BY <1>c, <3>1, <3>2, Shift
    <3>4. h + (l + 1) = qhead' + QLen' + 1
      BY <1>c, <1>d, <1>3 DEF h, l
    <3> QED
      BY <3>3, <3>4 DEF AddRaw
  <2>4. \E q \in Producers : ppc'[q] = "publish"
    BY <1>b DEF AddRaw
  <2> QED
    BY <1>1, <1>3, <1>6, <2>1, <2>2, <2>3, <2>4 DEF QueueInv, Message
<1>11. \A i, m : At(i, m)' <=> At(i, m)
  <2>1. ASSUME NEW i, NEW m
        PROVE  At(i, m)' <=> At(i, m)
    <3>1. (\E k \in 1..QLen' : i = Len(held') + k /\ m = Entry(k)')
            <=> (\E k \in 1..QLen : i = Len(held) + k /\ m = Entry(k))
      BY <1>3, <1>7
    <3>2. (\E q \in Producers : /\ ppc'[q] \in Filling
                                /\ i = Len(held') + QLen' + 1 /\ m = <<pring'[q], pelt'[q]>>)
            <=> (\E q \in Producers : /\ ppc[q] \in Filling
                                      /\ i = Len(held) + QLen + 1 /\ m = <<pring[q], pelt[q]>>)
      BY <1>2, <1>3
    <3>3. (i \in 1..Len(held') /\ m = held'[i]) <=> (i \in 1..Len(held) /\ m = held[i])
      BY <1>3
    <3> QED
      BY <3>1, <3>2, <3>3 DEF At
  <2> QED
    BY <2>1
<1>12. RingInv'
  BY <1>a, <1>3, <1>11, SameLine
<1> QED
  BY <1>3, <1>7, <1>8, <1>9, <1>10, <1>12 DEF LineInv

\* The count makes it the last entry: the message keeps its place in the line.
LEMMA PublishLine ==
  ASSUME IInv, LineInv, NEW p \in Producers, Publish(p)
  PROVE  /\ LineInv' /\ held' = held /\ QLen' = QLen + 1 /\ QLen < Maxsize
         /\ \A k : Entry(k)' = Entry(k)
         /\ Entry(QLen + 1) = <<pring[p], pelt[p]>>
<1> USE DEF ProducerGoto, producerVars, consumerVars, queueVars, ringVars
<1>a. LineTypes /\ CallInv /\ DataInv /\ QueueInv /\ RingInv
  BY DEF LineInv
<1>b. ppc \in [Producers -> ProducerPC] /\ pring \in [Producers -> Rings] /\ qcursize \in Nat
  BY Sizes DEF IInv, Types
<1>c. Maxsize \in Nat \ {0} /\ Len(held) \in Nat /\ QLen \in Nat /\ QLen < Maxsize
  <2>1. qcursize < Maxsize
    BY DEF IInv, RoomInv, Publish
  <2> QED
    BY <1>b, <2>1, LineFacts, Sizes
<1>1. /\ ppc[p] \in Filling
      /\ \A q \in Producers : /\ ppc[q] \in Filling => q = p
                              /\ ppc'[q] \notin Filling \cup {"check", "asleep"} \/ q # p
                              /\ q # p => ppc'[q] = ppc[q]
  <2>1. \A q \in Producers : ppc[q] \in Filling => q = p
    BY OneLocked DEF Publish, Filling, Locked
  <2> QED
    BY <1>b, <2>1 DEF Publish, Filling
<1>2. \A q \in Producers : ppc'[q] \notin Filling
  BY <1>1
<1>3. /\ held' = held /\ qhead' = qhead /\ qtail' = qtail /\ qdata' = qdata
      /\ rhead' = rhead /\ rtail' = rtail /\ \A r \in Rings : Cnt(r)' = Cnt(r)
  BY DEF Publish, Cnt
<1>4. QLen' = QLen + 1
  <2>1. qcursize' = qcursize + 1 /\ copied' = copied
    BY DEF Publish, copied
  <2>2. copied \in Int
    BY DEF copied, IInv, Types
  <2> QED
    BY <1>b, <2>1, <2>2 DEF QLen
<1>5. \A k : Entry(k)' = Entry(k)
  BY <1>3 DEF Entry
<1>6. /\ Entry(QLen + 1) = <<pring[p], pelt[p]>>
      /\ qtail = (qhead + QLen + 1) % Maxsize
      /\ <<pring[p], pelt[p]>> \in Message
  BY <1>a, <1>1 DEF QueueInv, Publish
<1>7. LineTypes'
  <2>1. sent' \in [Producers -> 0..MaxMsgs]
    <3>1. sent[p] + 1 \in 0..MaxMsgs /\ sent \in [Producers -> 0..MaxMsgs]
      <4>1. sent[p] < MaxMsgs
        BY <1>a, <1>1 DEF CallInv
      <4>2. sent \in [Producers -> 0..MaxMsgs]
        BY <1>a DEF LineTypes
      <4>3. sent[p] \in 0..MaxMsgs
        BY <4>2
      <4> QED
        BY <4>1, <4>2, <4>3, Sizes
    <3> QED
      BY <3>1 DEF Publish
  <2>2. /\ rhead' \in [Rings -> Nat] /\ rtail' \in [Rings -> Nat]
        /\ \A r \in Rings : rhead'[r] \in Slots(r) /\ rtail'[r] \in Slots(r)
        /\ rdata' = [r \in Rings |-> [e \in Slots(r) |-> rdata'[r][e]]]
    BY <1>a DEF LineTypes, Publish, Slots
  <2> QED
    BY <1>a, <2>1, <2>2 DEF LineTypes, Publish
<1>8. CallInv' /\ DataInv'
  <2>1. \A q \in Producers : q # p => sent'[q] = sent[q]
    BY <1>a DEF Publish, LineTypes
  <2>2. CallInv'
    BY <1>a, <1>1, <2>1 DEF CallInv, Publish, Filling
  <2>3. DataInv'
    BY <1>2 DEF DataInv, Filling
  <2> QED
    BY <2>2, <2>3
<1>9. QueueInv'
  <2>1. QLen' \in 0..Maxsize
    BY <1>c, <1>4
  <2>2. \A k \in 1..QLen' : Entry(k)' \in Message
    <3>1. \A k \in 1..QLen : Entry(k) \in Message
      BY <1>a DEF QueueInv
    <3>2. \A k \in 1..QLen' : k \in 1..QLen \/ k = QLen + 1
      BY <1>c, <1>4
    <3> QED
      BY <1>5, <1>6, <3>1, <3>2
  <2>3. qtail' = (qhead' + QLen') % Maxsize
    <3>1. qhead + QLen + 1 = qhead' + QLen'
      BY <1>a, <1>c, <1>3, <1>4 DEF LineTypes
    <3> QED
      BY <1>3, <1>6, <3>1
  <2> QED
    BY <1>2, <2>1, <2>2, <2>3 DEF QueueInv, Message, Filling
<1>10. \A i, m : At(i, m)' <=> At(i, m)
  <2>1. ASSUME NEW i, NEW m
        PROVE  At(i, m)' <=> At(i, m)
    <3>1. (\E k \in 1..QLen' : i = Len(held') + k /\ m = Entry(k)')
            <=> \/ \E k \in 1..QLen : i = Len(held) + k /\ m = Entry(k)
                \/ i = Len(held) + QLen + 1 /\ m = Entry(QLen + 1)
      <4>1. \A k : k \in 1..QLen' <=> k \in 1..QLen \/ k = QLen + 1
        BY <1>c, <1>4
      <4>2. Len(held) + (QLen + 1) = Len(held) + QLen + 1
        BY <1>c
      <4> QED
        BY <1>3, <1>5, <4>1, <4>2
    <3>2. (\E q \in Producers : /\ ppc[q] \in Filling
                                /\ i = Len(held) + QLen + 1 /\ m = <<pring[q], pelt[q]>>)
            <=> i = Len(held) + QLen + 1 /\ m = Entry(QLen + 1)
      BY <1>1, <1>6
    <3>3. (i \in 1..Len(held') /\ m = held'[i]) <=> (i \in 1..Len(held) /\ m = held[i])
      BY <1>3
    <3> QED
      BY <1>2, <3>1, <3>2, <3>3 DEF At
  <2> QED
    BY <2>1
<1>11. RingInv'
  BY <1>a, <1>3, <1>10, SameLine
<1> QED
  BY <1>c, <1>3, <1>4, <1>5, <1>6, <1>7, <1>8, <1>9, <1>11 DEF LineInv

\* The consumer copies entries from the head: the messages keep their places.
LEMMA Take ==
  ASSUME IInv, LineInv, NEW n \in Nat, n <= QLen,
         Len(held') = Len(held) + n,
         \A i \in 1..Len(held) : held'[i] = held[i],
         \A k \in 1..n : held'[Len(held) + k] = Entry(k),
         qhead' = (qhead + n) % Maxsize, QLen' = QLen - n,
         UNCHANGED <<qtail, qdata, rhead, rtail, ppc, pring, pelt>>,
         \A r \in Rings : Cnt(r)' = Cnt(r)
  PROVE  /\ QueueInv' /\ RingInv' /\ qhead' \in 0..(Maxsize - 1)
         /\ \A k \in 1..(QLen - n) : Entry(k)' = Entry(n + k)
<1>a. QueueInv /\ RingInv
  BY DEF LineInv
<1>b. Maxsize \in Nat \ {0} /\ qhead \in 0..(Maxsize - 1) /\ Len(held) \in Nat /\ QLen \in 0..Maxsize
  BY <1>a, LineFacts, Sizes DEF LineInv, LineTypes, QueueInv
<1>1. ASSUME NEW k \in Nat, n + k <= Maxsize
      PROVE  (qhead' + k) % Maxsize = (qhead + (n + k)) % Maxsize
  <2>1. n \in 0..Maxsize /\ k \in 0..Maxsize
    BY <1>b, <1>1
  <2> QED
    BY <1>b, <1>1, <2>1, Shift
<1>0. qhead' \in 0..(Maxsize - 1) /\ qhead' \in Nat
  BY <1>b
<1>2. ASSUME NEW k \in Nat, k >= 1, n + k <= Maxsize + 1
      PROVE  Entry(k)' = Entry(n + k)
  <2>1. (qhead' + (k - 1)) % Maxsize = (qhead + (n + (k - 1))) % Maxsize /\ qhead' \in Nat
    <3> DEFINE y == k - 1
    <3>1. y \in Nat /\ n + y <= Maxsize
      BY <1>b, <1>2
    <3> HIDE DEF y
    <3>2. (qhead' + y) % Maxsize = (qhead + (n + y)) % Maxsize
      BY <1>1, <3>1
    <3> QED
      BY <1>0, <3>2 DEF y
  <2>2. qhead' + (k - 1) = qhead' + k - 1 /\ qhead + (n + (k - 1)) = qhead + (n + k) - 1
    BY <1>b, <1>2, <2>1
  <2> QED
    BY <2>1, <2>2 DEF Entry
<1>3. QueueInv'
  <2>1. QLen' \in 0..Maxsize
    BY <1>b
  <2>2. \A k \in 1..QLen' : Entry(k)' \in Message
    <3>1. ASSUME NEW k \in 1..QLen'
          PROVE  Entry(k)' \in Message
      <4>0. PICK l \in Nat : l = QLen /\ l <= Maxsize /\ k \in 1..(l - n)
        BY <1>b
      <4>1. k \in Nat /\ k >= 1 /\ n + k <= Maxsize + 1 /\ n + k \in 1..QLen
        BY <1>b, <4>0
      <4>2. \A x \in 1..QLen : Entry(x) \in Message
        BY <1>a DEF QueueInv
      <4>3. Entry(k)' = Entry(n + k)
        BY <1>2, <4>1
      <4> QED
        BY <4>1, <4>2, <4>3
    <3> QED
      BY <3>1
  <2>3. ASSUME NEW q \in Producers, ppc'[q] = "publish"
        PROVE  Entry(QLen + 1)' = <<pring'[q], pelt'[q]>> /\ qtail' = (qhead' + QLen' + 1) % Maxsize
    <3>0. ppc[q] \in Filling /\ QLen < Maxsize
      <4>1. qcursize < Maxsize /\ qcursize \in Nat
        BY <2>3, Sizes DEF IInv, Types, RoomInv
      <4> QED
        BY <1>b, <2>3, <4>1, LineFacts DEF Filling
    <3>1. Entry(QLen + 1) = <<pring[q], pelt[q]>> /\ qtail = (qhead + QLen + 1) % Maxsize
      BY <1>a, <2>3 DEF QueueInv
    <3> DEFINE k == QLen - n + 1
    <3>2. k \in Nat /\ k >= 1 /\ n + k = QLen + 1 /\ n + k <= Maxsize /\ k = QLen' + 1
      BY <1>b, <3>0
    <3> HIDE DEF k
    <3>3. (qhead' + k) % Maxsize = (qhead + (n + k)) % Maxsize
      BY <1>1, <3>2
    <3>4. qhead + (n + k) = qhead + QLen + 1 /\ qhead' + k = qhead' + QLen' + 1
      BY <1>b, <1>0, <3>2
    <3>5. Entry(QLen + 1)' = Entry(QLen + 1)
      <4>1. PICK x \in Nat : x = k
        BY <3>2
      <4>2. Entry(x)' = Entry(n + x)
        BY <1>b, <1>2, <3>2, <4>1
      <4>3. Entry(x)' = Entry(QLen + 1)'
        BY <3>2, <4>1 DEF Entry
      <4> QED
        BY <3>2, <4>1, <4>2, <4>3
    <3> QED
      BY <3>1, <3>3, <3>4, <3>5
  <2>4. (\A q \in Producers : ppc'[q] # "publish") => qtail' = (qhead' + QLen') % Maxsize
    <3> DEFINE k == QLen - n
    <3>1. k \in Nat /\ n + k = QLen /\ n + k <= Maxsize /\ k = QLen'
      BY <1>b
    <3> HIDE DEF k
    <3>2. (qhead' + k) % Maxsize = (qhead + (n + k)) % Maxsize
      BY <1>1, <3>1
    <3> QED
      BY <1>a, <3>1, <3>2 DEF QueueInv
  <2>5. \A q \in Producers : ppc'[q] \in Filling => <<pring'[q], pelt'[q]>> \in Message
    BY <1>a DEF QueueInv
  <2> QED
    BY <2>1, <2>2, <2>3, <2>4, <2>5 DEF QueueInv, Message
<1>4. \A i, m : At(i, m)' <=> At(i, m)
  <2>1. ASSUME NEW i, NEW m
        PROVE  At(i, m)' <=> At(i, m)
    <3>1. (i \in 1..Len(held') /\ m = held'[i])
            <=> \/ i \in 1..Len(held) /\ m = held[i]
                \/ \E k \in 1..n : i = Len(held) + k /\ m = Entry(k)
      <4>1. i \in 1..Len(held') <=> i \in 1..Len(held) \/ \E k \in 1..n : i = Len(held) + k
        <5>1. i \in 1..Len(held') /\ i \notin 1..Len(held)
                => i - Len(held) \in 1..n /\ i = Len(held) + (i - Len(held))
          BY <1>b
        <5>2. i \in 1..Len(held) => i \in 1..Len(held')
          BY <1>b
        <5>3. \A k \in 1..n : Len(held) + k \in 1..Len(held')
          BY <1>b
        <5> QED
          BY <5>1, <5>2, <5>3
      <4>2. i \in 1..Len(held) => held'[i] = held[i]
        OBVIOUS
      <4>3. \A k \in 1..n : i = Len(held) + k => held'[i] = Entry(k)
        OBVIOUS
      <4>4. \A k \in 1..n : i = Len(held) + k => i \notin 1..Len(held)
        BY <1>b
      <4> QED
        BY <4>1, <4>2, <4>3, <4>4
    <3>2. (\E k \in 1..QLen' : i = Len(held') + k /\ m = Entry(k)')
            <=> \E k \in (n + 1)..QLen : i = Len(held) + k /\ m = Entry(k)
      <4>1. ASSUME NEW k \in 1..QLen', i = Len(held') + k, m = Entry(k)'
            PROVE  n + k \in (n + 1)..QLen /\ i = Len(held) + (n + k) /\ m = Entry(n + k)
        <5>1. k \in Nat /\ k >= 1 /\ n + k <= Maxsize + 1 /\ n + k \in (n + 1)..QLen
          BY <1>b
        <5>2. Entry(k)' = Entry(n + k)
          BY <1>2, <5>1
        <5>3. i = Len(held) + (n + k)
          BY <1>b, <4>1
        <5> QED
          BY <4>1, <5>1, <5>2, <5>3
      <4>2. ASSUME NEW k \in (n + 1)..QLen, i = Len(held) + k, m = Entry(k)
            PROVE  \E x \in 1..QLen' : i = Len(held') + x /\ m = Entry(x)'
        <5>1. PICK x \in Nat : x = k - n
          BY <1>b
        <5>2. x \in 1..QLen' /\ x >= 1 /\ n + x <= Maxsize + 1 /\ n + x = k /\ i = Len(held') + x
          BY <1>b, <4>2, <5>1
        <5>3. Entry(x)' = Entry(n + x)
          BY <1>2, <5>2
        <5> QED
          BY <4>2, <5>2, <5>3
      <4> QED
        BY <4>1, <4>2
    <3>3. (\E k \in 1..QLen : i = Len(held) + k /\ m = Entry(k))
            <=> \/ \E k \in 1..n : i = Len(held) + k /\ m = Entry(k)
                \/ \E k \in (n + 1)..QLen : i = Len(held) + k /\ m = Entry(k)
      <4>1. \A k : k \in 1..QLen <=> k \in 1..n \/ k \in (n + 1)..QLen
        BY <1>b
      <4> QED
        BY <4>1
    <3>4. (\E q \in Producers : /\ ppc'[q] \in Filling
                                /\ i = Len(held') + QLen' + 1 /\ m = <<pring'[q], pelt'[q]>>)
            <=> (\E q \in Producers : /\ ppc[q] \in Filling
                                      /\ i = Len(held) + QLen + 1 /\ m = <<pring[q], pelt[q]>>)
      <4>1. Len(held') + QLen' + 1 = Len(held) + QLen + 1
        BY <1>b
      <4> QED
        BY <4>1
    <3> QED
      BY <3>1, <3>2, <3>3, <3>4 DEF At
  <2> QED
    BY <2>1
<1>5. RingInv'
  BY <1>a, <1>4, SameLine
<1>6. \A k \in 1..(QLen - n) : Entry(k)' = Entry(n + k)
  <2>1. ASSUME NEW k \in 1..(QLen - n)
        PROVE  Entry(k)' = Entry(n + k)
    <3>1. k \in Nat /\ k >= 1 /\ n + k <= Maxsize + 1
      BY <1>b
    <3> QED
      BY <1>2, <3>1
  <2> QED
    BY <2>1
<1> QED
  BY <1>0, <1>3, <1>5, <1>6

\* svm_msg_q_sub_raw takes the first entry.
LEMMA SubRawLine ==
  ASSUME IInv, LineInv, SubRaw
  PROVE  /\ LineInv' /\ 1 <= QLen /\ QLen' = QLen - 1
         /\ Len(held') = Len(held) + 1
         /\ \A i \in 1..Len(held) : held'[i] = held[i]
         /\ \A k \in 1..1 : held'[Len(held) + k] = Entry(k)
         /\ \A k \in 1..(QLen - 1) : Entry(k)' = Entry(1 + k)
<1> USE DEF ConsumerGoto, producerVars, consumerVars, queueVars, ringVars
<1>a. LineTypes /\ CallInv /\ DataInv /\ QueueInv /\ RingInv
  BY DEF LineInv
<1>b. qcursize \in Nat /\ qcursize > 0 /\ Maxsize \in Nat \ {0} /\ qhead \in 0..(Maxsize - 1)
  BY <1>a, Sizes DEF IInv, Types, TakeInv, SubRaw, LineTypes
<1>1. QLen = qcursize /\ QLen' = qcursize - 1
  BY <1>b DEF QLen, copied, SubRaw
<1>2. Entry(1) = qdata[qhead] /\ Entry(1) \in Message
  <2>1. qhead + 1 - 1 = qhead /\ qhead % Maxsize = qhead
    BY <1>b
  <2>2. 1 \in 1..QLen
    BY <1>b, <1>1
  <2> QED
    BY <1>a, <2>1, <2>2 DEF Entry, QueueInv
<1>3. /\ held' \in Seq(Message) /\ Len(held') = Len(held) + 1
      /\ \A i \in 1..Len(held) : held'[i] = held[i]
      /\ held'[Len(held) + 1] = Entry(1)
  <2>1. held \in Seq(Message) /\ held' = Append(held, Entry(1))
    BY <1>a, <1>2 DEF LineTypes, SubRaw
  <2> QED
    BY <1>2, <2>1, AppendProperties
<1>4. \A r \in Rings : Cnt(r)' = Cnt(r)
  BY DEF Cnt, SubRaw
<1>5. \A k \in 1..1 : held'[Len(held) + k] = Entry(k)
  BY <1>3
<1>6. 1 <= QLen /\ QLen' = QLen - 1 /\ 1 \in Nat
  BY <1>b, <1>1
<1>7. /\ QueueInv' /\ RingInv' /\ qhead' \in 0..(Maxsize - 1)
      /\ \A k \in 1..(QLen - 1) : Entry(k)' = Entry(1 + k)
  <2>1. /\ qhead' = (qhead + 1) % Maxsize
        /\ UNCHANGED <<qtail, qdata, rhead, rtail, ppc, pring, pelt>>
    BY DEF SubRaw
  <2> QED
    BY <1>3, <1>4, <1>5, <1>6, <2>1, Take
<1>8. LineTypes'
  <2>1. Len(held') <= MaxHeld
    BY <1>a, <1>3, LineFacts, Sizes DEF CallInv, SubRaw
  <2>2. /\ rhead' \in [Rings -> Nat] /\ rtail' \in [Rings -> Nat]
        /\ \A r \in Rings : rhead'[r] \in Slots(r) /\ rtail'[r] \in Slots(r)
        /\ rdata' = [r \in Rings |-> [e \in Slots(r) |-> rdata'[r][e]]]
    BY <1>a DEF LineTypes, SubRaw, Slots
  <2> QED
    BY <1>a, <1>3, <1>7, <2>1, <2>2 DEF LineTypes, SubRaw, Message, Slots
<1>9. CallInv' /\ DataInv'
  BY <1>a DEF CallInv, DataInv, SubRaw
<1> QED
  BY <1>3, <1>5, <1>6, <1>7, <1>8, <1>9 DEF LineInv

\* svm_msg_q_sub_raw_batch takes the first entries.
LEMMA SubRawBatchLine ==
  ASSUME IInv, LineInv, SubRawBatch
  PROVE  /\ LineInv' /\ cn' \in Nat /\ 1 <= cn' /\ cn' <= QLen /\ QLen' = QLen - cn'
         /\ Len(held') = Len(held) + cn'
         /\ \A i \in 1..Len(held) : held'[i] = held[i]
         /\ \A k \in 1..cn' : held'[Len(held) + k] = Entry(k)
         /\ \A k \in 1..(QLen - cn') : Entry(k)' = Entry(cn' + k)
<1> USE DEF ConsumerGoto, producerVars, consumerVars, queueVars, ringVars
<1>a. LineTypes /\ CallInv /\ DataInv /\ QueueInv /\ RingInv
  BY DEF LineInv
<1>b. qcursize \in Nat /\ qcursize <= Maxsize /\ Maxsize \in Nat \ {0} /\ qhead \in 0..(Maxsize - 1)
  BY <1>a, Sizes DEF IInv, Types, LineTypes
<1>1. PICK n \in Nat : /\ n = IF qcursize < MaxBatch THEN qcursize ELSE MaxBatch
                       /\ n >= 1 /\ n <= qcursize
  BY <1>b, Sizes DEF SubRawBatch
<1>2. /\ Len(held) + n <= MaxHeld
      /\ held' = held \o [i \in 1..n |-> Entry(i)]
      /\ qhead' = (qhead + n) % Maxsize
      /\ cn' = n
  BY <1>1 DEF SubRawBatch, Entry
<1>3. QLen = qcursize /\ QLen' = qcursize - n
  BY <1>b, <1>1, <1>2 DEF QLen, copied, SubRawBatch
<1>4. /\ held' \in Seq(Message) /\ Len(held') = Len(held) + n
      /\ \A i \in 1..Len(held) : held'[i] = held[i]
      /\ \A k \in 1..n : held'[Len(held) + k] = Entry(k)
  <2> DEFINE t == [i \in 1..n |-> Entry(i)]
  <2>1. \A i \in 1..n : Entry(i) \in Message
    BY <1>a, <1>b, <1>1, <1>3 DEF QueueInv
  <2>2. t \in Seq(Message) /\ Len(t) = n
    <3>1. t \in [1..n -> Message]
      BY <2>1
    <3> QED
      BY <1>1, <3>1
  <2>3. held \in Seq(Message) /\ held' = held \o t
    BY <1>a, <1>2 DEF LineTypes
  <2>4. \A k \in 1..n : t[k] = Entry(k)
    OBVIOUS
  <2> HIDE DEF t
  <2>5. held' \in Seq(Message) /\ Len(held') = Len(held) + Len(t)
    BY <2>2, <2>3, ConcatProperties
  <2>6. \A i \in 1..(Len(held) + Len(t)) :
          held'[i] = IF i <= Len(held) THEN held[i] ELSE t[i - Len(held)]
    BY <2>2, <2>3, ConcatProperties
  <2>7. Len(held) \in Nat
    BY LineFacts
  <2>8. ASSUME NEW k \in 1..n
        PROVE  held'[Len(held) + k] = Entry(k)
    <3>1. /\ Len(held) + k \in 1..(Len(held) + Len(t)) /\ ~(Len(held) + k <= Len(held))
          /\ Len(held) + k - Len(held) = k
      BY <1>1, <2>2, <2>7
    <3> QED
      BY <2>4, <2>6, <3>1
  <2>9. ASSUME NEW i \in 1..Len(held)
        PROVE  held'[i] = held[i]
    BY <1>1, <2>2, <2>6, <2>7
  <2> QED
    BY <2>2, <2>5, <2>8, <2>9
<1>5. \A r \in Rings : Cnt(r)' = Cnt(r)
  BY DEF Cnt, SubRawBatch
<1>6. n <= QLen /\ QLen' = QLen - n
  BY <1>b, <1>1, <1>3
<1>7. /\ QueueInv' /\ RingInv' /\ qhead' \in 0..(Maxsize - 1)
      /\ \A k \in 1..(QLen - n) : Entry(k)' = Entry(n + k)
  <2>1. UNCHANGED <<qtail, qdata, rhead, rtail, ppc, pring, pelt>>
    BY DEF SubRawBatch
  <2> QED
    BY <1>2, <1>4, <1>5, <1>6, <2>1, Take
<1>8. LineTypes'
  <2>1. csz' \in 0..Maxsize /\ cn' <= Maxsize /\ Len(held') <= MaxHeld
    BY <1>b, <1>1, <1>2, <1>4 DEF SubRawBatch
  <2>2. /\ rhead' \in [Rings -> Nat] /\ rtail' \in [Rings -> Nat]
        /\ \A r \in Rings : rhead'[r] \in Slots(r) /\ rtail'[r] \in Slots(r)
        /\ rdata' = [r \in Rings |-> [e \in Slots(r) |-> rdata'[r][e]]]
    BY <1>a DEF LineTypes, SubRawBatch, Slots
  <2> QED
    BY <1>a, <1>4, <1>7, <2>1, <2>2 DEF LineTypes, SubRawBatch, Message, Slots
<1>9. CallInv' /\ DataInv'
  BY <1>a DEF CallInv, DataInv, SubRawBatch
<1>10. LineInv'
  BY <1>7, <1>8, <1>9 DEF LineInv
<1> QED
  BY <1>1, <1>2, <1>4, <1>6, <1>7, <1>10

\* The oldest message held is at the head of its ring: the ring has a message
\* there, and none comes before the first of the line.
LEMMA OldestAtHead ==
  ASSUME IInv, LineInv, held # <<>>
  PROVE  /\ held[1] \in Message /\ Head(held) = held[1] /\ At(1, held[1])
         /\ \A m : At(1, m) => m = held[1]
         /\ Off(held[1][1], held[1][2]) = 0 /\ held[1][2] = rhead[held[1][1]]
         /\ Cnt(held[1][1]) >= 1
<1>a. RingInv /\ held \in Seq(Message) /\ Len(held) \in Nat
  BY LineFacts DEF LineInv, LineTypes
<1>1. Len(held) >= 1 /\ Head(held) = held[1]
  BY <1>a, EmptySeq
<1>2. held[1] \in Message /\ At(1, held[1])
  <2>1. 1 \in 1..Len(held)
    BY <1>a, <1>1
  <2> QED
    BY <1>a, <2>1, ElementOfSeq DEF At
<1>3. \A m : At(1, m) => m = held[1]
  BY <1>1, Places
<1> DEFINE m0 == held[1]
<1> HIDE DEF m0
<1>b. m0 \in Message /\ At(1, m0) /\ \A m : At(1, m) => m = m0
  BY <1>2, <1>3 DEF m0
<1>4. /\ m0[1] \in Rings /\ Off(m0[1], m0[2]) \in Nat
      /\ Off(m0[1], m0[2]) < Cnt(m0[1]) /\ Cnt(m0[1]) \in Nat
      /\ Off(m0[1], m0[2]) = 0 <=> m0[2] = rhead[m0[1]]
  <2>1. /\ m0[1] \in Rings /\ Off(m0[1], m0[2]) \in 0..(Nitems[m0[1]] - 1)
        /\ Off(m0[1], m0[2]) = 0 <=> m0[2] = rhead[m0[1]]
    BY <1>b, OffRange
  <2>2. Off(m0[1], m0[2]) < Cnt(m0[1])
    BY <1>a, <1>b DEF RingInv
  <2> QED
    BY <2>1, <2>2, LineFacts
<1>5. Off(m0[1], m0[2]) = 0
  <2>1. 0 \in Nat /\ 0 < Cnt(m0[1])
    BY <1>4
  <2>2. PICK i \in Nat, m \in Message : At(i, m) /\ m[1] = m0[1] /\ Off(m0[1], m[2]) = 0
    BY <1>a, <1>4, <2>1 DEF RingInv
  <2>3. i >= 1
    BY <2>2, Places
  <2>4. CASE i = 1
    BY <1>b, <2>2, <2>4
  <2>5. CASE i > 1
    <3>1. Off(m0[1], m0[2]) < Off(m[1], m[2])
      BY <1>a, <1>b, <2>2, <2>5 DEF RingInv
    <3> QED
      BY <1>4, <2>2, <3>1
  <2> QED
    BY <2>3, <2>4, <2>5
<1> QED
  BY <1>1, <1>2, <1>3, <1>4, <1>5 DEF m0

\* svm_msg_q_free_msg takes it out of the line.
LEMMA FreeMsgLine ==
  ASSUME IInv, LineInv, FreeMsg
  PROVE  /\ LineInv' /\ held # <<>> /\ held' = Tail(held)
         /\ Len(held) >= 1 /\ Len(held') = Len(held) - 1
         /\ \A i \in 1..Len(held') : held'[i] = held[i + 1]
         /\ QLen' = QLen /\ \A k : Entry(k)' = Entry(k)
<1> USE DEF ConsumerGoto, producerVars, consumerVars, queueVars, ringVars
<1>a. LineTypes /\ CallInv /\ DataInv /\ QueueInv /\ RingInv
  BY DEF LineInv
<1>b. held # <<>> /\ held' = Tail(held) /\ held \in Seq(Message)
  BY <1>a DEF FreeMsg, LineTypes
<1>c. PICK m0 \in Message :
        /\ m0 = held[1] /\ Head(held) = m0
        /\ At(1, m0) /\ (\A m : At(1, m) => m = m0)
        /\ Off(m0[1], m0[2]) = 0 /\ m0[2] = rhead[m0[1]] /\ Cnt(m0[1]) >= 1
  BY <1>b, OldestAtHead
<1>d. PICK s \in Rings : s = m0[1]
  BY <1>c, OffRange
<1>e. /\ Nitems[s] \in Nat \ {0} /\ rhead[s] \in 0..(Nitems[s] - 1)
      /\ Cnt(s) \in Nat /\ Cnt(s) >= 1 /\ Cnt(s) <= Nitems[s]
  BY <1>a, <1>c, <1>d, Sizes, LineFacts DEF RingInv
<1>f. Len(held) \in Nat /\ QLen \in Nat
  BY LineFacts
<1>1. /\ held' \in Seq(Message) /\ Len(held) >= 1 /\ Len(held') = Len(held) - 1
      /\ \A i \in 1..Len(held') : held'[i] = held[i + 1]
  BY <1>b, <1>f, HeadTailProperties, EmptySeq
<1>2. /\ rhead' = [rhead EXCEPT ![s] = (rhead[s] + 1) % Nitems[s]]
      /\ cpc' = "freeDec" /\ cring' = s /\ cpc = "idle"
  BY <1>c, <1>d DEF FreeMsg
<1>3. /\ QLen' = QLen /\ qhead' = qhead /\ qtail' = qtail /\ qdata' = qdata /\ rtail' = rtail
      /\ ppc' = ppc /\ pring' = pring /\ pelt' = pelt /\ \A k : Entry(k)' = Entry(k)
  BY DEF FreeMsg, QLen, copied, Entry
<1>4. \A r \in Rings : rhead'[r] = IF r = s THEN (rhead[s] + 1) % Nitems[s] ELSE rhead[r]
  BY <1>a, <1>2 DEF LineTypes
<1>5. /\ \A r \in Rings : r # s => Cnt(r)' = Cnt(r)
      /\ Cnt(s)' = Cnt(s) - 1
  <2>1. rcursize' = rcursize /\ rcursize \in [Rings -> Int]
    BY DEF FreeMsg, IInv, Types
  <2> QED
    BY <1>2, <2>1 DEF Cnt
<1>6. (rhead[s] + 1) % Nitems[s] = IF rhead[s] + 1 < Nitems[s] THEN rhead[s] + 1 ELSE 0
  <2> DEFINE N == Nitems[s]
             y == rhead[s] + 1
  <2>1. N \in Nat \ {0} /\ y \in 0..(2 * N - 1) /\ y <= N
    BY <1>e
  <2> HIDE DEF N, y
  <2>2. y % N = IF y < N THEN y ELSE y - N
    BY <2>1, Around
  <2>3. y % N = IF y < N THEN y ELSE 0
    BY <2>1, <2>2
  <2> QED
    BY <2>3 DEF N, y
<1>7. ASSUME NEW m \in Message
      PROVE  /\ m[1] # s => Off(m[1], m[2])' = Off(m[1], m[2])
             /\ m[1] = s /\ Off(m[1], m[2]) >= 1 => Off(m[1], m[2])' = Off(m[1], m[2]) - 1
  <2>1. m[1] \in Rings /\ m[2] \in 0..(Nitems[m[1]] - 1)
    BY OffRange
  <2>2. CASE m[1] # s
    BY <1>4, <2>1, <2>2 DEF Off
  <2>3. CASE m[1] = s
    <3>1. rhead'[s] = IF rhead[s] + 1 < Nitems[s] THEN rhead[s] + 1 ELSE 0
      BY <1>4, <1>6
    <3> QED
      BY <1>e, <2>1, <2>3, <3>1 DEF Off
  <2> QED
    BY <2>2, <2>3
<1>8. LineTypes'
  <2>1. rhead' \in [Rings -> Nat] /\ \A r \in Rings : rhead'[r] \in Slots(r)
    <3>1. (rhead[s] + 1) % Nitems[s] \in 0..(Nitems[s] - 1) /\ (rhead[s] + 1) % Nitems[s] \in Nat
      BY <1>e, <1>6
    <3>2. rhead' \in [Rings -> Nat]
      BY <1>a, <1>2, <3>1 DEF LineTypes
    <3>3. \A r \in Rings : rhead'[r] \in Slots(r)
      BY <1>a, <1>4, <3>1 DEF LineTypes, Slots
    <3> QED
      BY <3>2, <3>3
  <2>2. cring' \in Rings /\ cneed' \in BOOLEAN
    BY <1>2 DEF FreeMsg
  <2>3. Len(held') <= MaxHeld
    BY <1>a, <1>f, <1>1, Sizes DEF LineTypes
  <2>4. /\ rtail' \in [Rings -> Nat] /\ \A r \in Rings : rtail'[r] \in Slots(r)
        /\ rdata' = [r \in Rings |-> [e \in Slots(r) |-> rdata'[r][e]]]
    BY <1>a DEF LineTypes, FreeMsg, Slots
  <2> QED
    BY <1>a, <1>1, <2>1, <2>2, <2>3, <2>4 DEF LineTypes, FreeMsg, Message, Slots
<1>9. CallInv' /\ DataInv'
  BY <1>a DEF CallInv, DataInv, FreeMsg
<1>10. QueueInv'
  <2>1. QLen' \in 0..Maxsize /\ \A k \in 1..QLen' : Entry(k)' \in Message
    BY <1>a, <1>3 DEF QueueInv
  <2>2. ASSUME NEW q \in Producers
        PROVE  /\ ppc'[q] \in Filling => <<pring'[q], pelt'[q]>> \in Message
               /\ ppc'[q] = "publish" => /\ Entry(QLen + 1)' = <<pring'[q], pelt'[q]>>
                                         /\ qtail' = (qhead' + QLen' + 1) % Maxsize
    <3>1. Entry(QLen + 1)' = Entry(QLen + 1)
      BY <1>3 DEF Entry
    <3> QED
      BY <1>a, <1>3, <3>1 DEF QueueInv
  <2>3. (\A q \in Producers : ppc'[q] # "publish") => qtail' = (qhead' + QLen') % Maxsize
    BY <1>a, <1>3 DEF QueueInv
  <2> QED
    BY <2>1, <2>2, <2>3 DEF QueueInv, Message
<1>11. ASSUME NEW i \in Nat, NEW m
       PROVE  At(i, m)' <=> i >= 1 /\ At(i + 1, m)
  <2>1. (i \in 1..Len(held') /\ m = held'[i])
          <=> (i >= 1 /\ i + 1 \in 1..Len(held) /\ m = held[i + 1])
    BY <1>f, <1>1
  <2>2. (\E k \in 1..QLen' : i = Len(held') + k /\ m = Entry(k)')
          <=> (i >= 1 /\ \E k \in 1..QLen : i + 1 = Len(held) + k /\ m = Entry(k))
    <3>1. \A k \in 1..QLen : i = Len(held') + k <=> i + 1 = Len(held) + k
      BY <1>f, <1>1
    <3>2. \A k \in 1..QLen : i + 1 = Len(held) + k => i >= 1
      BY <1>f, <1>1
    <3> QED
      BY <1>3, <3>1, <3>2
  <2>3. (\E q \in Producers : /\ ppc'[q] \in Filling
                              /\ i = Len(held') + QLen' + 1 /\ m = <<pring'[q], pelt'[q]>>)
          <=> (i >= 1 /\ \E q \in Producers : /\ ppc[q] \in Filling
                                              /\ i + 1 = Len(held) + QLen + 1
                                              /\ m = <<pring[q], pelt[q]>>)
    <3>0. Len(held') + QLen' = Len(held) - 1 + QLen
      BY <1>1, <1>3
    <3>1. i = Len(held') + QLen' + 1 <=> i + 1 = Len(held) + QLen + 1
      BY <1>f, <3>0
    <3>2. i + 1 = Len(held) + QLen + 1 => i >= 1
      BY <1>f, <1>1
    <3> QED
      BY <1>3, <3>1, <3>2
  <2> QED
    BY <2>1, <2>2, <2>3 DEF At
<1>12. ASSUME NEW i \in Nat, NEW m \in Message, At(i, m)'
       PROVE  /\ At(i + 1, m) /\ Off(m[1], m[2]) \in Nat
              /\ m[1] = s => Off(m[1], m[2]) >= 1
  <2>1. i >= 1 /\ At(i + 1, m)
    BY <1>11, <1>12
  <2>2. m[1] \in Rings /\ Off(m[1], m[2]) \in 0..(Nitems[m[1]] - 1)
    BY OffRange
  <2>3. m[1] = s => Off(m0[1], m0[2]) < Off(m[1], m[2])
    <3>1. 1 \in Nat /\ i + 1 \in Nat /\ 1 < i + 1
      BY <2>1
    <3> QED
      BY <1>a, <1>c, <1>d, <2>1, <3>1 DEF RingInv
  <2> QED
    BY <1>c, <2>1, <2>2, <2>3
<1>13. RingInv'
  <2>1. ASSUME NEW r \in Rings
        PROVE  Cnt(r)' \in 0..Nitems[r] /\ rtail'[r] = (rhead'[r] + Cnt(r)') % Nitems[r]
    <3>1. CASE r # s
      BY <1>a, <1>3, <1>4, <1>5, <3>1 DEF RingInv
    <3>2. CASE r = s
      <4> DEFINE N == Nitems[s]
                 h == rhead[s]
                 k == Cnt(s) - 1
      <4>1. /\ N \in Nat \ {0} /\ h \in 0..(N - 1) /\ 1 \in 0..N /\ k \in 0..N /\ 1 + k <= N
            /\ 1 + k = Cnt(s) /\ k = Cnt(s)'
        BY <1>e, <1>5
      <4>2. rhead'[s] = (h + 1) % N /\ rtail'[s] = (h + Cnt(s)) % N
        BY <1>a, <1>3, <1>4 DEF RingInv
      <4> HIDE DEF N, h, k
      <4>3. (((h + 1) % N) + k) % N = (h + (1 + k)) % N
        BY <4>1, Shift
      <4>4. rtail'[s] = (rhead'[s] + Cnt(s)') % N
        BY <4>1, <4>2, <4>3
      <4> QED
        BY <3>2, <4>1, <4>4 DEF N
    <3> QED
      BY <3>1, <3>2
  <2>2. ASSUME NEW i \in Nat, NEW m \in Message, At(i, m)'
        PROVE  Off(m[1], m[2])' < Cnt(m[1])'
    <3>1. Off(m[1], m[2]) < Cnt(m[1]) /\ Off(m[1], m[2]) \in Nat /\ m[1] \in Rings
      <4>1. At(i + 1, m) /\ i + 1 \in Nat
        BY <1>12, <2>2
      <4> QED
        BY <1>a, <1>12, <2>2, <4>1, OffRange DEF RingInv
    <3>2. CASE m[1] = s
      BY <1>e, <1>5, <1>7, <1>12, <2>2, <3>1, <3>2
    <3>3. CASE m[1] # s
      BY <1>5, <1>7, <3>1, <3>3
    <3> QED
      BY <3>2, <3>3
  <2>3. ASSUME NEW i \in Nat, NEW j \in Nat, NEW m \in Message, NEW n \in Message,
               At(i, m)', At(j, n)', i < j, m[1] = n[1]
        PROVE  Off(m[1], m[2])' < Off(n[1], n[2])'
    <3>1. /\ At(i + 1, m) /\ Off(m[1], m[2]) \in Nat /\ (m[1] = s => Off(m[1], m[2]) >= 1)
          /\ At(j + 1, n) /\ Off(n[1], n[2]) \in Nat /\ (n[1] = s => Off(n[1], n[2]) >= 1)
      BY <1>12, <2>3
    <3>2. Off(m[1], m[2]) < Off(n[1], n[2])
      <4>1. i + 1 \in Nat /\ j + 1 \in Nat /\ i + 1 < j + 1
        BY <2>3
      <4> QED
        BY <1>a, <2>3, <3>1, <4>1 DEF RingInv
    <3>3. CASE m[1] = s
      <4>1. /\ Off(m[1], m[2])' = Off(m[1], m[2]) - 1
            /\ Off(n[1], n[2])' = Off(n[1], n[2]) - 1
        BY <1>7, <2>3, <3>1, <3>3
      <4> QED
        BY <3>1, <3>2, <4>1
    <3>4. CASE m[1] # s
      BY <1>7, <2>3, <3>2, <3>4
    <3> QED
      BY <3>3, <3>4
  <2>4. ASSUME NEW r \in Rings, NEW x \in Nat, x < Cnt(r)'
        PROVE  \E i \in Nat, m \in Message : At(i, m)' /\ m[1] = r /\ Off(r, m[2])' = x
    <3>1. PICK y \in Nat : y = IF r = s THEN x + 1 ELSE x
      OBVIOUS
    <3>2. y < Cnt(r) /\ Cnt(r) \in Nat
      BY <1>e, <1>5, <2>4, <3>1, LineFacts
    <3>3. PICK i \in Nat, m \in Message : At(i, m) /\ m[1] = r /\ Off(r, m[2]) = y
      BY <1>a, <3>2 DEF RingInv
    <3>4. i >= 1 /\ i # 1
      <4>1. i >= 1
        BY <3>3, Places
      <4>2. i # 1
        BY <1>c, <1>d, <3>1, <3>3
      <4> QED
        BY <4>1, <4>2
    <3>5. PICK j \in Nat : i = j + 1 /\ j >= 1
      <4>1. i - 1 \in Nat /\ i = (i - 1) + 1 /\ i - 1 >= 1
        BY <3>4
      <4> QED
        BY <4>1
    <3>6. At(j, m)'
      BY <1>11, <3>3, <3>5
    <3>7. Off(r, m[2])' = x
      <4>1. Off(m[1], m[2]) = y /\ (r = s => y >= 1)
        BY <3>1, <3>3
      <4>2. Off(m[1], m[2])' = x
        BY <1>7, <3>1, <3>3, <4>1
      <4> QED
        BY <3>3, <4>2
    <3> QED
      BY <3>3, <3>5, <3>6, <3>7
  <2> QED
    BY <2>1, <2>2, <2>3, <2>4 DEF RingInv, Message
<1>14. LineInv'
  BY <1>8, <1>9, <1>10, <1>13 DEF LineInv
<1> QED
  BY <1>b, <1>1, <1>3, <1>14

-----------------------------------------------------------------------------
\* The line is in order in every reachable state.
LEMMA LineInductive ==
  ASSUME MaxCrashes = 0, "timed" \notin Spurious
  PROVE  Spec => [](IInv /\ LineInv)
<1>1. Init => LineInv
  BY InitLine
<1>2. IInv /\ LineInv /\ [Next]_vars => LineInv'
  <2> SUFFICES ASSUME IInv, LineInv, [Next]_vars PROVE LineInv'
    OBVIOUS
  <2>1. ASSUME NEW p \in Producers, Lock(p) \/ ProducerStep(p)
        PROVE  LineInv'
    BY <2>1, ProducerQuiet, FillMsgLine, AllocMsgLine, AddRawLine, PublishLine DEF ProducerStep
  <2>2. ASSUME NEW p \in Producers
        PROVE  ~Crash(p)
    BY DEF Crash, LineInv, LineTypes
  <2>3. CASE Sub \/ ConsumerStep
    BY <2>3, ConsumerQuiet, SubRawLine DEF ConsumerStep
  <2>4. CASE SubRawBatch
    BY <2>4, SubRawBatchLine
  <2>5. CASE FreeMsg
    BY <2>5, FreeMsgLine
  <2>6. CASE \E t \in Threads : SpuriousWake(t)
    BY <2>6, SpuriousQuiet
  <2>7. CASE UNCHANGED vars
    <3> USE <2>7 DEF vars, producerVars, consumerVars, queueVars, ringVars
    <3>1. LineTypes' /\ CallInv' /\ DataInv'
      BY DEF LineInv, LineTypes, CallInv, DataInv
    <3>2. Quiet
      BY DEF Quiet, QLen, copied, Cnt
    <3> QED
      BY <3>1, <3>2, QuietLine DEF LineInv
  <2> QED
    BY <2>1, <2>2, <2>3, <2>4, <2>5, <2>6, <2>7 DEF Next
<1>3. Spec => []IInv
  BY Inductive
<1> QED
  BY <1>1, <1>2, <1>3, PTL DEF Spec

\* Every variable keeps its type and no count leaves its range, for any number
\* of producers and any sizes of the queue and of the rings.
THEOREM TypeCorrect ==
  ASSUME MaxCrashes = 0, "timed" \notin Spurious
  PROVE  Spec => []TypeOK
<1>1. IInv /\ LineInv => TypeOK
  <2> SUFFICES ASSUME IInv, LineInv PROVE TypeOK
    OBVIOUS
  <2>1. LineTypes /\ RingInv /\ Types /\ RoomInv
    BY DEF IInv, LineInv
  <2>2. Message \subseteq Msgs
    <3>1. ASSUME NEW m \in Message
          PROVE  m \in Msgs
      <4>1. m = <<m[1], m[2]>> /\ m[1] \in Rings /\ m[2] \in AnySlot
        BY DEF Message, AnySlot
      <4> QED
        BY <4>1 DEF Msgs
    <3> QED
      BY <3>1
  <2>3. held \in Seq(Msgs)
    BY <2>1, <2>2, SeqMonotonic DEF LineTypes
  <2>4. qdata \in [0..(Maxsize - 1) -> Msgs \cup {NoData}]
    BY <2>1, <2>2 DEF LineTypes
  <2>5. \A r \in Rings : rcursize[r] \in 0..Nitems[r]
    BY <2>1, Sizes DEF RingInv, Cnt, Types, RoomInv
  <2>6. pelt \in [Producers -> AnySlot]
    BY <2>1 DEF LineTypes
  <2>7. cn \in 0..Maxsize /\ crashes \in 0..MaxCrashes
    BY <2>1, Sizes DEF LineTypes, Types
  <2> QED
    BY <2>1, <2>3, <2>4, <2>5, <2>6, <2>7 DEF TypeOK, LineTypes, Types
<1> QED
  BY <1>1, LineInductive, PTL

\* svm_msg_q_free_msg always finds the message it frees at the head of its
\* ring, however the messages of several rings are interleaved.
THEOREM FreesCorrect ==
  ASSUME MaxCrashes = 0, "timed" \notin Spurious
  PROVE  Spec => []FreesInOrder
<1>1. IInv /\ LineInv => FreesInOrder
  BY OldestAtHead DEF FreesInOrder
<1> QED
  BY <1>1, LineInductive, PTL
-----------------------------------------------------------------------------
(* The refinement: functions on 1..n as sequences, and the steps. *)

LEMMA FunSeq ==
  ASSUME NEW S, NEW n \in Nat, NEW f \in [1..n -> S]
  PROVE  f \in Seq(S) /\ Len(f) = n /\ \A i \in 1..n : f[i] \in S
OBVIOUS

LEMMA AppendFun ==
  ASSUME NEW S, NEW n \in Nat, NEW f \in [1..n -> S], NEW g \in [1..(n + 1) -> S],
         \A i \in 1..n : g[i] = f[i]
  PROVE  Len(f) = n /\ g = Append(f, g[n + 1])
<1>1. n + 1 \in Nat /\ n + 1 \in 1..(n + 1)
  OBVIOUS
<1>2. f \in Seq(S) /\ g \in Seq(S) /\ Len(f) = n /\ Len(g) = n + 1 /\ g[n + 1] \in S
  BY <1>1, FunSeq
<1>3. /\ Append(f, g[n + 1]) \in Seq(S) /\ Len(Append(f, g[n + 1])) = n + 1
      /\ \A i \in 1..n : Append(f, g[n + 1])[i] = f[i]
      /\ Append(f, g[n + 1])[n + 1] = g[n + 1]
  BY <1>2, AppendProperties
<1>4. \A i \in 1..Len(g) : g[i] = Append(f, g[n + 1])[i]
  <2>1. \A i \in 1..(n + 1) : i \in 1..n \/ i = n + 1
    OBVIOUS
  <2> QED
    BY <1>2, <1>3, <2>1
<1> QED
  BY <1>2, <1>3, <1>4, SeqEqual

LEMMA PrefixFun ==
  ASSUME NEW S, NEW c \in Nat, NEW n \in Nat, n <= c, NEW q \in [1..c -> S]
  PROVE  /\ SubSeq(q, 1, n) \in Seq(S) /\ Len(SubSeq(q, 1, n)) = n
         /\ \A i \in 1..n : SubSeq(q, 1, n)[i] = q[i]
<1>1. \A i \in 1..n : q[i] \in S
  OBVIOUS
<1>2. /\ Len(SubSeq(q, 1, n)) = IF 1 <= n THEN n - 1 + 1 ELSE 0
      /\ \A i \in 1..(n - 1 + 1) : SubSeq(q, 1, n)[i] = q[1 + i - 1]
      /\ SubSeq(q, 1, n) \in Seq(S)
  BY <1>1, SubSeqProperties
<1>3. \A i \in 1..n : 1 + i - 1 = i /\ i \in 1..(n - 1 + 1)
  OBVIOUS
<1>4. (IF 1 <= n THEN n - 1 + 1 ELSE 0) = n
  OBVIOUS
<1> QED
  BY <1>2, <1>3, <1>4

LEMMA DropFun ==
  ASSUME NEW S, NEW c \in Nat, NEW n \in Nat, NEW d \in Nat, n <= c, d = c - n,
         NEW q \in [1..c -> S], NEW qq \in [1..d -> S],
         \A k \in 1..d : qq[k] = q[n + k]
  PROVE  Len(q) = c /\ qq = SubSeq(q, n + 1, Len(q))
<1>1. Len(q) = c /\ \A i \in 1..c : q[i] \in S
  BY FunSeq
<1>2. qq \in Seq(S) /\ Len(qq) = c - n
  <2>1. c - n \in Nat
    OBVIOUS
  <2> QED
    BY <2>1, FunSeq
<1>3. PICK t : t = SubSeq(q, n + 1, c)
  OBVIOUS
<1>4. t \in Seq(S) /\ Len(t) = c - n /\ \A i \in 1..(c - n) : t[i] = q[n + i]
  <2>1. \A i \in (n + 1)..c : q[i] \in S
    BY <1>1
  <2>2. /\ Len(SubSeq(q, n + 1, c)) = IF n + 1 <= c THEN c - (n + 1) + 1 ELSE 0
        /\ \A i \in 1..(c - (n + 1) + 1) : SubSeq(q, n + 1, c)[i] = q[(n + 1) + i - 1]
        /\ SubSeq(q, n + 1, c) \in Seq(S)
    BY <2>1, SubSeqProperties
  <2>3. \A i \in 1..(c - n) : (n + 1) + i - 1 = n + i /\ i \in 1..(c - (n + 1) + 1)
    OBVIOUS
  <2>4. (IF n + 1 <= c THEN c - (n + 1) + 1 ELSE 0) = c - n
    OBVIOUS
  <2> QED
    BY <1>3, <2>2, <2>3, <2>4
<1>5. qq = t
  <2>1. \A i \in 1..Len(qq) : qq[i] = t[i]
    BY <1>2, <1>4
  <2> QED
    BY <1>2, <1>4, <2>1, SeqEqual
<1> QED
  BY <1>1, <1>3, <1>5

LEMMA ConcatFun ==
  ASSUME NEW S, NEW b \in Seq(S), NEW h \in Seq(S), NEW bb \in Seq(S),
         Len(bb) = Len(b) + Len(h),
         \A i \in 1..Len(b) : bb[i] = b[i],
         \A k \in 1..Len(h) : bb[Len(b) + k] = h[k]
  PROVE  bb = b \o h
<1>1. PICK a \in Nat, n \in Nat : a = Len(b) /\ n = Len(h)
  BY LenProperties
<1>2. /\ Len(bb) = a + n
      /\ \A i \in 1..a : bb[i] = b[i]
      /\ \A k \in 1..n : bb[a + k] = h[k]
  BY <1>1
<1>3. /\ b \o h \in Seq(S) /\ Len(b \o h) = a + n
      /\ \A i \in 1..(a + n) : (b \o h)[i] = IF i <= a THEN b[i] ELSE h[i - a]
  BY <1>1, ConcatProperties
<1>4. ASSUME NEW i \in 1..(a + n)
      PROVE  bb[i] = (b \o h)[i]
  <2>1. CASE i <= a
    <3>1. i \in 1..a
      BY <2>1
    <3> QED
      BY <1>2, <1>3, <2>1, <3>1
  <2>2. CASE i > a
    <3>1. i - a \in 1..n /\ a + (i - a) = i /\ ~(i <= a)
      BY <2>2
    <3>2. bb[a + (i - a)] = h[i - a]
      BY <1>2, <3>1
    <3> QED
      BY <1>3, <3>1, <3>2
  <2>3. i <= a \/ i > a
    OBVIOUS
  <2> QED
    BY <2>1, <2>2, <2>3
<1> QED
  BY <1>2, <1>3, <1>4, SeqEqual

LEMMA TailFun ==
  ASSUME NEW S, NEW n \in Nat, n >= 1, NEW f \in [1..n -> S], NEW g \in [1..(n - 1) -> S],
         \A i \in 1..(n - 1) : g[i] = f[i + 1]
  PROVE  f # <<>> /\ g = Tail(f)
<1>1. n - 1 \in Nat
  OBVIOUS
<1>2. f \in Seq(S) /\ g \in Seq(S) /\ Len(f) = n /\ Len(g) = n - 1
  BY <1>1, FunSeq
<1>3. f # <<>>
  BY <1>2, EmptySeq
<1>4. /\ Tail(f) \in Seq(S) /\ Len(Tail(f)) = n - 1
      /\ \A i \in 1..(n - 1) : Tail(f)[i] = f[i + 1]
  BY <1>2, <1>3, HeadTailProperties
<1>5. \A i \in 1..Len(g) : g[i] = Tail(f)[i]
  BY <1>2, <1>4
<1> QED
  BY <1>2, <1>3, <1>4, <1>5, SeqEqual

\* A step after which the same messages are in the same places, with the same
\* data, is a stutter of the FIFO.
LEMMA Stutter ==
  ASSUME IInv, LineInv, held' = held, QLen' = QLen, \A k \in 1..QLen : Entry(k)' = Entry(k),
         sent' = sent,
         \A i, m : At(i, m) /\ i <= Len(held) + QLen => rdata'[m[1]][m[2]] = rdata[m[1]][m[2]]
  PROVE  UNCHANGED Fifo!fifoVars
<1>a. Len(held) \in Nat /\ QLen \in Nat
  BY LineFacts
<1>1. queue' = queue
  <2>1. ASSUME NEW k \in 1..QLen
        PROVE  rdata'[Entry(k)[1]][Entry(k)[2]] = rdata[Entry(k)[1]][Entry(k)[2]]
    <3>1. At(Len(held) + k, Entry(k)) /\ Len(held) + k <= Len(held) + QLen
      BY <1>a DEF At
    <3> QED
      BY <3>1
  <2>2. queue = [k \in 1..QLen |-> rdata[Entry(k)[1]][Entry(k)[2]]]
    BY DEF queue, QLen, Entry, MsgData
  <2>3. queue' = [k \in 1..QLen' |-> rdata'[Entry(k)'[1]][Entry(k)'[2]]]
    BY DEF queue, QLen, Entry, MsgData
  <2>4. \A k \in 1..QLen : rdata'[Entry(k)'[1]][Entry(k)'[2]] = rdata[Entry(k)[1]][Entry(k)[2]]
    BY <2>1
  <2> QED
    BY <2>2, <2>3, <2>4
<1>2. inbox' = inbox
  <2>1. ASSUME NEW i \in 1..Len(held)
        PROVE  rdata'[held[i][1]][held[i][2]] = rdata[held[i][1]][held[i][2]]
    <3>1. At(i, held[i]) /\ i <= Len(held) + QLen
      BY <1>a DEF At
    <3> QED
      BY <3>1
  <2> QED
    BY <2>1 DEF inbox, MsgData
<1> QED
  BY <1>1, <1>2 DEF Fifo!fifoVars

\* The write of the event touches no message in the queue or in the inbox.
LEMMA FillStutters ==
  ASSUME IInv, LineInv, NEW p \in Producers, FillMsg(p)
  PROVE  UNCHANGED Fifo!fifoVars
<1>a. RingInv /\ LineTypes /\ QueueInv
  BY DEF LineInv
<1>b. Len(held) \in Nat /\ QLen \in Nat
  BY LineFacts
<1>1. PICK m0 \in Message : m0 = <<pring[p], pelt[p]>>
  BY <1>a DEF FillMsg, ProducerGoto, QueueInv, Filling
<1>2. PICK i0 \in Nat : i0 = Len(held) + QLen + 1
  BY <1>b
<1>3. At(i0, m0)
  BY <1>1, <1>2 DEF At, FillMsg, ProducerGoto, Filling
<1>4. ASSUME NEW i, NEW m, At(i, m), i <= Len(held) + QLen
      PROVE  rdata'[m[1]][m[2]] = rdata[m[1]][m[2]]
  <2>1. i \in Nat /\ m \in Message /\ i < i0
    BY <1>b, <1>2, <1>4, Places
  <2>2. m[1] # m0[1] \/ m[2] # m0[2]
    <3>1. m[1] = m0[1] => Off(m[1], m[2]) < Off(m0[1], m0[2])
      BY <1>a, <1>3, <1>4, <2>1 DEF RingInv
    <3>2. Off(m0[1], m0[2]) \in Nat
      BY OffRange
    <3> QED
      BY <3>1, <3>2
  <2>3. rdata' = [rdata EXCEPT ![m0[1]][m0[2]] = <<p, sent[p] + 1>>]
    BY <1>1 DEF FillMsg
  <2>4. rdata = [r \in Rings |-> [e \in Slots(r) |-> rdata[r][e]]]
    BY <1>a DEF LineTypes
  <2>5. /\ m[1] \in Rings /\ m[2] \in Slots(m[1])
        /\ m0[1] \in Rings /\ m0[2] \in Slots(m0[1])
    BY <2>1 DEF Message
  <2> QED
    BY <2>2, <2>3, <2>4, <2>5
<1>5. held' = held /\ QLen' = QLen /\ (\A k \in 1..QLen : Entry(k)' = Entry(k)) /\ sent' = sent
  BY DEF FillMsg, QLen, copied, Entry, queueVars, consumerVars
<1> QED
  BY <1>4, <1>5, Stutter

\* The count of Publish is where a message is sent.
LEMMA PublishSends ==
  ASSUME IInv, LineInv, NEW p \in Producers, Publish(p)
  PROVE  Fifo!Send(p)
<1>a. /\ held' = held /\ QLen' = QLen + 1 /\ QLen < Maxsize /\ QLen \in Nat
      /\ \A k : Entry(k)' = Entry(k)
      /\ Entry(QLen + 1) = <<pring[p], pelt[p]>>
  BY PublishLine, LineFacts
<1>b. rdata' = rdata /\ sent' = [sent EXCEPT ![p] = @ + 1] /\ ppc[p] = "publish"
  BY DEF Publish, ProducerGoto, ringVars
<1>c. sent'[p] = sent[p] + 1
  BY <1>b DEF LineInv, LineTypes
<1>1. queue = [k \in 1..QLen |-> rdata[Entry(k)[1]][Entry(k)[2]]]
  BY DEF queue, QLen, Entry, MsgData
<1>2. queue' = [k \in 1..(QLen + 1) |-> rdata[Entry(k)[1]][Entry(k)[2]]]
  <2>1. queue' = [k \in 1..QLen' |-> rdata'[Entry(k)'[1]][Entry(k)'[2]]]
    BY DEF queue, QLen, Entry, MsgData
  <2> QED
    BY <1>a, <1>b, <2>1
<1>3. PICK S : S = {rdata[Entry(k)[1]][Entry(k)[2]] : k \in 1..(QLen + 1)}
  OBVIOUS
<1>4. queue \in [1..QLen -> S] /\ queue' \in [1..(QLen + 1) -> S]
  BY <1>a, <1>1, <1>2, <1>3
<1>5. \A k \in 1..QLen : queue'[k] = queue[k]
  BY <1>a, <1>1, <1>2
<1>6. queue'[QLen + 1] = <<p, sent'[p]>>
  <2>1. queue'[QLen + 1] = rdata[Entry(QLen + 1)[1]][Entry(QLen + 1)[2]]
    BY <1>a, <1>2
  <2>2. rdata[pring[p]][pelt[p]] = <<p, sent[p] + 1>>
    BY <1>b DEF LineInv, DataInv
  <2> QED
    BY <1>a, <1>c, <2>1, <2>2
<1>7. Len(queue) = QLen /\ queue' = Append(queue, queue'[QLen + 1])
  BY <1>a, <1>4, <1>5, AppendFun
<1>8. inbox' = inbox
  BY <1>a, <1>b DEF inbox, MsgData
<1> QED
  BY <1>a, <1>b, <1>6, <1>7, <1>8 DEF Fifo!Send

\* Moving the head of the queue is where messages are received.
LEMMA TakeReceives ==
  ASSUME IInv, LineInv, NEW n \in Nat
  PROVE  /\ 1 <= n /\ n <= QLen /\ QLen' = QLen - n
         /\ Len(held') = Len(held) + n
         /\ \A i \in 1..Len(held) : held'[i] = held[i]
         /\ \A k \in 1..n : held'[Len(held) + k] = Entry(k)
         /\ \A k \in 1..(QLen - n) : Entry(k)' = Entry(n + k)
         /\ UNCHANGED <<rdata, sent>>
         => Fifo!Receive
<1>h. SUFFICES ASSUME 1 <= n, n <= QLen, QLen' = QLen - n,
                      Len(held') = Len(held) + n,
                      \A i \in 1..Len(held) : held'[i] = held[i],
                      \A k \in 1..n : held'[Len(held) + k] = Entry(k),
                      \A k \in 1..(QLen - n) : Entry(k)' = Entry(n + k),
                      UNCHANGED <<rdata, sent>>
               PROVE  Fifo!Receive
  OBVIOUS
<1>a. Len(held) \in Nat /\ QLen \in Nat
  BY LineFacts
<1>1. queue = [k \in 1..QLen |-> rdata[Entry(k)[1]][Entry(k)[2]]]
  BY DEF queue, QLen, Entry, MsgData
<1>2. queue' = [k \in 1..(QLen - n) |-> rdata[Entry(k)'[1]][Entry(k)'[2]]]
  BY <1>h DEF queue, QLen, Entry, MsgData
<1>3. inbox = [i \in 1..Len(held) |-> rdata[held[i][1]][held[i][2]]]
  BY DEF inbox, MsgData
<1>4. inbox' = [i \in 1..(Len(held) + n) |-> rdata[held'[i][1]][held'[i][2]]]
  BY <1>h DEF inbox, MsgData
<1>5. \A i \in 1..Len(held) : inbox'[i] = inbox[i]
  BY <1>a, <1>h, <1>3, <1>4
<1>6. \A k \in 1..n : inbox'[Len(held) + k] = queue[k]
  <2>1. \A k \in 1..n : k \in 1..QLen /\ Len(held) + k \in 1..(Len(held) + n)
    BY <1>a, <1>h
  <2> QED
    BY <1>h, <1>1, <1>4, <2>1
<1>7. \A k \in 1..(QLen - n) : queue'[k] = queue[n + k]
  <2>1. \A k \in 1..(QLen - n) : n + k \in 1..QLen
    BY <1>a, <1>h
  <2> QED
    BY <1>h, <1>1, <1>2, <2>1
<1>8. PICK S : S = {queue[k] : k \in 1..QLen} \cup {queue'[k] : k \in 1..(QLen - n)}
                     \cup {inbox[i] : i \in 1..Len(held)} \cup {inbox'[i] : i \in 1..(Len(held) + n)}
  OBVIOUS
<1>9. /\ queue \in [1..QLen -> S] /\ queue' \in [1..(QLen - n) -> S]
      /\ inbox \in [1..Len(held) -> S] /\ inbox' \in [1..(Len(held) + n) -> S]
  BY <1>1, <1>2, <1>3, <1>4, <1>8
<1>10. /\ Len(queue) = QLen /\ inbox' = inbox \o SubSeq(queue, 1, n)
       /\ queue' = SubSeq(queue, n + 1, Len(queue))
  <2>1. PICK a \in Nat, c \in Nat : a = Len(held) /\ c = QLen
    BY <1>a
  <2>2. PICK b, bb : b = inbox /\ bb = inbox'
    OBVIOUS
  <2>3. PICK q, qq : q = queue /\ qq = queue'
    OBVIOUS
  <2>4. /\ b \in [1..a -> S] /\ bb \in [1..(a + n) -> S]
        /\ q \in [1..c -> S] /\ qq \in [1..(c - n) -> S] /\ n <= c
    BY <1>h, <1>9, <2>1, <2>2, <2>3
  <2>5. /\ \A i \in 1..a : bb[i] = b[i]
        /\ \A k \in 1..n : bb[a + k] = q[k]
        /\ \A k \in 1..(c - n) : qq[k] = q[n + k]
    BY <1>5, <1>6, <1>7, <2>1, <2>2, <2>3
  <2>6. Len(q) = c /\ bb = b \o SubSeq(q, 1, n) /\ qq = SubSeq(q, n + 1, Len(q))
    <3>1. PICK h : h = SubSeq(q, 1, n)
      OBVIOUS
    <3>2. h \in Seq(S) /\ Len(h) = n /\ \A k \in 1..n : h[k] = q[k]
      BY <2>4, <3>1, PrefixFun
    <3>3. \A k \in 1..n : bb[a + k] = h[k]
      BY <2>5, <3>2
    <3>4. bb = b \o h
      <4>1. PICK d \in Nat : d = a + n
        OBVIOUS
      <4>2. b \in [1..a -> S] /\ bb \in [1..d -> S]
        BY <2>4, <4>1
      <4>3. b \in Seq(S) /\ Len(b) = a /\ bb \in Seq(S) /\ Len(bb) = a + n
        BY <4>1, <4>2, FunSeq
      <4>4. /\ Len(bb) = Len(b) + Len(h)
            /\ \A i \in 1..Len(b) : bb[i] = b[i]
            /\ \A k \in 1..Len(h) : bb[Len(b) + k] = h[k]
        BY <2>5, <3>2, <3>3, <4>3
      <4> QED
        BY <3>2, <4>3, <4>4, ConcatFun
    <3>5. Len(q) = c /\ qq = SubSeq(q, n + 1, Len(q))
      <4>1. PICK d \in Nat : d = c - n
        BY <2>4
      <4>2. n <= c /\ q \in [1..c -> S] /\ qq \in [1..d -> S] /\ \A k \in 1..d : qq[k] = q[n + k]
        BY <2>4, <2>5, <4>1
      <4> QED
        BY <4>1, <4>2, DropFun
    <3> QED
      BY <3>1, <3>4, <3>5
  <2> QED
    BY <2>1, <2>2, <2>3, <2>6
<1>11. n \in 1..Len(queue)
  BY <1>a, <1>h, <1>10
<1> QED
  BY <1>h, <1>10, <1>11 DEF Fifo!Receive

\* Moving the head of a ring is where a message is freed.
LEMMA FreeFrees ==
  ASSUME IInv, LineInv, FreeMsg
  PROVE  Fifo!Free
<1>a. /\ Len(held) \in Nat /\ QLen \in Nat /\ Len(held) >= 1 /\ Len(held') = Len(held) - 1
      /\ \A i \in 1..Len(held') : held'[i] = held[i + 1]
      /\ QLen' = QLen /\ \A k : Entry(k)' = Entry(k)
  BY FreeMsgLine, LineFacts
<1>b. rdata' = rdata /\ sent' = sent
  BY DEF FreeMsg, producerVars
<1>1. queue' = queue
  <2>1. queue = [k \in 1..QLen |-> rdata[Entry(k)[1]][Entry(k)[2]]]
    BY DEF queue, QLen, Entry, MsgData
  <2>2. queue' = [k \in 1..QLen' |-> rdata'[Entry(k)'[1]][Entry(k)'[2]]]
    BY DEF queue, QLen, Entry, MsgData
  <2> QED
    BY <1>a, <1>b, <2>1, <2>2
<1>2. inbox = [i \in 1..Len(held) |-> rdata[held[i][1]][held[i][2]]]
  BY DEF inbox, MsgData
<1>3. inbox' = [i \in 1..(Len(held) - 1) |-> rdata[held'[i][1]][held'[i][2]]]
  BY <1>a, <1>b DEF inbox, MsgData
<1>4. \A i \in 1..(Len(held) - 1) : inbox'[i] = inbox[i + 1]
  <2>1. \A i \in 1..(Len(held) - 1) : i + 1 \in 1..Len(held) /\ held'[i] = held[i + 1]
    BY <1>a
  <2> QED
    BY <1>2, <1>3, <2>1
<1>5. PICK S : S = {inbox[i] : i \in 1..Len(held)} \cup {inbox'[i] : i \in 1..(Len(held) - 1)}
  OBVIOUS
<1>6. inbox \in [1..Len(held) -> S] /\ inbox' \in [1..(Len(held) - 1) -> S]
  BY <1>2, <1>3, <1>5
<1>7. inbox # <<>> /\ inbox' = Tail(inbox)
  BY <1>a, <1>4, <1>6, TailFun
<1> QED
  BY <1>b, <1>1, <1>7 DEF Fifo!Free

\* Every step of the queue is a step of the FIFO or a stutter.
LEMMA StepRefines ==
  ASSUME IInv, LineInv, MaxCrashes = 0, [Next]_vars
  PROVE  [Fifo!FifoNext]_(Fifo!fifoVars)
<1> USE DEF queueVars, ringVars, producerVars, consumerVars
<1>1. ASSUME Quiet, UNCHANGED <<rdata, sent>>
      PROVE  UNCHANGED Fifo!fifoVars
  <2>1. held' = held /\ QLen' = QLen /\ \A k \in 1..QLen : Entry(k)' = Entry(k)
    BY <1>1 DEF Quiet, Entry
  <2> QED
    BY <1>1, <2>1, Stutter
<1>2. ASSUME NEW p \in Producers,
             Lock(p) \/ Refused(p) \/ OrRingWaitProd(p) \/ Woken(p) \/ SendSignal(p) \/ Unlock(p)
      PROVE  UNCHANGED Fifo!fifoVars
  <2>1. Quiet
    BY <1>2, ProducerQuiet
  <2>2. UNCHANGED <<rdata, sent>>
    BY <1>2 DEF Lock, Refused, OrRingWaitProd, Woken, SendSignal, Unlock
  <2> QED
    BY <1>1, <2>1, <2>2
<1>3. ASSUME NEW p \in Producers, AllocMsgWRing(p) \/ AddRaw(p)
      PROVE  UNCHANGED Fifo!fifoVars
  <2>1. held' = held /\ QLen' = QLen /\ \A k \in 1..QLen : Entry(k)' = Entry(k)
    BY <1>3, AllocMsgLine, AddRawLine
  <2>2. UNCHANGED <<rdata, sent>>
    BY <1>3 DEF AllocMsgWRing, AddRaw
  <2> QED
    BY <2>1, <2>2, Stutter
<1>4. ASSUME NEW p \in Producers
      PROVE  ~Crash(p)
  BY DEF Crash, LineInv, LineTypes
<1>5. CASE \E p \in Producers : Lock(p) \/ ProducerStep(p) \/ Crash(p)
  BY <1>2, <1>3, <1>4, <1>5, FillStutters, PublishSends DEF ProducerStep, Fifo!FifoNext
<1>6. CASE \/ Sub \/ WaitLock \/ WaitTest \/ WaitWoken \/ TimedLock \/ TimedTest \/ TimedWoken
           \/ TimedOut \/ SigLock \/ SigCast \/ SubRawDec \/ SubRawBatchDec \/ FreeMsgDec
  <2>1. Quiet
    BY <1>6, ConsumerQuiet
  <2>2. UNCHANGED <<rdata, sent>>
    BY <1>6 DEF Sub, WaitLock, WaitTest, WaitWoken, TimedLock, TimedTest, TimedWoken,
       TimedOut, SigLock, SigCast, SubRawDec, SubRawBatchDec, FreeMsgDec
  <2> QED
    BY <1>1, <2>1, <2>2
<1>7. CASE SubRaw
  <2>1. UNCHANGED <<rdata, sent>> /\ 1 \in Nat
    BY <1>7 DEF SubRaw
  <2>2. Fifo!Receive
    BY <1>7, <2>1, SubRawLine, TakeReceives
  <2> QED
    BY <2>2 DEF Fifo!FifoNext
<1>8. CASE SubRawBatch
  <2>1. UNCHANGED <<rdata, sent>>
    BY <1>8 DEF SubRawBatch
  <2>2. PICK n \in Nat : n = cn'
    BY <1>8, SubRawBatchLine
  <2>3. Fifo!Receive
    BY <1>8, <2>1, <2>2, SubRawBatchLine, TakeReceives
  <2> QED
    BY <2>3 DEF Fifo!FifoNext
<1>9. CASE FreeMsg
  BY <1>9, FreeFrees DEF Fifo!FifoNext
<1>10. CASE \E t \in Threads : SpuriousWake(t)
  <2>1. Quiet
    BY <1>10, SpuriousQuiet
  <2>2. UNCHANGED <<rdata, sent>>
    BY <1>10 DEF SpuriousWake
  <2> QED
    BY <1>1, <2>1, <2>2
<1>11. CASE UNCHANGED vars
  BY <1>11 DEF vars, Fifo!fifoVars, queue, inbox, MsgData, copied
<1> QED
  BY <1>5, <1>6, <1>7, <1>8, <1>9, <1>10, <1>11 DEF Next, ConsumerStep

\* The message queue implements the FIFO of MsgFifo: messages are delivered
\* once and in order, with the data their producer wrote, and the slot of a
\* message is not written again before svm_msg_q_free_msg.
THEOREM FifoCorrect ==
  ASSUME MaxCrashes = 0, "timed" \notin Spurious
  PROVE  Spec => FifoRefinement
<1>1. Init => Fifo!FifoInit
  <2> SUFFICES ASSUME Init PROVE Fifo!FifoInit
    OBVIOUS
  <2>1. QLen = 0 /\ Len(held) = 0
    BY EmptySeq DEF Init, QLen, copied
  <2>2. queue = <<>> /\ inbox = <<>>
    <3>1. queue = [k \in 1..QLen |-> rdata[Entry(k)[1]][Entry(k)[2]]]
      BY DEF queue, QLen, Entry, MsgData
    <3>2. 1..0 = {}
      OBVIOUS
    <3> QED
      BY <2>1, <3>1, <3>2 DEF inbox
  <2> QED
    BY <2>2 DEF Init, Fifo!FifoInit
<1>2. IInv /\ LineInv /\ [Next]_vars => [Fifo!FifoNext]_(Fifo!fifoVars)
  BY StepRefines
<1> QED
  BY <1>1, <1>2, LineInductive, PTL DEF Spec, FifoRefinement
=============================================================================
