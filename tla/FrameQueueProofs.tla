-------------------------- MODULE FrameQueueProofs --------------------------
(***************************************************************************)
(* The handoff rings, for any threads, routes and sizes.                   *)
(***************************************************************************)
EXTENDS FrameQueue, FiniteSetTheorems, FunctionTheorems, SequenceTheorems, TLAPS

Slots == 0..(Nelts - 1)
Packets == Threads \X Nat
Item == [k : Nat, to : Threads]
Frame == Seq(Item)
Element == [valid : BOOLEAN, n_vectors : Nat, offset : Nat, buffer_index : Seq(Packets)]

Types ==
  /\ head \in [Threads -> Nat] /\ tail \in [Threads -> Nat]
  /\ elts \in [Threads -> [Slots -> Element]]
  /\ check_frame_queues \in [Threads -> BOOLEAN]
  /\ counter \in [Threads -> 0..CheckLimit]
  /\ pc \in [Threads -> PC]
  /\ free \in [Threads -> 0..FrameSize]
  /\ vectors \in [Threads -> Nat] /\ processed \in [Threads -> Nat]
  /\ todo \in [Threads -> Frame]
  /\ new_tail \in [Threads -> Nat]
  /\ made \in [Threads -> Nat]

\* A thread that polls was flagged or has turns of its counter left, so the
\* decrement that ends a poll never starts from zero.
PollInv(t) ==
  /\ pc[t] = "poll" => check_frame_queues[t] \/ counter[t] > 0
  /\ pc[t] \in {"clear", "dequeue", "reset", "bump", "polled"} => counter[t] > 0

\* A frame to hand off is not larger than a frame, and not empty while the
\* thread looks for the ring of its first packet.
Enqueuing == {"tail", "full", "cas", "fill", "publish", "flag"}
FrameInv(t) ==
  /\ Len(todo[t]) <= FrameSize
  /\ pc[t] \in Enqueuing => todo[t] # <<>>
  /\ made[t] <= MaxPackets[t]

IsClear(elt) == ~elt.valid /\ elt.n_vectors = 0 /\ elt.offset = 0

\* The claims of ring d are the positions head + 1 to tail; the other elements
\* are clear.
Claims(d) == (head[d] + 1)..tail[d]
RingInv(d) ==
  /\ tail[d] \in head[d]..(head[d] + Nelts - 1)
  /\ \A i \in Slots :
       (\A n \in Claims(d) : Slot(n) # i) => IsClear(elts[d][i])
  /\ \A i \in Slots : elts[d][i].offset + elts[d][i].n_vectors <= FrameSize

\* What the owner of a ring has found at its head stays until it moves head.
HeadInv(d) ==
  /\ pc[d] = "reset" => head[d] # tail[d] /\ HeadElt(d).valid
  /\ pc[d] = "bump" => /\ head[d] # tail[d] /\ IsClear(HeadElt(d))
                       /\ \A t \in Owners : Dest(t) = d => new_tail[t] # head[d] + 1

\* What a producer has found stays until it acts: the ring does not fill up
\* behind its test, and what it has claimed is its own.
ClaimInv(t) ==
  /\ pc[t] \in {"full", "cas"} => new_tail[t] \in 1..(tail[Dest(t)] + 1)
  /\ pc[t] = "cas" => new_tail[t] < head[Dest(t)] + Nelts
  /\ t \in Owners =>
       /\ new_tail[t] \in Claims(Dest(t))
       /\ ~elts[Dest(t)][Slot(new_tail[t])].valid
       /\ elts[Dest(t)][Slot(new_tail[t])].offset = 0
       /\ pc[t] = "fill" => elts[Dest(t)][Slot(new_tail[t])].n_vectors = 0
       /\ \A u \in Owners \ {t} : Dest(u) = Dest(t) => new_tail[u] # new_tail[t]

LocalInv == \A t \in Threads : PollInv(t) /\ FrameInv(t)
SharedInv == \A t \in Threads : RingInv(t) /\ HeadInv(t) /\ ClaimInv(t)
IInv == Types /\ LocalInv /\ SharedInv
-----------------------------------------------------------------------------
\* clib_compress_u32 takes the masked elements in increasing order, each once.
LEMMA NthProperties ==
  ASSUME NEW n \in Nat, NEW mask \in SUBSET (1..n)
  PROVE  /\ IsFiniteSet(mask) /\ Cardinality(mask) \in 0..n
         /\ \A i \in 1..Cardinality(mask) : Nth(mask, i) \in mask
         /\ \A i, j \in 1..Cardinality(mask) : i < j => Nth(mask, i) < Nth(mask, j)
         /\ \A x \in mask : \E i \in 1..Cardinality(mask) : Nth(mask, i) = x
<1> DEFINE UpTo(j) == {k \in mask : k <= j}
           rank == [j \in mask |-> Cardinality(UpTo(j))]
           C == Cardinality(mask)
<1>0. \A x \in mask : x \in Nat
  OBVIOUS
<1>1. IsFiniteSet(1..n) /\ Cardinality(1..n) = n
  BY FS_Interval
<1>2. IsFiniteSet(mask) /\ C \in Nat /\ C <= n
  BY <1>1, FS_Subset, FS_CardinalityType
<1>3. ASSUME NEW j \in mask
      PROVE  IsFiniteSet(UpTo(j)) /\ Cardinality(UpTo(j)) \in 1..C
  <2>1. UpTo(j) \in SUBSET mask /\ j \in UpTo(j)
    BY <1>3
  <2>2. IsFiniteSet(UpTo(j)) /\ Cardinality(UpTo(j)) <= C
    BY <1>2, <2>1, FS_Subset
  <2>3. Cardinality(UpTo(j)) \in Nat /\ Cardinality(UpTo(j)) # 0
    BY <2>1, <2>2, FS_CardinalityType, FS_EmptySet
  <2> QED
    BY <1>2, <2>2, <2>3
<1>4. ASSUME NEW i \in mask, NEW j \in mask, i < j
      PROVE  Cardinality(UpTo(i)) < Cardinality(UpTo(j))
  <2>0. \A k \in mask : k <= i => k <= j
    BY <1>0, <1>4
  <2>1. UpTo(i) \in SUBSET UpTo(j)
    BY <2>0
  <2>4. j \in UpTo(j) /\ j \notin UpTo(i)
    BY <1>0, <1>4
  <2>2. /\ Cardinality(UpTo(i)) <= Cardinality(UpTo(j))
        /\ Cardinality(UpTo(j)) = Cardinality(UpTo(i)) => UpTo(j) = UpTo(i)
    BY <1>3, <2>1, FS_Subset
  <2>3. Cardinality(UpTo(i)) \in Nat /\ Cardinality(UpTo(j)) \in Nat
    BY <1>3
  <2> QED
    BY <2>2, <2>3, <2>4
<1>5. rank \in Surjection(mask, 1..C)
  <2>1. rank \in [mask -> 1..C]
    BY <1>3
  <2>2. \A a, b \in mask : rank[a] = rank[b] => a = b
    BY <1>2, <1>3, <1>4
  <2>3. rank \in Injection(mask, 1..C)
    BY <2>1, <2>2, Fun_IsInj, Zenon
  <2>4. IsFiniteSet(1..C) /\ Cardinality(1..C) = C
    BY <1>2, FS_Interval
  <2> QED
    BY <2>3, <2>4, FS_Injection
<1>6. \A i \in 1..C : \E j \in mask : Cardinality(UpTo(j)) = i
  BY <1>5 DEF Surjection
<1>7. \A i \in 1..C : Nth(mask, i) \in mask /\ Cardinality(UpTo(Nth(mask, i))) = i
  BY <1>6 DEF Nth
<1> DEFINE R(j) == Cardinality(UpTo(j))
<1>10. \A j \in mask : R(j) \in 1..C
  BY <1>3
<1>11. \A i, j \in mask : i < j => R(i) < R(j)
  BY <1>4
<1>12. \A i \in 1..C : Nth(mask, i) \in mask /\ R(Nth(mask, i)) = i
  BY <1>7
<1> HIDE DEF R, UpTo, rank, C
<1>8. ASSUME NEW x \in mask PROVE \E i \in 1..C : Nth(mask, i) = x
  <2>1. PICK y \in mask : y = Nth(mask, R(x)) /\ R(y) = R(x)
    BY <1>10, <1>12
  <2>2. y = x
    BY <1>0, <1>2, <1>10, <1>11, <2>1
  <2> QED
    BY <1>10, <2>1, <2>2
<1>9. ASSUME NEW i \in 1..C, NEW j \in 1..C, i < j
      PROVE  Nth(mask, i) < Nth(mask, j)
  <2>1. PICK x \in mask : x = Nth(mask, i) /\ R(x) = i
    BY <1>12
  <2>2. PICK y \in mask : y = Nth(mask, j) /\ R(y) = j
    BY <1>12
  <2>3. x < y
    BY <1>0, <1>2, <1>9, <1>11, <2>1, <2>2
  <2> QED
    BY <2>1, <2>2, <2>3
<1> QED
  BY <1>2, <1>7, <1>8, <1>9 DEF C

LEMMA CompressProperties ==
  ASSUME NEW S, NEW s \in Seq(S), NEW mask \in SUBSET DOMAIN s
  PROVE  /\ Compress(s, mask) \in Seq(S)
         /\ Len(Compress(s, mask)) = Cardinality(mask)
         /\ Len(Compress(s, mask)) <= Len(s)
<1>1. Len(s) \in Nat /\ DOMAIN s = 1..Len(s)
  BY LenProperties
<1>2. Cardinality(mask) \in Nat /\ Cardinality(mask) <= Len(s)
  BY <1>1, NthProperties
<1>3. \A i \in 1..Cardinality(mask) : s[Nth(mask, i)] \in S
  BY <1>1, NthProperties, ElementOfSeq
<1>4. Compress(s, mask) \in [1..Cardinality(mask) -> S]
  BY <1>3 DEF Compress
<1>5. Compress(s, mask) \in Seq(S) /\ Len(Compress(s, mask)) = Cardinality(mask)
  BY <1>2, <1>4, IsASeq, LenProperties
<1> QED
  BY <1>2, <1>5

\* Positions closer than the size of the ring have elements of their own.
LEMMA SlotProperties ==
  /\ \A n \in Nat : Slot(n) \in Slots
  /\ \A m, n \in Nat : m < n /\ n < m + Nelts => Slot(m) # Slot(n)
<1>1. CASE Nelts = 2
  BY <1>1 DEF Slot, Slots
<1>2. CASE Nelts = 4
  BY <1>2 DEF Slot, Slots
<1>3. CASE Nelts = 8
  BY <1>3 DEF Slot, Slots
<1>4. CASE Nelts = 16
  BY <1>4 DEF Slot, Slots
<1>5. CASE Nelts = 32
  BY <1>5 DEF Slot, Slots
<1>6. CASE Nelts = 64
  BY <1>6 DEF Slot, Slots
<1> QED
  BY <1>1, <1>2, <1>3, <1>4, <1>5, <1>6, FrameQueueAssumption
-----------------------------------------------------------------------------
LEMMA InitIInv == Init => IInv
<1> SUFFICES ASSUME Init PROVE IInv
  OBVIOUS
<1> USE FrameQueueAssumption
<1>1. Types
  BY DEF Init, Types, PC, Element, Frame, Slots
<1>2. LocalInv
  BY DEF Init, LocalInv, PollInv, FrameInv, Enqueuing
<1>3. SharedInv
  <2>1. \A d \in Threads : RingInv(d)
    BY DEF Init, RingInv, IsClear, Slots
  <2>2. \A d \in Threads : HeadInv(d) /\ ClaimInv(d)
    BY DEF Init, HeadInv, ClaimInv, Owners
  <2> QED
    BY <2>1, <2>2 DEF SharedInv
<1> QED
  BY <1>1, <1>2, <1>3 DEF IInv

\* What is left of a frame after the packets for one thread is a frame, not
\* longer than before.
LEMMA UnmaskedProperties ==
  ASSUME Types, NEW t \in Threads
  PROVE  /\ Unmasked(t) \in Frame /\ Len(Unmasked(t)) <= Len(todo[t])
         /\ Masked(t) \in Frame /\ Len(Masked(t)) <= Len(todo[t])
         /\ Buffers(t) \in Seq(Packets) /\ Len(Buffers(t)) = Len(Masked(t))
<1>1. todo[t] \in Frame
  BY DEF Types
<1>2. Mask(t) \in SUBSET DOMAIN todo[t]
  BY DEF Mask
<1>3. /\ Unmasked(t) \in Frame /\ Len(Unmasked(t)) <= Len(todo[t])
      /\ Masked(t) \in Frame /\ Len(Masked(t)) <= Len(todo[t])
  BY <1>1, <1>2, CompressProperties DEF Unmasked, Masked, Frame
<1>4. Len(Masked(t)) \in Nat /\ DOMAIN Masked(t) = 1..Len(Masked(t))
  BY <1>3 DEF Frame
<1>5. \A i \in 1..Len(Masked(t)) : <<t, Masked(t)[i].k>> \in Packets
  <2>1. \A i \in 1..Len(Masked(t)) : Masked(t)[i] \in Item
    BY <1>3, ElementOfSeq DEF Frame
  <2> QED
    BY <2>1 DEF Item, Packets
<1>6. Buffers(t) \in [1..Len(Masked(t)) -> Packets]
  BY <1>4, <1>5 DEF Buffers
<1>7. Buffers(t) \in Seq(Packets) /\ Len(Buffers(t)) = Len(Masked(t))
  BY <1>4, <1>6, IsASeq, LenProperties
<1> QED
  BY <1>3, <1>7

\* The ring of the first packet is one of the rings.
LEMMA DestType ==
  ASSUME Types, NEW t \in Threads, todo[t] # <<>>
  PROVE  Dest(t) \in Threads
<1>1. todo[t] \in Seq(Item)
  BY DEF Types, Frame
<1>2. Len(todo[t]) \in Nat /\ Len(todo[t]) # 0
  BY <1>1, EmptySeq, LenProperties
<1>3. todo[t][1] \in Item
  BY <1>1, <1>2, ElementOfSeq
<1> QED
  BY <1>3 DEF Dest, Item

\* A step that touches no ring and leaves the thread where it has found or
\* claimed nothing keeps what is said of the rings.
LEMMA SharedFrame ==
  ASSUME IInv, NEW t \in Threads, NEW q \in PC, UNCHANGED ringVars,
         pc' = [pc EXCEPT ![t] = q],
         q \notin {"reset", "bump", "full", "cas", "fill", "publish"},
         \A u \in Threads \ {t} : todo'[u] = todo[u] /\ new_tail'[u] = new_tail[u]
  PROVE  SharedInv'
<1> USE DEF IInv, ringVars
<1>1. \A u \in Threads : pc'[u] = IF u = t THEN q ELSE pc[u]
  BY DEF Types
<1>2. Owners' = Owners \ {t}
  BY <1>1 DEF Owners
<1>3. \A u \in Threads \ {t} : Dest(u)' = Dest(u)
  BY DEF Dest
<1>4. \A d \in Threads : RingInv(d)' /\ HeadInv(d)'
  BY <1>1, <1>2, <1>3 DEF SharedInv, RingInv, HeadInv, Claims, HeadElt, HeadSlot, Owners
<1>5. \A u \in Threads : ClaimInv(u)'
  BY <1>1, <1>2, <1>3 DEF SharedInv, ClaimInv, Claims, Owners
<1> QED
  BY <1>4, <1>5 DEF SharedInv

\* A position names an element of its ring.
LEMMA ElementAt ==
  ASSUME Types, NEW d \in Threads, NEW n \in Nat
  PROVE  Slot(n) \in Slots /\ elts[d][Slot(n)] \in Element
BY SlotProperties DEF Types

\* The head of a ring is an element of it.
LEMMA HeadElement ==
  ASSUME Types, NEW t \in Threads
  PROVE  HeadSlot(t) \in Slots /\ HeadElt(t) \in Element
<1>1. head[t] + 1 \in Nat
  BY DEF Types
<1> QED
  BY <1>1, ElementAt DEF HeadSlot, HeadElt

\* What the update of one element does to the rings.
LEMMA ElementUpdate ==
  ASSUME Types, NEW d \in Threads, NEW i \in Slots, NEW e \in Element,
         elts' = [elts EXCEPT ![d][i] = e]
  PROVE  /\ elts' \in [Threads -> [Slots -> Element]]
         /\ elts'[d][i] = e
         /\ \A r \in Threads, j \in Slots : r # d \/ j # i => elts'[r][j] = elts[r][j]
BY DEF Types

\* The copy of a dequeue: at most what the node's frame takes and at most what
\* the element still holds.
LEMMA CopyProperties ==
  ASSUME Types, NEW t \in Threads
  PROVE  /\ NFree(t) \in 1..FrameSize
         /\ NCopy(t) \in 0..HeadElt(t).n_vectors
         /\ NFree(t) - NCopy(t) \in 0..FrameSize
         /\ HeadElt(t).n_vectors \in Nat /\ HeadElt(t).offset \in Nat
         /\ NCopy(t) # HeadElt(t).n_vectors => NCopy(t) = NFree(t)
<1>1. HeadElt(t).n_vectors \in Nat /\ HeadElt(t).offset \in Nat
  BY HeadElement DEF Element
<1>2. free[t] \in 0..FrameSize
  BY DEF Types
<1>3. NFree(t) \in 1..FrameSize
  BY <1>2, FrameQueueAssumption DEF NFree
<1> QED
  BY <1>1, <1>3, FrameQueueAssumption DEF NCopy

\* A step that touches nothing but the place of the thread, and the rings.
LEMMA LocalFrame ==
  ASSUME IInv, NEW t \in Threads, NEW q \in PC, pc' = [pc EXCEPT ![t] = q],
         UNCHANGED <<check_frame_queues, counter, todo, made>>,
         q \in Enqueuing => pc[t] \in Enqueuing,
         q = "poll" => check_frame_queues[t] \/ counter[t] > 0,
         q \in {"clear", "dequeue", "reset", "bump", "polled"} => counter[t] > 0
  PROVE  LocalInv' /\ pc' \in [Threads -> PC]
<1> USE DEF IInv
<1>1. pc' \in [Threads -> PC] /\ \A u \in Threads : pc'[u] = IF u = t THEN q ELSE pc[u]
  BY DEF Types
<1>2. \A u \in Threads : PollInv(u)'
  BY <1>1 DEF LocalInv, PollInv
<1>3. \A u \in Threads : FrameInv(u)'
  BY <1>1 DEF LocalInv, FrameInv
<1> QED
  BY <1>1, <1>2, <1>3 DEF LocalInv

\* Every step of the poll keeps the types and what a thread knows of itself.
LEMMA PollLocal ==
  ASSUME IInv, NEW t \in Threads,
         \/ SkipPoll(t) \/ BeginPoll(t) \/ ReadFlag(t) \/ ClearFlag(t) \/ EndPoll(t)
         \/ DequeueDone(t) \/ Idle(t) \/ NotFull(t) \/ Retry(t)
  PROVE  Types' /\ LocalInv'
<1> USE DEF IInv, Goto, ringVars, pollVars, dequeueVars, enqueueVars
<1>1. CASE SkipPoll(t)
  BY <1>1, LocalFrame DEF SkipPoll, Types, PC, Enqueuing
<1>2. CASE BeginPoll(t)
  BY <1>2, LocalFrame DEF BeginPoll, Types, PC, Enqueuing
<1>3. CASE ReadFlag(t)
  <2>1. CheckLimit \in 0..CheckLimit /\ CheckLimit > 0
    BY FrameQueueAssumption
  <2>2. Types'
    BY <1>3, <2>1 DEF ReadFlag, Types, PC
  <2>3. \A u \in Threads : PollInv(u)'
    BY <1>3, <2>1 DEF ReadFlag, LocalInv, PollInv, Types
  <2>4. \A u \in Threads : FrameInv(u)'
    BY <1>3 DEF ReadFlag, LocalInv, FrameInv, Types, Enqueuing
  <2> QED
    BY <2>2, <2>3, <2>4 DEF LocalInv
<1>4. CASE ClearFlag(t)
  <2>1. Types'
    BY <1>4 DEF ClearFlag, Types, PC
  <2>2. \A u \in Threads : PollInv(u)'
    BY <1>4 DEF ClearFlag, LocalInv, PollInv, Types
  <2>3. \A u \in Threads : FrameInv(u)'
    BY <1>4 DEF ClearFlag, LocalInv, FrameInv, Types, Enqueuing
  <2> QED
    BY <2>1, <2>2, <2>3 DEF LocalInv
<1>5. CASE EndPoll(t)
  <2>1. counter[t] - 1 \in 0..CheckLimit /\ CheckLimit \in 0..CheckLimit
    BY <1>5, FrameQueueAssumption DEF EndPoll, LocalInv, PollInv, Types
  <2>2. Types'
    BY <1>5, <2>1 DEF EndPoll, Types, PC
  <2>3. \A u \in Threads : PollInv(u)'
    BY <1>5 DEF EndPoll, LocalInv, PollInv, Types
  <2>4. \A u \in Threads : FrameInv(u)'
    BY <1>5 DEF EndPoll, LocalInv, FrameInv, Types, Enqueuing
  <2> QED
    BY <2>2, <2>3, <2>4 DEF LocalInv
<1>6. CASE DequeueDone(t)
  <2>1. LocalInv' /\ pc' \in [Threads -> PC]
    BY <1>6, LocalFrame DEF DequeueDone, PC, Enqueuing, LocalInv, PollInv
  <2>2. 0 \in 0..FrameSize
    BY FrameQueueAssumption
  <2> QED
    BY <1>6, <2>1, <2>2 DEF DequeueDone, Types
<1>7. CASE Idle(t)
  BY <1>7, LocalFrame DEF Idle, Types, PC, Enqueuing
<1>8. CASE NotFull(t)
  BY <1>8, LocalFrame DEF NotFull, Types, PC, Enqueuing
<1>9. CASE Retry(t)
  BY <1>9, LocalFrame DEF Retry, Types, PC, Enqueuing
<1> QED
  BY <1>1, <1>2, <1>3, <1>4, <1>5, <1>6, <1>7, <1>8, <1>9

\* So does every step of the dequeue.
LEMMA DequeueLocal ==
  ASSUME IInv, NEW t \in Threads, DequeueElt(t) \/ ResetElt(t) \/ BumpHead(t)
  PROVE  Types' /\ LocalInv'
<1> USE DEF IInv, Goto, pollVars, dequeueVars, enqueueVars
<1>1. UNCHANGED <<tail, check_frame_queues, counter, todo, new_tail, made>>
  BY DEF DequeueElt, ResetElt, BumpHead
<1>2. PICK q \in {"reset", "bump", "polled", "dequeue"} :
        pc[t] \in {"dequeue", "reset", "bump"} /\ pc' = [pc EXCEPT ![t] = q]
  BY DEF DequeueElt, ResetElt, BumpHead, AfterElt
<1>3. LocalInv' /\ pc' \in [Threads -> PC]
  BY <1>1, <1>2, LocalFrame DEF PC, Enqueuing, LocalInv, PollInv
<1>4. 0 \in 0..FrameSize
  BY FrameQueueAssumption
<1>5. CASE DequeueElt(t)
  <2>1. NCopy(t) \in Nat /\ NFree(t) - NCopy(t) \in 0..FrameSize
    BY CopyProperties
  <2>2. free' \in [Threads -> 0..FrameSize]
    BY <1>4, <1>5, <2>1 DEF DequeueElt, Types
  <2>3. vectors' \in [Threads -> Nat]
    <3>1. vectors[t] + NCopy(t) \in Nat
      BY <2>1 DEF Types
    <3> QED
      BY <1>5, <3>1 DEF DequeueElt, Types
  <2>4. Rest(HeadElt(t), NCopy(t)) \in Element
    <3>1. /\ HeadElt(t).n_vectors - NCopy(t) \in Nat
          /\ HeadElt(t).offset + NCopy(t) \in Nat
      BY CopyProperties
    <3> QED
      BY <3>1, HeadElement DEF Rest, Element
  <2>5. elts' = elts \/ elts' = [elts EXCEPT ![t][HeadSlot(t)] = Rest(HeadElt(t), NCopy(t))]
    BY <1>5 DEF DequeueElt, HeadElt
  <2>6. elts' \in [Threads -> [Slots -> Element]]
    BY <2>4, <2>5, HeadElement, ElementUpdate DEF Types
  <2> QED
    BY <1>1, <1>3, <1>5, <2>2, <2>3, <2>6 DEF DequeueElt, Types
<1>6. CASE ResetElt(t)
  <2>1. Cleared(HeadElt(t)) \in Element
    BY HeadElement DEF Cleared, Element
  <2>2. elts' = [elts EXCEPT ![t][HeadSlot(t)] = Cleared(HeadElt(t))]
    BY <1>6 DEF ResetElt, HeadElt
  <2>3. elts' \in [Threads -> [Slots -> Element]]
    BY <2>1, <2>2, HeadElement, ElementUpdate
  <2> QED
    BY <1>1, <1>3, <1>6, <2>3 DEF ResetElt, Types
<1>7. CASE BumpHead(t)
  <2>1. head[t] + 1 \in Nat /\ processed[t] + 1 \in Nat
    BY DEF Types
  <2>2. head' \in [Threads -> Nat] /\ processed' \in [Threads -> Nat]
    BY <1>7, <2>1 DEF BumpHead, Types
  <2>3. free' \in [Threads -> 0..FrameSize]
    BY <1>4, <1>7 DEF BumpHead, Types
  <2>4. vectors' \in [Threads -> Nat]
    BY <1>7 DEF BumpHead, Types
  <2> QED
    BY <1>1, <1>3, <1>7, <2>2, <2>3, <2>4 DEF BumpHead, Types
<1> QED
  BY <1>5, <1>6, <1>7

\* And every step of the enqueue.
LEMMA EnqueueLocal ==
  ASSUME IInv, NEW t \in Threads,
         \/ HandOff(t) \/ ReadTail(t) \/ Congested(t) \/ Claim(t)
         \/ Fill(t) \/ Publish(t) \/ RaiseFlag(t)
  PROVE  Types' /\ LocalInv'
<1> USE DEF IInv, Goto, ringVars, pollVars, dequeueVars, enqueueVars
<1>1. CASE HandOff(t)
  <2>0. PICK n \in 1..FrameSize :
          /\ made[t] + n <= MaxPackets[t]
          /\ \E to \in [1..n -> Targets(t)] :
               todo' = [todo EXCEPT ![t] = [i \in 1..n |-> [k |-> made[t] + i, to |-> to[i]]]]
          /\ made' = [made EXCEPT ![t] = made[t] + n]
    BY <1>1 DEF HandOff
  <2>1. PICK to \in [1..n -> Targets(t)] :
          todo' = [todo EXCEPT ![t] = [i \in 1..n |-> [k |-> made[t] + i, to |-> to[i]]]]
    BY <2>0
  <2> DEFINE f == [i \in 1..n |-> [k |-> made[t] + i, to |-> to[i]]]
  <2>2. n \in Nat /\ n >= 1 /\ n <= FrameSize
    BY FrameQueueAssumption
  <2>3. f \in Frame /\ Len(f) = n
    <3>1. \A i \in 1..n : to[i] \in Threads
      BY DEF Targets
    <3>2. \A i \in 1..n : made[t] + i \in Nat
      BY <2>2 DEF Types
    <3>3. f \in [1..n -> Item]
      BY <3>1, <3>2 DEF Item
    <3>4. f \in Seq(Item) /\ DOMAIN f = 1..n
      BY <2>2, <3>3, IsASeq
    <3> QED
      BY <2>2, <3>4, LenProperties DEF Frame
  <2> HIDE DEF f
  <2>4. todo'[t] = f /\ \A u \in Threads \ {t} : todo'[u] = todo[u]
    BY <2>1 DEF Types, f
  <2>5. todo' \in [Threads -> Frame]
    BY <2>1, <2>3 DEF Types, f
  <2>6. made' \in [Threads -> Nat] /\ made'[t] <= MaxPackets[t]
    <3>1. made[t] + n \in Nat
      BY <2>2 DEF Types
    <3> QED
      BY <2>0, <3>1 DEF Types
  <2>7. Types'
    BY <1>1, <2>5, <2>6 DEF HandOff, Types, PC
  <2>8. f # <<>>
    BY <2>2, <2>3, EmptySeq
  <2>9. \A u \in Threads : FrameInv(u)'
    <3>1. FrameInv(t)'
      BY <2>2, <2>3, <2>4, <2>6, <2>8 DEF FrameInv
    <3>2. ASSUME NEW u \in Threads \ {t} PROVE FrameInv(u)'
      <4>1. pc'[u] = pc[u] /\ made'[u] = made[u] /\ todo'[u] = todo[u]
        BY <1>1, <2>0, <2>4 DEF HandOff, Types
      <4>2. FrameInv(u)
        BY DEF LocalInv
      <4> QED
        BY <4>1, <4>2 DEF FrameInv
    <3> QED
      BY <3>1, <3>2
  <2>10. \A u \in Threads : PollInv(u)'
    BY <1>1 DEF HandOff, LocalInv, PollInv, Types
  <2> QED
    BY <2>7, <2>9, <2>10 DEF LocalInv
<1>2. ASSUME pc[t] \in Enqueuing PROVE Dest(t) \in Threads
  BY <1>2, DestType DEF LocalInv, FrameInv
<1>3. CASE ReadTail(t)
  <2>1. tail[Dest(t)] + 1 \in Nat
    BY <1>2, <1>3 DEF ReadTail, Types, Enqueuing
  <2>2. LocalInv' /\ pc' \in [Threads -> PC]
    BY <1>3, LocalFrame DEF ReadTail, PC, Enqueuing
  <2> QED
    BY <1>3, <2>1, <2>2 DEF ReadTail, Types
<1>4. ASSUME NEW from, NEW drops, Continue(t, from, drops),
             UNCHANGED <<ringVars, counter, dequeueVars, made>>,
             check_frame_queues' \in [Threads -> BOOLEAN],
             \A u \in Threads : check_frame_queues[u] => check_frame_queues'[u]
      PROVE  Types' /\ LocalInv'
  <2>1. Unmasked(t) \in Frame /\ Len(Unmasked(t)) <= Len(todo[t])
    BY UnmaskedProperties
  <2>2. PICK q \in {"tail", "dispatch"} :
          pc' = [pc EXCEPT ![t] = q] /\ (q = "tail" => Unmasked(t) # <<>>)
    BY <1>4 DEF Continue
  <2>3. /\ todo' = [todo EXCEPT ![t] = Unmasked(t)]
        /\ new_tail' = [new_tail EXCEPT ![t] = 0]
    BY <1>4 DEF Continue
  <2>4. Types'
    BY <1>4, <2>1, <2>2, <2>3 DEF Types, PC
  <2>5. Len(Unmasked(t)) <= FrameSize
    <3>1. Len(todo[t]) \in Nat /\ Len(Unmasked(t)) \in Nat
      BY <2>1, LenProperties DEF Types, Frame
    <3> QED
      BY <2>1, <3>1, FrameQueueAssumption DEF LocalInv, FrameInv
  <2>6. \A u \in Threads : FrameInv(u)'
    BY <1>4, <2>2, <2>3, <2>5 DEF LocalInv, FrameInv, Enqueuing, Types
  <2>7. \A u \in Threads : PollInv(u)'
    BY <1>4, <2>2 DEF LocalInv, PollInv, Types
  <2> QED
    BY <2>4, <2>6, <2>7 DEF LocalInv
<1>5. CASE Congested(t)
  BY <1>4, <1>5 DEF Congested, Types
<1>6. CASE Claim(t)
  <2>1. LocalInv' /\ pc' \in [Threads -> PC]
    BY <1>6, LocalFrame DEF Claim, PC, Enqueuing
  <2> QED
    BY <1>2, <1>6, <2>1 DEF Claim, Types
<1>7. CASE Fill(t) \/ Publish(t)
  <2> DEFINE d == Dest(t)
             i == Slot(new_tail[t])
             filled == [elts[d][i] EXCEPT !.buffer_index = Buffers(t),
                                          !.n_vectors = Len(Buffers(t))]
             valid == [elts[d][i] EXCEPT !.valid = TRUE]
  <2>1. d \in Threads /\ i \in Slots /\ elts[d][i] \in Element
    BY <1>2, <1>7, ElementAt DEF Fill, Publish, Enqueuing, Types
  <2>2. Buffers(t) \in Seq(Packets) /\ Len(Buffers(t)) \in Nat
    BY UnmaskedProperties, LenProperties
  <2>3. elts' = [elts EXCEPT ![d][i] = filled] \/ elts' = [elts EXCEPT ![d][i] = valid]
    BY <1>7 DEF Fill, Publish
  <2>4. filled \in Element /\ valid \in Element
    BY <2>1, <2>2 DEF Element
  <2>5. elts' \in [Threads -> [Slots -> Element]]
    <3> HIDE DEF d, i, filled, valid
    <3> QED
      BY <2>1, <2>3, <2>4, ElementUpdate
  <2> HIDE DEF filled, valid
  <2>6. LocalInv' /\ pc' \in [Threads -> PC]
    BY <1>7, LocalFrame DEF Fill, Publish, PC, Enqueuing
  <2> QED
    BY <1>7, <2>5, <2>6 DEF Fill, Publish, Types
<1>8. CASE RaiseFlag(t)
  <2>1. check_frame_queues' \in [Threads -> BOOLEAN]
    BY <1>8 DEF RaiseFlag, Types
  <2>2. \A u \in Threads : check_frame_queues[u] => check_frame_queues'[u]
    BY <1>8 DEF RaiseFlag, Types
  <2> QED
    BY <1>4, <1>8, <2>1, <2>2 DEF RaiseFlag
<1> QED
  BY <1>1, <1>3, <1>5, <1>6, <1>7, <1>8
-----------------------------------------------------------------------------
\* Two claims of one ring have elements of their own.
LEMMA ClaimSlots ==
  ASSUME IInv, NEW d \in Threads, NEW m \in Claims(d), NEW n \in Claims(d), m # n
  PROVE  Slot(m) # Slot(n)
<1>1. /\ head[d] \in Nat /\ tail[d] \in Nat /\ Nelts \in Nat
      /\ tail[d] \in head[d]..(head[d] + Nelts - 1)
  BY FrameQueueAssumption DEF IInv, Types, SharedInv, RingInv
<1>2. m \in Nat /\ n \in Nat /\ m < n + Nelts /\ n < m + Nelts
  BY <1>1 DEF Claims
<1> QED
  BY <1>2, SlotProperties

\* A claim is a position, and has an element.
LEMMA ClaimTypes ==
  ASSUME Types, NEW d \in Threads
  PROVE  \A n \in Claims(d) : n \in Nat /\ Slot(n) \in Slots
<1>1. head[d] \in Nat /\ tail[d] \in Nat
  BY DEF Types
<1>2. \A n \in Claims(d) : n \in Nat
  BY <1>1 DEF Claims
<1> QED
  BY <1>2, SlotProperties

\* The head of a ring that is not empty is its oldest claim.
LEMMA NextClaim ==
  ASSUME IInv, NEW d \in Threads, head[d] # tail[d]
  PROVE  head[d] + 1 \in Claims(d)
<1>1. /\ head[d] \in Nat /\ tail[d] \in Nat /\ Nelts \in Nat
      /\ tail[d] \in head[d]..(head[d] + Nelts - 1)
  BY FrameQueueAssumption DEF IInv, Types, SharedInv, RingInv
<1> QED
  BY <1>1 DEF Claims

\* The step of an owner that changes the element at its head.
LEMMA HeadUpdate ==
  ASSUME IInv, NEW d \in Threads, NEW e \in Element, NEW q \in {"dequeue", "polled", "reset", "bump"},
         UNCHANGED <<head, tail, todo, new_tail>>,
         elts' = [elts EXCEPT ![d][HeadSlot(d)] = e],
         pc' = [pc EXCEPT ![d] = q], pc[d] \in {"dequeue", "reset"},
         head[d] # tail[d], HeadElt(d).valid,
         e.offset + e.n_vectors <= FrameSize,
         q = "reset" => e.valid, q = "bump" => IsClear(e)
  PROVE  SharedInv'
<1> USE DEF IInv
<1>1. \A u \in Threads : pc'[u] = IF u = d THEN q ELSE pc[u]
  BY DEF Types
<1>2. Owners' = Owners
  BY <1>1 DEF Owners
<1>3. \A u \in Threads : Dest(u)' = Dest(u) /\ Claims(u)' = Claims(u) /\ HeadSlot(u)' = HeadSlot(u)
  BY DEF Dest, Claims, HeadSlot
<1>4. /\ elts'[d][HeadSlot(d)] = e
      /\ \A r \in Threads, j \in Slots : r # d \/ j # HeadSlot(d) => elts'[r][j] = elts[r][j]
  <2>1. Types /\ HeadSlot(d) \in Slots
    BY HeadElement
  <2>2. elts \in [Threads -> [Slots -> Element]]
    BY <2>1 DEF Types
  <2>3. PICK i \in Slots : i = HeadSlot(d)
    BY <2>1
  <2> QED
    BY <2>2, <2>3
<1>5. head[d] + 1 \in Claims(d)
  BY NextClaim
<1>6. \A r \in Threads : RingInv(r)'
  <2> SUFFICES ASSUME NEW r \in Threads PROVE RingInv(r)'
    OBVIOUS
  <2>1. \A i \in Slots : (\A n \in Claims(r) : Slot(n) # i) => IsClear(elts'[r][i])
    BY <1>4, <1>5 DEF SharedInv, RingInv, HeadSlot
  <2>2. \A i \in Slots : elts'[r][i].offset + elts'[r][i].n_vectors <= FrameSize
    BY <1>4 DEF SharedInv, RingInv
  <2> QED
    BY <1>3, <2>1, <2>2 DEF SharedInv, RingInv
<1>7. \A u \in Owners : Dest(u) = d => Slot(new_tail[u]) # HeadSlot(d)
  BY DEF SharedInv, ClaimInv, HeadElt, Owners
<1>8. \A r \in Threads : HeadInv(r)'
  <2> SUFFICES ASSUME NEW r \in Threads PROVE HeadInv(r)'
    OBVIOUS
  <2>1. CASE r = d
    <3>1. HeadElt(d)' = e
      BY <1>3, <1>4 DEF HeadElt
    <3>2. \A u \in Owners : Dest(u) = d => new_tail[u] # head[d] + 1
      BY <1>7 DEF HeadSlot
    <3>3. \A u \in Owners' : u \in Owners /\ Dest(u)' = Dest(u)
      BY <1>2, <1>3 DEF Owners
    <3> QED
      BY <1>1, <2>1, <3>1, <3>2, <3>3 DEF HeadInv
  <2>2. CASE r # d
    <3>1. HeadElt(r)' = HeadElt(r)
      BY <1>3, <1>4, <2>2, HeadElement DEF HeadElt
    <3> QED
      BY <1>1, <1>2, <1>3, <2>2, <3>1 DEF SharedInv, HeadInv, Owners
  <2> QED
    BY <2>1, <2>2
<1>9. \A u \in Threads : ClaimInv(u)'
  <2> SUFFICES ASSUME NEW u \in Threads PROVE ClaimInv(u)'
    OBVIOUS
  <2>1. CASE u \in Owners
    <3>1. Dest(u) \in Threads /\ Slot(new_tail[u]) \in Slots
      BY <2>1, DestType, ElementAt DEF Types, Owners, LocalInv, FrameInv, Enqueuing
    <3>2. elts'[Dest(u)][Slot(new_tail[u])] = elts[Dest(u)][Slot(new_tail[u])]
      BY <1>4, <1>7, <2>1, <3>1
    <3>3. ClaimInv(u) /\ pc'[u] = pc[u]
      BY <1>1, <2>1 DEF SharedInv, Owners
    <3>4. \A v \in Owners : Dest(v)' = Dest(v)
      BY <1>3 DEF Owners
    <3> QED
      BY <1>2, <1>3, <2>1, <3>1, <3>2, <3>3, <3>4 DEF ClaimInv
  <2>2. CASE u \notin Owners
    BY <1>1, <1>2, <1>3, <2>2 DEF SharedInv, ClaimInv
  <2> QED
    BY <2>1, <2>2
<1> QED
  BY <1>6, <1>8, <1>9 DEF SharedInv

\* The step of a producer that changes the element it has claimed.
LEMMA ClaimUpdate ==
  ASSUME IInv, NEW t \in Threads, NEW e \in Element, NEW q \in {"publish", "flag"},
         NEW d \in Threads, d = Dest(t), NEW i \in Slots, i = Slot(new_tail[t]),
         UNCHANGED <<head, tail, todo, new_tail>>,
         elts' = [elts EXCEPT ![d][i] = e],
         pc' = [pc EXCEPT ![t] = q], t \in Owners,
         e.offset + e.n_vectors <= FrameSize,
         q = "publish" => ~e.valid /\ e.offset = 0
  PROVE  SharedInv'
<1> USE DEF IInv
<1>1. \A u \in Threads : pc'[u] = IF u = t THEN q ELSE pc[u]
  BY DEF Types
<1>2. Owners' = IF q = "publish" THEN Owners ELSE Owners \ {t}
  BY <1>1 DEF Owners
<1>3. \A u \in Threads : Dest(u)' = Dest(u) /\ Claims(u)' = Claims(u) /\ HeadSlot(u)' = HeadSlot(u)
  BY DEF Dest, Claims, HeadSlot
<1>0. \A u \in Owners : /\ u \in Threads /\ Dest(u) \in Threads
                        /\ Slot(new_tail[u]) \in Slots
                        /\ new_tail[u] \in Claims(Dest(u))
  BY DestType, ElementAt DEF Types, Owners, LocalInv, FrameInv, Enqueuing, SharedInv, ClaimInv
<1>4. /\ elts'[d][i] = e
      /\ \A r \in Threads, j \in Slots : r # d \/ j # i => elts'[r][j] = elts[r][j]
  <2>1. elts \in [Threads -> [Slots -> Element]]
    BY DEF Types
  <2> QED
    BY <2>1
<1>6. \A r \in Threads : RingInv(r)'
  <2> SUFFICES ASSUME NEW r \in Threads PROVE RingInv(r)'
    OBVIOUS
  <2>1. \A j \in Slots : (\A n \in Claims(r) : Slot(n) # j) => IsClear(elts'[r][j])
    BY <1>0, <1>4 DEF SharedInv, RingInv
  <2>2. \A j \in Slots : elts'[r][j].offset + elts'[r][j].n_vectors <= FrameSize
    BY <1>4 DEF SharedInv, RingInv
  <2> QED
    BY <1>3, <2>1, <2>2 DEF SharedInv, RingInv
<1>8. \A r \in Threads : HeadInv(r)'
  <2> SUFFICES ASSUME NEW r \in Threads, pc'[r] \in {"reset", "bump"} PROVE HeadInv(r)'
    BY DEF HeadInv
  <2>1. pc[r] = pc'[r] /\ HeadInv(r)
    BY <1>1 DEF SharedInv
  <2>2. head[r] + 1 \in Claims(r)
    BY <2>1, NextClaim DEF HeadInv
  <2>3. r = d => HeadSlot(r) # i
    <3>1. CASE pc[r] = "reset"
      BY <2>1, <3>1 DEF SharedInv, HeadInv, ClaimInv, HeadElt
    <3>2. CASE pc[r] = "bump"
      BY <1>0, <2>1, <2>2, <3>2, ClaimSlots DEF HeadInv, HeadSlot
    <3> QED
      BY <2>1, <3>1, <3>2
  <2>4. HeadElt(r)' = HeadElt(r)
    BY <1>3, <1>4, <2>3, HeadElement DEF HeadElt
  <2> QED
    BY <1>0, <1>2, <1>3, <2>1, <2>4 DEF HeadInv
<1>9. \A u \in Threads : ClaimInv(u)'
  <2> SUFFICES ASSUME NEW u \in Threads PROVE ClaimInv(u)'
    OBVIOUS
  <2>1. CASE u \in Owners /\ u # t
    <3>1. Dest(u) = d => Slot(new_tail[u]) # i
      BY <1>0, <2>1, ClaimSlots DEF SharedInv, ClaimInv
    <3>2. elts'[Dest(u)][Slot(new_tail[u])] = elts[Dest(u)][Slot(new_tail[u])]
      BY <1>0, <1>4, <2>1, <3>1
    <3>3. ClaimInv(u) /\ pc'[u] = pc[u] /\ u \in Owners'
      BY <1>1, <1>2, <2>1 DEF SharedInv
    <3> QED
      BY <1>0, <1>2, <1>3, <2>1, <3>2, <3>3 DEF ClaimInv
  <2>2. CASE u \notin Owners
    BY <1>1, <1>2, <1>3, <2>2 DEF SharedInv, ClaimInv, Owners
  <2>3. CASE u = t /\ q = "publish"
    <3>1. ClaimInv(t) /\ pc'[t] = "publish" /\ Owners' = Owners
      BY <1>1, <1>2, <2>3 DEF SharedInv
    <3> QED
      BY <1>0, <1>3, <1>4, <2>3, <3>1 DEF ClaimInv
  <2>4. CASE u = t /\ q = "flag"
    BY <1>1, <1>2, <2>4 DEF ClaimInv, Owners
  <2> QED
    BY <2>1, <2>2, <2>3, <2>4
<1> QED
  BY <1>6, <1>8, <1>9 DEF SharedInv

\* Moving head gives up a clear element that nobody is filling.
LEMMA BumpShared ==
  ASSUME IInv, NEW t \in Threads, BumpHead(t)
  PROVE  SharedInv'
<1> USE DEF IInv, Goto, enqueueVars
<1>1. PICK q \in {"polled", "dequeue"} : pc[t] = "bump" /\ pc' = [pc EXCEPT ![t] = q]
  BY DEF BumpHead, AfterElt
<1>2. \A u \in Threads : pc'[u] = IF u = t THEN q ELSE pc[u]
  BY <1>1 DEF Types
<1>3. Owners' = Owners /\ UNCHANGED <<tail, elts, todo, new_tail>>
  BY <1>1, <1>2 DEF Owners, BumpHead
<1>4. /\ head'[t] = head[t] + 1 /\ \A r \in Threads \ {t} : head'[r] = head[r]
      /\ \A r \in Threads : head[r] \in Nat /\ tail[r] \in Nat
  BY DEF BumpHead, Types
<1>5. /\ head[t] # tail[t] /\ IsClear(HeadElt(t))
      /\ \A u \in Owners : Dest(u) = t => new_tail[u] # head[t] + 1
  BY <1>1 DEF SharedInv, HeadInv
<1>6. Claims(t)' = Claims(t) \ {head[t] + 1} /\ \A r \in Threads \ {t} : Claims(r)' = Claims(r)
  BY <1>3, <1>4 DEF Claims
<1>7. \A r \in Threads : Dest(r)' = Dest(r)
  BY <1>3 DEF Dest
<1>8. \A r \in Threads : RingInv(r)'
  <2> SUFFICES ASSUME NEW r \in Threads PROVE RingInv(r)'
    OBVIOUS
  <2>1. tail[r] \in head'[r]..(head'[r] + Nelts - 1)
    <3>1. Nelts \in Nat /\ tail[r] \in head[r]..(head[r] + Nelts - 1)
      BY FrameQueueAssumption DEF SharedInv, RingInv
    <3> QED
      BY <1>4, <1>5, <3>1
  <2>2. ASSUME NEW i \in Slots, \A n \in Claims(r)' : Slot(n) # i
        PROVE  IsClear(elts[r][i])
    <3>1. CASE r = t /\ i = HeadSlot(t)
      BY <1>5, <3>1 DEF HeadElt
    <3>2. CASE ~(r = t /\ i = HeadSlot(t))
      <4>1. \A n \in Claims(r) : Slot(n) # i
        BY <1>6, <2>2, <3>2 DEF HeadSlot
      <4> QED
        BY <4>1 DEF SharedInv, RingInv
    <3> QED
      BY <3>1, <3>2
  <2> QED
    BY <1>3, <2>1, <2>2 DEF SharedInv, RingInv
<1>9. \A r \in Threads : HeadInv(r)'
  <2> SUFFICES ASSUME NEW r \in Threads, r # t PROVE HeadInv(r)'
    BY <1>1, <1>2 DEF HeadInv
  <2>1. HeadElt(r)' = HeadElt(r)
    BY <1>3, <1>4 DEF HeadElt, HeadSlot
  <2>2. \A u \in Owners : Dest(u)' = Dest(u)
    BY <1>7 DEF Owners
  <2> QED
    BY <1>2, <1>3, <1>4, <2>1, <2>2 DEF SharedInv, HeadInv
<1>10. \A u \in Threads : ClaimInv(u)'
  <2> SUFFICES ASSUME NEW u \in Threads PROVE ClaimInv(u)'
    OBVIOUS
  <2>1. CASE u \in Owners
    <3>1. ClaimInv(u) /\ pc'[u] = pc[u] /\ Dest(u) \in Threads
      BY <1>1, <1>2, <2>1, DestType DEF SharedInv, Owners, LocalInv, FrameInv, Enqueuing
    <3>2. \A v \in Owners : Dest(v)' = Dest(v)
      BY <1>7 DEF Owners
    <3>3. new_tail[u] \in Claims(Dest(u))'
      <4>1. new_tail[u] \in Claims(Dest(u))
        BY <2>1, <3>1 DEF ClaimInv
      <4>2. CASE Dest(u) = t
        <5>1. Claims(Dest(u))' = Claims(t)'
          BY <1>7, <4>2
        <5> QED
          BY <1>5, <1>6, <2>1, <4>1, <4>2, <5>1
      <4>3. CASE Dest(u) # t
        <5>1. Claims(Dest(u))' = Claims(Dest(u))
          BY <1>3, <1>4, <1>7, <3>1, <4>3 DEF Claims
        <5> QED
          BY <4>1, <5>1
      <4> QED
        BY <4>2, <4>3
    <3>4. pc[u] \notin {"full", "cas"}
      BY <2>1 DEF Owners
    <3> QED
      BY <1>3, <1>7, <2>1, <3>1, <3>2, <3>3, <3>4 DEF ClaimInv
  <2>2. CASE u \notin Owners /\ pc[u] \in {"full", "cas"}
    <3>1. ClaimInv(u) /\ pc'[u] = pc[u] /\ Dest(u) \in Threads
      BY <1>1, <1>2, <2>2, DestType DEF SharedInv, LocalInv, FrameInv, Enqueuing
    <3>2. Nelts \in Nat /\ new_tail[u] \in Nat
      BY FrameQueueAssumption DEF Types
    <3>3. pc[u] = "cas" => new_tail[u] < head'[Dest(u)] + Nelts
      BY <1>4, <3>1, <3>2 DEF ClaimInv
    <3> QED
      BY <1>3, <1>7, <2>2, <3>1, <3>3 DEF ClaimInv
  <2>3. CASE u \notin Owners /\ pc[u] \notin {"full", "cas"}
    BY <1>1, <1>2, <1>3, <2>3 DEF ClaimInv
  <2> QED
    BY <2>1, <2>2, <2>3
<1> QED
  BY <1>8, <1>9, <1>10 DEF SharedInv

\* A producer that has read tail, or found the ring not full, only knows it of
\* the values it read.
LEMMA ProbeShared ==
  ASSUME IInv, NEW t \in Threads, ReadTail(t) \/ NotFull(t)
  PROVE  SharedInv'
<1> USE DEF IInv, Goto, ringVars, enqueueVars
<1>1. PICK q \in {"full", "cas"} : pc[t] \in {"tail", "full"} /\ pc' = [pc EXCEPT ![t] = q]
  BY DEF ReadTail, NotFull
<1>2. \A u \in Threads : pc'[u] = IF u = t THEN q ELSE pc[u]
  BY <1>1 DEF Types
<1>3. Owners' = Owners /\ UNCHANGED <<head, tail, elts, todo>>
  BY <1>1, <1>2 DEF Owners, ReadTail, NotFull
<1>4. \A u \in Threads : Dest(u)' = Dest(u)
  BY <1>3 DEF Dest
<1>5. \A u \in Threads \ {t} : new_tail'[u] = new_tail[u]
  BY DEF ReadTail, NotFull, Types
<1>6. t \notin Owners /\ t \notin Owners'
  BY <1>1, <1>3 DEF Owners
<1>7. \A v \in Owners : v \in Threads /\ Dest(v)' = Dest(v) /\ new_tail'[v] = new_tail[v]
  BY <1>4, <1>5, <1>6 DEF Owners
<1>8. \A d \in Threads : RingInv(d)' /\ HeadInv(d)'
  BY <1>1, <1>2, <1>3, <1>7 DEF SharedInv, RingInv, HeadInv, Claims, HeadElt, HeadSlot
<1>9. Dest(t) \in Threads
  BY <1>1, DestType DEF LocalInv, FrameInv, Enqueuing
<1>10. tail[Dest(t)] \in Nat /\ head[Dest(t)] \in Nat /\ new_tail[t] \in Nat /\ Nelts \in Nat
  BY <1>9, FrameQueueAssumption DEF Types
<1>11. ClaimInv(t)'
  <2>1. CASE ReadTail(t)
    <3>1. pc'[t] = "full" /\ new_tail'[t] = tail[Dest(t)] + 1
      BY <2>1 DEF ReadTail, Types
    <3> QED
      BY <1>3, <1>4, <1>6, <1>10, <3>1 DEF ClaimInv
  <2>2. CASE NotFull(t)
    <3>1. pc[t] = "full" /\ pc'[t] = "cas" /\ new_tail'[t] = new_tail[t] /\ ~IsFull(t)
      BY <2>2 DEF NotFull, Types
    <3>2. ClaimInv(t)
      BY DEF SharedInv
    <3> QED
      BY <1>3, <1>4, <1>6, <1>10, <3>1, <3>2 DEF ClaimInv, IsFull
  <2> QED
    BY <2>1, <2>2
<1>12. \A u \in Threads \ {t} : ClaimInv(u)'
  <2> SUFFICES ASSUME NEW u \in Threads \ {t} PROVE ClaimInv(u)'
    OBVIOUS
  <2>1. /\ ClaimInv(u) /\ pc'[u] = pc[u] /\ Dest(u)' = Dest(u) /\ new_tail'[u] = new_tail[u]
        /\ Claims(Dest(u))' = Claims(Dest(u))
    BY <1>2, <1>3, <1>4, <1>5 DEF SharedInv, Claims
  <2> QED
    BY <1>3, <1>7, <2>1 DEF ClaimInv
<1> QED
  BY <1>8, <1>11, <1>12 DEF SharedInv

\* The compare-and-swap takes a position that no claim shares an element with.
LEMMA ClaimShared ==
  ASSUME IInv, NEW t \in Threads, Claim(t)
  PROVE  SharedInv'
<1> USE DEF IInv, Goto, enqueueVars
<1>1. /\ pc[t] = "cas" /\ pc' = [pc EXCEPT ![t] = "fill"]
      /\ UNCHANGED <<head, elts, todo, new_tail>>
  BY DEF Claim
<1>2. \A u \in Threads : pc'[u] = IF u = t THEN "fill" ELSE pc[u]
  BY <1>1 DEF Types
<1>3. Owners' = Owners \cup {t} /\ t \notin Owners
  BY <1>1, <1>2 DEF Owners
<1>4. PICK d \in Threads : d = Dest(t)
  BY <1>1, DestType DEF LocalInv, FrameInv, Enqueuing
<1>5. tail[d] \in Nat /\ head[d] \in Nat /\ new_tail[t] \in Nat /\ Nelts \in Nat
  BY FrameQueueAssumption DEF Types
<1>6. /\ new_tail[t] = tail[d] + 1 /\ new_tail[t] < head[d] + Nelts
      /\ tail[d] \in head[d]..(head[d] + Nelts - 1)
  <2>1. new_tail[t] \in 1..(tail[d] + 1) /\ new_tail[t] < head[d] + Nelts
    BY <1>1, <1>4 DEF SharedInv, ClaimInv
  <2>2. tail[d] = new_tail[t] - 1
    BY <1>4 DEF Claim
  <2> QED
    BY <1>5, <2>1, <2>2 DEF SharedInv, RingInv
<1>7. tail'[d] = tail[d] + 1 /\ \A r \in Threads \ {d} : tail'[r] = tail[r]
  BY <1>4, <1>6 DEF Claim, Types
<1>8. /\ Claims(d)' = Claims(d) \cup {new_tail[t]}
      /\ \A r \in Threads \ {d} : Claims(r)' = Claims(r)
  BY <1>1, <1>5, <1>6, <1>7 DEF Claims
<1>9. \A n \in Claims(d) : n < new_tail[t] /\ Slot(n) # Slot(new_tail[t])
  <2>1. \A n \in Claims(d) : n \in Nat /\ n < new_tail[t] /\ new_tail[t] < n + Nelts
    BY <1>5, <1>6 DEF Claims
  <2> QED
    BY <1>5, <2>1, SlotProperties
<1>10. \A u \in Threads : Dest(u)' = Dest(u)
  BY <1>1 DEF Dest
<1>11. \A r \in Threads : RingInv(r)'
  <2> SUFFICES ASSUME NEW r \in Threads PROVE RingInv(r)'
    OBVIOUS
  <2>1. RingInv(r)
    BY DEF SharedInv
  <2>2. tail'[r] \in head[r]..(head[r] + Nelts - 1)
    BY <1>5, <1>6, <1>7, <2>1 DEF RingInv
  <2>3. \A i \in Slots : (\A n \in Claims(r)' : Slot(n) # i) => (\A n \in Claims(r) : Slot(n) # i)
    BY <1>8
  <2> QED
    BY <1>1, <2>1, <2>2, <2>3 DEF RingInv
<1>12. \A r \in Threads : HeadInv(r)'
  <2> SUFFICES ASSUME NEW r \in Threads, pc'[r] \in {"reset", "bump"} PROVE HeadInv(r)'
    BY DEF HeadInv
  <2>1. pc'[r] = pc[r] /\ HeadInv(r) /\ HeadElt(r)' = HeadElt(r)
    BY <1>1, <1>2 DEF SharedInv, HeadElt, HeadSlot
  <2>2. head[r] # tail[r] /\ head[r] # tail'[r]
    BY <1>5, <1>6, <1>7, <2>1 DEF HeadInv
  <2>3. r = d => new_tail[t] # head[r] + 1
    BY <1>5, <1>6, <2>2
  <2>4. \A u \in Owners : Dest(u)' = Dest(u)
    BY <1>10 DEF Owners
  <2> QED
    BY <1>1, <1>3, <1>4, <1>10, <2>1, <2>2, <2>3, <2>4 DEF HeadInv
<1>13. ClaimInv(t)'
  <2>1. IsClear(elts[d][Slot(new_tail[t])])
    BY <1>5, <1>9, SlotProperties DEF SharedInv, RingInv
  <2>2. \A u \in Owners : Dest(u)' = Dest(u) /\ (Dest(u) = d => new_tail[u] # new_tail[t])
    <3>1. \A u \in Owners : Dest(u)' = Dest(u) /\ (Dest(u) = d => new_tail[u] \in Claims(d))
      BY <1>10 DEF Owners, SharedInv, ClaimInv
    <3> QED
      BY <1>5, <1>9, <3>1
  <2>3. pc'[t] = "fill"
    BY <1>2
  <2> QED
    BY <1>1, <1>3, <1>4, <1>8, <1>10, <2>1, <2>2, <2>3 DEF ClaimInv, IsClear
<1>14. \A u \in Threads \ {t} : ClaimInv(u)'
  <2> SUFFICES ASSUME NEW u \in Threads \ {t} PROVE ClaimInv(u)'
    OBVIOUS
  <2>1. ClaimInv(u) /\ pc'[u] = pc[u] /\ Dest(u)' = Dest(u) /\ (u \in Owners' <=> u \in Owners)
    BY <1>2, <1>3, <1>10 DEF SharedInv
  <2>2. ASSUME pc[u] \in {"full", "cas"} PROVE new_tail[u] \in 1..(tail'[Dest(u)] + 1)
    <3>1. Dest(u) \in Threads
      BY <2>2, DestType DEF LocalInv, FrameInv, Enqueuing
    <3>2. tail[Dest(u)] \in Nat /\ tail'[Dest(u)] \in tail[Dest(u)]..(tail[Dest(u)] + 1)
      <4>1. tail[Dest(u)] \in Nat
        BY <3>1 DEF Types
      <4> QED
        BY <1>5, <1>7, <3>1, <4>1
    <3> QED
      BY <2>1, <2>2, <3>2 DEF ClaimInv
  <2>3. ASSUME u \in Owners
        PROVE  /\ new_tail[u] \in Claims(Dest(u))'
               /\ \A v \in Owners' \ {u} : Dest(v)' = Dest(v) /\ (Dest(v) = Dest(u) => new_tail[v] # new_tail[u])
    <3>1. Dest(u) \in Threads /\ new_tail[u] \in Claims(Dest(u))
      BY <2>1, <2>3, DestType DEF Owners, LocalInv, FrameInv, Enqueuing, ClaimInv
    <3>2. Dest(u) = d => new_tail[u] # new_tail[t]
      BY <1>5, <1>9, <3>1
    <3>3. \A v \in Owners' : Dest(v)' = Dest(v)
      BY <1>10 DEF Owners
    <3> QED
      BY <1>3, <1>4, <1>8, <2>1, <2>3, <3>1, <3>2, <3>3 DEF ClaimInv
  <2> QED
    BY <1>1, <2>1, <2>2, <2>3 DEF ClaimInv
<1> QED
  BY <1>11, <1>12, <1>13, <1>14 DEF SharedInv

\* Every step keeps what is said of the rings.
LEMMA SharedStep ==
  ASSUME IInv, NEW t \in Threads, Thread(t)
  PROVE  SharedInv'
<1> USE DEF Goto
<1>1. CASE SkipPoll(t) \/ BeginPoll(t) \/ ClearFlag(t) \/ EndPoll(t) \/ DequeueDone(t) \/ Idle(t) \/ Retry(t)
  <2>1. PICK q \in {"dispatch", "poll", "dequeue", "polled", "top", "tail"} : pc' = [pc EXCEPT ![t] = q]
    BY <1>1 DEF SkipPoll, BeginPoll, ClearFlag, EndPoll, DequeueDone, Idle, Retry
  <2>2. UNCHANGED ringVars /\ UNCHANGED <<todo, new_tail>>
    BY <1>1 DEF SkipPoll, BeginPoll, ClearFlag, EndPoll, DequeueDone, Idle, Retry, enqueueVars
  <2> QED
    BY <2>1, <2>2, SharedFrame DEF PC
<1>2. CASE ReadFlag(t)
  <2>1. PICK q \in {"clear", "dequeue"} : pc' = [pc EXCEPT ![t] = q]
    BY <1>2 DEF ReadFlag
  <2>2. UNCHANGED ringVars /\ UNCHANGED <<todo, new_tail>>
    BY <1>2 DEF ReadFlag, enqueueVars
  <2> QED
    BY <2>1, <2>2, SharedFrame DEF PC
<1>3. CASE HandOff(t)
  <2>1. pc' = [pc EXCEPT ![t] = "tail"]
    BY <1>3 DEF HandOff
  <2>2. /\ UNCHANGED ringVars /\ new_tail' = new_tail
        /\ \A u \in Threads \ {t} : todo'[u] = todo[u]
    BY <1>3 DEF HandOff, IInv, Types
  <2> QED
    BY <2>1, <2>2, SharedFrame DEF PC
<1>4. CASE Congested(t) \/ RaiseFlag(t)
  <2>1. PICK q \in {"tail", "dispatch"} : pc' = [pc EXCEPT ![t] = q]
    BY <1>4 DEF Congested, RaiseFlag, Continue
  <2>2. /\ UNCHANGED ringVars
        /\ \A u \in Threads \ {t} : todo'[u] = todo[u] /\ new_tail'[u] = new_tail[u]
    BY <1>4 DEF Congested, RaiseFlag, Continue, IInv, Types
  <2> QED
    BY <2>1, <2>2, SharedFrame DEF PC
<1>5. CASE DequeueElt(t)
  <2>1. UNCHANGED <<head, tail, todo, new_tail>> /\ pc[t] = "dequeue" /\ head[t] # tail[t] /\ HeadElt(t).valid
    BY <1>5 DEF DequeueElt, enqueueVars
  <2>2. Types /\ HeadElt(t) \in Element /\ HeadElt(t).offset + HeadElt(t).n_vectors <= FrameSize
    BY HeadElement DEF IInv, SharedInv, RingInv, HeadElt
  <2>3. CASE NCopy(t) = HeadElt(t).n_vectors
    <3>1. pc' = [pc EXCEPT ![t] = "reset"] /\ elts' = elts
      BY <1>5, <2>3 DEF DequeueElt
    <3>2. elts = [elts EXCEPT ![t][HeadSlot(t)] = HeadElt(t)]
      BY <2>2, HeadElement DEF Types, HeadElt
    <3> QED
      BY <2>1, <2>2, <3>1, <3>2, HeadUpdate
  <2>4. CASE NCopy(t) # HeadElt(t).n_vectors
    <3>1. PICK q \in {"dequeue", "polled"} : pc' = [pc EXCEPT ![t] = q]
      BY <1>5, <2>4 DEF DequeueElt, AfterElt
    <3>2. elts' = [elts EXCEPT ![t][HeadSlot(t)] = Rest(HeadElt(t), NCopy(t))]
      BY <1>5, <2>4 DEF DequeueElt, HeadElt
    <3>3. /\ HeadElt(t).n_vectors - NCopy(t) \in Nat /\ HeadElt(t).offset + NCopy(t) \in Nat
          /\ (HeadElt(t).offset + NCopy(t)) + (HeadElt(t).n_vectors - NCopy(t)) <= FrameSize
      BY <2>2, CopyProperties, FrameQueueAssumption
    <3>4. /\ Rest(HeadElt(t), NCopy(t)) \in Element
          /\ Rest(HeadElt(t), NCopy(t)).offset = HeadElt(t).offset + NCopy(t)
          /\ Rest(HeadElt(t), NCopy(t)).n_vectors = HeadElt(t).n_vectors - NCopy(t)
      BY <2>2, <3>3 DEF Rest, Element
    <3> QED
      BY <2>1, <3>1, <3>2, <3>3, <3>4, HeadUpdate
  <2> QED
    BY <2>3, <2>4
<1>6. CASE ResetElt(t)
  <2>1. /\ UNCHANGED <<head, tail, todo, new_tail>> /\ pc[t] = "reset"
        /\ pc' = [pc EXCEPT ![t] = "bump"]
        /\ elts' = [elts EXCEPT ![t][HeadSlot(t)] = Cleared(HeadElt(t))]
    BY <1>6 DEF ResetElt, HeadElt, enqueueVars
  <2>2. Types /\ head[t] # tail[t] /\ HeadElt(t).valid
    BY <2>1 DEF IInv, SharedInv, HeadInv
  <2>3. /\ Cleared(HeadElt(t)) \in Element /\ IsClear(Cleared(HeadElt(t)))
        /\ Cleared(HeadElt(t)).offset + Cleared(HeadElt(t)).n_vectors <= FrameSize
    <3>1. HeadElt(t) \in Element /\ FrameSize \in Nat
      BY <2>2, HeadElement, FrameQueueAssumption
    <3>2. /\ Cleared(HeadElt(t)) \in Element /\ ~Cleared(HeadElt(t)).valid
          /\ Cleared(HeadElt(t)).offset = 0 /\ Cleared(HeadElt(t)).n_vectors = 0
      BY <3>1 DEF Cleared, Element
    <3> QED
      BY <3>1, <3>2 DEF IsClear
  <2> QED
    BY <2>1, <2>2, <2>3, HeadUpdate
<1>7. CASE Fill(t) \/ Publish(t)
  <2>1. Types /\ t \in Owners /\ UNCHANGED <<head, tail, todo, new_tail>>
    BY <1>7 DEF IInv, Fill, Publish, Owners, enqueueVars
  <2>2. PICK d \in Threads : d = Dest(t)
    BY <1>7, <2>1, DestType DEF IInv, LocalInv, FrameInv, Fill, Publish, Enqueuing
  <2>3. PICK i \in Slots : i = Slot(new_tail[t])
    BY <2>1, SlotProperties DEF Types
  <2>4. PICK elt \in Element : elt = elts[d][i]
    BY <2>1 DEF Types
  <2>5. ~elt.valid /\ elt.offset = 0 /\ elt.n_vectors \in Nat /\ elt.offset + elt.n_vectors <= FrameSize
    BY <2>1, <2>2, <2>3, <2>4 DEF IInv, SharedInv, ClaimInv, RingInv, Element
  <2>6. CASE Fill(t)
    <3> DEFINE e == [elt EXCEPT !.buffer_index = Buffers(t), !.n_vectors = Len(Buffers(t))]
    <3>1. elts' = [elts EXCEPT ![d][i] = e] /\ pc' = [pc EXCEPT ![t] = "publish"]
      BY <2>2, <2>3, <2>4, <2>6 DEF Fill
    <3>2. Buffers(t) \in Seq(Packets) /\ Len(Buffers(t)) \in 0..FrameSize
      <4>1. /\ Buffers(t) \in Seq(Packets) /\ Len(Buffers(t)) \in Nat /\ Len(todo[t]) \in Nat
            /\ Len(Buffers(t)) <= Len(todo[t])
        BY <2>1, UnmaskedProperties, LenProperties DEF Types, Frame
      <4> QED
        BY <4>1, FrameQueueAssumption DEF IInv, LocalInv, FrameInv
    <3>3. e \in Element /\ ~e.valid /\ e.offset = 0 /\ e.offset + e.n_vectors <= FrameSize
      <4>1. e \in Element /\ e.valid = elt.valid /\ e.offset = elt.offset /\ e.n_vectors = Len(Buffers(t))
        <5>1. Buffers(t) \in Seq(Packets) /\ Len(Buffers(t)) \in Nat
          BY <3>2
        <5> QED
          BY <5>1 DEF Element
      <4> HIDE DEF e
      <4> QED
        BY <2>5, <3>2, <4>1
    <3> HIDE DEF e
    <3> QED
      BY <2>1, <2>2, <2>3, <3>1, <3>3, ClaimUpdate
  <2>7. CASE Publish(t)
    <3> DEFINE e == [elt EXCEPT !.valid = TRUE]
    <3>1. elts' = [elts EXCEPT ![d][i] = e] /\ pc' = [pc EXCEPT ![t] = "flag"]
      BY <2>2, <2>3, <2>4, <2>7 DEF Publish
    <3>3. e \in Element /\ e.offset + e.n_vectors <= FrameSize
      BY <2>5 DEF Element
    <3> HIDE DEF e
    <3> QED
      BY <2>1, <2>2, <2>3, <3>1, <3>3, ClaimUpdate
  <2> QED
    BY <1>7, <2>6, <2>7
<1> QED
  BY <1>1, <1>2, <1>3, <1>4, <1>5, <1>6, <1>7, BumpShared, ProbeShared, ClaimShared DEF Thread
-----------------------------------------------------------------------------
\* The ring protocol keeps its inductive invariant.
THEOREM Inductive == Spec => []IInv
<1>1. IInv /\ [Next]_vars => IInv'
  <2> SUFFICES ASSUME IInv, [Next]_vars PROVE IInv'
    OBVIOUS
  <2>1. CASE UNCHANGED vars
    <3> USE <2>1 DEF vars, ringVars, pollVars, dequeueVars, enqueueVars
    <3>1. Types'
      BY DEF IInv, Types
    <3>2. LocalInv'
      BY DEF IInv, LocalInv, PollInv, FrameInv
    <3>3. SharedInv'
      BY DEF IInv, SharedInv, RingInv, HeadInv, ClaimInv, Claims, HeadElt, HeadSlot, Owners, Dest
    <3> QED
      BY <3>1, <3>2, <3>3 DEF IInv
  <2>2. ASSUME NEW t \in Threads, Thread(t) PROVE IInv'
    <3>1. Types' /\ LocalInv'
      BY <2>2, PollLocal, DequeueLocal, EnqueueLocal DEF Thread
    <3>2. SharedInv'
      BY <2>2, SharedStep
    <3> QED
      BY <3>1, <3>2 DEF IInv
  <2> QED
    BY <2>1, <2>2 DEF Next
<1> QED
  BY <1>1, InitIInv, PTL DEF Spec

\* The state of the handoff queues is well typed; no ring holds more claims
\* than elements, the counter of a poll does not go below zero, and the ASSERT
\* of vlib_frame_queue_dequeue_inline holds of every element.
THEOREM TypeCorrect == Spec => []TypeOK
<1>1. IInv => TypeOK
  <2> SUFFICES ASSUME IInv PROVE TypeOK
    OBVIOUS
  <2>1. \A t \in Threads : /\ head[t] \in Nat /\ tail[t] \in head[t]..(head[t] + Nelts - 1)
                           /\ pc[t] \in PC /\ counter[t] \in 0..CheckLimit
                           /\ free[t] \in 0..FrameSize
    BY DEF IInv, Types, SharedInv, RingInv
  <2>2. \A t \in Threads : \A i \in Slots : elts[t][i].offset + elts[t][i].n_vectors <= FrameSize
    BY DEF IInv, SharedInv, RingInv
  <2>3. \A t \in Threads : made[t] \in 0..MaxPackets[t]
    BY FrameQueueAssumption DEF IInv, Types, LocalInv, FrameInv
  <2>4. check_frame_queues \in [Threads -> BOOLEAN]
    BY DEF IInv, Types
  <2> QED
    BY <2>1, <2>2, <2>3, <2>4 DEF TypeOK, Slots
<1> QED
  BY <1>1, Inductive, PTL

\* An element that vlib_get_frame_queue_elt returns belongs to its caller alone
\* until it is valid: no other producer holds it, whatever the number of
\* producers and the size of the ring, and the owner of the ring had reset it.
THEOREM ClaimsExclusive == Spec => []ClaimExclusive
<1>1. IInv => ClaimExclusive
  <2> SUFFICES ASSUME IInv, NEW t \in Owners
               PROVE  LET slot == Slot(new_tail[t])
                          elt == elts[Dest(t)][slot]
                      IN /\ ~elt.valid /\ elt.offset = 0
                         /\ pc[t] = "fill" => elt.n_vectors = 0
                         /\ \A u \in Owners \ {t} :
                              Dest(u) = Dest(t) => Slot(new_tail[u]) # slot
    BY DEF ClaimExclusive
  <2>1. \A u \in Owners : u \in Threads /\ ClaimInv(u) /\ Dest(u) \in Threads
    BY DestType DEF IInv, SharedInv, Owners, LocalInv, FrameInv, Enqueuing
  <2>2. ASSUME NEW u \in Owners \ {t}, Dest(u) = Dest(t)
        PROVE  Slot(new_tail[u]) # Slot(new_tail[t])
    BY <2>1, <2>2, ClaimSlots DEF ClaimInv
  <2> QED
    BY <2>1, <2>2 DEF ClaimInv
<1> QED
  BY <1>1, Inductive, PTL
-----------------------------------------------------------------------------
(* Order.  The packets an element holds come from one thread, in order; so   *)
(* do those of a thread over the claims of a ring, after what the owner has  *)
(* already delivered and before what the thread still has to hand off.       *)

Held(e) == (e.offset + 1)..(e.offset + e.n_vectors)
Source(e, j) == e.buffer_index[j][1]
Number(e, j) == e.buffer_index[j][2]
Sorted(e) ==
  /\ e.offset + e.n_vectors <= Len(e.buffer_index)
  /\ \A i, j \in Held(e) :
       Source(e, i) = Source(e, j) /\ (i < j => Number(e, i) < Number(e, j))
Before(e, f) ==
  \A i \in Held(e), j \in Held(f) :
    Source(e, i) = Source(f, j) => Number(e, i) < Number(f, j)
Increasing(q) == \A i, j \in DOMAIN q : i < j => q[i][2] < q[j][2]

\* The owner has copied the head and not yet reset it.
Taken(d, n) == pc[d] = "reset" /\ n = head[d] + 1
RingOrder(d) ==
  /\ \A i \in Slots : Sorted(elts[d][i])
  /\ \A m, n \in Claims(d) : m < n => Before(elts[d][Slot(m)], elts[d][Slot(n)])
DeliveredOrder(d) ==
  /\ \A s \in Threads : Increasing(delivered[d][s])
  /\ \A n \in Claims(d) : \A j \in Held(elts[d][Slot(n)]) :
       \A i \in DOMAIN delivered[d][Source(elts[d][Slot(n)], j)] :
         \/ Taken(d, n)
         \/ delivered[d][Source(elts[d][Slot(n)], j)][i][2] < Number(elts[d][Slot(n)], j)

\* Thread d has, or had, packet k of thread t.
Sent(d, t, k) ==
  \/ \E i \in Slots : \E j \in Held(elts[d][i]) :
       Source(elts[d][i], j) = t /\ Number(elts[d][i], j) = k
  \/ \E i \in DOMAIN delivered[d][t] : delivered[d][t][i][2] = k
Pending(t, i) == ~(pc[t] \in {"publish", "flag"} /\ todo[t][i].to = Dest(t))
FrameOrder(t) ==
  /\ \A i \in DOMAIN todo[t] : todo[t][i].k <= made[t]
  /\ \A i, j \in DOMAIN todo[t] : i < j => todo[t][i].k < todo[t][j].k
  /\ \A d \in Threads, k \in Nat : Sent(d, t, k) => k <= made[t]
  /\ \A i \in DOMAIN todo[t], k \in Nat :
       Pending(t, i) /\ Sent(todo[t][i].to, t, k) => k < todo[t][i].k
  /\ pc[t] = "fill" =>
       \A n \in Claims(Dest(t)) : n > new_tail[t] =>
         \A j \in Held(elts[Dest(t)][Slot(n)]) : Source(elts[Dest(t)][Slot(n)], j) # t
OrderInv ==
  /\ delivered \in [Threads -> [Threads -> Seq(Packets)]]
  /\ \A t \in Threads : RingOrder(t) /\ DeliveredOrder(t) /\ FrameOrder(t)

\* f is e after some of its packets have left.
Less(f, e) == /\ f.buffer_index = e.buffer_index
              /\ Held(f) \subseteq Held(e)
              /\ f.offset + f.n_vectors <= Len(f.buffer_index)

\* What a sorted element holds are packets.
LEMMA HeldPacket ==
  ASSUME NEW e \in Element, Sorted(e), NEW j \in Held(e)
  PROVE  /\ e.buffer_index[j] \in Packets
         /\ Source(e, j) \in Threads /\ Number(e, j) \in Nat
<1>1. e.offset \in Nat /\ e.n_vectors \in Nat /\ e.buffer_index \in Seq(Packets)
  BY DEF Element
<1>2. Len(e.buffer_index) \in Nat /\ j \in 1..Len(e.buffer_index)
  BY <1>1, LenProperties DEF Sorted, Held
<1>3. e.buffer_index[j] \in Packets
  BY <1>1, <1>2, ElementOfSeq
<1> QED
  BY <1>3 DEF Packets, Source, Number

LEMMA LessSorted ==
  ASSUME NEW e \in Element, NEW f \in Element, Less(f, e), Sorted(e)
  PROVE  Sorted(f)
BY DEF Less, Sorted, Source, Number

LEMMA LessBefore ==
  ASSUME NEW e \in Element, NEW f \in Element, NEW g \in Element, NEW h \in Element,
         Less(f, e), Less(h, g), Before(e, g)
  PROVE  Before(f, h)
BY DEF Less, Before, Source, Number

LEMMA LessRefl ==
  ASSUME NEW e, Sorted(e)
  PROVE  Less(e, e)
BY DEF Less, Sorted

\* Packets that leave elements, and claims without packets, keep the order of
\* the rings.
LEMMA RingOrderKept ==
  ASSUME Types, Types', NEW d \in Threads, RingOrder(d),
         \A i \in Slots : Less(elts'[d][i], elts[d][i]),
         \A n \in Claims(d)' : n \in Claims(d) \/ Held(elts'[d][Slot(n)]) = {}
  PROVE  RingOrder(d)'
<1>1. \A i \in Slots : elts[d][i] \in Element /\ elts'[d][i] \in Element
  BY DEF Types
<1>2. \A i \in Slots : Sorted(elts'[d][i])
  BY <1>1, LessSorted DEF RingOrder
<1>3. ASSUME NEW m \in Claims(d)', NEW n \in Claims(d)', m < n
      PROVE  Before(elts'[d][Slot(m)], elts'[d][Slot(n)])
  <2>1. Slot(m) \in Slots /\ Slot(n) \in Slots
    <3>1. m \in Nat /\ n \in Nat
      BY DEF Types, Claims
    <3> QED
      BY <3>1, SlotProperties
  <2>2. CASE m \in Claims(d) /\ n \in Claims(d)
    BY <1>1, <1>3, <2>1, <2>2, LessBefore DEF RingOrder
  <2>3. CASE m \notin Claims(d) \/ n \notin Claims(d)
    BY <2>3 DEF Before
  <2> QED
    BY <2>2, <2>3
<1> QED
  BY <1>2, <1>3 DEF RingOrder

LEMMA DeliveredOrderKept ==
  ASSUME Types, Types', NEW d \in Threads, DeliveredOrder(d), delivered' = delivered,
         \A i \in Slots : Less(elts'[d][i], elts[d][i]),
         \A n \in Claims(d)' : n \in Claims(d) \/ Held(elts'[d][Slot(n)]) = {},
         \A n \in Claims(d) : Taken(d, n) => Taken(d, n)' \/ Held(elts'[d][Slot(n)]) = {}
  PROVE  DeliveredOrder(d)'
<1>1. \A n \in Claims(d)' : Slot(n) \in Slots
  <2>1. \A n \in Claims(d)' : n \in Nat
    BY DEF Types, Claims
  <2> QED
    BY <2>1, SlotProperties
<1>2. ASSUME NEW n \in Claims(d)', NEW j \in Held(elts'[d][Slot(n)]),
             NEW i \in DOMAIN delivered[d][Source(elts'[d][Slot(n)], j)]
      PROVE  \/ Taken(d, n)'
             \/ delivered[d][Source(elts'[d][Slot(n)], j)][i][2] < Number(elts'[d][Slot(n)], j)
  <2>1. /\ n \in Claims(d) /\ j \in Held(elts[d][Slot(n)])
        /\ Source(elts'[d][Slot(n)], j) = Source(elts[d][Slot(n)], j)
        /\ Number(elts'[d][Slot(n)], j) = Number(elts[d][Slot(n)], j)
    BY <1>1 DEF Less, Source, Number
  <2> QED
    BY <2>1 DEF DeliveredOrder
<1> QED
  BY <1>2 DEF DeliveredOrder

LEMMA SentKept ==
  ASSUME NEW d \in Threads, delivered' = delivered,
         \A i \in Slots : Less(elts'[d][i], elts[d][i]),
         NEW t, NEW k, Sent(d, t, k)'
  PROVE  Sent(d, t, k)
BY DEF Sent, Less, Source, Number

\* A thread whose frame does not change, and which sends nothing of it.
LEMMA FrameOrderKept ==
  ASSUME Types, Types', NEW t \in Threads, FrameOrder(t), pc[t] \in Enqueuing => todo[t] # <<>>,
         todo'[t] = todo[t], made'[t] = made[t],
         \A d \in Threads, k \in Nat : Sent(d, t, k)' => Sent(d, t, k),
         pc'[t] \in {"publish", "flag"} <=> pc[t] \in {"publish", "flag"},
         pc'[t] = "fill" =>
           \A n \in Claims(Dest(t))' : n > new_tail'[t] =>
             \A j \in Held(elts'[Dest(t)][Slot(n)]) : Source(elts'[Dest(t)][Slot(n)], j) # t
  PROVE  FrameOrder(t)'
<1>1. Dest(t)' = Dest(t)
  BY DEF Dest
<1>2. \A i \in DOMAIN todo[t] : Pending(t, i)' <=> Pending(t, i)
  BY <1>1 DEF Pending
<1>3. \A i \in DOMAIN todo[t] : todo[t][i].to \in Threads
  <2>1. todo[t] \in Seq(Item)
    BY DEF Types, Frame
  <2>2. \A i \in DOMAIN todo[t] : todo[t][i] \in Item
    BY <2>1, LenProperties, ElementOfSeq
  <2> QED
    BY <2>2 DEF Item
<1>4. pc'[t] = "fill" =>
        \A n \in Claims(Dest(t))' : n > new_tail'[t] =>
          \A j \in Held(elts'[Dest(t)'][Slot(n)]) : Source(elts'[Dest(t)'][Slot(n)], j) # t
  BY <1>1
<1> QED
  BY <1>2, <1>3, <1>4 DEF FrameOrder

\* A step that touches no ring keeps the order of the packets, but for what the
\* thread itself still has to hand off.
LEMMA OrderFrame ==
  ASSUME IInv, Types', OrderInv, NEW t \in Threads, NEW q \in PC,
         UNCHANGED ringVars, delivered' = delivered,
         pc' = [pc EXCEPT ![t] = q], pc[t] # "reset",
         \A u \in Threads \ {t} : /\ todo'[u] = todo[u] /\ new_tail'[u] = new_tail[u]
                                  /\ made'[u] = made[u],
         FrameOrder(t)'
  PROVE  OrderInv'
<1> USE DEF ringVars
<1>1. Types /\ \A u \in Threads : pc'[u] = IF u = t THEN q ELSE pc[u]
  BY DEF IInv, Types
<1>2. ASSUME NEW d \in Threads
      PROVE  /\ Claims(d)' = Claims(d)
             /\ \A i \in Slots : Less(elts'[d][i], elts[d][i])
             /\ \A n \in Claims(d) : Taken(d, n) => Taken(d, n)'
  <2>1. \A i \in Slots : Less(elts[d][i], elts[d][i])
    BY LessRefl DEF OrderInv, RingOrder
  <2> QED
    BY <1>1, <2>1 DEF Claims, Taken
<1>3. \A d \in Threads : RingOrder(d)'
  BY <1>1, <1>2, RingOrderKept DEF OrderInv
<1>4. \A d \in Threads : DeliveredOrder(d)'
  BY <1>1, <1>2, DeliveredOrderKept DEF OrderInv
<1>5. ASSUME NEW u \in Threads \ {t} PROVE FrameOrder(u)'
  <2>1. \A d \in Threads, k \in Nat : Sent(d, u, k)' => Sent(d, u, k)
    BY <1>2, SentKept
  <2>2. FrameOrder(u) /\ pc'[u] = pc[u] /\ (pc[u] \in Enqueuing => todo[u] # <<>>) /\ Dest(u)' = Dest(u)
    BY <1>1 DEF OrderInv, IInv, LocalInv, FrameInv, Dest
  <2>3. pc'[u] = "fill" =>
           \A n \in Claims(Dest(u))' : n > new_tail'[u] =>
             \A j \in Held(elts'[Dest(u)][Slot(n)]) : Source(elts'[Dest(u)][Slot(n)], j) # u
    BY <2>2 DEF FrameOrder, Claims
  <2> QED
    BY <1>1, <2>1, <2>2, <2>3, FrameOrderKept
<1> QED
  BY <1>3, <1>4, <1>5 DEF OrderInv

\* A step that touches no ring and keeps the frame of the thread.
LEMMA QuietOrder ==
  ASSUME IInv, Types', OrderInv, NEW t \in Threads, NEW q \in PC,
         UNCHANGED ringVars, delivered' = delivered, UNCHANGED <<todo, made>>,
         pc' = [pc EXCEPT ![t] = q], pc[t] \notin {"reset", "publish", "flag"},
         q \notin {"fill", "publish", "flag"},
         \A u \in Threads \ {t} : new_tail'[u] = new_tail[u]
  PROVE  OrderInv'
<1>1. Types /\ pc'[t] = q
  BY DEF IInv, Types
<1>2. \A d \in Threads, k \in Nat : Sent(d, t, k)' => Sent(d, t, k)
  BY DEF Sent, ringVars
<1>3. FrameOrder(t) /\ (pc[t] \in Enqueuing => todo[t] # <<>>)
  BY DEF OrderInv, IInv, LocalInv, FrameInv
<1>4. FrameOrder(t)'
  BY <1>1, <1>2, <1>3, FrameOrderKept
<1> QED
  BY <1>4, OrderFrame

\* A new frame follows all that the thread has handed off before.
LEMMA HandOffOrder ==
  ASSUME IInv, Types', OrderInv, NEW t \in Threads, HandOff(t)
  PROVE  OrderInv'
<1> USE DEF Goto, dequeueVars
<1>0. Types
  BY DEF IInv
<1>1. PICK n \in 1..FrameSize :
        /\ made[t] + n <= MaxPackets[t]
        /\ \E to \in [1..n -> Targets(t)] :
             todo' = [todo EXCEPT ![t] = [i \in 1..n |-> [k |-> made[t] + i, to |-> to[i]]]]
        /\ made' = [made EXCEPT ![t] = made[t] + n]
  BY DEF HandOff
<1>2. PICK to \in [1..n -> Targets(t)] :
        todo' = [todo EXCEPT ![t] = [i \in 1..n |-> [k |-> made[t] + i, to |-> to[i]]]]
  BY <1>1
<1>3. /\ DOMAIN todo'[t] = 1..n
      /\ \A i \in 1..n : todo'[t][i].k = made[t] + i /\ todo'[t][i].to = to[i] /\ to[i] \in Threads
      /\ \A u \in Threads \ {t} : todo'[u] = todo[u]
  BY <1>0, <1>2 DEF Types, Targets
<1>4. /\ made'[t] = made[t] + n /\ made[t] \in Nat /\ n \in Nat
      /\ \A u \in Threads \ {t} : made'[u] = made[u]
  BY <1>0, <1>1, FrameQueueAssumption DEF Types
<1>5. pc'[t] = "tail" /\ pc[t] = "dispatch" /\ UNCHANGED <<ringVars, delivered, new_tail>>
  BY <1>0 DEF HandOff, Types
<1>6. \A d \in Threads, k \in Nat : Sent(d, t, k)' => k <= made[t]
  <2>1. \A d \in Threads, k \in Nat : Sent(d, t, k)' => Sent(d, t, k)
    BY <1>5 DEF Sent, ringVars
  <2> QED
    BY <2>1 DEF OrderInv, FrameOrder
<1>7. FrameOrder(t)'
  <2>1. \A i \in 1..n : todo'[t][i].k <= made'[t]
    BY <1>3, <1>4
  <2>2. \A i, j \in 1..n : i < j => todo'[t][i].k < todo'[t][j].k
    BY <1>3, <1>4
  <2>3. \A d \in Threads, k \in Nat : Sent(d, t, k)' => k <= made'[t]
    BY <1>4, <1>6
  <2>4. \A i \in 1..n : \A k \in Nat : Sent(todo[t][i].to, t, k)' => k < todo'[t][i].k
    <3>1. \A i \in 1..n : \A d \in Threads, k \in Nat : Sent(d, t, k)' => k < todo'[t][i].k
      BY <1>3, <1>4, <1>6
    <3> QED
      BY <1>3, <3>1
  <2> QED
    BY <1>3, <1>5, <2>1, <2>2, <2>3, <2>4 DEF FrameOrder
<1>8. pc' = [pc EXCEPT ![t] = "tail"] /\ "tail" \in PC
  BY DEF HandOff, PC
<1> QED
  BY <1>3, <1>4, <1>5, <1>7, <1>8, OrderFrame

\* Compression keeps the order of the elements.
LEMMA CompressOrder ==
  ASSUME NEW S, NEW s \in Seq(S), NEW mask \in SUBSET DOMAIN s
  PROVE  /\ \A i \in DOMAIN Compress(s, mask) : \E x \in mask : Compress(s, mask)[i] = s[x]
         /\ \A i, j \in DOMAIN Compress(s, mask) : i < j =>
              \E x, y \in mask : x < y /\ Compress(s, mask)[i] = s[x] /\ Compress(s, mask)[j] = s[y]
<1>1. Len(s) \in Nat /\ DOMAIN s = 1..Len(s)
  BY LenProperties
<1>2. /\ \A i \in 1..Cardinality(mask) : Nth(mask, i) \in mask
      /\ \A i, j \in 1..Cardinality(mask) : i < j => Nth(mask, i) < Nth(mask, j)
  BY <1>1, NthProperties
<1>3. /\ DOMAIN Compress(s, mask) = 1..Cardinality(mask)
      /\ \A i \in 1..Cardinality(mask) : Compress(s, mask)[i] = s[Nth(mask, i)]
  BY DEF Compress
<1> QED
  BY <1>2, <1>3

\* What is left of a frame is still to come.
LEMMA ContinueOrder ==
  ASSUME IInv, Types', OrderInv, NEW t \in Threads, Congested(t) \/ RaiseFlag(t)
  PROVE  OrderInv'
<1> USE DEF Goto, dequeueVars
<1>0. Types
  BY DEF IInv
<1>1. PICK q \in {"tail", "dispatch"} : pc' = [pc EXCEPT ![t] = q] /\ pc[t] \in {"full", "flag"}
  BY DEF Congested, RaiseFlag, Continue
<1>2. todo' = [todo EXCEPT ![t] = Unmasked(t)] /\ new_tail' = [new_tail EXCEPT ![t] = 0]
  BY DEF Congested, RaiseFlag, Continue
<1>3. UNCHANGED <<ringVars, delivered, made>>
  BY DEF Congested, RaiseFlag
<1>4. /\ todo'[t] = Unmasked(t) /\ pc'[t] = q
      /\ \A u \in Threads \ {t} : todo'[u] = todo[u] /\ new_tail'[u] = new_tail[u]
  BY <1>0, <1>1, <1>2 DEF Types
<1>5. /\ \A i \in DOMAIN Unmasked(t) : \E x \in DOMAIN todo[t] \ Mask(t) : Unmasked(t)[i] = todo[t][x]
      /\ \A i, j \in DOMAIN Unmasked(t) : i < j =>
           \E x, y \in DOMAIN todo[t] \ Mask(t) :
             x < y /\ Unmasked(t)[i] = todo[t][x] /\ Unmasked(t)[j] = todo[t][y]
  <2> DEFINE m == DOMAIN todo[t] \ Mask(t)
  <2>1. todo[t] \in Seq(Item) /\ m \in SUBSET DOMAIN todo[t]
    BY <1>0 DEF Types, Frame
  <2>2. Unmasked(t) = Compress(todo[t], m)
    BY DEF Unmasked
  <2> HIDE DEF m
  <2>3. /\ \A i \in DOMAIN Unmasked(t) : \E x \in m : Unmasked(t)[i] = todo[t][x]
        /\ \A i, j \in DOMAIN Unmasked(t) : i < j =>
             \E x, y \in m : x < y /\ Unmasked(t)[i] = todo[t][x] /\ Unmasked(t)[j] = todo[t][y]
    BY <2>1, <2>2, CompressOrder
  <2> QED
    BY <2>3 DEF m
<1>6. \A d \in Threads, k \in Nat : Sent(d, t, k)' => Sent(d, t, k)
  BY <1>3 DEF Sent, ringVars
<1>7. FrameOrder(t)
  BY DEF OrderInv
<1>8. \A x \in DOMAIN todo[t] : todo[t][x].to \in Threads
  <2>1. \A x \in DOMAIN todo[t] : todo[t][x] \in Item
    BY <1>0, LenProperties, ElementOfSeq DEF Types, Frame
  <2> QED
    BY <2>1 DEF Item
<1>9. FrameOrder(t)'
  <2>1. \A i \in DOMAIN todo'[t] : todo'[t][i].k <= made'[t]
    BY <1>3, <1>4, <1>5, <1>7 DEF FrameOrder
  <2>2. \A i, j \in DOMAIN todo'[t] : i < j => todo'[t][i].k < todo'[t][j].k
    BY <1>4, <1>5, <1>7 DEF FrameOrder
  <2>3. \A d \in Threads, k \in Nat : Sent(d, t, k)' => k <= made'[t]
    BY <1>3, <1>6, <1>7 DEF FrameOrder
  <2>4. ASSUME NEW i \in DOMAIN todo'[t], NEW k \in Nat, Sent(todo[t][i].to, t, k)'
        PROVE  k < todo'[t][i].k
    <3>1. PICK x \in DOMAIN todo[t] \ Mask(t) : todo'[t][i] = todo[t][x]
      BY <1>4, <1>5
    <3>2. Pending(t, x)
      BY <3>1 DEF Pending, Mask
    <3>3. Sent(todo[t][x].to, t, k)
      BY <1>6, <1>8, <2>4, <3>1
    <3> QED
      BY <1>7, <3>1, <3>2, <3>3 DEF FrameOrder
  <2> QED
    BY <1>4, <2>1, <2>2, <2>3, <2>4 DEF FrameOrder
<1>10. q \in PC /\ pc[t] # "reset"
  BY <1>1 DEF PC
<1> QED
  BY <1>1, <1>3, <1>4, <1>9, <1>10, OrderFrame

\* The steps on a ring that neither add packets nor deliver any: the reset of a
\* copied element, the move of head, a claim and a publication.
LEMMA RingStepOrder ==
  ASSUME IInv, IInv', OrderInv, NEW t \in Threads,
         ResetElt(t) \/ BumpHead(t) \/ Claim(t) \/ Publish(t)
  PROVE  OrderInv'
<1> USE DEF Goto, dequeueVars, enqueueVars
<1>0. Types /\ Types'
  BY DEF IInv
<1>1. UNCHANGED <<delivered, todo, made, new_tail>> /\ \A u \in Threads : Dest(u)' = Dest(u)
  BY DEF ResetElt, BumpHead, Claim, Publish, Dest
<1>2. PICK q \in {"bump", "polled", "dequeue", "fill", "flag"} :
        pc' = [pc EXCEPT ![t] = q]
  BY DEF ResetElt, BumpHead, Claim, Publish, AfterElt
<1>3. \A u \in Threads : pc'[u] = IF u = t THEN q ELSE pc[u]
  BY <1>0, <1>2 DEF Types
<1>4. ASSUME NEW d \in Threads PROVE \A i \in Slots : Less(elts'[d][i], elts[d][i])
  <2>1. \A i \in Slots : elts[d][i] \in Element /\ Sorted(elts[d][i]) /\ Less(elts[d][i], elts[d][i])
    BY <1>0, LessRefl DEF OrderInv, RingOrder, Types
  <2>2. CASE BumpHead(t) \/ Claim(t)
    BY <2>1, <2>2 DEF BumpHead, Claim
  <2>3. CASE ResetElt(t)
    <3>1. elts' = [elts EXCEPT ![t][HeadSlot(t)] = Cleared(HeadElt(t))]
      BY <2>3 DEF ResetElt, HeadElt
    <3>2. \A i \in Slots : elts'[d][i] = elts[d][i] \/ elts'[d][i] = Cleared(elts[d][i])
      BY <1>0, <3>1, HeadElement DEF Types, HeadElt
    <3>3. ASSUME NEW e \in Element PROVE Less(Cleared(e), e)
      <4>1. /\ Cleared(e).buffer_index = e.buffer_index
            /\ Cleared(e).offset = 0 /\ Cleared(e).n_vectors = 0 /\ e.buffer_index \in Seq(Packets)
        BY DEF Cleared, Element
      <4> QED
        BY <4>1, LenProperties DEF Less, Held
    <3> QED
      BY <2>1, <3>2, <3>3
  <2>4. CASE Publish(t)
    <3>1. \A i \in Slots : /\ elts'[d][i].buffer_index = elts[d][i].buffer_index
                           /\ elts'[d][i].offset = elts[d][i].offset
                           /\ elts'[d][i].n_vectors = elts[d][i].n_vectors
      <4>1. PICK r, k : elts' = [elts EXCEPT ![r][k] = [elts[r][k] EXCEPT !.valid = TRUE]]
        BY <2>4 DEF Publish
      <4>2. \A i \in Slots : elts'[d][i] = elts[d][i] \/ elts'[d][i] = [elts[d][i] EXCEPT !.valid = TRUE]
        BY <1>0, <4>1 DEF Types
      <4> QED
        BY <2>1, <4>2 DEF Element
    <3> QED
      BY <2>1, <3>1 DEF Less, Held
  <2> QED
    BY <2>2, <2>3, <2>4
<1>5. ASSUME NEW d \in Threads PROVE \A n \in Claims(d)' : n \in Claims(d) \/ Held(elts'[d][Slot(n)]) = {}
  <2>1. CASE ResetElt(t) \/ Publish(t)
    BY <2>1 DEF ResetElt, Publish, Claims
  <2>2. CASE BumpHead(t)
    BY <1>0, <2>2 DEF BumpHead, Claims, Types
  <2>3. CASE Claim(t)
    <3>1. UNCHANGED <<head, elts>>
      BY <2>3 DEF Claim
    <3>2. CASE d # Dest(t)
      BY <1>0, <2>3, <3>1, <3>2 DEF Claim, Claims, Types
    <3>3. CASE d = Dest(t)
      <4>1. \A n \in Claims(d)' : n \in Claims(d) \/ n = new_tail[t]
        <5>1. tail'[d] = new_tail[t] /\ tail[d] = new_tail[t] - 1 /\ new_tail[t] \in Nat /\ head[d] \in Nat
          BY <1>0, <2>3, <3>3 DEF Claim, Types
        <5> QED
          BY <3>1, <5>1 DEF Claims
      <4>2. t \in Owners' /\ pc'[t] = "fill"
        BY <1>0, <2>3 DEF Claim, Types, Owners
      <4>3. elts'[d][Slot(new_tail[t])].n_vectors = 0 /\ elts'[d][Slot(new_tail[t])].offset = 0
        BY <1>1, <3>3, <4>2 DEF IInv, SharedInv, ClaimInv
      <4>4. Held(elts'[d][Slot(new_tail[t])]) = {}
        BY <4>3 DEF Held
      <4> QED
        BY <4>1, <4>4
    <3> QED
      BY <3>2, <3>3
  <2> QED
    BY <2>1, <2>2, <2>3
<1>6. ASSUME NEW d \in Threads
      PROVE  \A n \in Claims(d) : Taken(d, n) => Taken(d, n)' \/ Held(elts'[d][Slot(n)]) = {}
  <2>1. CASE ResetElt(t) /\ d = t
    <3>1. elts' = [elts EXCEPT ![t][HeadSlot(t)] = Cleared(HeadElt(t))]
      BY <2>1 DEF ResetElt, HeadElt
    <3>2. elts'[t][HeadSlot(t)] = Cleared(HeadElt(t)) /\ HeadElt(t) \in Element
      BY <1>0, <3>1, HeadElement DEF Types
    <3>3. Cleared(HeadElt(t)).offset = 0 /\ Cleared(HeadElt(t)).n_vectors = 0
      BY <3>2 DEF Cleared, Element
    <3>4. Held(elts'[t][HeadSlot(t)]) = {}
      BY <3>2, <3>3 DEF Held
    <3> QED
      BY <2>1, <3>4 DEF Taken, HeadSlot
  <2>2. CASE ~ResetElt(t) \/ d # t
    BY <1>0, <1>3, <2>2 DEF Taken, BumpHead, Claim, Publish, ResetElt, Types
  <2> QED
    BY <2>1, <2>2
<1>7. \A d \in Threads : RingOrder(d)' /\ DeliveredOrder(d)'
  BY <1>0, <1>1, <1>4, <1>5, <1>6, RingOrderKept, DeliveredOrderKept DEF OrderInv
<1>8. ASSUME NEW u \in Threads PROVE FrameOrder(u)'
  <2>1. \A d \in Threads, k \in Nat : Sent(d, u, k)' => Sent(d, u, k)
    BY <1>1, <1>4, SentKept
  <2>2. FrameOrder(u) /\ (pc[u] \in Enqueuing => todo[u] # <<>>)
    BY DEF OrderInv, IInv, LocalInv, FrameInv
  <2>3. pc'[u] \in {"publish", "flag"} <=> pc[u] \in {"publish", "flag"}
    BY <1>0, <1>3 DEF ResetElt, BumpHead, Claim, Publish, AfterElt, Types
  <2>4. ASSUME pc'[u] = "fill"
        PROVE  \A n \in Claims(Dest(u))' : n > new_tail'[u] =>
                 \A j \in Held(elts'[Dest(u)][Slot(n)]) : Source(elts'[Dest(u)][Slot(n)], j) # u
    <3>0. Dest(u) \in Threads /\ Dest(u)' = Dest(u)
      <4>1. pc[u] \in Enqueuing
        BY <1>0, <1>3, <2>4 DEF ResetElt, BumpHead, Claim, Publish, AfterElt, Types, Enqueuing
      <4> QED
        BY <1>0, <1>1, <2>2, <4>1, DestType
    <3>1. CASE u = t
      <4>1. Claim(t)
        BY <1>0, <2>4, <3>1 DEF ResetElt, BumpHead, Claim, Publish, AfterElt, Types
      <4>2. tail'[Dest(t)] = new_tail[t]
        BY <1>0, <3>0, <3>1, <4>1 DEF Claim, Types
      <4>3. \A n \in Claims(Dest(u))' : ~(n > new_tail'[u])
        <5>1. new_tail[t] \in Nat /\ head'[Dest(t)] \in Nat
          BY <1>0, <3>0, <3>1 DEF Types
        <5> QED
          BY <1>1, <3>0, <3>1, <4>2, <5>1 DEF Claims
      <4> QED
        BY <4>3
    <3>2. CASE u # t
      <4>1. pc[u] = "fill"
        BY <1>3, <2>4, <3>2
      <4>2. ASSUME NEW n \in Claims(Dest(u)), n > new_tail[u], NEW j \in Held(elts'[Dest(u)][Slot(n)])
            PROVE  Source(elts'[Dest(u)][Slot(n)], j) # u
        <5>1. Slot(n) \in Slots
          <6>1. n \in Nat
            BY <1>0, <3>0 DEF Claims, Types
          <6> QED
            BY <6>1, SlotProperties
        <5>2. Less(elts'[Dest(u)][Slot(n)], elts[Dest(u)][Slot(n)])
          BY <1>4, <3>0, <5>1
        <5> QED
          BY <2>2, <4>1, <4>2, <5>2 DEF FrameOrder, Less, Source
      <4> QED
        BY <1>1, <1>5, <3>0, <4>2
    <3> QED
      BY <3>1, <3>2
  <2> QED
    BY <1>0, <1>1, <2>1, <2>2, <2>3, <2>4, FrameOrderKept
<1> QED
  BY <1>1, <1>7, <1>8 DEF OrderInv

\* The packets of an element that is being filled: the thread's own, for this
\* ring, in their order.
LEMMA BuffersOrder ==
  ASSUME Types, NEW t \in Threads, FrameOrder(t)
  PROVE  /\ \A j \in 1..Len(Buffers(t)) :
              Buffers(t)[j][1] = t /\ \E x \in Mask(t) : Buffers(t)[j][2] = todo[t][x].k
         /\ \A i, j \in 1..Len(Buffers(t)) : i < j => Buffers(t)[i][2] < Buffers(t)[j][2]
<1>1. todo[t] \in Seq(Item) /\ Mask(t) \in SUBSET DOMAIN todo[t]
  BY DEF Types, Frame, Mask
<1>2. /\ \A i \in DOMAIN Masked(t) : \E x \in Mask(t) : Masked(t)[i] = todo[t][x]
      /\ \A i, j \in DOMAIN Masked(t) : i < j =>
           \E x, y \in Mask(t) : x < y /\ Masked(t)[i] = todo[t][x] /\ Masked(t)[j] = todo[t][y]
  BY <1>1, CompressOrder DEF Masked
<1>3. DOMAIN Masked(t) = 1..Len(Buffers(t))
  BY UnmaskedProperties, LenProperties DEF Frame
<1>4. \A i \in DOMAIN Masked(t) : Buffers(t)[i] = <<t, Masked(t)[i].k>>
  BY DEF Buffers
<1>5. \A x, y \in Mask(t) : x < y => todo[t][x].k < todo[t][y].k
  BY <1>1 DEF FrameOrder
<1>6. \A j \in 1..Len(Buffers(t)) :
        Buffers(t)[j][1] = t /\ \E x \in Mask(t) : Buffers(t)[j][2] = todo[t][x].k
  BY <1>2, <1>3, <1>4
<1>7. ASSUME NEW i \in 1..Len(Buffers(t)), NEW j \in 1..Len(Buffers(t)), i < j
      PROVE  Buffers(t)[i][2] < Buffers(t)[j][2]
  <2>1. PICK x, y \in Mask(t) : x < y /\ Masked(t)[i] = todo[t][x] /\ Masked(t)[j] = todo[t][y]
    BY <1>2, <1>3, <1>7
  <2>2. Buffers(t)[i][2] = todo[t][x].k /\ Buffers(t)[j][2] = todo[t][y].k
    BY <1>3, <1>4, <2>1
  <2> QED
    BY <1>5, <2>1, <2>2
<1> QED
  BY <1>6, <1>7

\* A filled element is the last of its source on the ring.
LEMMA FillOrder ==
  ASSUME IInv, IInv', OrderInv, NEW t \in Threads, Fill(t)
  PROVE  OrderInv'
<1> USE DEF Goto, dequeueVars, enqueueVars
<1>0. Types /\ Types' /\ t \in Owners
  BY DEF IInv, Fill, Owners
<1>1. PICK d \in Threads : d = Dest(t)
  BY <1>0, DestType DEF IInv, LocalInv, FrameInv, Owners, Enqueuing
<1>2. PICK i \in Slots : i = Slot(new_tail[t])
  BY <1>0, SlotProperties DEF Types
<1>3. PICK b \in Seq(Packets) : b = Buffers(t) /\ Len(b) \in Nat
  BY <1>0, UnmaskedProperties, LenProperties
<1>4. PICK e \in Element : e = elts[d][i] /\ e.offset = 0
  <2>1. elts[d][i] \in Element
    BY <1>0 DEF Types
  <2>2. elts[d][i].offset = 0
    BY <1>0, <1>1, <1>2 DEF IInv, SharedInv, ClaimInv
  <2> QED
    BY <2>1, <2>2
<1> DEFINE f == [e EXCEPT !.buffer_index = b, !.n_vectors = Len(b)]
<1>5. /\ f \in Element /\ f.buffer_index = b /\ Held(f) = 1..Len(b)
      /\ f.offset + f.n_vectors <= Len(f.buffer_index)
  <2>1. f \in Element /\ f.buffer_index = b /\ f.n_vectors = Len(b) /\ f.offset = 0
    BY <1>3, <1>4 DEF Element
  <2> HIDE DEF f
  <2> QED
    BY <1>3, <2>1 DEF Held
<1>6. elts' = [elts EXCEPT ![d][i] = f]
  BY <1>1, <1>2, <1>3, <1>4 DEF Fill
<1> HIDE DEF f
<1>7. /\ elts'[d][i] = f
      /\ \A r \in Threads, j \in Slots : r # d \/ j # i => elts'[r][j] = elts[r][j]
  <2>1. elts \in [Threads -> [Slots -> Element]] /\ d \in Threads /\ i \in Slots
    BY <1>0 DEF Types
  <2> QED
    BY <1>6, <2>1
<1>8. UNCHANGED <<head, tail, delivered, todo, made, new_tail>> /\ pc' = [pc EXCEPT ![t] = "publish"] /\ pc[t] = "fill"
  BY DEF Fill
<1>9. \A u \in Threads : /\ pc'[u] = IF u = t THEN "publish" ELSE pc[u]
                         /\ Dest(u)' = Dest(u) /\ Claims(u)' = Claims(u)
  BY <1>0, <1>8 DEF Types, Dest, Claims
<1>10. FrameOrder(t) /\ \A r \in Threads : RingOrder(r) /\ DeliveredOrder(r)
  BY DEF OrderInv
<1>11. /\ \A j \in Held(f) : Source(f, j) = t /\ \E x \in Mask(t) : Number(f, j) = todo[t][x].k
       /\ \A j, k \in Held(f) : j < k => Number(f, j) < Number(f, k)
  BY <1>0, <1>3, <1>5, <1>10, BuffersOrder DEF Source, Number
<1>12. \A x \in Mask(t) : x \in DOMAIN todo[t] /\ todo[t][x].to = d /\ Pending(t, x)
  BY <1>1, <1>8 DEF Mask, Pending
<1>13. \A x \in Mask(t), k \in Nat : Sent(d, t, k) => k < todo[t][x].k
  BY <1>10, <1>12 DEF FrameOrder
<1>14. \A j \in Held(f), k \in Nat : Sent(d, t, k) => k < Number(f, j)
  BY <1>11, <1>13
<1>15. /\ new_tail[t] \in Claims(d)
       /\ \A n \in Claims(d) : n \in Nat /\ Slot(n) \in Slots /\ (n # new_tail[t] => Slot(n) # i)
  <2>1. new_tail[t] \in Claims(d)
    BY <1>0, <1>1 DEF IInv, SharedInv, ClaimInv
  <2> QED
    BY <1>0, <1>2, <2>1, ClaimTypes, ClaimSlots
<1>16. RingOrder(d)'
  <2>1. \A j \in Slots : Sorted(elts'[d][j])
    <3>1. Sorted(f)
      BY <1>5, <1>11 DEF Sorted
    <3> QED
      BY <1>7, <1>10, <3>1 DEF RingOrder
  <2>2. ASSUME NEW m \in Claims(d), NEW n \in Claims(d), m < n
        PROVE  Before(elts'[d][Slot(m)], elts'[d][Slot(n)])
    <3>1. CASE m = new_tail[t]
      <4>1. \A j \in Held(elts[d][Slot(n)]) : Source(elts[d][Slot(n)], j) # t
        BY <1>1, <1>8, <1>10, <2>2, <3>1 DEF FrameOrder
      <4>2. elts'[d][Slot(m)] = f /\ elts'[d][Slot(n)] = elts[d][Slot(n)]
        <5>1. n # m
          BY <1>15, <2>2
        <5> QED
          BY <1>2, <1>7, <1>15, <3>1, <5>1
      <4> QED
        BY <1>11, <4>1, <4>2 DEF Before
    <3>2. CASE n = new_tail[t]
      <4>1. n # m
        BY <1>15, <2>2
      <4>2. elts'[d][Slot(n)] = f /\ elts'[d][Slot(m)] = elts[d][Slot(m)] /\ Slot(m) \in Slots
        BY <1>2, <1>7, <1>15, <3>2, <4>1
      <4>3. ASSUME NEW j \in Held(elts[d][Slot(m)]), NEW k \in Held(f),
                   Source(elts[d][Slot(m)], j) = Source(f, k)
            PROVE  Number(elts[d][Slot(m)], j) < Number(f, k)
        <5>1. Source(elts[d][Slot(m)], j) = t
          BY <1>11, <4>3
        <5>2. Sent(d, t, Number(elts[d][Slot(m)], j))
          BY <4>2, <5>1 DEF Sent
        <5>3. Number(elts[d][Slot(m)], j) \in Nat
          <6>1. elts[d][Slot(m)] \in Element /\ Sorted(elts[d][Slot(m)])
            BY <1>0, <1>10, <4>2 DEF Types, RingOrder
          <6> QED
            BY <6>1, HeldPacket
        <5> QED
          BY <1>14, <5>2, <5>3
      <4> QED
        BY <4>2, <4>3 DEF Before
    <3>3. CASE m # new_tail[t] /\ n # new_tail[t]
      BY <1>7, <1>10, <1>15, <2>2, <3>3 DEF RingOrder
    <3> QED
      BY <3>1, <3>2, <3>3
  <2> QED
    BY <1>9, <2>1, <2>2 DEF RingOrder
<1>17. \A r \in Threads \ {d} : RingOrder(r)' /\ DeliveredOrder(r)'
  <2> SUFFICES ASSUME NEW r \in Threads \ {d} PROVE RingOrder(r)' /\ DeliveredOrder(r)'
    OBVIOUS
  <2>1. \A n \in Claims(r) : Slot(n) \in Slots
    BY <1>0, ClaimTypes
  <2>2. \A n \in Claims(r) : elts'[r][Slot(n)] = elts[r][Slot(n)] /\ (Taken(r, n) => Taken(r, n)')
    BY <1>7, <1>8, <1>9, <2>1 DEF Taken
  <2>3. RingOrder(r)'
    BY <1>7, <1>9, <1>10, <2>2 DEF RingOrder
  <2>4. DeliveredOrder(r)'
    BY <1>8, <1>9, <1>10, <2>2 DEF DeliveredOrder
  <2> QED
    BY <2>3, <2>4
<1>18. DeliveredOrder(d)'
  <2> SUFFICES ASSUME NEW n \in Claims(d), NEW j \in Held(elts'[d][Slot(n)]),
                      NEW k \in DOMAIN delivered[d][Source(elts'[d][Slot(n)], j)]
               PROVE  \/ Taken(d, n)'
                      \/ delivered[d][Source(elts'[d][Slot(n)], j)][k][2] < Number(elts'[d][Slot(n)], j)
    BY <1>8, <1>9, <1>10 DEF DeliveredOrder
  <2>1. CASE n = new_tail[t]
    <3>1. elts'[d][Slot(n)] = f /\ Source(f, j) = t
      BY <1>2, <1>7, <1>11, <2>1
    <3>2. Sent(d, t, delivered[d][t][k][2]) /\ delivered[d][t][k][2] \in Nat
      <4>1. delivered[d][t] \in Seq(Packets) /\ k \in DOMAIN delivered[d][t]
        BY <3>1 DEF OrderInv
      <4>2. delivered[d][t][k] \in Packets
        BY <4>1, LenProperties, ElementOfSeq
      <4> QED
        BY <4>1, <4>2 DEF Sent, Packets
    <3> QED
      BY <1>14, <3>1, <3>2
  <2>2. CASE n # new_tail[t]
    <3>1. elts'[d][Slot(n)] = elts[d][Slot(n)] /\ (Taken(d, n) => Taken(d, n)')
      BY <1>7, <1>8, <1>9, <1>15, <2>2 DEF Taken
    <3> QED
      BY <1>10, <3>1 DEF DeliveredOrder
  <2> QED
    BY <2>1, <2>2
<1>19. \A r \in Threads, u \in Threads, k \in Nat :
         Sent(r, u, k)' => Sent(r, u, k) \/ (r = d /\ u = t /\ \E x \in Mask(t) : k = todo[t][x].k)
  BY <1>7, <1>8, <1>11 DEF Sent
<1>20. FrameOrder(t)'
  <2>1. \A r \in Threads, k \in Nat : Sent(r, t, k)' => k <= made[t]
    BY <1>10, <1>12, <1>19 DEF FrameOrder
  <2>2. \A x \in DOMAIN todo[t] : todo[t][x].to \in Threads
    <3>1. \A x \in DOMAIN todo[t] : todo[t][x] \in Item
      BY <1>0, LenProperties, ElementOfSeq DEF Types, Frame
    <3> QED
      BY <3>1 DEF Item
  <2>3. ASSUME NEW x \in DOMAIN todo[t], NEW k \in Nat, Pending(t, x)', Sent(todo[t][x].to, t, k)'
        PROVE  k < todo[t][x].k
    <3>1. todo[t][x].to # d /\ todo'[t][x].to = todo[t][x].to /\ Pending(t, x)
      BY <1>1, <1>8, <1>9, <2>3 DEF Pending
    <3>2. Sent(todo[t][x].to, t, k)
      BY <1>8, <1>19, <2>2, <2>3, <3>1
    <3> QED
      BY <1>10, <3>1, <3>2 DEF FrameOrder
  <2>4. pc'[t] # "fill"
    BY <1>9
  <2> QED
    BY <1>8, <1>10, <2>1, <2>3, <2>4 DEF FrameOrder
<1>21. ASSUME NEW u \in Threads \ {t} PROVE FrameOrder(u)'
  <2>1. FrameOrder(u) /\ pc'[u] = pc[u] /\ (pc[u] \in Enqueuing => todo[u] # <<>>)
    BY <1>9 DEF OrderInv, IInv, LocalInv, FrameInv
  <2>2. \A r \in Threads, k \in Nat : Sent(r, u, k)' => Sent(r, u, k)
    BY <1>19
  <2>3. ASSUME pc[u] = "fill"
        PROVE  \A n \in Claims(Dest(u))' : n > new_tail'[u] =>
                 \A j \in Held(elts'[Dest(u)][Slot(n)]) : Source(elts'[Dest(u)][Slot(n)], j) # u
    <3>1. PICK r \in Threads : r = Dest(u) /\ r = Dest(u)'
      BY <1>0, <1>9, <2>1, <2>3, DestType DEF Enqueuing
    <3>2. \A n \in Claims(r) : Slot(n) \in Slots
      BY <1>0, ClaimTypes
    <3>3. \A n \in Claims(r) : n > new_tail[u] =>
            \A j \in Held(elts'[r][Slot(n)]) : Source(elts'[r][Slot(n)], j) # u
      <4> SUFFICES ASSUME NEW n \in Claims(r), n > new_tail[u], NEW j \in Held(elts'[r][Slot(n)])
                   PROVE  Source(elts'[r][Slot(n)], j) # u
        OBVIOUS
      <4>1. CASE r = d /\ Slot(n) = i
        BY <1>7, <1>11, <4>1
      <4>2. CASE ~(r = d /\ Slot(n) = i)
        BY <1>7, <2>1, <2>3, <3>1, <3>2, <4>2 DEF FrameOrder
      <4> QED
        BY <4>1, <4>2
    <3> QED
      BY <1>8, <1>9, <3>1, <3>3
  <2> QED
    BY <1>0, <1>8, <2>1, <2>2, <2>3, FrameOrderKept
<1> QED
  BY <1>8, <1>16, <1>17, <1>18, <1>20, <1>21 DEF OrderInv

\* What a copy takes: the first packets the element holds.
LEMMA CopiedProperties ==
  ASSUME Types, NEW t \in Threads, Sorted(HeadElt(t))
  PROVE  /\ Copied(t) \in Seq(Packets) /\ DOMAIN Copied(t) = 1..NCopy(t)
         /\ \A x \in 1..NCopy(t) :
              /\ HeadElt(t).offset + x \in Held(HeadElt(t))
              /\ Copied(t)[x] = HeadElt(t).buffer_index[HeadElt(t).offset + x]
<1> DEFINE c == NCopy(t)
           o == HeadElt(t).offset
           n == HeadElt(t).n_vectors
           b == HeadElt(t).buffer_index
           body == Content(HeadElt(t))
<1>1. c \in 0..n /\ n \in Nat /\ o \in Nat
  BY CopyProperties
<1>2. \A j \in (o + 1)..(o + n) : b[j] \in Packets
  BY HeadElement, HeldPacket DEF Held
<1>3. body = SubSeq(b, o + 1, o + n)
  BY DEF Content
<1>4. Copied(t) = SubSeq(body, 1, c)
  BY DEF Copied
<1> HIDE DEF c, o, n, b, body
<1>5. o + 1 \in Int /\ o + n \in Int /\ (o + n) - (o + 1) + 1 = n
  BY <1>1
<1>6. \A j \in 1..n : body[j] = b[(o + 1) + j - 1]
  BY <1>2, <1>3, <1>5, SubSeqProperties
<1>7. \A j \in 1..n : body[j] = b[o + j] /\ body[j] \in Packets
  BY <1>1, <1>2, <1>6
<1>8. 1 \in Int /\ c \in Int /\ c - 1 + 1 = c /\ \A j \in 1..c : j \in 1..n
  BY <1>1
<1>9. /\ Copied(t) \in Seq(Packets) /\ Len(Copied(t)) = IF 1 <= c THEN c - 1 + 1 ELSE 0
      /\ \A j \in 1..(c - 1 + 1) : Copied(t)[j] = body[1 + j - 1]
  BY <1>4, <1>7, <1>8, SubSeqProperties
<1>10. Len(Copied(t)) = c /\ \A j \in 1..c : Copied(t)[j] = body[j]
  BY <1>1, <1>9
<1>11. DOMAIN Copied(t) = 1..c
  BY <1>9, <1>10, LenProperties
<1>12. \A j \in 1..c : o + j \in (o + 1)..(o + n) /\ Copied(t)[j] = b[o + j]
  BY <1>1, <1>7, <1>8, <1>10
<1> QED
  BY <1>9, <1>11, <1>12 DEF c, o, n, b, Held

\* What a copy adds to the packets of one source: they follow the delivered
\* ones in the order in which the element holds them.
LEMMA DeliverProperties ==
  ASSUME IInv, OrderInv, NEW t \in Threads, DequeueElt(t), NEW s \in Threads
  PROVE  LET old == delivered[t][s]
             new == delivered'[t][s]
             H == HeadElt(t)
             From(v, x) == v = H.buffer_index[H.offset + x] /\ Source(H, H.offset + x) = s
         IN /\ new \in Seq(Packets)
            /\ \A i \in DOMAIN new : \/ i \in DOMAIN old /\ new[i] = old[i]
                                     \/ \E x \in 1..NCopy(t) : From(new[i], x)
            /\ \A i, j \in DOMAIN new : i < j =>
                 \/ j \in DOMAIN old /\ i \in DOMAIN old /\ new[i] = old[i] /\ new[j] = old[j]
                 \/ /\ i \in DOMAIN old /\ new[i] = old[i]
                    /\ \E y \in 1..NCopy(t) : From(new[j], y)
                 \/ \E x, y \in 1..NCopy(t) : x < y /\ From(new[i], x) /\ From(new[j], y)
<1> DEFINE old == delivered[t][s]
           new == delivered'[t][s]
           H == HeadElt(t)
           From(v, x) == v = H.buffer_index[H.offset + x] /\ Source(H, H.offset + x) = s
           mask == {x \in DOMAIN Copied(t) : Copied(t)[x][1] = s}
           add == Compress(Copied(t), mask)
<1>1. Types /\ Sorted(H) /\ old \in Seq(Packets)
  <2>1. Types /\ H = elts[t][HeadSlot(t)] /\ HeadSlot(t) \in Slots
    BY HeadElement DEF IInv, HeadElt
  <2> QED
    BY <2>1 DEF OrderInv, RingOrder
<1>2. new = old \o add
  BY DEF DequeueElt, OrderInv
<1>3. Copied(t) \in Seq(Packets) /\ mask \in SUBSET DOMAIN Copied(t)
  BY <1>1, CopiedProperties
<1>4. \A x \in mask : x \in 1..NCopy(t) /\ From(Copied(t)[x], x)
  BY <1>1, CopiedProperties DEF Source
<1> HIDE DEF old, new, H, From, mask, add
<1>5. add \in Seq(Packets)
  BY <1>3, CompressProperties DEF add
<1>6. /\ \A i \in DOMAIN add : \E x \in mask : add[i] = Copied(t)[x]
      /\ \A i, j \in DOMAIN add : i < j => \E x, y \in mask : x < y /\ add[i] = Copied(t)[x] /\ add[j] = Copied(t)[y]
  BY <1>3, CompressOrder DEF add
<1>7. /\ \A i \in DOMAIN add : \E x \in 1..NCopy(t) : From(add[i], x)
      /\ \A i, j \in DOMAIN add : i < j =>
           \E x, y \in 1..NCopy(t) : x < y /\ From(add[i], x) /\ From(add[j], y)
  BY <1>4, <1>6
<1>8. /\ Len(old) \in Nat /\ Len(add) \in Nat
      /\ DOMAIN old = 1..Len(old) /\ DOMAIN add = 1..Len(add)
  BY <1>1, <1>5, LenProperties
<1>9. /\ new \in Seq(Packets) /\ DOMAIN new = 1..(Len(old) + Len(add))
      /\ \A i \in 1..(Len(old) + Len(add)) : new[i] = IF i <= Len(old) THEN old[i] ELSE add[i - Len(old)]
  BY <1>1, <1>2, <1>5, ConcatProperties, LenProperties
<1>10. \A i \in DOMAIN new : \/ i \in DOMAIN old /\ new[i] = old[i]
                             \/ i > Len(old) /\ i - Len(old) \in DOMAIN add /\ new[i] = add[i - Len(old)]
  BY <1>8, <1>9
<1>11. \A i \in DOMAIN new : \/ i \in DOMAIN old /\ new[i] = old[i]
                             \/ \E x \in 1..NCopy(t) : From(new[i], x)
  BY <1>7, <1>10
<1>12. ASSUME NEW i \in DOMAIN new, NEW j \in DOMAIN new, i < j
       PROVE  \/ j \in DOMAIN old /\ i \in DOMAIN old /\ new[i] = old[i] /\ new[j] = old[j]
              \/ /\ i \in DOMAIN old /\ new[i] = old[i]
                 /\ \E y \in 1..NCopy(t) : From(new[j], y)
              \/ \E x, y \in 1..NCopy(t) : x < y /\ From(new[i], x) /\ From(new[j], y)
  <2>1. i \in Nat /\ j \in Nat
    BY <1>8, <1>9
  <2>2. CASE i \in DOMAIN old /\ new[i] = old[i]
    BY <1>7, <1>10, <2>2
  <2>3. CASE i > Len(old) /\ i - Len(old) \in DOMAIN add /\ new[i] = add[i - Len(old)]
    <3>1. j > Len(old) /\ i - Len(old) < j - Len(old) /\ j \notin DOMAIN old
      BY <1>8, <1>12, <2>1, <2>3
    <3>2. j - Len(old) \in DOMAIN add /\ new[j] = add[j - Len(old)]
      BY <1>10, <3>1
    <3> QED
      BY <1>7, <2>3, <3>1, <3>2
  <2> QED
    BY <1>10, <2>2, <2>3
<1> QED
  BY <1>9, <1>11, <1>12 DEF old, new, H, From

\* A copy delivers the oldest packets of the ring.
LEMMA DequeueOrder ==
  ASSUME IInv, IInv', OrderInv, NEW t \in Threads, DequeueElt(t)
  PROVE  OrderInv'
<1> USE DEF Goto, enqueueVars
<1> DEFINE H == HeadElt(t)
           From(v, x, s) == v = H.buffer_index[H.offset + x] /\ Source(H, H.offset + x) = s
<1>0. Types /\ Types'
  BY DEF IInv
<1>1. /\ UNCHANGED <<head, tail, todo, made, new_tail>> /\ pc[t] = "dequeue" /\ head[t] # tail[t]
      /\ \A u \in Threads : Dest(u)' = Dest(u) /\ Claims(u)' = Claims(u)
  BY DEF DequeueElt, Dest, Claims
<1>2. /\ HeadSlot(t) \in Slots /\ H \in Element /\ H = elts[t][HeadSlot(t)] /\ Sorted(H)
      /\ H.offset \in Nat /\ H.n_vectors \in Nat /\ NCopy(t) \in 0..H.n_vectors
      /\ HeadSlot(t) = Slot(head[t] + 1) /\ head[t] + 1 \in Claims(t)
  <2>1. HeadSlot(t) \in Slots /\ H \in Element /\ H = elts[t][HeadSlot(t)]
    BY <1>0, HeadElement DEF HeadElt
  <2>2. H.offset \in Nat /\ H.n_vectors \in Nat /\ NCopy(t) \in 0..H.n_vectors
    BY <1>0, CopyProperties
  <2>3. HeadSlot(t) = Slot(head[t] + 1) /\ head[t] + 1 \in Claims(t)
    BY <1>1, NextClaim DEF HeadSlot
  <2> QED
    BY <2>1, <2>2, <2>3 DEF OrderInv, RingOrder
<1>3. /\ \A x \in 1..NCopy(t) : H.offset + x \in Held(H)
      /\ \A u \in Threads \ {t} : delivered'[u] = delivered[u]
      /\ delivered' \in [Threads -> [Threads -> Seq(Packets)]]
  <2>1. \A x \in 1..NCopy(t) : H.offset + x \in Held(H)
    BY <1>0, <1>2, CopiedProperties
  <2>2. \A s \in Threads : delivered'[t][s] \in Seq(Packets)
    BY DeliverProperties
  <2> DEFINE g == [s \in Threads |-> delivered[t][s] \o
                     Compress(Copied(t), {i \in DOMAIN Copied(t) : Copied(t)[i][1] = s})]
  <2>3. delivered' = [delivered EXCEPT ![t] = g] /\ DOMAIN g = Threads /\ g = [s \in Threads |-> g[s]]
    BY DEF DequeueElt
  <2> HIDE DEF g
  <2>4. delivered'[t] = g /\ \A u \in Threads \ {t} : delivered'[u] = delivered[u]
    BY <2>3 DEF OrderInv
  <2>5. g \in [Threads -> Seq(Packets)]
    BY <2>2, <2>3, <2>4
  <2> QED
    BY <2>1, <2>3, <2>4, <2>5 DEF OrderInv
<1>4. \/ /\ NCopy(t) = H.n_vectors /\ elts' = elts /\ pc' = [pc EXCEPT ![t] = "reset"]
      \/ /\ elts' = [elts EXCEPT ![t][HeadSlot(t)] = Rest(H, NCopy(t))]
         /\ pc' = [pc EXCEPT ![t] = "dequeue"] \/ pc' = [pc EXCEPT ![t] = "polled"]
  BY DEF DequeueElt, HeadElt, AfterElt
<1>5. \A u \in Threads : u # t => pc'[u] = pc[u]
  BY <1>0, <1>4 DEF Types
<1>6. /\ Held(Rest(H, NCopy(t))) = (H.offset + NCopy(t) + 1)..(H.offset + H.n_vectors)
      /\ Rest(H, NCopy(t)).buffer_index = H.buffer_index /\ Rest(H, NCopy(t)) \in Element
      /\ Less(Rest(H, NCopy(t)), H)
  <2> DEFINE c == NCopy(t)
  <2>1. H.n_vectors - c \in Nat /\ H.offset + c \in Nat
        /\ H.offset + c + (H.n_vectors - c) = H.offset + H.n_vectors
    BY <1>2
  <2>2. /\ Rest(H, c) \in Element /\ Rest(H, c).buffer_index = H.buffer_index
        /\ Rest(H, c).offset = H.offset + c /\ Rest(H, c).n_vectors = H.n_vectors - c
    BY <1>2, <2>1 DEF Rest, Element
  <2> HIDE DEF H, c
  <2>3. Held(Rest(H, c)) = (H.offset + c + 1)..(H.offset + H.n_vectors)
    BY <2>1, <2>2 DEF Held
  <2>4. Held(Rest(H, c)) \subseteq Held(H)
    <3>1. c \in Nat /\ H.offset \in Nat /\ H.n_vectors \in Nat
      BY <1>2 DEF c
    <3>2. \A j \in (H.offset + c + 1)..(H.offset + H.n_vectors) : j \in (H.offset + 1)..(H.offset + H.n_vectors)
      BY <3>1
    <3> QED
      BY <2>3, <3>2 DEF Held
  <2> QED
    BY <1>2, <2>1, <2>2, <2>3, <2>4 DEF Less, Sorted, c
<1>7. /\ \A r \in Threads, j \in Slots : Less(elts'[r][j], elts[r][j])
      /\ \A r \in Threads, j \in Slots : r # t \/ j # HeadSlot(t) => elts'[r][j] = elts[r][j]
      /\ elts'[t][HeadSlot(t)] = H \/ elts'[t][HeadSlot(t)] = Rest(H, NCopy(t))
  <2>1. \A r \in Threads, j \in Slots : Less(elts[r][j], elts[r][j])
    BY LessRefl DEF OrderInv, RingOrder
  <2> HIDE DEF H
  <2>2. CASE elts' = elts
    BY <1>2, <2>1, <2>2
  <2>3. CASE elts' = [elts EXCEPT ![t][HeadSlot(t)] = Rest(H, NCopy(t))]
    <3>1. /\ elts'[t][HeadSlot(t)] = Rest(H, NCopy(t))
          /\ \A r \in Threads, j \in Slots : r # t \/ j # HeadSlot(t) => elts'[r][j] = elts[r][j]
      <4>1. elts \in [Threads -> [Slots -> Element]]
        BY <1>0 DEF Types
      <4> QED
        BY <1>2, <2>3, <4>1
    <3> QED
      BY <1>2, <1>6, <2>1, <3>1
  <2> QED
    BY <1>4, <2>2, <2>3
<1> HIDE DEF H, From
<1>8. \A r \in Threads : RingOrder(r)'
  BY <1>0, <1>1, <1>7, RingOrderKept DEF OrderInv
<1>9. \A r \in Threads \ {t} : DeliveredOrder(r)'
  <2> SUFFICES ASSUME NEW r \in Threads \ {t} PROVE DeliveredOrder(r)'
    OBVIOUS
  <2>1. \A n \in Claims(r) : elts'[r][Slot(n)] = elts[r][Slot(n)] /\ (Taken(r, n) => Taken(r, n)')
    BY <1>0, <1>1, <1>5, <1>7, ClaimTypes DEF Taken
  <2> QED
    BY <1>1, <1>3, <2>1 DEF OrderInv, DeliveredOrder
<1>10. \A s \in Threads :
         /\ \A i \in DOMAIN delivered'[t][s] :
              \/ i \in DOMAIN delivered[t][s] /\ delivered'[t][s][i] = delivered[t][s][i]
              \/ \E x \in 1..NCopy(t) : From(delivered'[t][s][i], x, s)
         /\ \A i, j \in DOMAIN delivered'[t][s] : i < j =>
              \/ /\ i \in DOMAIN delivered[t][s] /\ delivered'[t][s][i] = delivered[t][s][i]
                 /\ j \in DOMAIN delivered[t][s] /\ delivered'[t][s][j] = delivered[t][s][j]
              \/ /\ i \in DOMAIN delivered[t][s] /\ delivered'[t][s][i] = delivered[t][s][i]
                 /\ \E y \in 1..NCopy(t) : From(delivered'[t][s][j], y, s)
              \/ \E x, y \in 1..NCopy(t) :
                   x < y /\ From(delivered'[t][s][i], x, s) /\ From(delivered'[t][s][j], y, s)
  BY DeliverProperties DEF From, H
<1>11. \A n \in Claims(t) : \A j \in Held(elts[t][Slot(n)]) :
         \A i \in DOMAIN delivered[t][Source(elts[t][Slot(n)], j)] :
           delivered[t][Source(elts[t][Slot(n)], j)][i][2] < Number(elts[t][Slot(n)], j)
  BY <1>1 DEF OrderInv, DeliveredOrder, Taken
<1>12. \A x \in 1..NCopy(t), s \in Threads : \A v : From(v, x, s) =>
         /\ H.offset + x \in Held(H) /\ v[2] = Number(H, H.offset + x) /\ Source(H, H.offset + x) = s
         /\ \A i \in DOMAIN delivered[t][s] : delivered[t][s][i][2] < v[2]
  <2> SUFFICES ASSUME NEW x \in 1..NCopy(t), NEW s \in Threads, NEW v, From(v, x, s)
               PROVE  /\ H.offset + x \in Held(H) /\ v[2] = Number(H, H.offset + x)
                      /\ Source(H, H.offset + x) = s
                      /\ \A i \in DOMAIN delivered[t][s] : delivered[t][s][i][2] < v[2]
    OBVIOUS
  <2>1. H.offset + x \in Held(H) /\ v[2] = Number(H, H.offset + x) /\ Source(H, H.offset + x) = s
    BY <1>3 DEF From, Number
  <2>2. H = elts[t][Slot(head[t] + 1)]
    BY <1>2
  <2> QED
    BY <1>2, <1>11, <2>1, <2>2
<1>13. \A s \in Threads : Increasing(delivered'[t][s])
  <2> SUFFICES ASSUME NEW s \in Threads, NEW i \in DOMAIN delivered'[t][s],
                      NEW j \in DOMAIN delivered'[t][s], i < j
               PROVE  delivered'[t][s][i][2] < delivered'[t][s][j][2]
    BY DEF Increasing
  <2>1. CASE /\ i \in DOMAIN delivered[t][s] /\ delivered'[t][s][i] = delivered[t][s][i]
             /\ j \in DOMAIN delivered[t][s] /\ delivered'[t][s][j] = delivered[t][s][j]
    BY <2>1 DEF OrderInv, DeliveredOrder, Increasing
  <2>2. CASE /\ i \in DOMAIN delivered[t][s] /\ delivered'[t][s][i] = delivered[t][s][i]
             /\ \E y \in 1..NCopy(t) : From(delivered'[t][s][j], y, s)
    BY <1>12, <2>2
  <2>3. CASE \E x, y \in 1..NCopy(t) :
               x < y /\ From(delivered'[t][s][i], x, s) /\ From(delivered'[t][s][j], y, s)
    <3>1. PICK x, y \in 1..NCopy(t) :
               x < y /\ From(delivered'[t][s][i], x, s) /\ From(delivered'[t][s][j], y, s)
      BY <2>3
    <3>2. H.offset + x < H.offset + y
      BY <1>2, <3>1
    <3> QED
      BY <1>2, <1>12, <3>1, <3>2 DEF Sorted
  <2> QED
    BY <1>10, <2>1, <2>2, <2>3
<1>14. DeliveredOrder(t)'
  <2> SUFFICES ASSUME NEW n \in Claims(t), NEW j \in Held(elts'[t][Slot(n)]),
                      NEW i \in DOMAIN delivered'[t][Source(elts'[t][Slot(n)], j)],
                      ~Taken(t, n)'
               PROVE  delivered'[t][Source(elts'[t][Slot(n)], j)][i][2] < Number(elts'[t][Slot(n)], j)
    BY <1>1, <1>13 DEF DeliveredOrder
  <2> DEFINE e == elts[t][Slot(n)]
             s == Source(e, j)
  <2>1. /\ Slot(n) \in Slots /\ e \in Element /\ Sorted(e) /\ Less(elts'[t][Slot(n)], e)
        /\ n \in Nat
    <3>1. Slot(n) \in Slots /\ n \in Nat
      BY <1>0, ClaimTypes
    <3>2. e \in Element
      BY <1>0, <3>1 DEF Types
    <3> QED
      BY <1>7, <3>1, <3>2 DEF OrderInv, RingOrder
  <2>2. /\ j \in Held(e) /\ Source(elts'[t][Slot(n)], j) = s
        /\ Number(elts'[t][Slot(n)], j) = Number(e, j)
    BY <2>1 DEF Less, Source, Number
  <2>3. s \in Threads
    BY <2>1, <2>2, HeldPacket
  <2>4. CASE i \in DOMAIN delivered[t][s] /\ delivered'[t][s][i] = delivered[t][s][i]
    BY <1>11, <2>2, <2>4
  <2>5. CASE \E x \in 1..NCopy(t) : From(delivered'[t][s][i], x, s)
    <3>1. PICK x \in 1..NCopy(t) : From(delivered'[t][s][i], x, s)
      BY <2>5
    <3>2. /\ H.offset + x \in Held(H) /\ delivered'[t][s][i][2] = Number(H, H.offset + x)
          /\ Source(H, H.offset + x) = s
      BY <1>12, <2>3, <3>1
    <3>3. CASE n = head[t] + 1
      <4>1. pc'[t] # "reset"
        BY <1>1, <3>3 DEF Taken
      <4>2. elts' = [elts EXCEPT ![t][HeadSlot(t)] = Rest(H, NCopy(t))]
        BY <1>0, <1>4, <4>1 DEF Types, H
      <4>3. elts'[t][Slot(n)] = Rest(H, NCopy(t)) /\ e = H
        <5>1. elts \in [Threads -> [Slots -> Element]]
          BY <1>0 DEF Types
        <5>2. elts'[t][HeadSlot(t)] = Rest(H, NCopy(t))
          BY <1>2, <4>2, <5>1
        <5> QED
          BY <1>2, <3>3, <5>2
      <4>4. j \in (H.offset + NCopy(t) + 1)..(H.offset + H.n_vectors)
        BY <1>6, <4>3
      <4>5. H.offset + x < j
        BY <1>2, <4>4
      <4> QED
        BY <2>1, <2>2, <3>2, <4>3, <4>5 DEF Sorted
    <3>4. CASE n # head[t] + 1
      <4>1. head[t] + 1 < n
        BY <1>0, <2>1, <3>4 DEF Types, Claims
      <4>2. Before(H, e)
        BY <1>2, <4>1 DEF OrderInv, RingOrder
      <4> QED
        BY <2>2, <3>2, <4>2 DEF Before
    <3> QED
      BY <3>3, <3>4
  <2> QED
    BY <1>10, <2>2, <2>3, <2>4, <2>5
<1>15. ASSUME NEW r \in Threads, NEW u \in Threads, NEW k \in Nat, Sent(r, u, k)'
       PROVE  Sent(r, u, k)
  <2>1. CASE \E i \in Slots : \E j \in Held(elts'[r][i]) :
               Source(elts'[r][i], j) = u /\ Number(elts'[r][i], j) = k
    <3>1. PICK i \in Slots : \E j \in Held(elts'[r][i]) :
            Source(elts'[r][i], j) = u /\ Number(elts'[r][i], j) = k
      BY <2>1
    <3>2. Less(elts'[r][i], elts[r][i])
      BY <1>7
    <3>3. \E j \in Held(elts[r][i]) : Source(elts[r][i], j) = u /\ Number(elts[r][i], j) = k
      BY <3>1, <3>2 DEF Less, Source, Number
    <3> QED
      BY <3>3 DEF Sent
  <2>2. CASE \E i \in DOMAIN delivered'[r][u] : delivered'[r][u][i][2] = k
    <3>1. PICK i \in DOMAIN delivered'[r][u] : delivered'[r][u][i][2] = k
      BY <2>2
    <3>2. CASE r # t \/ (i \in DOMAIN delivered[t][u] /\ delivered'[t][u][i] = delivered[t][u][i])
      BY <1>3, <3>1, <3>2 DEF Sent
    <3>3. CASE r = t /\ \E x \in 1..NCopy(t) : From(delivered'[t][u][i], x, u)
      <4>1. PICK x \in 1..NCopy(t) : From(delivered'[t][u][i], x, u)
        BY <3>3
      <4>2. H.offset + x \in Held(H) /\ k = Number(H, H.offset + x) /\ Source(H, H.offset + x) = u
        BY <1>12, <3>1, <3>3, <4>1
      <4> QED
        BY <1>2, <3>3, <4>2 DEF Sent
    <3> QED
      BY <1>10, <3>1, <3>2, <3>3
  <2> QED
    BY <1>15, <2>1, <2>2 DEF Sent
<1>16. ASSUME NEW u \in Threads PROVE FrameOrder(u)'
  <2>1. FrameOrder(u) /\ (pc[u] \in Enqueuing => todo[u] # <<>>)
    BY DEF OrderInv, IInv, LocalInv, FrameInv
  <2>2. /\ pc'[u] \in {"publish", "flag"} <=> pc[u] \in {"publish", "flag"}
        /\ pc'[u] = "fill" => pc[u] = "fill"
    BY <1>0, <1>1, <1>4, <1>5 DEF Types
  <2>3. ASSUME pc'[u] = "fill"
        PROVE  \A n \in Claims(Dest(u))' : n > new_tail'[u] =>
                 \A j \in Held(elts'[Dest(u)][Slot(n)]) : Source(elts'[Dest(u)][Slot(n)], j) # u
    <3>1. PICK r \in Threads : r = Dest(u) /\ r = Dest(u)'
      BY <1>0, <1>1, <2>1, <2>2, <2>3, DestType DEF Enqueuing
    <3>2. \A n \in Claims(r) : n > new_tail[u] =>
            \A j \in Held(elts'[r][Slot(n)]) : Source(elts'[r][Slot(n)], j) # u
      <4> SUFFICES ASSUME NEW n \in Claims(r), n > new_tail[u], NEW j \in Held(elts'[r][Slot(n)])
                   PROVE  Source(elts'[r][Slot(n)], j) # u
        OBVIOUS
      <4>1. Less(elts'[r][Slot(n)], elts[r][Slot(n)])
        BY <1>0, <1>7, ClaimTypes
      <4> QED
        BY <2>1, <2>2, <2>3, <3>1, <4>1 DEF FrameOrder, Less, Source
    <3> QED
      BY <1>1, <3>1, <3>2
  <2> QED
    BY <1>0, <1>1, <1>15, <2>1, <2>2, <2>3, FrameOrderKept
<1> QED
  BY <1>3, <1>8, <1>9, <1>14, <1>16 DEF OrderInv

\* The order of the packets in frames, rings and nodes is inductive together
\* with IInv.
THEOREM OrderInductive == Spec => []OrderInv
<1>1. Init => OrderInv
  <2> SUFFICES ASSUME Init PROVE OrderInv
    OBVIOUS
  <2>1. \A t \in Threads, i \in Slots : elts[t][i].offset = 0 /\ elts[t][i].n_vectors = 0
                                        /\ elts[t][i].buffer_index = <<>>
    BY DEF Init, Slots
  <2>2. \A t \in Threads, i \in Slots : Held(elts[t][i]) = {} /\ Sorted(elts[t][i])
    BY <2>1 DEF Held, Sorted
  <2>3. \A t \in Threads : Claims(t) = {} /\ pc[t] = "top" /\ DOMAIN todo[t] = {} /\ made[t] = 0
    BY DEF Init, Claims
  <2>4. \A t, s \in Threads : DOMAIN delivered[t][s] = {} /\ delivered \in [Threads -> [Threads -> Seq(Packets)]]
    BY DEF Init
  <2>5. delivered \in [Threads -> [Threads -> Seq(Packets)]]
    BY DEF Init
  <2>6. \A d, t \in Threads : \A k \in Nat : ~Sent(d, t, k)
    BY <2>2, <2>4 DEF Sent
  <2>7. \A t \in Threads : RingOrder(t) /\ DeliveredOrder(t)
    BY <2>2, <2>3, <2>4 DEF RingOrder, DeliveredOrder, Increasing
  <2>8. \A t \in Threads : FrameOrder(t)
    BY <2>3, <2>6 DEF FrameOrder
  <2> QED
    BY <2>5, <2>7, <2>8 DEF OrderInv
<1>2. OrderInv /\ IInv /\ IInv' /\ [Next]_vars => OrderInv'
  <2> SUFFICES ASSUME OrderInv, IInv, IInv', [Next]_vars PROVE OrderInv'
    OBVIOUS
  <2>1. CASE UNCHANGED vars
    <3>1. UNCHANGED <<head, tail, elts, pc, todo, made, new_tail, delivered>>
      BY <2>1 DEF vars, ringVars, pollVars, dequeueVars, enqueueVars
    <3>2. ASSUME NEW t \in Threads PROVE RingOrder(t)' /\ DeliveredOrder(t)'
      <4>1. RingOrder(t) /\ DeliveredOrder(t)
        BY DEF OrderInv
      <4>2. (RingOrder(t)' <=> RingOrder(t)) /\ (DeliveredOrder(t)' <=> DeliveredOrder(t))
        BY <3>1 DEF RingOrder, DeliveredOrder, Taken, Claims
      <4> QED
        BY <4>1, <4>2
    <3>3. ASSUME NEW t \in Threads PROVE FrameOrder(t)'
      <4>1. FrameOrder(t)
        BY DEF OrderInv
      <4>2. FrameOrder(t)' <=> FrameOrder(t)
        BY <3>1 DEF FrameOrder, Sent, Pending, Claims, Dest
      <4> QED
        BY <4>1, <4>2
    <3> QED
      BY <3>1, <3>2, <3>3 DEF OrderInv
  <2>2. ASSUME NEW t \in Threads, Thread(t) PROVE OrderInv'
    <3> USE DEF Goto
    <3>0. Types'
      BY DEF IInv
    <3>1. CASE SkipPoll(t) \/ BeginPoll(t) \/ ClearFlag(t) \/ EndPoll(t) \/ DequeueDone(t) \/ Idle(t) \/ Retry(t)
      <4>1. PICK q \in {"dispatch", "poll", "dequeue", "polled", "top", "tail"} :
              pc' = [pc EXCEPT ![t] = q] /\ pc[t] \in {"top", "clear", "polled", "dequeue", "dispatch", "cas"}
        BY <3>1 DEF SkipPoll, BeginPoll, ClearFlag, EndPoll, DequeueDone, Idle, Retry
      <4>2. UNCHANGED ringVars /\ UNCHANGED <<delivered, todo, made, new_tail>>
        BY <3>1 DEF SkipPoll, BeginPoll, ClearFlag, EndPoll, DequeueDone, Idle, Retry, enqueueVars, dequeueVars
      <4> QED
        BY <3>0, <4>1, <4>2, QuietOrder DEF PC
    <3>2. CASE ReadFlag(t) \/ ReadTail(t) \/ NotFull(t)
      <4>1. PICK q \in {"clear", "dequeue", "full", "cas"} :
              pc' = [pc EXCEPT ![t] = q] /\ pc[t] \in {"poll", "tail", "full"}
        BY <3>2 DEF ReadFlag, ReadTail, NotFull
      <4>2. /\ UNCHANGED ringVars /\ UNCHANGED <<delivered, todo, made>>
            /\ \A u \in Threads \ {t} : new_tail'[u] = new_tail[u]
        BY <3>2 DEF ReadFlag, ReadTail, NotFull, enqueueVars, dequeueVars, IInv, Types
      <4> QED
        BY <3>0, <4>1, <4>2, QuietOrder DEF PC
    <3> QED
      BY <2>2, <3>0, <3>1, <3>2, HandOffOrder, ContinueOrder, RingStepOrder, FillOrder, DequeueOrder DEF Thread
  <2> QED
    BY <2>1, <2>2 DEF Next
<1> QED
  BY <1>1, <1>2, Inductive, PTL DEF Spec

\* The packets of one thread reach another in the order in which they were
\* handed off, for any number of threads, any routes, ring and frame sizes, and
\* whatever is dropped on the way.
THEOREM Order == Spec => []InOrder
<1>1. OrderInv => InOrder
  <2> SUFFICES ASSUME OrderInv, NEW d \in Threads, NEW s \in Threads,
                      NEW i \in 1..(Len(delivered[d][s]) - 1)
               PROVE  delivered[d][s][i][2] < delivered[d][s][i + 1][2]
    BY DEF InOrder
  <2>1. delivered[d][s] \in Seq(Packets)
    BY DEF OrderInv
  <2>2. Len(delivered[d][s]) \in Nat /\ DOMAIN delivered[d][s] = 1..Len(delivered[d][s])
    BY <2>1, LenProperties
  <2>3. i \in DOMAIN delivered[d][s] /\ i + 1 \in DOMAIN delivered[d][s] /\ i < i + 1
    BY <2>2
  <2> QED
    BY <2>3 DEF OrderInv, DeliveredOrder, Increasing
<1> QED
  BY <1>1, OrderInductive, PTL
=============================================================================
