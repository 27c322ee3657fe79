------------------------ MODULE FrameConservedProofs ------------------------
(***************************************************************************)
(* No packet is lost or duplicated on its way through the handoff rings,   *)
(* for any threads, routes and sizes, as long as no aux data is handed off *)
(* with the packets (with it, a full ring loses them: FrameQueueAux.cfg).  *)
(*                                                                         *)
(* The inductive invariant is about spots: a packet that was handed off is *)
(* in one spot, which is the frame of its thread, its drop list, what it   *)
(* has freed, one element of one ring, or one node.  The order of          *)
(* FrameQueueProofs is needed with it: that the numbers in a frame and in  *)
(* an element increase makes what a step takes differ from what it leaves. *)
(***************************************************************************)
EXTENDS FrameQueueProofs

Drops == [aux : BOOLEAN, p : Packets]
Drop(s, k) == [aux |-> FALSE, p |-> <<s, k>>]

\* Where packet k of thread s can be.
InTodo(s, k) == \E i \in DOMAIN todo[s] : todo[s][i].k = k /\ Pending(s, i)
InDrop(s, k) == \E i \in DOMAIN drop_list[s] : drop_list[s][i] = Drop(s, k)
InFreed(s, k) == \E i \in DOMAIN freed[s] : freed[s][i] = Drop(s, k)
InElt(q, i, s, k) ==
  /\ \E j \in Held(elts[q][i]) : elts[q][i].buffer_index[j] = <<s, k>>
  /\ ~(pc[q] = "reset" /\ i = HeadSlot(q))
InNode(q, s, k) == \E i \in DOMAIN delivered[q][s] : delivered[q][s][i] = <<s, k>>

Kinds == {"todo", "drop", "freed", "ring", "node"}
At(c, q, i, s, k) ==
  \/ c = "todo" /\ q = s /\ i = 0 /\ InTodo(s, k)
  \/ c = "drop" /\ q = s /\ i = 0 /\ InDrop(s, k)
  \/ c = "freed" /\ q = s /\ i = 0 /\ InFreed(s, k)
  \/ c = "ring" /\ InElt(q, i, s, k)
  \/ c = "node" /\ i = 0 /\ InNode(q, s, k)

One(s, k) ==
  \E c \in Kinds, q \in Threads, i \in Slots :
    /\ At(c, q, i, s, k)
    /\ \A d \in Kinds, r \in Threads, j \in Slots :
         At(d, r, j, s, k) => d = c /\ r = q /\ j = i

\* What a thread drops or has freed are packets of its own, each once.
OwnOnce(s, q) ==
  /\ \A i \in DOMAIN q : \E k \in 1..made[s] : q[i] = Drop(s, k)
  /\ \A i, j \in DOMAIN q : q[i] = q[j] => i = j

Numbered(t) ==
  /\ pc[t] \notin Enqueuing => todo[t] = <<>>
  /\ \A i \in DOMAIN todo[t] : todo[t][i].k \in 1..made[t]

ConsInv ==
  /\ drop_list \in [Threads -> Seq(Drops)] /\ freed \in [Threads -> Seq(Drops)]
  /\ \A t \in Threads : Numbered(t) /\ OwnOnce(t, drop_list[t]) /\ OwnOnce(t, freed[t])
  /\ \A s \in Threads : \A k \in 1..made[s] : One(s, k)
-----------------------------------------------------------------------------
(* Spots.                                                                  *)

\* Every element of the mask is among the compressed ones.
LEMMA CompressAll ==
  ASSUME NEW S, NEW s \in Seq(S), NEW mask \in SUBSET DOMAIN s, NEW x \in mask
  PROVE  \E i \in DOMAIN Compress(s, mask) : Compress(s, mask)[i] = s[x]
<1>1. Len(s) \in Nat /\ DOMAIN s = 1..Len(s)
  BY LenProperties
<1>2. PICK i \in 1..Cardinality(mask) : Nth(mask, i) = x
  BY <1>1, NthProperties
<1>3. /\ DOMAIN Compress(s, mask) = 1..Cardinality(mask)
      /\ Compress(s, mask)[i] = s[Nth(mask, i)]
  BY DEF Compress
<1> QED
  BY <1>2, <1>3

Has(q, v) == \E i \in DOMAIN q : q[i] = v

\* An element of a concatenation is one of its parts.
LEMMA ConcatElements ==
  ASSUME NEW S, NEW a \in Seq(S), NEW b \in Seq(S), NEW v
  PROVE  Has(a \o b, v) <=> Has(a, v) \/ Has(b, v)
<1> DEFINE c == a \o b
<1>1. Len(a) \in Nat /\ Len(b) \in Nat /\ DOMAIN a = 1..Len(a) /\ DOMAIN b = 1..Len(b)
  BY LenProperties
<1>2. /\ c \in Seq(S) /\ DOMAIN c = 1..(Len(a) + Len(b))
      /\ \A i \in 1..(Len(a) + Len(b)) : c[i] = IF i <= Len(a) THEN a[i] ELSE b[i - Len(a)]
  BY ConcatProperties, LenProperties
<1> HIDE DEF c
<1>3. ASSUME NEW i \in DOMAIN c, c[i] = v
      PROVE  (\E j \in DOMAIN a : a[j] = v) \/ (\E j \in DOMAIN b : b[j] = v)
  <2>1. CASE i <= Len(a)
    BY <1>1, <1>2, <1>3, <2>1
  <2>2. CASE ~(i <= Len(a))
    <3>1. i - Len(a) \in 1..Len(b) /\ b[i - Len(a)] = v
      BY <1>1, <1>2, <1>3, <2>2
    <3> QED
      BY <1>1, <3>1
  <2> QED
    BY <2>1, <2>2
<1>4. ASSUME NEW j \in DOMAIN a, a[j] = v PROVE \E i \in DOMAIN c : c[i] = v
  BY <1>1, <1>2, <1>4
<1>5. ASSUME NEW j \in DOMAIN b, b[j] = v PROVE \E i \in DOMAIN c : c[i] = v
  <2>1. j + Len(a) \in 1..(Len(a) + Len(b)) /\ ~(j + Len(a) <= Len(a)) /\ (j + Len(a)) - Len(a) = j
    BY <1>1
  <2>2. c[j + Len(a)] = v
    BY <1>2, <1>5, <2>1
  <2> QED
    BY <1>2, <2>1, <2>2
<1> QED
  BY <1>3, <1>4, <1>5 DEF c, Has

\* A packet whose spots stay as they are stays in one of them.
LEMMA SameSpot ==
  ASSUME NEW s, NEW k, One(s, k),
         InTodo(s, k)' <=> InTodo(s, k),
         InDrop(s, k)' <=> InDrop(s, k),
         InFreed(s, k)' <=> InFreed(s, k),
         \A q \in Threads, i \in Slots : InElt(q, i, s, k)' <=> InElt(q, i, s, k),
         \A q \in Threads : InNode(q, s, k)' <=> InNode(q, s, k)
  PROVE  One(s, k)'
<1>1. \A c \in Kinds, q \in Threads, i \in Slots : At(c, q, i, s, k)' <=> At(c, q, i, s, k)
  BY DEF At
<1> QED
  BY <1>1 DEF One

\* A packet in one place of its thread, or on one ring, is nowhere else.
LEMMA NowhereElse ==
  ASSUME NEW s \in Threads, NEW k, One(s, k)
  PROVE  /\ ~(InTodo(s, k) /\ InDrop(s, k)) /\ ~(InTodo(s, k) /\ InFreed(s, k))
         /\ ~(InDrop(s, k) /\ InFreed(s, k))
         /\ \A q \in Threads, i \in Slots : InElt(q, i, s, k) =>
              /\ ~InTodo(s, k) /\ ~InDrop(s, k) /\ ~InFreed(s, k)
              /\ \A r \in Threads : ~InNode(r, s, k)
              /\ \A r \in Threads, j \in Slots : InElt(r, j, s, k) => r = q /\ j = i
         /\ \A q \in Threads : InNode(q, s, k) =>
              /\ ~InTodo(s, k) /\ ~InDrop(s, k) /\ ~InFreed(s, k)
              /\ \A r \in Threads : InNode(r, s, k) => r = q
<1>0. 0 \in Slots
  BY FrameQueueAssumption DEF Slots
<1>1. PICK c \in Kinds, q \in Threads, i \in Slots :
        \A d \in Kinds, r \in Threads, j \in Slots :
          At(d, r, j, s, k) => d = c /\ r = q /\ j = i
  BY DEF One
<1>2. /\ InTodo(s, k) => c = "todo"
      /\ InDrop(s, k) => c = "drop"
      /\ InFreed(s, k) => c = "freed"
  BY <1>0, <1>1 DEF At, Kinds
<1>3. \A r \in Threads, j \in Slots : InElt(r, j, s, k) => c = "ring" /\ r = q /\ j = i
  BY <1>1 DEF At, Kinds
<1>4. \A r \in Threads : InNode(r, s, k) => c = "node" /\ r = q
  BY <1>0, <1>1 DEF At, Kinds
<1> QED
  BY <1>2, <1>3, <1>4

\* A packet that a step leaves in one place.
LEMMA LeftInTodo ==
  ASSUME NEW s \in Threads, NEW k, InTodo(s, k)', ~InDrop(s, k)', ~InFreed(s, k)',
         \A q \in Threads, i \in Slots : ~InElt(q, i, s, k)',
         \A q \in Threads : ~InNode(q, s, k)'
  PROVE  One(s, k)'
<1>0. 0 \in Slots /\ "todo" \in Kinds
  BY FrameQueueAssumption DEF Slots, Kinds
<1>1. At("todo", s, 0, s, k)'
  BY DEF At
<1>2. \A d \in Kinds, r \in Threads, j \in Slots : At(d, r, j, s, k)' => d = "todo" /\ r = s /\ j = 0
  BY DEF At
<1> QED
  BY <1>0, <1>1, <1>2 DEF One

LEMMA LeftInDrop ==
  ASSUME NEW s \in Threads, NEW k, ~InTodo(s, k)', InDrop(s, k)', ~InFreed(s, k)',
         \A q \in Threads, i \in Slots : ~InElt(q, i, s, k)',
         \A q \in Threads : ~InNode(q, s, k)'
  PROVE  One(s, k)'
<1>0. 0 \in Slots /\ "drop" \in Kinds
  BY FrameQueueAssumption DEF Slots, Kinds
<1>1. At("drop", s, 0, s, k)'
  BY DEF At
<1>2. \A d \in Kinds, r \in Threads, j \in Slots : At(d, r, j, s, k)' => d = "drop" /\ r = s /\ j = 0
  BY DEF At
<1> QED
  BY <1>0, <1>1, <1>2 DEF One

LEMMA LeftInFreed ==
  ASSUME NEW s \in Threads, NEW k, ~InTodo(s, k)', ~InDrop(s, k)', InFreed(s, k)',
         \A q \in Threads, i \in Slots : ~InElt(q, i, s, k)',
         \A q \in Threads : ~InNode(q, s, k)'
  PROVE  One(s, k)'
<1>0. 0 \in Slots /\ "freed" \in Kinds
  BY FrameQueueAssumption DEF Slots, Kinds
<1>1. At("freed", s, 0, s, k)'
  BY DEF At
<1>2. \A d \in Kinds, r \in Threads, j \in Slots : At(d, r, j, s, k)' => d = "freed" /\ r = s /\ j = 0
  BY DEF At
<1> QED
  BY <1>0, <1>1, <1>2 DEF One

LEMMA LeftInElt ==
  ASSUME NEW s \in Threads, NEW k, ~InTodo(s, k)', ~InDrop(s, k)', ~InFreed(s, k)',
         NEW d \in Threads, NEW e \in Slots, InElt(d, e, s, k)',
         \A q \in Threads, i \in Slots : InElt(q, i, s, k)' => q = d /\ i = e,
         \A q \in Threads : ~InNode(q, s, k)'
  PROVE  One(s, k)'
<1>0. "ring" \in Kinds
  BY DEF Kinds
<1>1. At("ring", d, e, s, k)'
  BY DEF At
<1>2. \A c \in Kinds, r \in Threads, j \in Slots : At(c, r, j, s, k)' => c = "ring" /\ r = d /\ j = e
  BY DEF At
<1> QED
  BY <1>0, <1>1, <1>2 DEF One

LEMMA LeftInNode ==
  ASSUME NEW s \in Threads, NEW k, ~InTodo(s, k)', ~InDrop(s, k)', ~InFreed(s, k)',
         \A q \in Threads, i \in Slots : ~InElt(q, i, s, k)',
         NEW d \in Threads, InNode(d, s, k)',
         \A q \in Threads : InNode(q, s, k)' => q = d
  PROVE  One(s, k)'
<1>0. 0 \in Slots /\ "node" \in Kinds
  BY FrameQueueAssumption DEF Slots, Kinds
<1>1. At("node", d, 0, s, k)'
  BY DEF At
<1>2. \A c \in Kinds, r \in Threads, j \in Slots : At(c, r, j, s, k)' => c = "node" /\ r = d /\ j = 0
  BY DEF At
<1> QED
  BY <1>0, <1>1, <1>2 DEF One
-----------------------------------------------------------------------------
(* The steps.                                                              *)

\* A step that keeps every packet where it is, and the lists of the thread.
LEMMA StillCons ==
  ASSUME Types, ConsInv, NEW t \in Threads, NEW q \in PC, pc' = [pc EXCEPT ![t] = q],
         UNCHANGED <<todo, drop_list, freed, made, delivered>>,
         q \in {"publish", "flag"} <=> pc[t] \in {"publish", "flag"},
         q \in Enqueuing <=> pc[t] \in Enqueuing,
         \A r, s \in Threads, i \in Slots, k \in Nat : InElt(r, i, s, k)' <=> InElt(r, i, s, k)
  PROVE  ConsInv'
<1>1. \A u \in Threads : pc'[u] = IF u = t THEN q ELSE pc[u]
  BY DEF Types
<1>2. \A u \in Threads : Numbered(u)' /\ OwnOnce(u, drop_list[u])' /\ OwnOnce(u, freed[u])'
  BY <1>1 DEF ConsInv, Numbered, OwnOnce
<1>3. ASSUME NEW s \in Threads, NEW k \in 1..made[s] PROVE One(s, k)'
  <2>1. InTodo(s, k)' <=> InTodo(s, k)
    BY <1>1 DEF InTodo, Pending, Dest
  <2>2. InDrop(s, k)' <=> InDrop(s, k)
    BY DEF InDrop
  <2>3. InFreed(s, k)' <=> InFreed(s, k)
    BY DEF InFreed
  <2>4. \A r \in Threads : InNode(r, s, k)' <=> InNode(r, s, k)
    BY DEF InNode
  <2>5. One(s, k) /\ k \in Nat
    BY DEF ConsInv
  <2> QED
    BY <2>1, <2>2, <2>3, <2>4, <2>5, SameSpot
<1> QED
  BY <1>2, <1>3 DEF ConsInv

\* The steps that touch neither elements, heads nor frames.
LEMMA QuietCons ==
  ASSUME IInv, ConsInv, NEW t \in Threads,
         \/ SkipPoll(t) \/ BeginPoll(t) \/ ReadFlag(t) \/ ClearFlag(t) \/ EndPoll(t)
         \/ DequeueDone(t) \/ Idle(t) \/ ReadTail(t) \/ NotFull(t) \/ Claim(t) \/ Retry(t)
  PROVE  ConsInv'
<1> USE DEF Goto, ringVars, dequeueVars, enqueueVars
<1>0. Types
  BY DEF IInv
<1>1. UNCHANGED <<head, elts, todo, drop_list, freed, made, delivered>>
  BY DEF SkipPoll, BeginPoll, ReadFlag, ClearFlag, EndPoll, DequeueDone, Idle, ReadTail,
         NotFull, Claim, Retry
<1>2. PICK q \in PC : /\ pc' = [pc EXCEPT ![t] = q]
                      /\ q \in Enqueuing <=> pc[t] \in Enqueuing
                      /\ {pc[t], q} \cap {"reset", "publish", "flag"} = {}
  <2>1. CASE SkipPoll(t) \/ BeginPoll(t) \/ ReadFlag(t) \/ ClearFlag(t) \/ EndPoll(t)
             \/ DequeueDone(t) \/ Idle(t)
    BY <2>1 DEF SkipPoll, BeginPoll, ReadFlag, ClearFlag, EndPoll, DequeueDone, Idle, PC, Enqueuing
  <2>2. CASE ReadTail(t) \/ NotFull(t) \/ Claim(t) \/ Retry(t)
    BY <2>2 DEF ReadTail, NotFull, Claim, Retry, PC, Enqueuing
  <2> QED
    BY <2>1, <2>2
<1>3. \A u \in Threads : pc'[u] = IF u = t THEN q ELSE pc[u]
  BY <1>0, <1>2 DEF Types
<1>4. \A r, s \in Threads, i \in Slots, k \in Nat : InElt(r, i, s, k)' <=> InElt(r, i, s, k)
  BY <1>1, <1>2, <1>3 DEF InElt, HeadSlot
<1> QED
  BY <1>0, <1>1, <1>2, <1>4, StillCons

\* The reset of an element takes nothing that was not delivered; neither does
\* the move of head; and a published element holds what it held.
LEMMA RingStepCons ==
  ASSUME IInv, ConsInv, NEW t \in Threads, ResetElt(t) \/ BumpHead(t) \/ Publish(t)
  PROVE  ConsInv'
<1> USE DEF Goto, dequeueVars, enqueueVars
<1>0. Types
  BY DEF IInv
<1>1. UNCHANGED <<todo, drop_list, freed, made, delivered>>
  BY DEF ResetElt, BumpHead, Publish
<1>2. CASE ResetElt(t)
  <2>1. pc' = [pc EXCEPT ![t] = "bump"] /\ pc[t] = "reset" /\ head' = head
        /\ elts' = [elts EXCEPT ![t][HeadSlot(t)] = Cleared(HeadElt(t))]
    BY <1>2 DEF ResetElt, HeadElt
  <2>2. \A u \in Threads : pc'[u] = IF u = t THEN "bump" ELSE pc[u]
    BY <1>0, <2>1 DEF Types
  <2>3. /\ elts'[t][HeadSlot(t)] = Cleared(HeadElt(t)) /\ HeadElt(t) \in Element
        /\ \A r \in Threads, j \in Slots : r # t \/ j # HeadSlot(t) => elts'[r][j] = elts[r][j]
    BY <1>0, <2>1, HeadElement DEF Types
  <2>4. Held(elts'[t][HeadSlot(t)]) = {}
    BY <2>3 DEF Cleared, Element, Held
  <2>5. \A r \in Threads : HeadSlot(r)' = HeadSlot(r)
    BY <2>1 DEF HeadSlot
  <2>6. ASSUME NEW r \in Threads, NEW s \in Threads, NEW i \in Slots, NEW k \in Nat
        PROVE  InElt(r, i, s, k)' <=> InElt(r, i, s, k)
    <3>1. CASE r = t /\ i = HeadSlot(t)
      BY <2>1, <2>4, <3>1 DEF InElt
    <3>2. CASE r # t \/ i # HeadSlot(t)
      BY <2>2, <2>3, <2>5, <3>2 DEF InElt
    <3> QED
      BY <3>1, <3>2
  <2> QED
    BY <1>0, <1>1, <2>1, <2>6, StillCons DEF PC, Enqueuing
<1>3. CASE BumpHead(t)
  <2>1. PICK q \in {"polled", "dequeue"} : pc' = [pc EXCEPT ![t] = q]
    BY <1>3 DEF BumpHead, AfterElt
  <2>2. pc[t] = "bump" /\ elts' = elts /\ \A u \in Threads \ {t} : head'[u] = head[u]
    BY <1>0, <1>3 DEF BumpHead, Types
  <2>3. \A u \in Threads : pc'[u] = IF u = t THEN q ELSE pc[u]
    BY <1>0, <2>1 DEF Types
  <2>4. \A r, s \in Threads, i \in Slots, k \in Nat : InElt(r, i, s, k)' <=> InElt(r, i, s, k)
    BY <2>1, <2>2, <2>3 DEF InElt, HeadSlot
  <2> QED
    BY <1>0, <1>1, <2>1, <2>2, <2>4, StillCons DEF PC, Enqueuing
<1>4. CASE Publish(t)
  <2>1. PICK r, j : elts' = [elts EXCEPT ![r][j] = [elts[r][j] EXCEPT !.valid = TRUE]]
    BY <1>4 DEF Publish
  <2>2. pc' = [pc EXCEPT ![t] = "flag"] /\ pc[t] = "publish" /\ head' = head
    BY <1>4 DEF Publish
  <2>3. ASSUME NEW d \in Threads, NEW i \in Slots
        PROVE  /\ elts'[d][i].buffer_index = elts[d][i].buffer_index
               /\ elts'[d][i].offset = elts[d][i].offset
               /\ elts'[d][i].n_vectors = elts[d][i].n_vectors
    <3>1. elts'[d][i] = elts[d][i] \/ elts'[d][i] = [elts[d][i] EXCEPT !.valid = TRUE]
      BY <1>0, <2>1 DEF Types
    <3>2. elts[d][i] \in Element
      BY <1>0 DEF Types
    <3> QED
      BY <3>1, <3>2 DEF Element
  <2>4. \A u \in Threads : pc'[u] = IF u = t THEN "flag" ELSE pc[u]
    BY <1>0, <2>2 DEF Types
  <2>5. \A r1, s \in Threads, i \in Slots, k \in Nat : InElt(r1, i, s, k)' <=> InElt(r1, i, s, k)
    BY <2>2, <2>3, <2>4 DEF InElt, HeadSlot, Held
  <2> QED
    BY <1>0, <1>1, <2>2, <2>5, StillCons DEF PC, Enqueuing
<1> QED
  BY <1>2, <1>3, <1>4

\* What OrderInv says of where the packets of a thread can be.
LEMMA NotYetMade ==
  ASSUME IInv, OrderInv, NEW s \in Threads, NEW k \in Nat, k > made[s]
  PROVE  /\ \A q \in Threads, i \in Slots : ~InElt(q, i, s, k)
         /\ \A q \in Threads : ~InNode(q, s, k)
<1>0. Types /\ made[s] \in Nat /\ \A q \in Threads : ~Sent(q, s, k)
  <2>1. Types /\ made[s] \in Nat
    BY DEF IInv, Types
  <2>2. \A q \in Threads : Sent(q, s, k) => k <= made[s]
    BY DEF OrderInv, FrameOrder
  <2>3. ~(k <= made[s])
    BY <2>1
  <2> QED
    BY <2>1, <2>2, <2>3
<1>1. ASSUME NEW q \in Threads, NEW i \in Slots PROVE ~InElt(q, i, s, k)
  BY <1>0 DEF Sent, InElt, Source, Number
<1>2. ASSUME NEW q \in Threads PROVE ~InNode(q, s, k)
  BY <1>0 DEF Sent, InNode
<1> QED
  BY <1>1, <1>2

\* The packets of a new frame are nowhere yet.
LEMMA HandOffCons ==
  ASSUME IInv, OrderInv, ConsInv, NEW t \in Threads, HandOff(t)
  PROVE  ConsInv'
<1> USE DEF Goto, ringVars, dequeueVars
<1>0. Types
  BY DEF IInv
<1>1. PICK n \in 1..FrameSize :
        /\ \E to \in [1..n -> Targets(t)] :
             todo' = [todo EXCEPT ![t] = [i \in 1..n |-> [k |-> made[t] + i, to |-> to[i]]]]
        /\ made' = [made EXCEPT ![t] = made[t] + n]
  BY DEF HandOff
<1>2. PICK to \in [1..n -> Targets(t)] :
        todo' = [todo EXCEPT ![t] = [i \in 1..n |-> [k |-> made[t] + i, to |-> to[i]]]]
  BY <1>1
<1>3. /\ DOMAIN todo'[t] = 1..n
      /\ \A i \in 1..n : todo'[t][i].k = made[t] + i
      /\ \A u \in Threads \ {t} : todo'[u] = todo[u]
  BY <1>0, <1>2 DEF Types
<1>4. /\ made'[t] = made[t] + n /\ made[t] \in Nat /\ n \in Nat
      /\ \A u \in Threads \ {t} : made'[u] = made[u]
  BY <1>0, <1>1, FrameQueueAssumption DEF Types
<1>5. /\ pc[t] = "dispatch" /\ \A u \in Threads : pc'[u] = IF u = t THEN "tail" ELSE pc[u]
      /\ UNCHANGED <<head, elts, delivered, drop_list, freed>>
  BY <1>0 DEF HandOff, Types
<1>6. ASSUME NEW u \in Threads
      PROVE  /\ made[u] \in Nat /\ made'[u] \in Nat
             /\ \A k \in 1..made[u] : k \in 1..made'[u]
  <2>1. made[u] \in Nat
    BY <1>0 DEF Types
  <2>2. CASE u = t
    BY <1>4, <2>2
  <2>3. CASE u # t
    BY <1>4, <2>1, <2>3
  <2> QED
    BY <2>1, <2>2, <2>3
<1>7. \A u \in Threads : Numbered(u)' /\ OwnOnce(u, drop_list[u])' /\ OwnOnce(u, freed[u])'
  <2>1. \A u \in Threads : OwnOnce(u, drop_list[u])' /\ OwnOnce(u, freed[u])'
    BY <1>5, <1>6 DEF ConsInv, OwnOnce
  <2>2. \A u \in Threads \ {t} : Numbered(u)'
    BY <1>3, <1>4, <1>5 DEF ConsInv, Numbered
  <2>3. \A i \in 1..n : made[t] + i \in 1..(made[t] + n)
    BY <1>4
  <2>4. Numbered(t)'
    BY <1>3, <1>4, <1>5, <2>3 DEF Numbered, Enqueuing
  <2> QED
    BY <2>1, <2>2, <2>4
<1>8. \A r, s \in Threads, i \in Slots, k \in Nat : InElt(r, i, s, k)' <=> InElt(r, i, s, k)
  BY <1>5 DEF InElt, HeadSlot
<1>9. \A s \in Threads, k \in Nat : /\ InDrop(s, k)' <=> InDrop(s, k)
                                    /\ InFreed(s, k)' <=> InFreed(s, k)
                                    /\ \A r \in Threads : InNode(r, s, k)' <=> InNode(r, s, k)
  BY <1>5 DEF InDrop, InFreed, InNode
<1>10. ASSUME NEW s \in Threads, NEW k \in 1..made'[s] PROVE One(s, k)'
  <2>0. k \in Nat
    <3>1. made'[s] \in Nat
      BY <1>6
    <3> QED
      BY <3>1
  <2>1. CASE s # t
    <3>1. InTodo(s, k)' <=> InTodo(s, k)
      BY <1>3, <1>5, <2>1 DEF InTodo, Pending, Dest
    <3>2. One(s, k)
      BY <1>4, <2>1 DEF ConsInv
    <3> QED
      BY <1>8, <1>9, <2>0, <3>1, <3>2, SameSpot
  <2>2. CASE s = t /\ k \in 1..made[t]
    <3>1. ~InTodo(s, k)
      <4>1. todo[t] = <<>>
        BY <1>5 DEF ConsInv, Numbered, Enqueuing
      <4> QED
        BY <2>2, <4>1 DEF InTodo
    <3>2. ~InTodo(s, k)'
      BY <1>3, <1>4, <2>2 DEF InTodo
    <3>3. One(s, k)
      BY <2>2 DEF ConsInv
    <3> QED
      BY <1>8, <1>9, <2>0, <3>1, <3>2, <3>3, SameSpot
  <2>3. CASE s = t /\ k \notin 1..made[t]
    <3>1. k - made[t] \in 1..n /\ made[t] + (k - made[t]) = k /\ k > made[t]
      BY <1>4, <2>0, <2>3
    <3>2. InTodo(s, k)'
      BY <1>3, <1>5, <2>3, <3>1 DEF InTodo, Pending
    <3>3. ~InDrop(s, k) /\ ~InFreed(s, k)
      <4>1. \A j \in 1..made[t] : Drop(t, j) # Drop(t, k)
        BY <1>4, <3>1 DEF Drop
      <4> QED
        BY <2>3, <4>1 DEF ConsInv, OwnOnce, InDrop, InFreed
    <3>4. /\ \A q \in Threads, i \in Slots : ~InElt(q, i, s, k)
          /\ \A q \in Threads : ~InNode(q, s, k)
      BY <2>0, <2>3, <3>1, NotYetMade
    <3> QED
      BY <1>8, <1>9, <2>0, <3>2, <3>3, <3>4, LeftInTodo
  <2> QED
    BY <2>1, <2>2, <2>3
<1> QED
  BY <1>5, <1>7, <1>10 DEF ConsInv

\* Two lists of packets of a thread that share none are one.
LEMMA OwnOnceConcat ==
  ASSUME NEW s, NEW a \in Seq(Drops), NEW b \in Seq(Drops), OwnOnce(s, a), OwnOnce(s, b),
         \A i \in DOMAIN a, j \in DOMAIN b : a[i] # b[j]
  PROVE  OwnOnce(s, a \o b)
<1> DEFINE c == a \o b
<1>1. Len(a) \in Nat /\ Len(b) \in Nat /\ DOMAIN a = 1..Len(a) /\ DOMAIN b = 1..Len(b)
  BY LenProperties
<1>2. /\ c \in Seq(Drops) /\ DOMAIN c = 1..(Len(a) + Len(b))
      /\ \A i \in 1..(Len(a) + Len(b)) : c[i] = IF i <= Len(a) THEN a[i] ELSE b[i - Len(a)]
  BY ConcatProperties, LenProperties
<1> HIDE DEF c
<1>3. \A i \in DOMAIN c : \/ i \in DOMAIN a /\ c[i] = a[i]
                          \/ i > Len(a) /\ i - Len(a) \in DOMAIN b /\ c[i] = b[i - Len(a)]
  BY <1>1, <1>2
<1>4. \A i \in DOMAIN c : \E k \in 1..made[s] : c[i] = Drop(s, k)
  BY <1>3 DEF OwnOnce
<1>5. ASSUME NEW i \in DOMAIN c, NEW j \in DOMAIN c, c[i] = c[j] PROVE i = j
  <2>0. i \in Nat /\ j \in Nat
    BY <1>1, <1>2
  <2>1. CASE i \in DOMAIN a /\ c[i] = a[i]
    <3>1. CASE j \in DOMAIN a /\ c[j] = a[j]
      BY <1>5, <2>1, <3>1 DEF OwnOnce
    <3>2. CASE j > Len(a) /\ j - Len(a) \in DOMAIN b /\ c[j] = b[j - Len(a)]
      BY <1>5, <2>1, <3>2
    <3> QED
      BY <1>3, <3>1, <3>2
  <2>2. CASE i > Len(a) /\ i - Len(a) \in DOMAIN b /\ c[i] = b[i - Len(a)]
    <3>1. CASE j \in DOMAIN a /\ c[j] = a[j]
      BY <1>5, <2>2, <3>1
    <3>2. CASE j > Len(a) /\ j - Len(a) \in DOMAIN b /\ c[j] = b[j - Len(a)]
      <4>1. i - Len(a) = j - Len(a)
        BY <1>5, <2>2, <3>2 DEF OwnOnce
      <4> QED
        BY <1>1, <2>0, <4>1
    <3> QED
      BY <1>3, <3>1, <3>2
  <2> QED
    BY <1>3, <2>1, <2>2
<1> QED
  BY <1>4, <1>5 DEF OwnOnce, c

\* What a producer puts into an element, or drops: each packet of its frame for
\* that ring, once.
LEMMA BuffersAll ==
  ASSUME Types, NEW t \in Threads, FrameOrder(t), NEW k
  PROVE  (\E j \in 1..Len(Buffers(t)) : Buffers(t)[j] = <<t, k>>)
           <=> (\E x \in Mask(t) : todo[t][x].k = k)
<1>1. todo[t] \in Seq(Item) /\ Mask(t) \in SUBSET DOMAIN todo[t]
  BY DEF Types, Frame, Mask
<1>2. DOMAIN Masked(t) = 1..Len(Buffers(t))
  BY UnmaskedProperties, LenProperties DEF Frame
<1>3. \A i \in DOMAIN Masked(t) : Buffers(t)[i] = <<t, Masked(t)[i].k>>
  BY DEF Buffers
<1>4. ASSUME NEW j \in 1..Len(Buffers(t)), Buffers(t)[j] = <<t, k>>
      PROVE  \E x \in Mask(t) : todo[t][x].k = k
  <2>1. PICK x \in Mask(t) : Buffers(t)[j][2] = todo[t][x].k
    BY BuffersOrder
  <2> QED
    BY <1>4, <2>1
<1>5. ASSUME NEW x \in Mask(t), todo[t][x].k = k
      PROVE  \E j \in 1..Len(Buffers(t)) : Buffers(t)[j] = <<t, k>>
  <2>1. PICK i \in DOMAIN Masked(t) : Masked(t)[i] = todo[t][x]
    BY <1>1, CompressAll DEF Masked
  <2> QED
    BY <1>2, <1>3, <1>5, <2>1
<1> QED
  BY <1>4, <1>5

LEMMA DroppedProperties ==
  ASSUME ~WithAux, IInv, OrderInv, ConsInv, NEW t \in Threads
  PROVE  /\ Dropped(t) \in Seq(Drops) /\ OwnOnce(t, Dropped(t))
         /\ \A k : (\E i \in DOMAIN Dropped(t) : Dropped(t)[i] = Drop(t, k))
                     <=> (\E x \in Mask(t) : todo[t][x].k = k)
<1>0. Types /\ FrameOrder(t)
  BY DEF IInv, OrderInv
<1>1. PICK b \in Seq(Packets) : b = Buffers(t)
  BY <1>0, UnmaskedProperties
<1>2. Len(b) \in Nat /\ DOMAIN b = 1..Len(b) /\ DOMAIN Masked(t) = 1..Len(b)
  BY <1>0, <1>1, UnmaskedProperties, LenProperties DEF Frame
<1>3. WithAux = FALSE
  BY FrameQueueAssumption
<1>4. /\ DOMAIN Dropped(t) = 1..Len(b)
      /\ \A i \in 1..Len(b) : Dropped(t)[i] = [aux |-> FALSE, p |-> b[i]]
  BY <1>1, <1>2, <1>3 DEF Dropped, Buffers
<1>5. \A i \in 1..Len(b) : b[i] \in Packets
  BY <1>2, ElementOfSeq
<1>6. Dropped(t) \in Seq(Drops)
  <2>1. \A i \in 1..Len(b) : Dropped(t)[i] \in Drops
    <3>1. \A v \in Packets : [aux |-> FALSE, p |-> v] \in Drops
      BY DEF Drops
    <3> QED
      BY <1>4, <1>5, <3>1
  <2>2. Dropped(t) = [i \in 1..Len(b) |-> Dropped(t)[i]]
    BY <1>2, <1>4 DEF Dropped
  <2>3. Dropped(t) \in [1..Len(b) -> Drops]
    BY <2>1, <2>2
  <2> QED
    BY <1>2, <2>3, IsASeq
<1>7. \A i \in 1..Len(b) : \E x \in Mask(t) : b[i] = <<t, todo[t][x].k>>
  <2>1. \A i \in 1..Len(b) : b[i][1] = t /\ \E x \in Mask(t) : b[i][2] = todo[t][x].k
    BY <1>0, <1>1, BuffersOrder
  <2>2. \A i \in 1..Len(b) : b[i] = <<b[i][1], b[i][2]>>
    BY <1>5 DEF Packets
  <2> QED
    BY <2>1, <2>2
<1>8. \A i \in 1..Len(b) : \E k \in 1..made[t] : Dropped(t)[i] = Drop(t, k)
  <2>1. \A x \in Mask(t) : todo[t][x].k \in 1..made[t]
    BY DEF Mask, ConsInv, Numbered
  <2> QED
    BY <1>4, <1>7, <2>1 DEF Drop
<1>9. ASSUME NEW i \in 1..Len(b), NEW j \in 1..Len(b), Dropped(t)[i] = Dropped(t)[j]
      PROVE  i = j
  <2>1. b[i] = b[j]
    BY <1>4, <1>9
  <2>2. b[i][2] \in Nat /\ b[i][2] = b[j][2]
    BY <1>5, <2>1 DEF Packets
  <2>3. ~(i < j) /\ ~(j < i)
    <3>1. /\ i < j => b[i][2] < b[j][2]
          /\ j < i => b[j][2] < b[i][2]
      BY <1>0, <1>1, BuffersOrder
    <3> QED
      BY <2>2, <3>1
  <2> QED
    BY <1>2, <2>3
<1>10. ASSUME NEW k
       PROVE  (\E i \in DOMAIN Dropped(t) : Dropped(t)[i] = Drop(t, k))
                <=> (\E x \in Mask(t) : todo[t][x].k = k)
  <2>1. (\E j \in 1..Len(b) : b[j] = <<t, k>>) <=> (\E x \in Mask(t) : todo[t][x].k = k)
    BY <1>0, <1>1, BuffersAll
  <2>2. \A j \in 1..Len(b) : Dropped(t)[j] = Drop(t, k) <=> b[j] = <<t, k>>
    <3>1. \A v, w : [aux |-> FALSE, p |-> v] = [aux |-> FALSE, p |-> w] => v = w
      OBVIOUS
    <3>2. Drop(t, k) = [aux |-> FALSE, p |-> <<t, k>>]
      BY DEF Drop
    <3> QED
      BY <1>4, <3>1, <3>2
  <2> QED
    BY <1>4, <2>1, <2>2
<1> QED
  BY <1>4, <1>6, <1>8, <1>9, <1>10 DEF OwnOnce

\* After one ring the rest of the frame is still to hand off; what was dropped
\* is on the drop list, or freed at the end of the frame.
LEMMA ContinueCons ==
  ASSUME ~WithAux, IInv, OrderInv, ConsInv, NEW t \in Threads, Congested(t) \/ RaiseFlag(t)
  PROVE  ConsInv'
<1> DEFINE Left(k) == \E x \in DOMAIN todo[t] \ Mask(t) : todo[t][x].k = k
           Gone(k) == pc[t] = "full" /\ \E x \in Mask(t) : todo[t][x].k = k
<1>0. Types /\ FrameOrder(t) /\ made[t] \in Nat
  BY DEF IInv, OrderInv, Types
<1>1. /\ drop_list \in [Threads -> Seq(Drops)] /\ freed \in [Threads -> Seq(Drops)]
      /\ OwnOnce(t, drop_list[t]) /\ OwnOnce(t, freed[t])
  BY DEF ConsInv
<1>2. /\ todo' = [todo EXCEPT ![t] = Unmasked(t)] /\ pc[t] \in {"full", "flag"}
      /\ UNCHANGED <<head, elts, delivered, made>>
  BY DEF Congested, RaiseFlag, Continue, ringVars, dequeueVars
<1>3. PICK q \in {"tail", "dispatch"} :
        pc' = [pc EXCEPT ![t] = q] /\ (q = "dispatch" => Unmasked(t) = <<>>)
  BY DEF Congested, RaiseFlag, Continue, Goto
<1>4. /\ todo'[t] = Unmasked(t)
      /\ \A u \in Threads : pc'[u] = IF u = t THEN q ELSE pc[u]
      /\ \A u \in Threads \ {t} : todo'[u] = todo[u]
  BY <1>0, <1>2, <1>3 DEF Types
\* The list that is kept or freed.
<1>5. PICK g \in Seq(Drops) :
        /\ \/ drop_list' = [drop_list EXCEPT ![t] = g] /\ freed' = freed
           \/ /\ drop_list' = [drop_list EXCEPT ![t] = <<>>]
              /\ freed' = [freed EXCEPT ![t] = freed[t] \o g]
        /\ \A k : (\E i \in DOMAIN g : g[i] = Drop(t, k)) <=> InDrop(t, k) \/ Gone(k)
        /\ OwnOnce(t, g)
  <2>1. CASE Congested(t)
    <3>1. /\ Dropped(t) \in Seq(Drops) /\ OwnOnce(t, Dropped(t))
          /\ \A k : (\E i \in DOMAIN Dropped(t) : Dropped(t)[i] = Drop(t, k))
                     <=> (\E x \in Mask(t) : todo[t][x].k = k)
      BY DroppedProperties
    <3>2. PICK a \in Seq(Drops), b \in Seq(Drops) : a = drop_list[t] /\ b = Dropped(t)
      BY <1>1, <3>1
    <3>3. pc[t] = "full"
      BY <2>1 DEF Congested
    <3>4. \A i \in DOMAIN a, j \in DOMAIN b : a[i] # b[j]
      <4>1. SUFFICES ASSUME NEW i \in DOMAIN a, NEW j \in DOMAIN b, a[i] = b[j]
                     PROVE  FALSE
        OBVIOUS
      <4>2. PICK k \in 1..made[t] : a[i] = Drop(t, k)
        BY <1>1, <3>2 DEF OwnOnce
      <4>3. InDrop(t, k)
        BY <3>2, <4>2 DEF InDrop
      <4>4. PICK x \in Mask(t) : todo[t][x].k = k
        BY <3>1, <3>2, <4>1, <4>2
      <4>5. InTodo(t, k)
        BY <3>3, <4>4 DEF InTodo, Mask, Pending
      <4>6. One(t, k)
        BY DEF ConsInv
      <4> QED
        BY <4>3, <4>5, <4>6, NowhereElse
    <3>5. a \o b \in Seq(Drops) /\ OwnOnce(t, a \o b)
      <4>1. a \o b \in Seq(Drops)
        BY ConcatProperties
      <4> QED
        BY <1>1, <3>1, <3>2, <3>4, <4>1, OwnOnceConcat
    <3>6. \A k : (\E i \in DOMAIN (a \o b) : (a \o b)[i] = Drop(t, k)) <=> InDrop(t, k) \/ Gone(k)
      <4>1. \A k : (\E i \in DOMAIN (a \o b) : (a \o b)[i] = Drop(t, k))
                     <=> \/ \E i \in DOMAIN a : a[i] = Drop(t, k)
                         \/ \E i \in DOMAIN b : b[i] = Drop(t, k)
        <5>1. \A k : Has(a \o b, Drop(t, k)) <=> Has(a, Drop(t, k)) \/ Has(b, Drop(t, k))
          BY ConcatElements
        <5> QED
          BY <5>1 DEF Has
      <4> QED
        BY <3>1, <3>2, <3>3, <4>1 DEF InDrop
    <3>7. \/ drop_list' = [drop_list EXCEPT ![t] = a \o b] /\ freed' = freed
          \/ /\ drop_list' = [drop_list EXCEPT ![t] = <<>>]
             /\ freed' = [freed EXCEPT ![t] = freed[t] \o (a \o b)]
      BY <2>1, <3>2 DEF Congested, Continue
    <3> HIDE DEF Gone
    <3> QED
      BY <3>5, <3>6, <3>7
  <2>2. CASE RaiseFlag(t)
    <3>1. pc[t] # "full" /\ drop_list[t] \in Seq(Drops)
      BY <1>1, <2>2 DEF RaiseFlag, Continue
    <3>2. \/ drop_list' = [drop_list EXCEPT ![t] = drop_list[t]] /\ freed' = freed
          \/ /\ drop_list' = [drop_list EXCEPT ![t] = <<>>]
             /\ freed' = [freed EXCEPT ![t] = freed[t] \o drop_list[t]]
      BY <2>2 DEF RaiseFlag, Continue
    <3>3. \A k : (\E i \in DOMAIN drop_list[t] : drop_list[t][i] = Drop(t, k))
                   <=> InDrop(t, k) \/ Gone(k)
      BY <3>1 DEF InDrop
    <3> HIDE DEF Gone
    <3> QED
      BY <1>1, <3>1, <3>2, <3>3
  <2> QED
    BY <2>1, <2>2
<1>6. ASSUME NEW k PROVE InTodo(t, k)' <=> Left(k)
  <2>1. PICK m \in SUBSET DOMAIN todo[t] : m = DOMAIN todo[t] \ Mask(t)
    OBVIOUS
  <2>2. todo[t] \in Seq(Item) /\ todo'[t] = Compress(todo[t], m)
    BY <1>0, <1>4, <2>1 DEF Types, Frame, Unmasked
  <2>3. \A i \in DOMAIN todo'[t] : \E x \in m : todo'[t][i] = todo[t][x]
    BY <2>2, CompressOrder
  <2>4. \A x \in m : \E i \in DOMAIN todo'[t] : todo'[t][i] = todo[t][x]
    BY <2>2, CompressAll
  <2>5. \A i : Pending(t, i)'
    BY <1>4 DEF Pending
  <2>6. InTodo(t, k)' <=> \E x \in m : todo[t][x].k = k
    BY <2>3, <2>4, <2>5 DEF InTodo
  <2> QED
    BY <2>1, <2>6
<1>7. ASSUME NEW k PROVE (InTodo(t, k) <=> Left(k) \/ Gone(k)) /\ ~(Left(k) /\ Gone(k))
  <2>1. CASE pc[t] = "full"
    <3>1. InTodo(t, k) <=> \E x \in DOMAIN todo[t] : todo[t][x].k = k
      BY <2>1 DEF InTodo, Pending
    <3>2. Mask(t) \subseteq DOMAIN todo[t]
      BY DEF Mask
    <3>3. \A x, y \in DOMAIN todo[t] : todo[t][x].k = todo[t][y].k => x = y
      <4>1. \A x, y \in DOMAIN todo[t] : x < y => todo[t][x].k < todo[t][y].k
        BY <1>0 DEF FrameOrder
      <4>2. \A x \in DOMAIN todo[t] : x \in Nat /\ todo[t][x].k \in Nat
        <5>1. todo[t] \in Seq(Item) /\ DOMAIN todo[t] = 1..Len(todo[t]) /\ Len(todo[t]) \in Nat
          BY <1>0, LenProperties DEF Types, Frame
        <5>2. \A x \in DOMAIN todo[t] : todo[t][x] \in Item
          BY <5>1, ElementOfSeq
        <5> QED
          BY <5>1, <5>2 DEF Item
      <4> QED
        BY <4>1, <4>2
    <3> QED
      BY <2>1, <3>1, <3>2, <3>3
  <2>2. CASE pc[t] = "flag"
    BY <2>2 DEF InTodo, Pending, Mask
  <2> QED
    BY <1>2, <2>1, <2>2
<1> HIDE DEF Left, Gone
<1>8. \A i \in DOMAIN g, j \in DOMAIN freed[t] : freed[t][j] # g[i]
  <2>1. SUFFICES ASSUME NEW i \in DOMAIN g, NEW j \in DOMAIN freed[t], freed[t][j] = g[i]
                 PROVE  FALSE
    OBVIOUS
  <2>2. PICK k \in 1..made[t] : g[i] = Drop(t, k)
    BY <1>5 DEF OwnOnce
  <2>3. InFreed(t, k)
    BY <2>1, <2>2 DEF InFreed
  <2>4. InDrop(t, k) \/ InTodo(t, k)
    BY <1>5, <1>7, <2>2
  <2>5. One(t, k)
    BY DEF ConsInv
  <2> QED
    BY <2>3, <2>4, <2>5, NowhereElse
<1>9. /\ drop_list' \in [Threads -> Seq(Drops)] /\ freed' \in [Threads -> Seq(Drops)]
      /\ OwnOnce(t, drop_list'[t]) /\ OwnOnce(t, freed'[t])
      /\ \A u \in Threads \ {t} : drop_list'[u] = drop_list[u] /\ freed'[u] = freed[u]
  <2>1. PICK a \in Seq(Drops) : a = freed[t]
    BY <1>1
  <2>2. a \o g \in Seq(Drops)
    BY ConcatProperties
  <2>3. OwnOnce(t, a \o g)
    BY <1>1, <1>5, <1>8, <2>1, OwnOnceConcat
  <2>4. <<>> \in Seq(Drops) /\ OwnOnce(t, <<>>)
    BY DEF OwnOnce
  <2> QED
    BY <1>1, <1>5, <2>1, <2>2, <2>3, <2>4
<1>10. ASSUME NEW k
       PROVE  \/ /\ InDrop(t, k)' <=> InDrop(t, k) \/ Gone(k)
                 /\ InFreed(t, k)' <=> InFreed(t, k)
              \/ /\ ~InDrop(t, k)'
                 /\ InFreed(t, k)' <=> InFreed(t, k) \/ InDrop(t, k) \/ Gone(k)
  <2>1. CASE drop_list' = [drop_list EXCEPT ![t] = g] /\ freed' = freed
    <3>1. drop_list'[t] = g
      BY <1>1, <2>1
    <3> QED
      BY <1>5, <2>1, <3>1 DEF InDrop, InFreed
  <2>2. CASE /\ drop_list' = [drop_list EXCEPT ![t] = <<>>]
             /\ freed' = [freed EXCEPT ![t] = freed[t] \o g]
    <3>1. drop_list'[t] = <<>> /\ freed'[t] = freed[t] \o g
      BY <1>1, <2>2
    <3>2. ~InDrop(t, k)'
      BY <3>1 DEF InDrop
    <3>3. PICK a \in Seq(Drops) : a = freed[t]
      BY <1>1
    <3>4. (\E i \in DOMAIN (a \o g) : (a \o g)[i] = Drop(t, k))
            <=> \/ \E i \in DOMAIN a : a[i] = Drop(t, k)
                \/ \E i \in DOMAIN g : g[i] = Drop(t, k)
      <4>1. Has(a \o g, Drop(t, k)) <=> Has(a, Drop(t, k)) \/ Has(g, Drop(t, k))
        BY ConcatElements
      <4> QED
        BY <4>1 DEF Has
    <3>5. InFreed(t, k)' <=> \E i \in DOMAIN (a \o g) : (a \o g)[i] = Drop(t, k)
      BY <3>1, <3>3 DEF InFreed
    <3>6. InFreed(t, k) <=> \E i \in DOMAIN a : a[i] = Drop(t, k)
      BY <3>3 DEF InFreed
    <3> QED
      BY <1>5, <3>2, <3>4, <3>5, <3>6
  <2> QED
    BY <1>5, <2>1, <2>2
<1>11. \A r, s \in Threads, i \in Slots, k \in Nat : InElt(r, i, s, k)' <=> InElt(r, i, s, k)
  BY <1>2, <1>4 DEF InElt, HeadSlot
<1>12. \A r, s \in Threads, k \in Nat : InNode(r, s, k)' <=> InNode(r, s, k)
  BY <1>2 DEF InNode
<1>13. ASSUME NEW s \in Threads, NEW k \in 1..made[s] PROVE One(s, k)'
  <2>0. One(s, k) /\ k \in Nat
    BY DEF ConsInv
  <2>1. CASE s # t
    <3>1. InTodo(s, k)' <=> InTodo(s, k)
      BY <1>4, <2>1 DEF InTodo, Pending, Dest
    <3>2. (InDrop(s, k)' <=> InDrop(s, k)) /\ (InFreed(s, k)' <=> InFreed(s, k))
      BY <1>9, <2>1 DEF InDrop, InFreed
    <3> QED
      BY <1>11, <1>12, <2>0, <3>1, <3>2, SameSpot
  <2>2. CASE s = t /\ ~InDrop(t, k) /\ ~Gone(k)
    <3>1. InTodo(s, k)' <=> InTodo(s, k)
      BY <1>6, <1>7, <2>2
    <3>2. (InDrop(s, k)' <=> InDrop(s, k)) /\ (InFreed(s, k)' <=> InFreed(s, k))
      BY <1>10, <2>2
    <3> QED
      BY <1>11, <1>12, <2>0, <3>1, <3>2, SameSpot
  <2>3. CASE s = t /\ (InDrop(t, k) \/ Gone(k))
    <3>1. InDrop(t, k) \/ InTodo(t, k)
      BY <1>7, <2>3
    <3>2. /\ ~InFreed(t, k)
          /\ \A r \in Threads, i \in Slots : ~InElt(r, i, t, k)
          /\ \A r \in Threads : ~InNode(r, t, k)
      BY <2>0, <2>3, <3>1, NowhereElse
    <3>3. ~InTodo(t, k)'
      <4>1. CASE Gone(k)
        BY <1>6, <1>7, <4>1
      <4>2. CASE InDrop(t, k)
        <5>1. ~InTodo(t, k)
          BY <2>0, <2>3, <4>2, NowhereElse
        <5> QED
          BY <1>6, <1>7, <5>1
      <4> QED
        BY <2>3, <4>1, <4>2
    <3>4. /\ \A r \in Threads, i \in Slots : ~InElt(r, i, t, k)'
          /\ \A r \in Threads : ~InNode(r, t, k)'
      BY <1>11, <1>12, <2>0, <3>2
    <3>5. CASE InDrop(t, k)' /\ ~InFreed(t, k)'
      BY <2>3, <3>3, <3>4, <3>5, LeftInDrop
    <3>6. CASE ~InDrop(t, k)' /\ InFreed(t, k)'
      BY <2>3, <3>3, <3>4, <3>6, LeftInFreed
    <3> QED
      BY <1>10, <2>3, <3>2, <3>5, <3>6
  <2> QED
    BY <2>1, <2>2, <2>3
<1>14. ASSUME NEW u \in Threads PROVE Numbered(u)'
  <2>1. CASE u # t
    BY <1>2, <1>4, <2>1 DEF ConsInv, Numbered
  <2>2. CASE u = t
    <3>1. \A i \in DOMAIN todo'[t] : \E x \in DOMAIN todo[t] : todo'[t][i] = todo[t][x]
      <4>1. todo[t] \in Seq(Item) /\ DOMAIN todo[t] \ Mask(t) \in SUBSET DOMAIN todo[t]
        BY <1>0 DEF Types, Frame
      <4>2. \A i \in DOMAIN Unmasked(t) : \E x \in DOMAIN todo[t] \ Mask(t) : Unmasked(t)[i] = todo[t][x]
        BY <4>1, CompressOrder DEF Unmasked
      <4> QED
        BY <1>4, <4>2
    <3>2. \A i \in DOMAIN todo'[t] : todo'[t][i].k \in 1..made'[t]
      BY <1>2, <3>1 DEF ConsInv, Numbered
    <3>3. pc'[t] \notin Enqueuing => todo'[t] = <<>>
      BY <1>3, <1>4 DEF Enqueuing
    <3> QED
      BY <2>2, <3>2, <3>3 DEF Numbered
  <2> QED
    BY <2>1, <2>2
<1>15. ASSUME NEW u \in Threads PROVE OwnOnce(u, drop_list[u])' /\ OwnOnce(u, freed[u])'
  <2>1. CASE u # t
    BY <1>2, <1>9, <2>1 DEF ConsInv, OwnOnce
  <2>2. CASE u = t
    BY <1>2, <1>9, <2>2 DEF OwnOnce
  <2> QED
    BY <2>1, <2>2
<1> QED
  BY <1>2, <1>9, <1>13, <1>14, <1>15 DEF ConsInv

\* A filled element holds the packets that the frame no longer counts.
LEMMA FillCons ==
  ASSUME IInv, OrderInv, ConsInv, NEW t \in Threads, Fill(t)
  PROVE  ConsInv'
<1> USE DEF Goto
<1> DEFINE Put(k) == \E x \in Mask(t) : todo[t][x].k = k
<1>0. Types /\ FrameOrder(t) /\ t \in Owners
  BY DEF IInv, OrderInv, Fill, Owners
<1>1. PICK d \in Threads : d = Dest(t)
  BY <1>0, DestType DEF IInv, LocalInv, FrameInv, Owners, Enqueuing
<1>2. PICK i \in Slots : i = Slot(new_tail[t])
  BY <1>0, SlotProperties DEF Types
<1>3. PICK b \in Seq(Packets) : b = Buffers(t) /\ Len(b) \in Nat
  BY <1>0, UnmaskedProperties, LenProperties
<1>4. PICK e \in Element : e = elts[d][i] /\ e.offset = 0 /\ e.n_vectors = 0 /\ ~e.valid
  <2>1. elts[d][i] \in Element
    BY <1>0 DEF Types
  <2>2. elts[d][i].offset = 0 /\ elts[d][i].n_vectors = 0 /\ ~elts[d][i].valid
    BY <1>0, <1>1, <1>2 DEF IInv, SharedInv, ClaimInv, Fill
  <2> QED
    BY <2>1, <2>2
<1>5. PICK f \in Element : /\ f = [e EXCEPT !.buffer_index = b, !.n_vectors = Len(b)]
                           /\ f.buffer_index = b /\ Held(f) = 1..Len(b)
  <2> DEFINE f == [e EXCEPT !.buffer_index = b, !.n_vectors = Len(b)]
  <2>1. f \in Element /\ f.buffer_index = b /\ f.n_vectors = Len(b) /\ f.offset = 0
    BY <1>3, <1>4 DEF Element
  <2> HIDE DEF f
  <2>2. Held(f) = 1..Len(b)
    BY <1>3, <2>1 DEF Held
  <2> QED
    BY <2>1, <2>2 DEF f
<1>6. elts' = [elts EXCEPT ![d][i] = f]
  BY <1>1, <1>2, <1>3, <1>4, <1>5 DEF Fill
<1>7. /\ elts'[d][i] = f
      /\ \A r \in Threads, j \in Slots : r # d \/ j # i => elts'[r][j] = elts[r][j]
  <2>1. elts \in [Threads -> [Slots -> Element]] /\ d \in Threads /\ i \in Slots
    BY <1>0 DEF Types
  <2> QED
    BY <1>6, <2>1
<1>8. /\ UNCHANGED <<head, delivered, todo, made, drop_list, freed>>
      /\ pc[t] = "fill" /\ \A u \in Threads : pc'[u] = IF u = t THEN "publish" ELSE pc[u]
  BY <1>0 DEF Fill, Types, dequeueVars, enqueueVars
<1>9. \A r \in Threads : HeadSlot(r)' = HeadSlot(r)
  BY <1>8 DEF HeadSlot
<1>10. ~(pc'[d] = "reset" /\ i = HeadSlot(d))
  <2>1. SUFFICES ASSUME pc'[d] = "reset", i = HeadSlot(d) PROVE FALSE
    OBVIOUS
  <2>2. pc[d] = "reset"
    BY <1>8, <2>1
  <2>3. HeadElt(d).valid
    BY <2>2 DEF IInv, SharedInv, HeadInv
  <2> QED
    BY <1>4, <2>1, <2>3 DEF HeadElt
<1>11. ASSUME NEW s \in Threads, NEW k PROVE ~InElt(d, i, s, k)
  <2>1. Held(elts[d][i]) = {}
    BY <1>4 DEF Held
  <2> QED
    BY <2>1 DEF InElt
<1>12. ASSUME NEW s \in Threads, NEW k PROVE InElt(d, i, s, k)' <=> s = t /\ Put(k)
  <2>1. InElt(d, i, s, k)' <=> \E j \in 1..Len(b) : b[j] = <<s, k>>
    BY <1>5, <1>7, <1>9, <1>10 DEF InElt
  <2>2. CASE s = t
    BY <1>0, <1>3, <2>1, <2>2, BuffersAll
  <2>3. CASE s # t
    <3>1. \A j \in 1..Len(b) : b[j][1] = t
      BY <1>0, <1>3, BuffersOrder
    <3> QED
      BY <2>1, <2>3, <3>1
  <2> QED
    BY <2>2, <2>3
<1>13. \A r, s \in Threads, j \in Slots, k \in Nat :
         r # d \/ j # i => (InElt(r, j, s, k)' <=> InElt(r, j, s, k))
  BY <1>7, <1>8, <1>9 DEF InElt
<1>14. \A s \in Threads, k \in Nat : /\ InDrop(s, k)' <=> InDrop(s, k)
                                     /\ InFreed(s, k)' <=> InFreed(s, k)
                                     /\ \A r \in Threads : InNode(r, s, k)' <=> InNode(r, s, k)
  BY <1>8 DEF InDrop, InFreed, InNode
<1>15. ASSUME NEW k PROVE /\ Put(k) => InTodo(t, k) /\ ~InTodo(t, k)'
                          /\ ~Put(k) => (InTodo(t, k)' <=> InTodo(t, k))
  <2>1. \A x \in DOMAIN todo[t] : Pending(t, x) /\ (Pending(t, x)' <=> x \notin Mask(t))
    BY <1>8 DEF Pending, Mask, Dest
  <2>2. Mask(t) \subseteq DOMAIN todo[t]
    BY DEF Mask
  <2>3. \A x, y \in DOMAIN todo[t] : todo[t][x].k = todo[t][y].k => x = y
    <3>1. \A x, y \in DOMAIN todo[t] : x < y => todo[t][x].k < todo[t][y].k
      BY <1>0 DEF FrameOrder
    <3>2. \A x \in DOMAIN todo[t] : x \in Nat /\ todo[t][x].k \in Nat
      <4>1. todo[t] \in Seq(Item) /\ DOMAIN todo[t] = 1..Len(todo[t]) /\ Len(todo[t]) \in Nat
        BY <1>0, LenProperties DEF Types, Frame
      <4>2. \A x \in DOMAIN todo[t] : todo[t][x] \in Item
        BY <4>1, ElementOfSeq
      <4> QED
        BY <4>1, <4>2 DEF Item
    <3> QED
      BY <3>1, <3>2
  <2>4. todo' = todo
    BY <1>8
  <2>5. Put(k) => InTodo(t, k)
    BY <2>1, <2>2 DEF InTodo
  <2>6. Put(k) => ~InTodo(t, k)'
    BY <2>1, <2>2, <2>3, <2>4 DEF InTodo
  <2>7. ~Put(k) => (InTodo(t, k)' <=> InTodo(t, k))
    BY <2>1, <2>4 DEF InTodo
  <2> QED
    BY <2>5, <2>6, <2>7
<1> HIDE DEF Put
<1>16. ASSUME NEW s \in Threads, NEW k \in 1..made[s] PROVE One(s, k)'
  <2>0. One(s, k) /\ k \in Nat
    BY DEF ConsInv
  <2>1. CASE s = t /\ Put(k)
    <3>1. InTodo(s, k) /\ ~InTodo(s, k)'
      BY <1>15, <2>1
    <3>2. /\ ~InDrop(s, k) /\ ~InFreed(s, k)
          /\ \A r \in Threads, j \in Slots : ~InElt(r, j, s, k)
          /\ \A r \in Threads : ~InNode(r, s, k)
      BY <2>0, <3>1, NowhereElse
    <3>3. ~InDrop(s, k)' /\ ~InFreed(s, k)' /\ \A r \in Threads : ~InNode(r, s, k)'
      BY <1>14, <2>0, <3>2
    <3>4. InElt(d, i, s, k)' /\ \A r \in Threads, j \in Slots : InElt(r, j, s, k)' => r = d /\ j = i
      BY <1>12, <1>13, <2>0, <2>1, <3>2
    <3> QED
      BY <3>1, <3>3, <3>4, LeftInElt
  <2>2. CASE ~(s = t /\ Put(k))
    <3>1. InTodo(s, k)' <=> InTodo(s, k)
      <4>1. CASE s = t
        BY <1>15, <2>2, <4>1
      <4>2. CASE s # t
        BY <1>8, <4>2 DEF InTodo, Pending, Dest
      <4> QED
        BY <4>1, <4>2
    <3>2. \A r \in Threads, j \in Slots : InElt(r, j, s, k)' <=> InElt(r, j, s, k)
      BY <1>11, <1>12, <1>13, <2>0, <2>2
    <3> QED
      BY <1>14, <2>0, <3>1, <3>2, SameSpot
  <2> QED
    BY <2>1, <2>2
<1>17. ASSUME NEW u \in Threads
       PROVE  Numbered(u)' /\ OwnOnce(u, drop_list[u])' /\ OwnOnce(u, freed[u])'
  <2>1. Numbered(u) /\ OwnOnce(u, drop_list[u]) /\ OwnOnce(u, freed[u])
    BY DEF ConsInv
  <2>2. OwnOnce(u, drop_list[u])' /\ OwnOnce(u, freed[u])'
    BY <1>8, <2>1 DEF OwnOnce
  <2>3. pc'[u] \in Enqueuing <=> pc[u] \in Enqueuing
    BY <1>8 DEF Enqueuing
  <2> QED
    BY <1>8, <2>1, <2>2, <2>3 DEF Numbered
<1> QED
  BY <1>8, <1>16, <1>17 DEF ConsInv

\* What a copy adds to what the node has.
LEMMA DeliverAll ==
  ASSUME IInv, OrderInv, NEW t \in Threads, DequeueElt(t), NEW s \in Threads, NEW k
  PROVE  InNode(t, s, k)' <=>
           \/ InNode(t, s, k)
           \/ \E x \in 1..NCopy(t) : HeadElt(t).buffer_index[HeadElt(t).offset + x] = <<s, k>>
<1> DEFINE old == delivered[t][s]
           mask == {x \in DOMAIN Copied(t) : Copied(t)[x][1] = s}
           add == Compress(Copied(t), mask)
<1>1. Types /\ Sorted(HeadElt(t)) /\ old \in Seq(Packets)
  <2>1. Types /\ HeadElt(t) = elts[t][HeadSlot(t)] /\ HeadSlot(t) \in Slots
    BY HeadElement DEF IInv, HeadElt
  <2> QED
    BY <2>1 DEF OrderInv, RingOrder
<1>2. delivered'[t][s] = old \o add
  BY DEF DequeueElt, OrderInv
<1>3. /\ Copied(t) \in Seq(Packets) /\ mask \in SUBSET DOMAIN Copied(t)
      /\ DOMAIN Copied(t) = 1..NCopy(t)
      /\ \A x \in 1..NCopy(t) : Copied(t)[x] = HeadElt(t).buffer_index[HeadElt(t).offset + x]
  BY <1>1, CopiedProperties
<1>4. \A x \in DOMAIN Copied(t) : Copied(t)[x] = <<s, k>> => x \in mask
  OBVIOUS
<1> HIDE DEF old, mask, add
<1>5. add \in Seq(Packets)
  BY <1>3, CompressProperties DEF add
<1>6. Has(old \o add, <<s, k>>) <=> Has(old, <<s, k>>) \/ Has(add, <<s, k>>)
  BY <1>1, <1>5, ConcatElements
<1>7. Has(add, <<s, k>>) <=> \E x \in 1..NCopy(t) : Copied(t)[x] = <<s, k>>
  <2>1. \A j \in DOMAIN add : \E x \in mask : add[j] = Copied(t)[x]
    <3>1. PICK q \in Seq(Packets) : q = Copied(t) /\ mask \in SUBSET DOMAIN q
      BY <1>3
    <3>2. \A j \in DOMAIN Compress(q, mask) : \E x \in mask : Compress(q, mask)[j] = q[x]
      BY <3>1, CompressOrder
    <3> QED
      BY <3>1, <3>2 DEF add
  <2>2. \A x \in mask : \E j \in DOMAIN add : add[j] = Copied(t)[x]
    BY <1>3, CompressAll DEF add
  <2>3. ASSUME Has(add, <<s, k>>) PROVE \E x \in 1..NCopy(t) : Copied(t)[x] = <<s, k>>
    BY <1>3, <2>1, <2>3 DEF Has
  <2>4. ASSUME NEW x \in 1..NCopy(t), Copied(t)[x] = <<s, k>> PROVE Has(add, <<s, k>>)
    BY <1>3, <1>4, <2>2, <2>4 DEF Has
  <2> QED
    BY <2>3, <2>4
<1>8. InNode(t, s, k)' <=> Has(old \o add, <<s, k>>)
  BY <1>2 DEF InNode, Has
<1>9. InNode(t, s, k) <=> Has(old, <<s, k>>)
  BY DEF InNode, Has, old
<1> QED
  BY <1>3, <1>6, <1>7, <1>8, <1>9

\* A copy takes from the element what it delivers.
LEMMA DequeueCons ==
  ASSUME IInv, OrderInv, ConsInv, NEW t \in Threads, DequeueElt(t)
  PROVE  ConsInv'
<1> USE DEF Goto
<1>0. Types
  BY DEF IInv
<1>1. PICK i \in Slots, H \in Element : i = HeadSlot(t) /\ H = HeadElt(t) /\ H = elts[t][i]
  BY <1>0, HeadElement DEF HeadElt
<1>2. PICK c \in Nat, o \in Nat, n \in Nat :
        c = NCopy(t) /\ o = H.offset /\ n = H.n_vectors /\ c <= n
  <2>1. NCopy(t) \in 0..H.n_vectors /\ H.n_vectors \in Nat /\ H.offset \in Nat
    BY <1>0, <1>1, CopyProperties
  <2>2. NCopy(t) \in Nat /\ NCopy(t) <= H.n_vectors
    BY <2>1
  <2> QED
    BY <2>1, <2>2
<1> DEFINE Taking(s, k) == \E x \in 1..c : H.buffer_index[o + x] = <<s, k>>
<1>3. Sorted(H)
  BY <1>1 DEF OrderInv, RingOrder
<1>4. UNCHANGED <<head, todo, made, drop_list, freed>> /\ pc[t] = "dequeue"
  BY DEF DequeueElt, enqueueVars
<1>5. PICK q \in {"reset", "polled", "dequeue"} :
        /\ pc' = [pc EXCEPT ![t] = q]
        /\ q = "reset" <=> c = n
        /\ elts' = IF c = n THEN elts ELSE [elts EXCEPT ![t][i] = Rest(H, c)]
  BY <1>1, <1>2 DEF DequeueElt, AfterElt
<1>6. \A u \in Threads : pc'[u] = IF u = t THEN q ELSE pc[u]
  BY <1>0, <1>5 DEF Types
<1>7. \A r \in Threads : HeadSlot(r)' = HeadSlot(r)
  BY <1>4 DEF HeadSlot
<1>8. Held(H) = (o + 1)..(o + n)
  BY <1>2 DEF Held
<1>9. ASSUME NEW s \in Threads, NEW k, Taking(s, k) PROVE InElt(t, i, s, k)
  <2>1. \A x \in 1..c : o + x \in Held(H)
    BY <1>2, <1>8
  <2> QED
    BY <1>1, <1>4, <1>9, <2>1 DEF InElt
<1>10. ASSUME NEW s \in Threads, NEW k \in Nat
       PROVE  InElt(t, i, s, k)' <=> InElt(t, i, s, k) /\ ~Taking(s, k)
  <2>0. InElt(t, i, s, k) <=> \E j \in Held(H) : H.buffer_index[j] = <<s, k>>
    BY <1>1, <1>4 DEF InElt
  <2>1. CASE c = n
    <3>1. ~InElt(t, i, s, k)'
      <4>1. pc'[t] = "reset" /\ i = HeadSlot(t)'
        BY <1>1, <1>5, <1>6, <1>7, <2>1
      <4> QED
        BY <4>1 DEF InElt
    <3>2. \A j \in Held(H) : j - o \in 1..c /\ o + (j - o) = j
      <4>1. c \in Nat /\ o \in Nat /\ Held(H) = (o + 1)..(o + c)
        BY <1>8, <2>1
      <4> QED
        BY <4>1
    <3>3. InElt(t, i, s, k) => Taking(s, k)
      BY <2>0, <3>2
    <3> QED
      BY <3>1, <3>3
  <2>2. CASE c # n
    <3>1. elts'[t][i] = Rest(H, c)
      BY <1>0, <1>5, <2>2 DEF Types
    <3>2. /\ Rest(H, c).buffer_index = H.buffer_index
          /\ Rest(H, c).offset = o + c /\ Rest(H, c).n_vectors = n - c
      BY <1>2 DEF Rest, Element
    <3>3. Held(elts'[t][i]) = (o + c + 1)..(o + n)
      <4>1. (o + c) + (n - c) = o + n
        BY <1>2
      <4> QED
        BY <3>1, <3>2, <4>1 DEF Held
    <3>4. InElt(t, i, s, k)' <=> \E j \in (o + c + 1)..(o + n) : H.buffer_index[j] = <<s, k>>
      <4>1. pc'[t] # "reset" /\ elts'[t][i].buffer_index = H.buffer_index
        BY <1>5, <1>6, <2>2, <3>1, <3>2
      <4> QED
        BY <3>3, <4>1 DEF InElt
    <3>5. \A j \in (o + c + 1)..(o + n) :
            /\ j \in (o + 1)..(o + n)
            /\ \A x \in 1..c : o + x \in (o + 1)..(o + n) /\ o + x < j
      BY <1>2
    <3>6. \A j \in Held(H) : j \in (o + c + 1)..(o + n) \/ (j - o \in 1..c /\ o + (j - o) = j)
      BY <1>2, <1>8
    <3>7. ASSUME InElt(t, i, s, k)' PROVE InElt(t, i, s, k) /\ ~Taking(s, k)
      <4>1. PICK j \in (o + c + 1)..(o + n) : H.buffer_index[j] = <<s, k>>
        BY <3>4, <3>7
      <4>2. ASSUME NEW x \in 1..c, H.buffer_index[o + x] = <<s, k>> PROVE FALSE
        <5>1. Number(H, o + x) < Number(H, j)
          BY <1>3, <1>8, <3>5 DEF Sorted
        <5>2. Number(H, o + x) = k /\ Number(H, j) = k
          BY <4>1, <4>2 DEF Number
        <5> QED
          BY <5>1, <5>2
      <4> QED
        BY <1>8, <2>0, <3>5, <4>1, <4>2
    <3>8. ASSUME InElt(t, i, s, k), ~Taking(s, k) PROVE InElt(t, i, s, k)'
      <4>1. PICK j \in Held(H) : H.buffer_index[j] = <<s, k>>
        BY <2>0, <3>8
      <4>2. CASE j \in (o + c + 1)..(o + n)
        BY <3>4, <4>1, <4>2
      <4>3. CASE j - o \in 1..c /\ o + (j - o) = j
        BY <3>8, <4>1, <4>3
      <4> QED
        BY <3>6, <4>2, <4>3
    <3> QED
      BY <3>7, <3>8
  <2> QED
    BY <2>1, <2>2
<1>11. ASSUME NEW r \in Threads, NEW s \in Threads, NEW j \in Slots, NEW k \in Nat, r # t \/ j # i
       PROVE  InElt(r, j, s, k)' <=> InElt(r, j, s, k)
  <2>1. elts'[r][j] = elts[r][j]
    BY <1>0, <1>5, <1>11 DEF Types
  <2>2. (pc'[r] = "reset" /\ j = HeadSlot(r)) <=> (pc[r] = "reset" /\ j = HeadSlot(r))
    BY <1>1, <1>6, <1>11
  <2> QED
    BY <1>7, <2>1, <2>2 DEF InElt
<1>12. ASSUME NEW s \in Threads, NEW k \in Nat
       PROVE  /\ InNode(t, s, k)' <=> InNode(t, s, k) \/ Taking(s, k)
              /\ \A r \in Threads \ {t} : InNode(r, s, k)' <=> InNode(r, s, k)
  <2>1. InNode(t, s, k)' <=> InNode(t, s, k) \/ Taking(s, k)
    BY <1>1, <1>2, DeliverAll
  <2>2. \A r \in Threads \ {t} : delivered'[r] = delivered[r]
    BY DEF DequeueElt, OrderInv
  <2> QED
    BY <2>1, <2>2 DEF InNode
<1>13. \A s \in Threads, k \in Nat : /\ InTodo(s, k)' <=> InTodo(s, k)
                                     /\ InDrop(s, k)' <=> InDrop(s, k)
                                     /\ InFreed(s, k)' <=> InFreed(s, k)
  BY <1>4, <1>6 DEF InTodo, Pending, Dest, InDrop, InFreed
<1> HIDE DEF Taking
<1>14. ASSUME NEW s \in Threads, NEW k \in 1..made[s] PROVE One(s, k)'
  <2>0. One(s, k) /\ k \in Nat
    BY DEF ConsInv
  <2>1. CASE Taking(s, k)
    <3>1. InElt(t, i, s, k)
      BY <1>9, <2>1
    <3>2. /\ ~InTodo(s, k) /\ ~InDrop(s, k) /\ ~InFreed(s, k)
          /\ \A r \in Threads : ~InNode(r, s, k)
          /\ \A r \in Threads, j \in Slots : InElt(r, j, s, k) => r = t /\ j = i
      BY <2>0, <3>1, NowhereElse
    <3>3. ~InTodo(s, k)' /\ ~InDrop(s, k)' /\ ~InFreed(s, k)'
      BY <1>13, <2>0, <3>2
    <3>4. InNode(t, s, k)' /\ \A r \in Threads : InNode(r, s, k)' => r = t
      BY <1>12, <2>0, <2>1, <3>2
    <3>5. \A r \in Threads, j \in Slots : ~InElt(r, j, s, k)'
      BY <1>10, <1>11, <2>0, <2>1, <3>2
    <3> QED
      BY <3>3, <3>4, <3>5, LeftInNode
  <2>2. CASE ~Taking(s, k)
    <3>1. \A r \in Threads, j \in Slots : InElt(r, j, s, k)' <=> InElt(r, j, s, k)
      BY <1>10, <1>11, <2>0, <2>2
    <3>2. \A r \in Threads : InNode(r, s, k)' <=> InNode(r, s, k)
      BY <1>12, <2>0, <2>2
    <3> QED
      BY <1>13, <2>0, <3>1, <3>2, SameSpot
  <2> QED
    BY <2>1, <2>2
<1>15. ASSUME NEW u \in Threads
       PROVE  Numbered(u)' /\ OwnOnce(u, drop_list[u])' /\ OwnOnce(u, freed[u])'
  <2>1. Numbered(u) /\ OwnOnce(u, drop_list[u]) /\ OwnOnce(u, freed[u])
    BY DEF ConsInv
  <2>2. OwnOnce(u, drop_list[u])' /\ OwnOnce(u, freed[u])'
    BY <1>4, <1>6, <2>1 DEF OwnOnce
  <2>3. pc'[u] \in Enqueuing <=> pc[u] \in Enqueuing
    BY <1>4, <1>6, <1>5 DEF Enqueuing
  <2> QED
    BY <1>4, <1>6, <2>1, <2>2, <2>3 DEF Numbered
<1> QED
  BY <1>4, <1>14, <1>15 DEF ConsInv
-----------------------------------------------------------------------------
(* From spots to the places that Conserved counts.                         *)

\* The content of an element are the packets it holds.
LEMMA ContentHeld ==
  ASSUME NEW e \in Element, Sorted(e), NEW v
  PROVE  v \in ToSet(Content(e)) <=> \E j \in Held(e) : e.buffer_index[j] = v
<1>1. PICK o \in Nat, n \in Nat : o = e.offset /\ n = e.n_vectors
  BY DEF Element
<1>2. PICK b \in Seq(Packets) : b = e.buffer_index
  BY DEF Element
<1>3. \A j \in (o + 1)..(o + n) : b[j] \in Packets
  BY <1>1, <1>2, HeldPacket DEF Held
<1>4. PICK body : body = SubSeq(b, o + 1, o + n) /\ body = Content(e)
  BY <1>1, <1>2 DEF Content
<1>5. PICK f \in Int, l \in Int : f = o + 1 /\ l = o + n
  OBVIOUS
<1>6. /\ body \in Seq(Packets)
      /\ Len(body) = IF f <= l THEN l - f + 1 ELSE 0
      /\ \A j \in 1..(l - f + 1) : body[j] = b[f + j - 1]
  <2>1. \A j \in f..l : b[j] \in Packets
    BY <1>3, <1>5
  <2>2. body = SubSeq(b, f, l)
    BY <1>4, <1>5
  <2>3. /\ SubSeq(b, f, l) \in Seq(Packets)
        /\ Len(SubSeq(b, f, l)) = IF f <= l THEN l - f + 1 ELSE 0
        /\ \A j \in 1..(l - f + 1) : SubSeq(b, f, l)[j] = b[f + j - 1]
    BY <2>1, SubSeqProperties
  <2> QED
    BY <2>2, <2>3
<1>7. Len(body) = n /\ l - f + 1 = n
  BY <1>5, <1>6
<1>8. DOMAIN body = 1..n
  BY <1>6, <1>7, LenProperties
<1>9. \A j \in 1..n : o + j \in (o + 1)..(o + n) /\ body[j] = b[o + j]
  BY <1>5, <1>6, <1>7
<1>10. \A j \in (o + 1)..(o + n) : j - o \in 1..n /\ o + (j - o) = j
  OBVIOUS
<1>11. v \in ToSet(body) <=> \E j \in 1..n : body[j] = v
  BY <1>8 DEF ToSet
<1>12. Held(e) = (o + 1)..(o + n)
  BY <1>1 DEF Held
<1>13. ASSUME NEW j \in 1..n, body[j] = v PROVE \E x \in Held(e) : b[x] = v
  BY <1>9, <1>12, <1>13
<1>14. ASSUME NEW x \in Held(e), b[x] = v PROVE \E j \in 1..n : body[j] = v
  BY <1>9, <1>10, <1>12, <1>14
<1> QED
  BY <1>2, <1>4, <1>11, <1>13, <1>14

\* The places of a packet, by the kind of its spot.
WaitingFor(s, k) == {i \in DOMAIN todo[s] : todo[s][i].k = k /\ Pending(s, i)}
DropPlaces(s, k) == {i \in DOMAIN drop_list[s] : drop_list[s][i] = Drop(s, k)}
FreedPlaces(s, k) == {i \in DOMAIN freed[s] : freed[s][i] = Drop(s, k)}

LEMMA PlacesSpots ==
  ASSUME IInv, OrderInv, NEW s \in Threads, NEW k
  PROVE  Places(s, k) = {<<"todo", i>> : i \in WaitingFor(s, k)}
           \cup {<<"drop", i>> : i \in DropPlaces(s, k)}
           \cup {<<"freed", i>> : i \in FreedPlaces(s, k)}
           \cup {<<"node", q>> : q \in {r \in Threads : InNode(r, s, k)}}
           \cup {x \in {<<"ring", q, i>> : q \in Threads, i \in Slots} : InElt(x[2], x[3], s, k)}
<1> DEFINE W == {j \in DOMAIN todo[s] :
                   /\ todo[s][j].k = k
                   /\ ~(pc[s] \in {"publish", "flag"} /\ todo[s][j].to = Dest(s))}
           D == {j \in DOMAIN drop_list[s] : drop_list[s][j] = [aux |-> FALSE, p |-> <<s, k>>]}
           F == {j \in DOMAIN freed[s] : freed[s][j] = [aux |-> FALSE, p |-> <<s, k>>]}
           N == {d \in Threads : <<s, k>> \in ToSet(delivered[d][s])}
<1>1. WaitingFor(s, k) = W
  BY DEF WaitingFor, Pending
<1>2. DropPlaces(s, k) = D /\ FreedPlaces(s, k) = F
  BY DEF DropPlaces, FreedPlaces, Drop
<1>3. {r \in Threads : InNode(r, s, k)} = N
  BY DEF InNode, ToSet
<1>4. ASSUME NEW q \in Threads, NEW i \in Slots
      PROVE  i \in OnRing(q, <<s, k>>) <=> InElt(q, i, s, k)
  <2>1. elts[q][i] \in Element /\ Sorted(elts[q][i])
    BY DEF IInv, Types, OrderInv, RingOrder
  <2>2. <<s, k>> \in ToSet(Content(elts[q][i]))
          <=> \E j \in Held(elts[q][i]) : elts[q][i].buffer_index[j] = <<s, k>>
    BY <2>1, ContentHeld
  <2> QED
    BY <2>2 DEF OnRing, InElt, Slots
<1> DEFINE rings == {<<"ring", q, i>> : q \in Threads, i \in Slots}
<1>5. {x \in rings : x[3] \in OnRing(x[2], <<s, k>>)} = {x \in rings : InElt(x[2], x[3], s, k)}
  <2>1. \A x \in rings : x[2] \in Threads /\ x[3] \in Slots
    OBVIOUS
  <2> HIDE DEF rings
  <2> QED
    BY <1>4, <2>1
<1>6. Places(s, k) = {<<"todo", i>> : i \in W} \cup {<<"drop", i>> : i \in D}
           \cup {<<"freed", i>> : i \in F} \cup {<<"node", q>> : q \in N}
           \cup {x \in rings : x[3] \in OnRing(x[2], <<s, k>>)}
  BY DEF Places, Slots
<1> HIDE DEF rings, W, D, F, N
<1>7. Places(s, k) = {<<"todo", i>> : i \in WaitingFor(s, k)}
           \cup {<<"drop", i>> : i \in DropPlaces(s, k)}
           \cup {<<"freed", i>> : i \in FreedPlaces(s, k)}
           \cup {<<"node", q>> : q \in {r \in Threads : InNode(r, s, k)}}
           \cup {x \in rings : x[3] \in OnRing(x[2], <<s, k>>)}
  BY <1>1, <1>2, <1>3, <1>6, Zenon
<1> QED
  BY <1>5, <1>7 DEF rings

LEMMA OnePlace ==
  ASSUME IInv, OrderInv, ConsInv, NEW s \in Threads, NEW k \in 1..made[s]
  PROVE  Cardinality(Places(s, k)) = 1
<1> DEFINE W == WaitingFor(s, k)
           D == DropPlaces(s, k)
           F == FreedPlaces(s, k)
           N == {r \in Threads : InNode(r, s, k)}
           rings == {<<"ring", q, i>> : q \in Threads, i \in Slots}
           R == {x \in rings : InElt(x[2], x[3], s, k)}
           P == {<<"todo", i>> : i \in W} \cup {<<"drop", i>> : i \in D}
                  \cup {<<"freed", i>> : i \in F} \cup {<<"node", q>> : q \in N} \cup R
<1>1. Places(s, k) = P
  BY PlacesSpots
<1>2. One(s, k)
  BY DEF ConsInv
<1>3. PICK c \in Kinds, q \in Threads, i \in Slots : At(c, q, i, s, k)
  BY <1>2 DEF One
<1>4. \A x, y \in W : x = y
  <2>1. \A x, y \in DOMAIN todo[s] : x < y => todo[s][x].k < todo[s][y].k
    BY DEF OrderInv, FrameOrder
  <2>2. \A x \in DOMAIN todo[s] : x \in Nat /\ todo[s][x].k \in Nat
    <3>1. todo[s] \in Seq(Item) /\ DOMAIN todo[s] = 1..Len(todo[s]) /\ Len(todo[s]) \in Nat
      BY LenProperties DEF IInv, Types, Frame
    <3>2. \A x \in DOMAIN todo[s] : todo[s][x] \in Item
      BY <3>1, ElementOfSeq
    <3> QED
      BY <3>1, <3>2 DEF Item
  <2> QED
    BY <2>1, <2>2 DEF WaitingFor
<1>5. (\A x, y \in D : x = y) /\ (\A x, y \in F : x = y)
  BY DEF ConsInv, OwnOnce, DropPlaces, FreedPlaces
<1>6. /\ W = {} <=> ~InTodo(s, k)
      /\ D = {} <=> ~InDrop(s, k)
      /\ F = {} <=> ~InFreed(s, k)
  BY DEF WaitingFor, DropPlaces, FreedPlaces, InTodo, InDrop, InFreed
<1>7. ASSUME \A r \in Threads, j \in Slots : ~InElt(r, j, s, k)
      PROVE  R = {}
  BY <1>7
<1> HIDE DEF W, D, F, R
<1>8. \E v : P = {v}
  <2>1. CASE InTodo(s, k)
    <3>1. ~InDrop(s, k) /\ ~InFreed(s, k) /\ N = {} /\ R = {}
      BY <1>2, <1>7, <2>1, NowhereElse
    <3>2. PICK x : W = {x}
      <4>1. PICK x : x \in W
        BY <1>6, <2>1
      <4>2. W = {x}
        BY <1>4, <4>1
      <4> QED
        BY <4>2
    <3>3. P = {<<"todo", x>>}
      BY <1>6, <3>1, <3>2
    <3> QED
      BY <3>3
  <2>2. CASE InDrop(s, k)
    <3>1. ~InTodo(s, k) /\ ~InFreed(s, k) /\ N = {} /\ R = {}
      BY <1>2, <1>7, <2>2, NowhereElse
    <3>2. PICK x : D = {x}
      <4>1. PICK x : x \in D
        BY <1>6, <2>2
      <4>2. D = {x}
        BY <1>5, <4>1
      <4> QED
        BY <4>2
    <3>3. P = {<<"drop", x>>}
      BY <1>6, <3>1, <3>2
    <3> QED
      BY <3>3
  <2>3. CASE InFreed(s, k)
    <3>1. ~InTodo(s, k) /\ ~InDrop(s, k) /\ N = {} /\ R = {}
      BY <1>2, <1>7, <2>3, NowhereElse
    <3>2. PICK x : F = {x}
      <4>1. PICK x : x \in F
        BY <1>6, <2>3
      <4>2. F = {x}
        BY <1>5, <4>1
      <4> QED
        BY <4>2
    <3>3. P = {<<"freed", x>>}
      BY <1>6, <3>1, <3>2
    <3> QED
      BY <3>3
  <2>4. CASE InElt(q, i, s, k)
    <3>1. /\ ~InTodo(s, k) /\ ~InDrop(s, k) /\ ~InFreed(s, k) /\ N = {}
          /\ \A r \in Threads, j \in Slots : InElt(r, j, s, k) => r = q /\ j = i
      BY <1>2, <2>4, NowhereElse
    <3>2. R = {<<"ring", q, i>>}
      BY <2>4, <3>1 DEF R
    <3>3. P = {<<"ring", q, i>>}
      BY <1>6, <3>1, <3>2
    <3> QED
      BY <3>3
  <2>5. CASE InNode(q, s, k)
    <3>1. /\ ~InTodo(s, k) /\ ~InDrop(s, k) /\ ~InFreed(s, k)
          /\ \A r \in Threads : InNode(r, s, k) => r = q
          /\ \A r \in Threads, j \in Slots : ~InElt(r, j, s, k)
      BY <1>2, <2>5, NowhereElse
    <3>2. N = {q} /\ R = {}
      BY <1>7, <2>5, <3>1
    <3>3. P = {<<"node", q>>}
      BY <1>6, <3>1, <3>2
    <3> QED
      BY <3>3
  <2> QED
    BY <1>3, <2>1, <2>2, <2>3, <2>4, <2>5 DEF At
<1> QED
  BY <1>1, <1>8, FS_Singleton

\* Every packet given to vlib_buffer_enqueue_to_thread without aux data is in
\* exactly one place, in every state, for any threads, routes and sizes: none is
\* lost, handed over twice, or both freed and delivered.
THEOREM Conservation == ASSUME ~WithAux PROVE Spec => []Conserved
<1>1. Init => ConsInv
  <2> SUFFICES ASSUME Init PROVE ConsInv
    OBVIOUS
  <2>1. /\ drop_list \in [Threads -> Seq(Drops)] /\ freed \in [Threads -> Seq(Drops)]
        /\ \A t \in Threads : /\ drop_list[t] = <<>> /\ freed[t] = <<>>
                              /\ todo[t] = <<>> /\ made[t] = 0
    BY DEF Init
  <2> QED
    BY <2>1 DEF ConsInv, Numbered, OwnOnce
<1>2. ConsInv /\ IInv /\ OrderInv /\ [Next]_vars => ConsInv'
  <2> SUFFICES ASSUME ConsInv, IInv, OrderInv, [Next]_vars PROVE ConsInv'
    OBVIOUS
  <2>1. CASE UNCHANGED vars
    <3>1. UNCHANGED <<head, elts, pc, todo, made, drop_list, freed, delivered>>
      BY <2>1 DEF vars, ringVars, dequeueVars, enqueueVars
    <3>2. \A s \in Threads : \A k \in 1..made[s] : One(s, k)' <=> One(s, k)
      BY <3>1 DEF One, At, InTodo, InDrop, InFreed, InElt, InNode, Pending, Dest, HeadSlot
    <3>3. ASSUME NEW u \in Threads
          PROVE  Numbered(u)' /\ OwnOnce(u, drop_list[u])' /\ OwnOnce(u, freed[u])'
      <4>1. Numbered(u) /\ OwnOnce(u, drop_list[u]) /\ OwnOnce(u, freed[u])
        BY DEF ConsInv
      <4>2. OwnOnce(u, drop_list[u])' /\ OwnOnce(u, freed[u])'
        BY <3>1, <4>1 DEF OwnOnce
      <4>3. Numbered(u)'
        BY <3>1, <4>1 DEF Numbered
      <4> QED
        BY <4>2, <4>3
    <3> QED
      BY <3>1, <3>2, <3>3 DEF ConsInv
  <2>2. ASSUME NEW t \in Threads, Thread(t) PROVE ConsInv'
    BY <2>2, QuietCons, RingStepCons, HandOffCons, ContinueCons, FillCons, DequeueCons DEF Thread
  <2> QED
    BY <2>1, <2>2 DEF Next
<1>3. ConsInv /\ IInv /\ OrderInv => Conserved
  BY OnePlace DEF Conserved
<1> QED
  BY <1>1, <1>2, <1>3, Inductive, OrderInductive, PTL DEF Spec
=============================================================================
