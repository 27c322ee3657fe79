---------------------------- MODULE MCFrameQueue ----------------------------
(***************************************************************************)
(* Instances of FrameQueue for TLC: who hands packets to whom, and how     *)
(* many.                                                                   *)
(***************************************************************************)
EXTENDS FrameQueue

CONSTANTS t1, t2, t3

\* Every thread to every thread, itself included.
AllRoutes == Threads \X Threads
TwoEach == [t \in Threads |-> 2]

\* The first thread hands packets to the two others and the second to the
\* third, whose ring has two producers.  No thread waits, directly or not, for
\* a slot on its own ring.
Chain == {<<t1, t2>>, <<t1, t3>>, <<t2, t3>>}
ChainPackets == [t \in Threads |-> CASE t = t1 -> 2 [] t = t2 -> 3 [] OTHER -> 0]
=============================================================================
