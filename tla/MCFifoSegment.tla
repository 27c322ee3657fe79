----------------------------- MODULE MCFifoSegment -----------------------------
(***************************************************************************)
(* Instances of FifoSegment for TLC: VPP and an application.               *)
(***************************************************************************)
EXTENDS FifoSegment

CONSTANTS vpp, app

Asks(a, b) == [q \in Procs |-> IF q = vpp THEN a ELSE b]

\* All memory is carved and both allocate, also several chunks at once.
Carved == [pre |-> <<0, 0, 1>>, memory |-> 7, asks |-> Asks({8, 16}, {16, 24})]

\* Nothing is carved and memory is plentiful.
Fresh == [pre |-> <<>>, memory |-> 120, asks |-> Asks({8}, {8, 16})]

\* Memory is left for small chunks only; one process allocates and the other
\* gives back.
OneWay == [pre |-> <<2>>, memory |-> 28, asks |-> Asks({32}, {})]
Small == [pre |-> <<>>, memory |-> 28, asks |-> Asks({17}, {})]

\* Memory is left for the data of two chunks but not for their headers.
Tight == [pre |-> <<1>>, memory |-> 17, asks |-> Asks({8}, {})]

Passing == {Carved, Fresh, OneWay, Small, Tight}

\* Two processes reach the end of the memory at the same time.
Exhausted == {[pre |-> <<>>, memory |-> 19, asks |-> Asks({8}, {8})]}
=============================================================================
