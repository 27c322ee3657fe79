------------------------------- MODULE MCBfd -------------------------------
(***************************************************************************)
(* Instances of Bfd for TLC: the parameters of the two peers. The unit is  *)
(* arbitrary; 1 is the one microsecond a session assumes of a peer it has  *)
(* not heard.                                                              *)
(***************************************************************************)
EXTENDS Bfd

CONSTANTS a, b

P(tx, rx, mult) == [tx |-> tx, rx |-> rx, mult |-> mult]

Both == [p \in Peers |-> P(2, 2, 2)]

\* One end changes the rate at which it can receive.
ReceiverChanges == [p \in Peers |-> IF p = a THEN {P(2, 2, 2), P(2, 4, 2)} ELSE {}]

\* One end changes the rate at which it wants to send.
SenderChanges == [p \in Peers |-> IF p = a THEN {P(4, 2, 2)} ELSE {}]

\* Both ends change the rate at which they can receive.
BothChange == [p \in Peers |-> {P(2, 4, 2)}]
=============================================================================
