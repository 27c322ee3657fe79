----------------------------- MODULE MCMsgQueue -----------------------------
(***************************************************************************)
(* Instances of MsgQueue for TLC: the sizes of the rings.                  *)
(***************************************************************************)
EXTENDS MsgQueue

CONSTANTS io, ctrl

\* The shape session_vpp_wrk_mqs_alloc gives a worker's queue: as many slots
\* for io events as the queue has entries, half as many for control events.
WorkerRings == [r \in Rings |-> IF r = io THEN Maxsize ELSE Maxsize \div 2]

\* Rings that are never full, which leaves the queue as the only thing a
\* producer can wait for.
AmpleRings == [r \in Rings |-> Maxsize + MaxHeld + 1]
=============================================================================
