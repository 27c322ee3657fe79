------------------------------ MODULE MCSvmFifo ------------------------------
(***************************************************************************)
(* Instances of SvmFifo for TLC: chunks of one and of two bytes.           *)
(***************************************************************************)
EXTENDS SvmFifo

CONSTANTS Short, Long

OneOrTwo == [c \in Chunks |-> IF c \in Long THEN 2 ELSE 1]
LongAndShort == Long \cup Short
Interchangeable == Permutations(Short) \cup Permutations(Long)
=============================================================================
