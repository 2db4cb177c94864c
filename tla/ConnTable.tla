------------------------------ MODULE ConnTable ------------------------------
(***************************************************************************)
(* The connection table as create_peers leaves it, given the set of slots  *)
(* whose peer could not be reached.  Those keep the zeros of calloc; their *)
(* descriptors are closed, and the next slot gets the same number again.   *)
(* Descriptors are counted from the first one that is free: the number 0   *)
(* stands for standard input.                                              *)
(***************************************************************************)
EXTENDS Integers, FiniteSets

PeerFd(i, unreachable) ==
  IF i \in unreachable THEN 0 ELSE Cardinality((0..i) \ unreachable)

PeerState(i, unreachable) == IF i \in unreachable THEN 0 ELSE 1

PeerId(i, unreachable) == IF i \in unreachable THEN 0 ELSE i
==============================================================================
