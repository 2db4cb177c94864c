------------------------------ MODULE ClientLife -----------------------------
(***************************************************************************)
(* The threads, queues and connections of ClientLib implement the life of  *)
(* a request that RequestLife describes.                                   *)
(***************************************************************************)
EXTENDS ClientLib

(* A request waits from push_to_msgq until its body is written, or until   *)
(* its node is freed without that.                                         *)
Phase(r) ==
  CASE Written(r)                      -> "sent"
    [] ~ Written(r) /\ node[r] = "freed" -> "lost"
    [] ~ Written(r) /\ node[r] \in {"queued", "held"} -> "waiting"
    [] OTHER                           -> "new"

Life == INSTANCE RequestLife WITH
  Peer <- Slot, NoPeer <- -1, order <- accepted, dest <- conn,
  phase    <- [r \in Req |-> Phase(r)],
  answered <- [r \in Req |-> Cardinality({i \in 1..Len(calls) :
                               calls[i].kind = "res" /\ calls[i].callback = r})],
  ended    <- fault # "none"

(* Through all interleavings of the application, the senders, receivers    *)
(* and the queue manager a request keeps to its life: requests of a peer   *)
(* leave in the order of push_to_msgq, each leaves or is lost once, and    *)
(* recv_worker_thread calls only callbacks of accepted requests, once.     *)
LivesAsPromised == Life!LifeSpec
==============================================================================
