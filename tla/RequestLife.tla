----------------------------- MODULE RequestLife -----------------------------
(***************************************************************************)
(* What the library promises the application for each request, without     *)
(* threads, queues, locks and descriptors: a request is accepted for one   *)
(* peer, the requests of a peer leave in the order they were accepted, a   *)
(* request leaves or is lost once, and its callback is called at most      *)
(* once, after it was accepted.  The process may end at any time.          *)
(***************************************************************************)
EXTENDS Naturals, Sequences

CONSTANTS Req, Peer, NoPeer

VARIABLES
  order,      \* the requests accepted, in order
  dest,       \* the peer of each
  phase,      \* new, waiting, sent or lost
  answered,   \* how often the callback of each was called
  ended

lifevars == <<order, dest, phase, answered, ended>>

LifeInit ==
  /\ order = <<>> /\ ended = FALSE
  /\ answered = [r \in Req |-> 0]
  /\ phase = [r \in Req |-> "new"]
  /\ dest = [r \in Req |-> NoPeer]

Accept(r, p) ==
  /\ phase[r] = "new"
  /\ order' = Append(order, r)
  /\ dest' = [dest EXCEPT ![r] = p]
  /\ phase' = [phase EXCEPT ![r] = "waiting"]
  /\ UNCHANGED <<answered, ended>>

(* Nothing accepted earlier for the same peer still waits. *)
IsNext(r) ==
  \A i, j \in 1..Len(order) :
    i < j /\ order[j] = r /\ dest[order[i]] = dest[r] => phase[order[i]] # "waiting"

Leave(r) ==
  /\ phase[r] = "waiting" /\ IsNext(r)
  /\ \E how \in {"sent", "lost"} : phase' = [phase EXCEPT ![r] = how]
  /\ UNCHANGED <<order, dest, answered, ended>>

Answer(r) ==
  /\ phase[r] # "new" /\ answered[r] = 0
  /\ answered' = [answered EXCEPT ![r] = 1]
  /\ UNCHANGED <<order, dest, phase, ended>>

(* A request that was about to be accepted may have got its peer. *)
End == ~ ended /\ ended' = TRUE /\ UNCHANGED <<order, phase, answered>>

LifeNext ==
  /\ ~ ended
  /\ \/ \E r \in Req : Leave(r) \/ Answer(r) \/ \E p \in Peer : Accept(r, p)
     \/ End

LifeSpec == LifeInit /\ [][LifeNext]_lifevars
==============================================================================
