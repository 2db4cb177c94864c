----------------------------- MODULE SendProofs ------------------------------
(***************************************************************************)
(* The send path: no part of a message is written twice, and with a single *)
(* peer the message queue never holds a node that was popped.              *)
(***************************************************************************)
EXTENDS TypeProofs, FiniteSetTheorems

---------------------------------------------------------------------------
(* Who has a node                                                          *)

(* A node passes from the client that sends it to the queue and from there *)
(* to one sender, which frees it.  The queue may still link a node that    *)
(* its sender has taken (pop_from_msgq leaves a last node linked); what    *)
(* keeps a second sender from taking it too is that a node is only taken   *)
(* by the sender of its connection, which is busy with it, and when that   *)
(* one has finished the node is freed and the walk over it is the fault.   *)
Writing(p) == spc[p] \in {"header", "body"}

SentIsNew   == \A c \in Client : Sending(c) => node[creq[c]] = "new"
LinkedInUse == \A i \in 1..Len(gmsgq) :
                 node[gmsgq[i]] \in {"queued", "held", "freed"}
TakenIsHeld == \A p \in Slot : Writing(p) =>
                 node[snode[p]] = "held" /\ conn[snode[p]] = peer_id(p)
HeldIsTaken == \A r \in Req : node[r] = "held" =>
                 \E p \in Slot : Writing(p) /\ snode[p] = r
WrittenWasHeld == \A i \in 1..Len(wire) :
                    node[wire[i].req] \in {"held", "freed"}
NotYetWritten ==
  \A p \in Slot : \A i \in 1..Len(wire) :
    /\ spc[p] = "header" => wire[i].req # snode[p]
    /\ spc[p] = "body" => ~ (wire[i].req = snode[p] /\ wire[i].part = "B")

NodeInv == /\ SentIsNew /\ SentByOne /\ LinkedInUse /\ TakenIsHeld
           /\ HeldIsTaken /\ WrittenWasHeld /\ NotYetWritten /\ WrittenOnce

(* The types of the variables NodeInv speaks of. *)
LEMMA SendTypes ==
  ASSUME TypeInv
  PROVE  /\ gmsgq \in Seq(Req) /\ Len(gmsgq) \in Nat
         /\ \A i \in 1..Len(gmsgq) : gmsgq[i] \in Req
         /\ wire \in Seq(Write) /\ Len(wire) \in Nat
         /\ \A i \in 1..Len(wire) : wire[i].req \in Req
         /\ cpc \in [Client -> ClientPC]
         /\ creq \in [Client -> Req \cup {NoReq}]
         /\ \A c \in Client : cpc[c] # "idle" => creq[c] \in Req
         /\ spc \in [Slot -> SenderPC] /\ snode \in [Slot -> Req \cup {NoReq}]
         /\ \A p \in Slot : Writing(p) => snode[p] \in Req
         /\ node \in [Req -> Node] /\ conn \in [Req -> Slot \cup {-1}]
<1>1. gmsgq \in Seq(Req) /\ wire \in Seq(Write)
  BY DEF TypeInv, TypeOK, QueueTypeOK
<1>2. ASSUME NEW i \in 1..Len(wire)
      PROVE  wire[i].req \in Req
  <2>1. wire[i] \in Write
    BY <1>1, ElementOfSeq
  <2> QED BY <2>1 DEF Write
<1> QED BY <1>1, <1>2, MsgQueueTypes, LenProperties
    DEF TypeInv, TypeOK, QueueTypeOK, ThreadsOK, Writing

(* The list after a pop has no node it had not before, in the same order.  *)
LEMMA PopInOrder ==
  ASSUME NEW q \in Seq(Req), NEW k \in 1..Len(q)
  PROVE  \E old \in [1..Len(pop_from_msgq(q, k)) -> 1..Len(q)] :
           /\ \A i \in 1..Len(pop_from_msgq(q, k)) :
                pop_from_msgq(q, k)[i] = q[old[i]]
           /\ \A i, j \in 1..Len(pop_from_msgq(q, k)) :
                i < j => old[i] < old[j]
<1>0. Len(q) \in Nat
  BY LenProperties
<1> DEFINE w == pop_from_msgq(q, k)
<1>1. CASE k = 1
  <2>1. /\ w = Tail(q) /\ Len(w) = Len(q) - 1
        /\ \A i \in 1..(Len(q) - 1) : w[i] = q[i + 1]
    BY <1>0, <1>1 DEF pop_from_msgq
  <2> HIDE DEF w
  <2> DEFINE old == [i \in 1..Len(w) |-> i + 1]
  <2>2. /\ old \in [1..Len(w) -> 1..Len(q)]
        /\ \A i \in 1..Len(w) : w[i] = q[old[i]]
        /\ \A i, j \in 1..Len(w) : i < j => old[i] < old[j]
    BY <1>0, <2>1
  <2> QED BY <2>2 DEF w
<1>2. CASE k # 1 /\ k < Len(q)
  <2>1. w = RemoveAt(q, k)
    BY <1>0, <1>2 DEF pop_from_msgq
  <2>2. /\ Len(w) = Len(q) - 1
        /\ \A i \in 1..(Len(q) - 1) : w[i] = IF i < k THEN q[i] ELSE q[i + 1]
    BY <2>1, RemoveAtProperties
  <2> HIDE DEF w
  <2> DEFINE old == [i \in 1..Len(w) |-> IF i < k THEN i ELSE i + 1]
  <2>3. /\ old \in [1..Len(w) -> 1..Len(q)]
        /\ \A i \in 1..Len(w) : w[i] = q[old[i]]
        /\ \A i, j \in 1..Len(w) : i < j => old[i] < old[j]
    BY <1>0, <2>2
  <2> QED BY <2>3 DEF w
<1>3. CASE k # 1 /\ ~ (k < Len(q))
  <2>1. w = q
    BY <1>0, <1>3 DEF pop_from_msgq
  <2> HIDE DEF w
  <2> DEFINE old == [i \in 1..Len(w) |-> i]
  <2>2. /\ old \in [1..Len(w) -> 1..Len(q)]
        /\ \A i \in 1..Len(w) : w[i] = q[old[i]]
        /\ \A i, j \in 1..Len(w) : i < j => old[i] < old[j]
    BY <1>0, <2>1
  <2> QED BY <2>2 DEF w
<1> QED BY <1>1, <1>2, <1>3

(* Linking a request changes its node and connection and the queue's end.  *)
LEMMA LinkElements ==
  ASSUME TypeInv, NEW r \in Req, NEW con \in Slot, LinkAtEnd(r, con)
  PROVE  /\ conn' = [conn EXCEPT ![r] = con]
         /\ \/ /\ ~ Freed(PushReads(gmsgq))
               /\ node' = [node EXCEPT ![r] = "queued"]
               /\ Len(gmsgq') = Len(gmsgq) + 1
               /\ \A i \in 1..Len(gmsgq) : gmsgq'[i] = gmsgq[i]
               /\ gmsgq'[Len(gmsgq) + 1] = r
               /\ accepted' = Append(accepted, r)
               /\ UNCHANGED fault
            \/ /\ Freed(PushReads(gmsgq))
               /\ fault' = "push_freed"
               /\ UNCHANGED <<node, gmsgq, accepted>>
<1>1. gmsgq \in Seq(Req)
  BY DEF TypeInv, TypeOK, QueueTypeOK
<1>2. /\ Len(Append(gmsgq, r)) = Len(gmsgq) + 1
      /\ \A i \in 1..Len(gmsgq) : Append(gmsgq, r)[i] = gmsgq[i]
      /\ Append(gmsgq, r)[Len(gmsgq) + 1] = r
  BY <1>1
<1> QED BY <1>2 DEF LinkAtEnd, Push

sendVars == <<gmsgq, node, conn, accepted, cpc, creq, spc, snode, wire>>

(* The receivers, the queue manager and the environment leave them alone.  *)
LEMMA OthersKeepNodes ==
  /\ \A p \in Slot : ReceiverStep(p) \/ recv_message(p) =>
       UNCHANGED sendVars /\ fault' \in {fault, "null_req_cb"}
  /\ qmanager \/ register_req_cb \/ drop \/ tick =>
       UNCHANGED sendVars /\ fault' = fault
<1>1. ASSUME NEW p \in Slot, ReceiverStep(p) \/ recv_message(p)
      PROVE  UNCHANGED sendSide /\ fault' \in {fault, "null_req_cb"}
  BY <1>1 DEF ReceiverStep, recv_message, recv_top, recv_recreate, recv_getfd,
              recv_eof, recv_error, recv_close, recv_down, recv_drop,
              recv_event_request, recv_session, recv_lookup, recv_callback,
              recv_remove, req_cb
<1>2. qmanager \/ register_req_cb \/ drop \/ tick =>
        UNCHANGED sendSide /\ fault' = fault
  BY DEF qmanager, register_req_cb, drop, tick
<1> QED BY <1>1, <1>2 DEF sendSide, sendVars, msgq, clients, senders

---------------------------------------------------------------------------
(* No part of a message is written twice                                   *)

(* A client that links its request hands it over: what push_known and      *)
(* scan_take have in common.                                               *)
LEMMA NodeLink ==
  ASSUME TypeInv, NodeInv, NEW c \in Client, Sending(c), NEW con \in Slot,
         LinkAtEnd(creq[c], con), cpc' = [cpc EXCEPT ![c] = "peek"],
         UNCHANGED <<creq, spc, snode, wire>>
  PROVE  NodeInv'
<1> USE SendTypes
<1> DEFINE r == creq[c]
<1>1. r \in Req /\ node[r] = "new"
  BY DEF NodeInv, SentIsNew, Sending
<1>2. \A d \in Client : Sending(d)' => Sending(d) /\ d # c
  BY DEF Sending, ClientPC
<1>3. \A p \in Slot : Writing(p)' = Writing(p)
  BY DEF Writing
<1>4. /\ conn' = [conn EXCEPT ![r] = con]
      /\ \/ /\ node' = [node EXCEPT ![r] = "queued"]
            /\ Len(gmsgq') = Len(gmsgq) + 1
            /\ \A i \in 1..Len(gmsgq) : gmsgq'[i] = gmsgq[i]
            /\ gmsgq'[Len(gmsgq) + 1] = r
         \/ UNCHANGED <<node, gmsgq>>
  BY <1>1, LinkElements
<1>5. \A s \in Req : s # r => node'[s] = node[s] /\ conn'[s] = conn[s]
  BY <1>1, <1>4
<1>6. node'[r] \in {"new", "queued"}
  BY <1>1, <1>4
<1>7. \A i \in 1..Len(gmsgq') :
        \/ i \in 1..Len(gmsgq) /\ gmsgq'[i] = gmsgq[i]
        \/ gmsgq'[i] = r /\ node'[r] = "queued"
  BY <1>1, <1>4
<1> HIDE DEF r
<1>8. SentIsNew' /\ SentByOne'
  <2>1. \A d \in Client : Sending(d)' => creq[d] # r /\ creq[d] \in Req
    BY <1>2 DEF NodeInv, SentByOne, Sending, r
  <2> QED BY <1>2, <1>5, <2>1 DEF NodeInv, SentIsNew, SentByOne
<1>9. LinkedInUse'
  <2>1. SUFFICES ASSUME NEW i \in 1..Len(gmsgq')
                 PROVE  node'[gmsgq'[i]] \in {"queued", "held", "freed"}
    BY DEF LinkedInUse
  <2>2. CASE gmsgq'[i] = r /\ node'[r] = "queued"
    BY <2>2
  <2>3. CASE i \in 1..Len(gmsgq) /\ gmsgq'[i] = gmsgq[i]
    <3>1. gmsgq[i] \in Req /\ gmsgq[i] # r
      BY <1>1, <2>3 DEF NodeInv, LinkedInUse
    <3> QED BY <1>5, <2>3, <3>1 DEF NodeInv, LinkedInUse
  <2> QED BY <1>7, <2>2, <2>3
<1>10. TakenIsHeld'
  BY <1>1, <1>3, <1>5 DEF NodeInv, TakenIsHeld
<1>11. HeldIsTaken'
  BY <1>3, <1>5, <1>6 DEF NodeInv, HeldIsTaken
<1>12. WrittenWasHeld'
  BY <1>1, <1>5 DEF NodeInv, WrittenWasHeld
<1>13. NotYetWritten' /\ WrittenOnce'
  BY DEF NodeInv, NotYetWritten, WrittenOnce
<1> QED BY <1>8, <1>9, <1>10, <1>11, <1>12, <1>13 DEF NodeInv

(* What the clients do keeps the path of the nodes. *)
LEMMA NodeClient ==
  ASSUME TypeInv, NodeInv, NEW c \in Client, sl_send_buf(c) \/ ClientStep(c)
  PROVE  NodeInv'
<1> USE SendTypes
<1>0. ASSUME UNCHANGED <<gmsgq, node, conn, snode, wire>>,
             \A d \in Client : Sending(d)' => Sending(d) /\ creq'[d] = creq[d],
             \A p \in Slot : \/ spc'[p] = spc[p]
                             \/ ~ Writing(p) /\ spc'[p] = "wait"
      PROVE  NodeInv'
  <2>1. \A p \in Slot : Writing(p)' = Writing(p)
    BY <1>0 DEF Writing
  <2>2. SentIsNew' /\ SentByOne'
    BY <1>0 DEF NodeInv, SentIsNew, SentByOne
  <2>3. LinkedInUse' /\ TakenIsHeld' /\ HeldIsTaken' /\ WrittenWasHeld'
    BY <1>0, <2>1 DEF NodeInv, LinkedInUse, TakenIsHeld, HeldIsTaken,
                      WrittenWasHeld
  <2>4. NotYetWritten' /\ WrittenOnce'
    BY <1>0, ZenonT(40) DEF NodeInv, NotYetWritten, WrittenOnce
  <2> QED BY <2>2, <2>3, <2>4 DEF NodeInv
<1>1. CASE sl_send_buf(c)
  <2>1. PICK r \in Req : /\ node[r] = "none"
                         /\ node' = [node EXCEPT ![r] = "new"]
                         /\ creq' = [creq EXCEPT ![c] = r]
    BY <1>1 DEF sl_send_buf
  <2>2. /\ cpc' = [cpc EXCEPT ![c] = "push"] /\ cpc[c] = "idle"
        /\ UNCHANGED <<gmsgq, conn, spc, snode, wire>>
    BY <1>1 DEF sl_send_buf, notClients, senders
  <2>3. \A p \in Slot : Writing(p)' = Writing(p)
    BY <2>2 DEF Writing
  <2>4. \A s \in Req : s # r => node'[s] = node[s]
    BY <2>1
  <2>5. SentIsNew' /\ SentByOne'
    BY <2>1, <2>2 DEF NodeInv, SentIsNew, SentByOne, Sending
  <2>6. LinkedInUse'
    BY <2>1, <2>2 DEF NodeInv, LinkedInUse
  <2>7. TakenIsHeld'
    BY <2>1, <2>2, <2>3 DEF NodeInv, TakenIsHeld
  <2>8. HeldIsTaken'
    BY <2>1, <2>2, <2>3 DEF NodeInv, HeldIsTaken
  <2>9. WrittenWasHeld'
    BY <2>1, <2>2 DEF NodeInv, WrittenWasHeld
  <2>10. NotYetWritten' /\ WrittenOnce'
    BY <2>2 DEF NodeInv, NotYetWritten, WrittenOnce
  <2> QED BY <2>5, <2>6, <2>7, <2>8, <2>9, <2>10 DEF NodeInv
<1>2. CASE push_empty(c)
  BY <1>0, <1>2 DEF push_empty, queues, msgq, notClients, senders, Sending
<1>3. CASE push_known(c)
  <2>1. PICK k \in 1..Len(gtsidq) : LinkAtEnd(creq[c], gtsidq[k].conn)
    BY <1>3 DEF push_known, PinnedTo
  <2>2. gtsidq[k].conn \in Slot
    <3>1. gtsidq[k] \in Entry
      BY ElementOfSeq DEF TypeInv, TypeOK, QueueTypeOK
    <3> QED BY <3>1 DEF Entry
  <2>3. /\ Sending(c) /\ cpc' = [cpc EXCEPT ![c] = "peek"]
        /\ UNCHANGED <<creq, spc, snode, wire>>
    BY <1>3 DEF push_known, notClients, senders, Sending
  <2> QED BY <2>1, <2>2, <2>3, NodeLink
<1>4. CASE push_new(c)
  BY <1>0, <1>4 DEF push_new, queues, msgq, notClients, senders, Sending
<1>5. CASE scan_skip(c)
  BY <1>0, <1>5 DEF scan_skip, msgq, clients, notClients, senders, Sending
<1>6. CASE scan_take(c)
  <2>1. LinkAtEnd(creq[c], glast_con_rr) /\ glast_con_rr \in Slot
    BY <1>6 DEF scan_take, TypeInv, TypeOK, QueueTypeOK
  <2>2. /\ Sending(c) /\ cpc' = [cpc EXCEPT ![c] = "peek"]
        /\ UNCHANGED <<creq, spc, snode, wire>>
    BY <1>6 DEF scan_take, notClients, senders, Sending
  <2> QED BY <2>1, <2>2, NodeLink
<1>7. CASE peek_head(c)
  <2>1. /\ UNCHANGED <<gmsgq, node, conn, snode, wire, creq, spc>>
        /\ \A d \in Client : Sending(d)' => Sending(d)
    BY <1>7 DEF peek_head, queues, msgq, notClients, senders, Sending
  <2> QED BY <1>0, <2>1
<1>8. CASE peek_next(c)
  <2>1. /\ UNCHANGED <<gmsgq, node, conn, snode, wire>>
        /\ \A d \in Client : Sending(d)' => Sending(d) /\ creq'[d] = creq[d]
    BY <1>8 DEF peek_next, queues, msgq, Sending
  <2>2. \A p \in Slot : \/ spc'[p] = spc[p]
                        \/ ~ Writing(p) /\ spc'[p] = "wait"
    <3>1. \/ UNCHANGED spc
          \/ \E p \in Slot : /\ spc[p] = "blocked"
                             /\ spc' = [spc EXCEPT ![p] = "wait"]
      BY <1>8 DEF peek_next, signal
    <3> QED BY <3>1 DEF Writing
  <2> QED BY <1>0, <2>1, <2>2
<1> QED BY <1>1, <1>2, <1>3, <1>4, <1>5, <1>6, <1>7, <1>8 DEF ClientStep

(* With every slot but slot 0 connected at the start, no two slots think   *)
(* they serve the same peer.                                               *)
LEMMA PeersDiffer ==
  ASSUME Unreachable \subseteq {0}, NEW p \in Slot, NEW q \in Slot,
         peer_id(p) = peer_id(q)
  PROVE  p = q
BY DEF peer_id, PeerId

(* The node a sender takes was waiting: no sender has it, and the walk of  *)
(* pop_from_msgq did not meet a freed one.                                 *)
LEMMA PoppedWasQueued ==
  ASSUME TypeInv, NodeInv, Unreachable \subseteq {0}, NEW p \in Slot,
         spc[p] = "pop", NEW k \in 1..Len(gmsgq),
         FirstFor(gmsgq, conn, peer_id(p), k), ~ Freed(PopReads(gmsgq, k))
  PROVE  /\ gmsgq[k] \in Req /\ conn[gmsgq[k]] = peer_id(p)
         /\ node[gmsgq[k]] = "queued"
<1> USE SendTypes
<1> DEFINE r == gmsgq[k]
<1>1. r \in Req /\ conn[r] = peer_id(p)
  BY DEF FirstFor
<1>2. node[r] # "freed"
  <2>1. k \in PopReads(gmsgq, k)
    BY DEF PopReads
  <2> QED BY <2>1 DEF Freed
<1>3. node[r] # "held"
  <2>1. SUFFICES ASSUME node[r] = "held" PROVE FALSE
    OBVIOUS
  <2>2. PICK q \in Slot : Writing(q) /\ snode[q] = r
    BY <1>1, <2>1 DEF NodeInv, HeldIsTaken
  <2>3. peer_id(q) = peer_id(p)
    BY <1>1, <2>2 DEF NodeInv, TakenIsHeld
  <2>4. q = p
    BY <2>3, PeersDiffer
  <2> QED BY <2>2, <2>4 DEF Writing
<1> QED BY <1>1, <1>2, <1>3 DEF NodeInv, LinkedInUse

(* The node a sender takes is one that no sender has. *)
LEMMA NodePop ==
  ASSUME TypeInv, NodeInv, Unreachable \subseteq {0}, NEW p \in Slot,
         spc[p] = "pop", NEW k \in 1..Len(gmsgq),
         FirstFor(gmsgq, conn, peer_id(p), k),
         ~ Freed(PopReads(gmsgq, k)),
         snode' = [snode EXCEPT ![p] = gmsgq[k]],
         node' = [node EXCEPT ![gmsgq[k]] = "held"],
         gmsgq' = pop_from_msgq(gmsgq, k),
         spc' = [spc EXCEPT ![p] = "header"],
         UNCHANGED <<cpc, creq, conn, wire>>
  PROVE  NodeInv'
<1> USE SendTypes
<1> DEFINE r == gmsgq[k]
<1>1. r \in Req /\ conn[r] = peer_id(p) /\ node[r] = "queued"
  BY PoppedWasQueued
<1> HIDE DEF r
<1>2. /\ \A s \in Req : s # r => node'[s] = node[s]
      /\ node'[r] = "held" /\ snode'[p] = r /\ spc'[p] = "header"
      /\ \A q \in Slot : q # p => snode'[q] = snode[q] /\ spc'[q] = spc[q]
  BY <1>1 DEF r
<1>3. /\ Writing(p)' /\ ~ Writing(p)
      /\ \A q \in Slot : q # p => Writing(q)' = Writing(q)
  BY <1>2 DEF Writing
<1>4. SentIsNew' /\ SentByOne'
  <2>1. \A d \in Client : Sending(d) => creq[d] \in Req /\ creq[d] # r
    BY <1>1 DEF NodeInv, SentIsNew, Sending
  <2> QED BY <1>2, <2>1 DEF NodeInv, SentIsNew, SentByOne, Sending
<1>5. LinkedInUse'
  <2>1. SUFFICES ASSUME NEW i \in 1..Len(gmsgq')
                 PROVE  node'[gmsgq'[i]] \in {"queued", "held", "freed"}
    BY DEF LinkedInUse
  <2>2. PICK j \in 1..Len(gmsgq) : gmsgq'[i] = gmsgq[j]
    BY PopInOrder
  <2> QED BY <1>2, <2>2 DEF NodeInv, LinkedInUse
<1>6. TakenIsHeld'
  BY <1>1, <1>2, <1>3 DEF NodeInv, TakenIsHeld
<1>7. HeldIsTaken'
  <2>1. SUFFICES ASSUME NEW s \in Req, node'[s] = "held"
                 PROVE  \E q \in Slot : Writing(q)' /\ snode'[q] = s
    BY DEF HeldIsTaken
  <2>2. CASE s = r
    BY <1>2, <1>3, <2>2
  <2>3. CASE s # r
    <3>1. PICK q \in Slot : Writing(q) /\ snode[q] = s
      BY <1>2, <2>1, <2>3 DEF NodeInv, HeldIsTaken
    <3> QED BY <1>2, <1>3, <3>1
  <2> QED BY <2>2, <2>3
<1>8. WrittenWasHeld'
  BY <1>2 DEF NodeInv, WrittenWasHeld
<1>9. NotYetWritten'
  <2>1. \A i \in 1..Len(wire) : wire[i].req # r
    BY <1>1 DEF NodeInv, WrittenWasHeld
  <2> QED BY <1>2, <2>1 DEF NodeInv, NotYetWritten
<1>10. WrittenOnce'
  BY DEF NodeInv, WrittenOnce
<1> QED BY <1>4, <1>5, <1>6, <1>7, <1>8, <1>9, <1>10 DEF NodeInv

(* What one write adds to the history. *)
LEMMA OneWrite ==
  ASSUME TypeInv, NEW p \in Slot, NEW part \in {"H", "B"}, NEW r \in Req,
         send_ok(p, part, r) \/ send_failed(p)
  PROVE  \/ UNCHANGED wire
         \/ /\ Len(wire') = Len(wire) + 1
            /\ \A i \in 1..Len(wire) : wire'[i] = wire[i]
            /\ wire'[Len(wire) + 1].part = part
            /\ wire'[Len(wire) + 1].req = r
<1>1. CASE send_ok(p, part, r)
  <2>1. PICK e : /\ wire' = Append(wire, e)
                 /\ e.part = part /\ e.req = r
    BY <1>1 DEF send_ok, written
  <2> QED BY <2>1, SendTypes
<1>2. CASE send_failed(p)
  BY <1>2 DEF send_failed
<1> QED BY <1>1, <1>2

(* A sender that writes a part it had not written keeps WrittenOnce, and   *)
(* for the other senders nothing changes.                                  *)
LEMMA NodeWrite ==
  ASSUME TypeInv, NodeInv, NEW p \in Slot, NEW part \in {"H", "B"},
         Writing(p),
         spc[p] = IF part = "H" THEN "header" ELSE "body",
         send_ok(p, part, snode[p]) \/ send_failed(p)
  PROVE  /\ WrittenOnce'
         /\ \A i \in 1..Len(wire') :
              \/ i \in 1..Len(wire) /\ wire'[i] = wire[i]
              \/ wire'[i].part = part /\ wire'[i].req = snode[p]
<1> USE SendTypes
<1>1. CASE UNCHANGED wire
  BY <1>1 DEF NodeInv, WrittenOnce
<1>2. CASE /\ Len(wire') = Len(wire) + 1
           /\ \A i \in 1..Len(wire) : wire'[i] = wire[i]
           /\ wire'[Len(wire) + 1].part = part
           /\ wire'[Len(wire) + 1].req = snode[p]
  <2>1. \A i \in 1..Len(wire) :
          ~ (wire[i].req = snode[p] /\ wire[i].part = part)
    BY DEF NodeInv, NotYetWritten
  <2>2. \A i \in 1..Len(wire') : i \in 1..Len(wire) \/ i = Len(wire) + 1
    BY <1>2
  <2>3. WrittenOnce'
    BY <1>2, <2>1, <2>2, ZenonT(40) DEF NodeInv, WrittenOnce
  <2> QED BY <1>2, <2>2, <2>3
<1> QED BY <1>1, <1>2, OneWrite

(* So does every step of the senders, as long as no two of them serve the  *)
(* same peer.                                                              *)
LEMMA NodeSender ==
  ASSUME TypeInv, NodeInv, Unreachable \subseteq {0}, NEW p \in Slot,
         SenderStep(p) \/ spurious_wakeup(p)
  PROVE  NodeInv'
<1> USE SendTypes
<1>0. ASSUME UNCHANGED <<gmsgq, node, conn, cpc, creq, snode, wire>>,
             \A q \in Slot : \/ spc'[q] = spc[q]
                             \/ ~ Writing(q) /\ ~ Writing(q)'
      PROVE  NodeInv'
  <2>1. \A q \in Slot : Writing(q)' = Writing(q)
    BY <1>0 DEF Writing
  <2>2. /\ SentIsNew' /\ SentByOne' /\ LinkedInUse' /\ WrittenWasHeld'
        /\ WrittenOnce'
    BY <1>0 DEF NodeInv, SentIsNew, SentByOne, LinkedInUse, WrittenWasHeld,
                WrittenOnce, Sending
  <2>3. TakenIsHeld' /\ HeldIsTaken'
    BY <1>0, <2>1 DEF NodeInv, TakenIsHeld, HeldIsTaken
  <2>4. NotYetWritten'
    BY <1>0 DEF NodeInv, NotYetWritten, Writing
  <2> QED BY <2>2, <2>3, <2>4 DEF NodeInv
<1>1. CASE send_wait(p)
  BY <1>0, <1>1 DEF send_wait, notSenders, clients, Writing
<1>2. CASE spurious_wakeup(p)
  BY <1>0, <1>2 DEF spurious_wakeup, notSenders, clients, Writing
<1>3. CASE send_check(p)
  BY <1>0, <1>3 DEF send_check, notSenders, clients, Writing
<1>4. CASE send_recreate(p)
  <2>1. /\ UNCHANGED <<gmsgq, node, conn, cpc, creq, snode, wire>>
        /\ spc[p] \in {"lock", "connect", "connected"}
        /\ \E s \in {"connect", "connected", "pop"} :
             spc' = [spc EXCEPT ![p] = s]
    BY <1>4 DEF send_recreate, notSenders, clients
  <2> QED BY <1>0, <2>1 DEF Writing
<1>5. CASE send_pop(p)
  <2>1. UNCHANGED <<cpc, creq, conn, wire>> /\ spc[p] = "pop"
    BY <1>5 DEF send_pop, notSenders, clients
  <2>2. CASE /\ spc' \in {spc, [spc EXCEPT ![p] = "wait"]}
             /\ UNCHANGED <<gmsgq, node, snode>>
    BY <1>0, <2>1, <2>2 DEF Writing
  <2> QED BY <1>5, <2>1, <2>2, NodePop DEF send_pop, PopFaults
<1>6. CASE send_header(p)
  <2>1. /\ spc[p] = "header" /\ spc' = [spc EXCEPT ![p] = "body"]
        /\ UNCHANGED <<gmsgq, node, conn, cpc, creq, snode>>
        /\ send_ok(p, "H", snode[p]) \/ send_failed(p)
    BY <1>6 DEF send_header, notSenders, clients
  <2>2. Writing(p) /\ \A q \in Slot : Writing(q)' = Writing(q)
    BY <2>1 DEF Writing
  <2>3. /\ WrittenOnce'
        /\ \A i \in 1..Len(wire') :
             \/ i \in 1..Len(wire) /\ wire'[i] = wire[i]
             \/ wire'[i].part = "H" /\ wire'[i].req = snode[p]
    BY <2>1, <2>2, NodeWrite
  <2>4. SentIsNew' /\ SentByOne' /\ LinkedInUse' /\ TakenIsHeld' /\ HeldIsTaken'
    BY <2>1, <2>2 DEF NodeInv, SentIsNew, SentByOne, LinkedInUse, TakenIsHeld,
                      HeldIsTaken, Sending
  <2>5. WrittenWasHeld'
    BY <2>1, <2>2, <2>3 DEF NodeInv, WrittenWasHeld, TakenIsHeld
  <2>6. NotYetWritten'
    <3>1. \A q \in Slot : q # p /\ Writing(q) => snode[q] # snode[p]
      BY <2>2, PeersDiffer DEF NodeInv, TakenIsHeld
    <3>2. SUFFICES ASSUME NEW q \in Slot, NEW i \in 1..Len(wire')
                   PROVE  /\ spc'[q] = "header" => wire'[i].req # snode[q]
                          /\ spc'[q] = "body" =>
                               ~ (/\ wire'[i].req = snode[q]
                                  /\ wire'[i].part = "B")
      BY <2>1 DEF NotYetWritten
    <3>3. CASE q = p
      BY <2>1, <2>3, <3>3 DEF NodeInv, NotYetWritten
    <3>4. CASE q # p
      BY <2>1, <2>3, <3>1, <3>4 DEF NodeInv, NotYetWritten, Writing
    <3> QED BY <3>3, <3>4
  <2> QED BY <2>3, <2>4, <2>5, <2>6 DEF NodeInv
<1>7. CASE send_body(p)
  <2>1. /\ spc[p] = "body" /\ spc' = [spc EXCEPT ![p] = "wait"]
        /\ node' = [node EXCEPT ![snode[p]] = "freed"]
        /\ snode' = [snode EXCEPT ![p] = NoReq]
        /\ UNCHANGED <<gmsgq, conn, cpc, creq>>
        /\ send_ok(p, "B", snode[p]) \/ send_failed(p)
    BY <1>7 DEF send_body, notSenders, clients
  <2>2. /\ Writing(p) /\ ~ Writing(p)' /\ snode[p] \in Req
        /\ \A q \in Slot : q # p => Writing(q)' = Writing(q)
    BY <2>1 DEF Writing
  <2>3. node[snode[p]] = "held"
    BY <2>2 DEF NodeInv, TakenIsHeld
  <2>4. \A q \in Slot : q # p /\ Writing(q) => snode[q] # snode[p]
    BY <2>2, PeersDiffer DEF NodeInv, TakenIsHeld
  <2>5. /\ \A s \in Req : s # snode[p] => node'[s] = node[s]
        /\ node'[snode[p]] = "freed"
        /\ \A q \in Slot : q # p => snode'[q] = snode[q] /\ spc'[q] = spc[q]
    BY <2>1, <2>2
  <2>6. /\ WrittenOnce'
        /\ \A i \in 1..Len(wire') :
             \/ i \in 1..Len(wire) /\ wire'[i] = wire[i]
             \/ wire'[i].part = "B" /\ wire'[i].req = snode[p]
    BY <2>1, <2>2, NodeWrite
  <2>7. SentIsNew' /\ SentByOne'
    BY <2>1, <2>3, <2>5 DEF NodeInv, SentIsNew, SentByOne, Sending
  <2>8. LinkedInUse'
    BY <2>1, <2>5 DEF NodeInv, LinkedInUse
  <2>9. TakenIsHeld'
    BY <2>1, <2>2, <2>4, <2>5 DEF NodeInv, TakenIsHeld
  <2>10. HeldIsTaken'
    BY <2>2, <2>5 DEF NodeInv, HeldIsTaken
  <2>11. WrittenWasHeld'
    BY <2>2, <2>5, <2>6 DEF NodeInv, WrittenWasHeld
  <2>12. NotYetWritten'
    <3>1. SUFFICES ASSUME NEW q \in Slot, NEW i \in 1..Len(wire')
                   PROVE  /\ spc'[q] = "header" => wire'[i].req # snode'[q]
                          /\ spc'[q] = "body" =>
                               ~ (/\ wire'[i].req = snode'[q]
                                  /\ wire'[i].part = "B")
      BY DEF NotYetWritten
    <3>2. CASE q = p
      BY <2>1, <3>2
    <3>3. CASE q # p
      BY <2>4, <2>5, <2>6, <3>3 DEF NodeInv, NotYetWritten, Writing
    <3> QED BY <3>2, <3>3
  <2> QED BY <2>6, <2>7, <2>8, <2>9, <2>10, <2>11, <2>12 DEF NodeInv
<1> QED BY <1>1, <1>2, <1>3, <1>4, <1>5, <1>6, <1>7 DEF SenderStep

(* At the start no request is in use and nothing is written. *)
LEMMA NodeInit == Init => NodeInv
BY DEF Init, NodeInv, SentIsNew, SentByOne, LinkedInUse, TakenIsHeld,
       HeldIsTaken, WrittenWasHeld, NotYetWritten, WrittenOnce, Sending, Writing

(* NodeInv is inductive together with the types. *)
LEMMA NodeNext ==
  ASSUME Unreachable \subseteq {0}
  PROVE  TypeInv /\ NodeInv /\ [Next]_vars => NodeInv'
<1> SUFFICES ASSUME TypeInv, NodeInv, [Next]_vars PROVE NodeInv'
  OBVIOUS
<1>1. ASSUME UNCHANGED sendVars PROVE NodeInv'
  BY <1>1 DEF sendVars, NodeInv, SentIsNew, SentByOne, LinkedInUse, TakenIsHeld,
              HeldIsTaken, WrittenWasHeld, NotYetWritten, WrittenOnce, Sending,
              Writing
<1>2. CASE UNCHANGED vars
  BY <1>1, <1>2 DEF vars, queues, msgq, clients, senders, sendVars
<1>3. CASE Next
  BY <1>1, <1>3, NodeClient, NodeSender, OthersKeepNodes DEF Next
<1> QED BY <1>2, <1>3

(* When create_peers could connect every slot but the first, the header    *)
(* and the body of a request are written at most once each, for any number *)
(* of peers and whatever connections are lost while it is written: the     *)
(* node pop_from_msgq leaves linked is never sent again.                   *)
THEOREM NothingIsWrittenTwice ==
  ASSUME Unreachable \subseteq {0}
  PROVE  Spec => []WrittenOnce
<1>1. NodeInv => WrittenOnce
  BY DEF NodeInv
<1> QED BY <1>1, NodeInit, NodeNext, TypeInit, TypeNext, PTL DEF Spec

---------------------------------------------------------------------------
(* With one peer the queue is sound                                        *)

(* A node is linked once, and all of them are for the only connection: so  *)
(* the first node for a connection is the head, which pop_from_msgq does   *)
(* unlink.                                                                 *)
LinkedOnce  == \A i, j \in 1..Len(gmsgq) : gmsgq[i] = gmsgq[j] => i = j
LinkedForIt == \A i \in 1..Len(gmsgq) : conn[gmsgq[i]] = 0
OneInv == OnlyQueuedLinked /\ QueueOpsSafe /\ LinkedOnce /\ LinkedForIt

(* The only slot is slot 0, and it serves peer 0. *)
LEMMA OnlySlot ==
  ASSUME NumPeers = 1
  PROVE  Slot = {0} /\ peer_id(0) = 0 /\ Unreachable \subseteq {0}
BY PeersAssumption DEF Slot, peer_id, PeerId

(* While OneInv holds no walk over the queue meets a freed node. *)
LEMMA NothingFreed ==
  ASSUME OneInv, NEW P, P \subseteq 1..Len(gmsgq)
  PROVE  ~ Freed(P)
BY DEF OneInv, OnlyQueuedLinked, Freed

(* Linking a request that was not linked keeps OneInv... *)
LEMMA OneLink ==
  ASSUME NumPeers = 1, TypeInv, NodeInv, OneInv, NEW c \in Client, Sending(c),
         NEW con \in Slot, LinkAtEnd(creq[c], con)
  PROVE  OneInv'
<1> USE SendTypes
<1> DEFINE r == creq[c]
<1>1. r \in Req /\ node[r] = "new" /\ con = 0
  BY OnlySlot DEF NodeInv, SentIsNew, Sending
<1>2. ~ Freed(PushReads(gmsgq))
  BY NothingFreed DEF PushReads
<1>3. /\ conn' = [conn EXCEPT ![r] = 0]
      /\ node' = [node EXCEPT ![r] = "queued"]
      /\ Len(gmsgq') = Len(gmsgq) + 1
      /\ \A i \in 1..Len(gmsgq) : gmsgq'[i] = gmsgq[i]
      /\ gmsgq'[Len(gmsgq) + 1] = r
      /\ UNCHANGED fault
  BY <1>1, <1>2, LinkElements
<1> HIDE DEF r
<1>4. \A i \in 1..Len(gmsgq') :
        \/ i \in 1..Len(gmsgq) /\ gmsgq'[i] = gmsgq[i]
        \/ i = Len(gmsgq) + 1 /\ gmsgq'[i] = r
  BY <1>3
<1>5. \A i \in 1..Len(gmsgq) : gmsgq[i] # r
  BY <1>1 DEF OneInv, OnlyQueuedLinked
<1>6. OnlyQueuedLinked'
  BY <1>1, <1>3, <1>4, <1>5 DEF OneInv, OnlyQueuedLinked
<1>7. LinkedForIt'
  BY <1>1, <1>3, <1>4, <1>5 DEF OneInv, LinkedForIt
<1>8. LinkedOnce'
  BY <1>4, <1>5 DEF OneInv, LinkedOnce
<1>9. QueueOpsSafe'
  BY <1>3 DEF OneInv, QueueOpsSafe
<1> QED BY <1>6, <1>7, <1>8, <1>9 DEF OneInv

(* ... and so does a step that leaves the queue alone... *)
LEMMA OneKeeps ==
  ASSUME OneInv, UNCHANGED <<gmsgq, conn>>, UNCHANGED node,
         fault' = fault \/ fault' \notin {"push_freed", "pop_freed"}
  PROVE  OneInv'
BY DEF OneInv, OnlyQueuedLinked, QueueOpsSafe, LinkedOnce, LinkedForIt

(* ... every step of a client... *)
LEMMA OneClient ==
  ASSUME NumPeers = 1, TypeInv, NodeInv, OneInv, NEW c \in Client,
         sl_send_buf(c) \/ ClientStep(c)
  PROVE  OneInv'
<1>1. CASE sl_send_buf(c)
  <2>1. /\ UNCHANGED <<gmsgq, conn, fault>>
        /\ \A s \in Req : node[s] = "queued" => node'[s] = "queued"
    BY <1>1, SendTypes DEF sl_send_buf
  <2> QED BY <2>1, SendTypes DEF OneInv, OnlyQueuedLinked, QueueOpsSafe,
                                 LinkedOnce, LinkedForIt
<1>2. CASE push_known(c)
  <2>1. PICK k \in 1..Len(gtsidq) : LinkAtEnd(creq[c], gtsidq[k].conn)
    BY <1>2 DEF push_known, PinnedTo
  <2>2. gtsidq[k].conn \in Slot
    <3>1. gtsidq[k] \in Entry
      BY ElementOfSeq DEF TypeInv, TypeOK, QueueTypeOK
    <3> QED BY <3>1 DEF Entry
  <2>3. Sending(c)
    BY <1>2 DEF push_known, Sending
  <2> QED BY <2>1, <2>2, <2>3, OneLink
<1>3. CASE scan_take(c)
  <2>1. /\ LinkAtEnd(creq[c], glast_con_rr) /\ glast_con_rr \in Slot
        /\ Sending(c)
    BY <1>3 DEF scan_take, Sending, TypeInv, TypeOK, QueueTypeOK
  <2> QED BY <2>1, OneLink
<1>4. CASE push_empty(c) \/ push_new(c) \/ scan_skip(c)
  BY <1>4, OneKeeps DEF push_empty, push_new, scan_skip, queues, msgq
<1>5. CASE peek_head(c) \/ peek_next(c)
  BY <1>5, OneKeeps DEF peek_head, peek_next, queues, msgq
<1> QED BY <1>1, <1>2, <1>3, <1>4, <1>5 DEF ClientStep

(* ... and every step of the sender, which takes the head. *)
LEMMA OneSender ==
  ASSUME NumPeers = 1, TypeInv, NodeInv, OneInv, NEW p \in Slot,
         SenderStep(p) \/ spurious_wakeup(p)
  PROVE  OneInv'
<1> USE SendTypes
<1>1. CASE send_wait(p) \/ spurious_wakeup(p) \/ send_check(p)
  BY <1>1, OneKeeps DEF send_wait, spurious_wakeup, send_check, notSenders
<1>2. CASE send_recreate(p)
  <2>1. UNCHANGED <<gmsgq, conn, node, fault>>
    BY <1>2 DEF send_recreate, notSenders
  <2> QED BY <2>1, OneKeeps
<1>3. CASE send_pop(p)
  <2>1. UNCHANGED conn
    BY <1>3 DEF send_pop, notSenders
  <2>2. ASSUME NEW k \in 1..Len(gmsgq)
        PROVE  ~ PopFaults(k) /\ ~ Freed(1..Len(gmsgq))
    <3>1. ~ Freed(PopReads(gmsgq, k)) /\ ~ Freed(1..Len(gmsgq))
      BY NothingFreed DEF PopReads
    <3>2. node[gmsgq[k]] # "held"
      BY DEF OneInv, OnlyQueuedLinked
    <3> QED BY <3>1, <3>2 DEF PopFaults
  <2>3. CASE UNCHANGED <<gmsgq, node, fault>>
    BY <2>1, <2>3, OneKeeps
  <2>4. ASSUME NEW k \in 1..Len(gmsgq),
               FirstFor(gmsgq, conn, peer_id(p), k),
               node' = [node EXCEPT ![gmsgq[k]] = "held"],
               gmsgq' = pop_from_msgq(gmsgq, k),
               UNCHANGED fault
        PROVE  OneInv'
    <3>1. k = 1
      <4>1. conn[gmsgq[1]] = 0 /\ peer_id(p) = 0
        BY OnlySlot DEF OneInv, LinkedForIt
      <4>2. ~ (1 \in 1..(k - 1))
        BY <2>4, <4>1 DEF FirstFor
      <4> QED BY <4>2
    <3>2. /\ Len(gmsgq') = Len(gmsgq) - 1
          /\ \A i \in 1..(Len(gmsgq) - 1) : gmsgq'[i] = gmsgq[i + 1]
      BY <2>4, <3>1 DEF pop_from_msgq
    <3>3. \A i \in 1..Len(gmsgq') :
            /\ i + 1 \in 1..Len(gmsgq) /\ gmsgq'[i] = gmsgq[i + 1]
            /\ gmsgq[i + 1] # gmsgq[1]
      BY <3>1, <3>2 DEF OneInv, LinkedOnce
    <3>4. OnlyQueuedLinked'
      BY <2>4, <3>1, <3>3 DEF OneInv, OnlyQueuedLinked
    <3>5. LinkedOnce'
      BY <3>3 DEF OneInv, LinkedOnce
    <3>6. LinkedForIt' /\ QueueOpsSafe'
      BY <2>1, <2>4, <3>3 DEF OneInv, LinkedForIt, QueueOpsSafe
    <3> QED BY <3>4, <3>5, <3>6 DEF OneInv
  <2>5. ~ Freed(1..Len(gmsgq))
    BY NothingFreed
  <2> QED BY <1>3, <2>2, <2>3, <2>4, <2>5 DEF send_pop
<1>4. CASE send_header(p)
  <2>1. UNCHANGED <<gmsgq, conn, node>> /\ fault' \in {fault, "node_freed"}
    BY <1>4 DEF send_header, notSenders, UseNode
  <2> QED BY <2>1, OneKeeps
<1>5. CASE send_body(p)
  <2>1. /\ UNCHANGED <<gmsgq, conn>> /\ fault' \in {fault, "node_freed"}
        /\ node' = [node EXCEPT ![snode[p]] = "freed"] /\ spc[p] = "body"
    BY <1>5 DEF send_body, notSenders, UseNode
  <2>2. node[snode[p]] = "held"
    BY <2>1 DEF NodeInv, TakenIsHeld, Writing
  <2> QED BY <2>1, <2>2 DEF OneInv, OnlyQueuedLinked, QueueOpsSafe, LinkedOnce,
                            LinkedForIt
<1> QED BY <1>1, <1>2, <1>3, <1>4, <1>5 DEF SenderStep

(* OneInv is inductive together with NodeInv and the types. *)
LEMMA OneNext ==
  ASSUME NumPeers = 1
  PROVE  TypeInv /\ NodeInv /\ OneInv /\ [Next]_vars => OneInv'
<1> SUFFICES ASSUME TypeInv, NodeInv, OneInv, [Next]_vars PROVE OneInv'
  OBVIOUS
<1>1. CASE UNCHANGED vars
  BY <1>1, OneKeeps DEF vars, queues, msgq
<1>2. CASE Next
  <2>1. ASSUME NEW p \in Slot, ReceiverStep(p) \/ recv_message(p)
        PROVE  OneInv'
    BY <2>1, OthersKeepNodes, OneKeeps DEF sendVars
  <2>2. CASE qmanager \/ register_req_cb \/ drop \/ tick
    BY <2>2, OthersKeepNodes, OneKeeps DEF sendVars
  <2> QED BY <1>2, <2>1, <2>2, OneClient, OneSender DEF Next
<1> QED BY <1>1, <1>2

(* With a single peer pop_from_msgq always takes the head, which it does   *)
(* unlink: whatever the clients do, the queue holds only messages that     *)
(* wait to be sent, and no walk over it meets a freed node.                *)
THEOREM OnePeerQueue ==
  ASSUME NumPeers = 1
  PROVE  Spec => [](OnlyQueuedLinked /\ QueueOpsSafe)
<1>1. Init => OneInv
  BY DEF Init, OneInv, OnlyQueuedLinked, QueueOpsSafe, LinkedOnce, LinkedForIt
<1>2. OneInv => OnlyQueuedLinked /\ QueueOpsSafe
  BY DEF OneInv
<1>3. TypeInv /\ NodeInv /\ [Next]_vars => NodeInv'
  BY OnlySlot, NodeNext
<1> QED BY <1>1, <1>2, <1>3, OneNext, NodeInit, TypeInit, TypeNext, PTL DEF Spec


---------------------------------------------------------------------------
(* The messages of a connection are written in the order of the pushes     *)

(* s holds r at an earlier place than t. *)
Before(s, r, t) ==
  \E a, b \in 1..Len(s) : a < b /\ s[a] = r /\ s[b] = t

(* PerPeerOrder speaks of what was written and says nothing of what will   *)
(* be.  The order is passed on from the queue, which links the nodes in    *)
(* the order of the pushes, to the sender that takes one (nothing it       *)
(* leaves behind for its peer was pushed earlier), and from there to the   *)
(* wire.                                                                   *)
InUseWasAccepted ==
  \A r \in Req : node[r] \in {"queued", "held", "freed"} =>
    \E a \in 1..Len(accepted) : accepted[a] = r
LinkedInOrder ==
  \A i, j \in 1..Len(gmsgq) : i < j => Before(accepted, gmsgq[i], gmsgq[j])
TakenBeforeQueued ==
  \A r \in Req : \A i \in 1..Len(gmsgq) :
    /\ node[r] \in {"held", "freed"} /\ node[gmsgq[i]] = "queued"
    /\ conn[r] = conn[gmsgq[i]]
    => Before(accepted, r, gmsgq[i])
WrittenBeforeTaken ==
  \A p \in Slot : \A i \in 1..Len(wire) :
    /\ Writing(p) /\ wire[i].req # snode[p]
    /\ conn[wire[i].req] = conn[snode[p]]
    => Before(accepted, wire[i].req, snode[p])
WrittenInOrder ==
  \A i, j \in 1..Len(wire) :
    /\ i < j /\ wire[i].part = wire[j].part
    /\ conn[wire[i].req] = conn[wire[j].req]
    => Before(accepted, wire[i].req, wire[j].req)

OrderInv == /\ InUseWasAccepted /\ LinkedInOrder /\ TakenBeforeQueued
            /\ WrittenBeforeTaken /\ WrittenInOrder

(* A push comes after everything pushed before and leaves that in order.   *)
LEMMA PushedLast ==
  ASSUME NEW s \in Seq(Req), NEW r \in Req
  PROVE  /\ \A t, u : Before(s, t, u) => Before(Append(s, r), t, u)
         /\ \A a \in 1..Len(s) : Before(Append(s, r), s[a], r)
         /\ \A a \in 1..Len(s) :
              \E b \in 1..Len(Append(s, r)) : Append(s, r)[b] = s[a]
         /\ \E b \in 1..Len(Append(s, r)) : Append(s, r)[b] = r
<1> DEFINE n == Len(s)
           w == Append(s, r)
<1>1. /\ n \in Nat /\ Len(w) = n + 1 /\ w[n + 1] = r
      /\ \A a \in 1..n : w[a] = s[a]
  BY LenProperties
<1>2. 1..n \subseteq 1..Len(w) /\ n + 1 \in 1..Len(w)
  BY <1>1
<1>3. ASSUME NEW t, NEW u, Before(s, t, u)
      PROVE  Before(w, t, u)
  <2>1. PICK a \in 1..n, b \in 1..n : a < b /\ s[a] = t /\ s[b] = u
    BY <1>3 DEF Before
  <2> HIDE DEF n, w
  <2> QED BY <1>1, <1>2, <2>1 DEF Before
<1>4. ASSUME NEW a \in 1..n
      PROVE  Before(w, s[a], r)
  <2>1. a < n + 1
    BY <1>1
  <2> HIDE DEF n, w
  <2> QED BY <1>1, <1>2, <2>1 DEF Before
<1> HIDE DEF w
<1>5. /\ \A a \in 1..n : \E b \in 1..Len(w) : w[b] = s[a]
      /\ \E b \in 1..Len(w) : w[b] = r
  BY <1>1, <1>2
<1> QED BY <1>3, <1>4, <1>5 DEF w

(* Linking a request keeps the order: it is the last one in both, and      *)
(* whatever is taken or written was accepted before.                       *)
LEMMA OrderLink ==
  ASSUME TypeInv, NodeInv, OrderInv, NEW c \in Client, Sending(c),
         NEW con \in Slot, LinkAtEnd(creq[c], con), UNCHANGED <<spc, snode, wire>>
  PROVE  OrderInv'
<1> USE SendTypes
<1> DEFINE r == creq[c]
<1>1. r \in Req /\ node[r] = "new" /\ accepted \in Seq(Req)
  BY DEF NodeInv, SentIsNew, Sending, TypeInv, TypeOK, QueueTypeOK
<1>2. /\ conn' = [conn EXCEPT ![r] = con]
      /\ \/ /\ node' = [node EXCEPT ![r] = "queued"]
            /\ Len(gmsgq') = Len(gmsgq) + 1
            /\ \A i \in 1..Len(gmsgq) : gmsgq'[i] = gmsgq[i]
            /\ gmsgq'[Len(gmsgq) + 1] = r
            /\ accepted' = Append(accepted, r)
         \/ UNCHANGED <<node, gmsgq, accepted>>
  BY <1>1, LinkElements
<1> HIDE DEF r
<1>3. /\ \A s \in Req : s # r => conn'[s] = conn[s] /\ node'[s] = node[s]
      /\ node'[r] \in {"new", "queued"}
  BY <1>1, <1>2
<1>4. \A t, u : Before(accepted, t, u) => Before(accepted', t, u)
  <2>1. \A t, u : Before(accepted, t, u) => Before(Append(accepted, r), t, u)
    BY <1>1, PushedLast
  <2>2. accepted' \in {accepted, Append(accepted, r)}
    BY <1>2
  <2> QED BY <2>1, <2>2
<1>5. \A i \in 1..Len(gmsgq) : gmsgq[i] # r
  BY <1>1 DEF NodeInv, LinkedInUse
<1>6. \A i \in 1..Len(wire) : wire[i].req # r
  BY <1>1 DEF NodeInv, WrittenWasHeld
<1>7. \A p \in Slot : Writing(p) => snode[p] # r
  BY <1>1 DEF NodeInv, TakenIsHeld
<1>8. \A i \in 1..Len(gmsgq') :
        \/ i \in 1..Len(gmsgq) /\ gmsgq'[i] = gmsgq[i]
        \/ /\ i = Len(gmsgq) + 1 /\ gmsgq'[i] = r
           /\ accepted' = Append(accepted, r)
  BY <1>2
<1>9. \A s \in Req : /\ node[s] \in {"queued", "held", "freed"}
                     /\ accepted' = Append(accepted, r)
                     => Before(accepted', s, r)
  <2>1. SUFFICES ASSUME NEW s \in Req, node[s] \in {"queued", "held", "freed"},
                        accepted' = Append(accepted, r)
                 PROVE  Before(accepted', s, r)
    OBVIOUS
  <2>2. PICK a \in 1..Len(accepted) : accepted[a] = s
    BY <2>1 DEF OrderInv, InUseWasAccepted
  <2>3. Before(Append(accepted, r), accepted[a], r)
    BY <1>1, PushedLast
  <2> QED BY <2>1, <2>2, <2>3
<1>10. InUseWasAccepted'
  <2>1. SUFFICES ASSUME NEW s \in Req, node'[s] \in {"queued", "held", "freed"}
                 PROVE  \E a \in 1..Len(accepted') : accepted'[a] = s
    BY DEF InUseWasAccepted
  <2>2. CASE UNCHANGED <<node, gmsgq, accepted>>
    BY <2>1, <2>2 DEF OrderInv, InUseWasAccepted
  <2>3. CASE accepted' = Append(accepted, r)
    <3>1. CASE s = r
      BY <1>1, <2>3, <3>1, PushedLast
    <3>2. CASE s # r
      <4>1. PICK a \in 1..Len(accepted) : accepted[a] = s
        BY <1>3, <2>1, <3>2 DEF OrderInv, InUseWasAccepted
      <4> QED BY <1>1, <2>3, <4>1, PushedLast
    <3> QED BY <3>1, <3>2
  <2> QED BY <1>2, <2>2, <2>3
<1>11. LinkedInOrder'
  <2>1. SUFFICES ASSUME NEW i \in 1..Len(gmsgq'), NEW j \in 1..Len(gmsgq'), i < j
                 PROVE  Before(accepted', gmsgq'[i], gmsgq'[j])
    BY DEF LinkedInOrder
  <2>2. i \in 1..Len(gmsgq) /\ gmsgq'[i] = gmsgq[i]
    BY <1>8, <2>1
  <2>3. CASE j \in 1..Len(gmsgq) /\ gmsgq'[j] = gmsgq[j]
    BY <1>4, <2>1, <2>2, <2>3 DEF OrderInv, LinkedInOrder
  <2>4. CASE gmsgq'[j] = r /\ accepted' = Append(accepted, r)
    BY <1>9, <2>2, <2>4 DEF NodeInv, LinkedInUse
  <2> QED BY <1>8, <2>3, <2>4
<1>12. TakenBeforeQueued'
  <2>1. SUFFICES ASSUME NEW s \in Req, NEW i \in 1..Len(gmsgq'),
                        node'[s] \in {"held", "freed"},
                        node'[gmsgq'[i]] = "queued", conn'[s] = conn'[gmsgq'[i]]
                 PROVE  Before(accepted', s, gmsgq'[i])
    BY DEF TakenBeforeQueued
  <2>2. s # r /\ node[s] \in {"held", "freed"} /\ conn'[s] = conn[s]
    BY <1>3, <2>1
  <2>3. CASE i \in 1..Len(gmsgq) /\ gmsgq'[i] = gmsgq[i]
    <3>1. gmsgq[i] \in Req /\ gmsgq[i] # r
      BY <1>5, <2>3
    <3> QED BY <1>3, <1>4, <2>1, <2>2, <2>3, <3>1 DEF OrderInv, TakenBeforeQueued
  <2>4. CASE gmsgq'[i] = r /\ accepted' = Append(accepted, r)
    BY <1>9, <2>2, <2>4
  <2> QED BY <1>8, <2>3, <2>4
<1>13. WrittenBeforeTaken'
  <2>1. SUFFICES ASSUME NEW p \in Slot, NEW i \in 1..Len(wire), Writing(p),
                        wire[i].req # snode[p],
                        conn'[wire[i].req] = conn'[snode[p]]
                 PROVE  Before(accepted', wire[i].req, snode[p])
    BY DEF WrittenBeforeTaken, Writing
  <2>2. conn[wire[i].req] = conn[snode[p]]
    BY <1>3, <1>6, <1>7, <2>1
  <2> QED BY <1>4, <2>1, <2>2 DEF OrderInv, WrittenBeforeTaken
<1>14. WrittenInOrder'
  <2>1. SUFFICES ASSUME NEW i \in 1..Len(wire), NEW j \in 1..Len(wire), i < j,
                        wire[i].part = wire[j].part,
                        conn'[wire[i].req] = conn'[wire[j].req]
                 PROVE  Before(accepted', wire[i].req, wire[j].req)
    BY DEF WrittenInOrder
  <2>2. conn[wire[i].req] = conn[wire[j].req]
    BY <1>3, <1>6, <2>1
  <2> QED BY <1>4, <2>1, <2>2 DEF OrderInv, WrittenInOrder
<1> QED BY <1>10, <1>11, <1>12, <1>13, <1>14 DEF OrderInv

(* So does every step that leaves the queue, its nodes and the writes      *)
(* alone and makes no sender a writer.                                     *)
LEMMA OrderKeeps ==
  ASSUME OrderInv, UNCHANGED <<gmsgq, conn, accepted, snode, wire>>,
         \A r \in Req : node'[r] = node[r] \/ node'[r] = "new",
         \A i \in 1..Len(gmsgq) : gmsgq[i] \in Req,
         \A p \in Slot : Writing(p)' => Writing(p)
  PROVE  OrderInv'
<1>1. InUseWasAccepted' /\ LinkedInOrder' /\ TakenBeforeQueued'
  BY DEF OrderInv, InUseWasAccepted, LinkedInOrder, TakenBeforeQueued
<1>2. WrittenBeforeTaken' /\ WrittenInOrder'
  BY DEF OrderInv, WrittenBeforeTaken, WrittenInOrder
<1> QED BY <1>1, <1>2 DEF OrderInv

(* Every step of a client. *)
LEMMA OrderClient ==
  ASSUME TypeInv, NodeInv, OrderInv, NEW c \in Client,
         sl_send_buf(c) \/ ClientStep(c)
  PROVE  OrderInv'
<1>1. CASE sl_send_buf(c)
  <2>1. /\ UNCHANGED <<gmsgq, conn, accepted, spc, snode, wire>>
        /\ \A r \in Req : node'[r] = node[r] \/ node'[r] = "new"
    BY <1>1, SendTypes DEF sl_send_buf, notClients, senders
  <2> QED BY <2>1, OrderKeeps, SendTypes DEF Writing
<1>2. CASE push_known(c)
  <2>1. PICK k \in 1..Len(gtsidq) : LinkAtEnd(creq[c], gtsidq[k].conn)
    BY <1>2 DEF push_known, PinnedTo
  <2>2. gtsidq[k].conn \in Slot
    <3>1. gtsidq[k] \in Entry
      BY ElementOfSeq DEF TypeInv, TypeOK, QueueTypeOK
    <3> QED BY <3>1 DEF Entry
  <2>3. Sending(c) /\ UNCHANGED <<spc, snode, wire>>
    BY <1>2 DEF push_known, Sending, notClients, senders
  <2> QED BY <2>1, <2>2, <2>3, OrderLink
<1>3. CASE scan_take(c)
  <2>1. /\ LinkAtEnd(creq[c], glast_con_rr) /\ glast_con_rr \in Slot
        /\ Sending(c) /\ UNCHANGED <<spc, snode, wire>>
    BY <1>3 DEF scan_take, Sending, TypeInv, TypeOK, QueueTypeOK, notClients,
                senders
  <2> QED BY <2>1, OrderLink
<1>4. CASE push_empty(c) \/ push_new(c) \/ scan_skip(c) \/ peek_head(c)
  <2>1. UNCHANGED <<gmsgq, node, conn, accepted, spc, snode, wire>>
    BY <1>4 DEF push_empty, push_new, scan_skip, peek_head, queues, msgq,
                notClients, senders
  <2> QED BY <2>1, OrderKeeps, SendTypes DEF Writing
<1>5. CASE peek_next(c)
  <2>1. /\ UNCHANGED <<gmsgq, node, conn, accepted, snode, wire>>
        /\ \/ UNCHANGED spc
           \/ \E p \in Slot : spc' = [spc EXCEPT ![p] = "wait"]
    BY <1>5 DEF peek_next, queues, msgq, signal
  <2>2. \A p \in Slot : Writing(p)' => Writing(p)
    BY <2>1, SendTypes DEF Writing
  <2> QED BY <2>1, <2>2, OrderKeeps, SendTypes
<1> QED BY <1>1, <1>2, <1>3, <1>4, <1>5 DEF ClientStep

(* Taking the first node of a connection. *)
LEMMA OrderPop ==
  ASSUME TypeInv, NodeInv, OrderInv, Unreachable \subseteq {0}, NEW p \in Slot,
         spc[p] = "pop", NEW k \in 1..Len(gmsgq),
         FirstFor(gmsgq, conn, peer_id(p), k), ~ Freed(PopReads(gmsgq, k)),
         snode' = [snode EXCEPT ![p] = gmsgq[k]],
         node' = [node EXCEPT ![gmsgq[k]] = "held"],
         gmsgq' = pop_from_msgq(gmsgq, k),
         spc' = [spc EXCEPT ![p] = "header"],
         UNCHANGED <<conn, accepted, wire>>
  PROVE  OrderInv'
<1> USE SendTypes
<1> DEFINE r == gmsgq[k]
<1>1. r \in Req /\ conn[r] = peer_id(p) /\ node[r] = "queued"
  BY PoppedWasQueued
<1>2. PICK old \in [1..Len(gmsgq') -> 1..Len(gmsgq)] :
        /\ \A i \in 1..Len(gmsgq') : gmsgq'[i] = gmsgq[old[i]]
        /\ \A i, j \in 1..Len(gmsgq') : i < j => old[i] < old[j]
  BY PopInOrder
<1>3. \A j \in 1..Len(gmsgq) : conn[gmsgq[j]] = conn[r] => j >= k
  BY <1>1 DEF FirstFor
<1>4. \A j \in 1..Len(gmsgq) :
        conn[gmsgq[j]] = conn[r] /\ gmsgq[j] # r => Before(accepted, r, gmsgq[j])
  <2>1. SUFFICES ASSUME NEW j \in 1..Len(gmsgq), conn[gmsgq[j]] = conn[r],
                        gmsgq[j] # r
                 PROVE  Before(accepted, r, gmsgq[j])
    OBVIOUS
  <2>2. j > k
    BY <1>3, <2>1
  <2> QED BY <2>2 DEF OrderInv, LinkedInOrder
<1> HIDE DEF r
<1>5. /\ \A s \in Req : s # r => node'[s] = node[s]
      /\ node'[r] = "held" /\ snode'[p] = r
      /\ \A q \in Slot : q # p => snode'[q] = snode[q] /\ Writing(q)' = Writing(q)
  BY <1>1 DEF r, Writing
<1>6. InUseWasAccepted'
  BY <1>1, <1>5 DEF OrderInv, InUseWasAccepted
<1>7. LinkedInOrder'
  <2>1. SUFFICES ASSUME NEW i \in 1..Len(gmsgq'), NEW j \in 1..Len(gmsgq'), i < j
                 PROVE  Before(accepted, gmsgq'[i], gmsgq'[j])
    BY DEF LinkedInOrder
  <2>2. /\ old[i] \in 1..Len(gmsgq) /\ old[j] \in 1..Len(gmsgq)
        /\ old[i] < old[j]
        /\ gmsgq'[i] = gmsgq[old[i]] /\ gmsgq'[j] = gmsgq[old[j]]
    BY <1>2, <2>1
  <2> QED BY <2>2 DEF OrderInv, LinkedInOrder
<1>8. TakenBeforeQueued'
  <2>1. SUFFICES ASSUME NEW s \in Req, NEW i \in 1..Len(gmsgq'),
                        node'[s] \in {"held", "freed"},
                        node'[gmsgq'[i]] = "queued", conn[s] = conn[gmsgq'[i]]
                 PROVE  Before(accepted, s, gmsgq'[i])
    BY DEF TakenBeforeQueued
  <2>2. PICK j \in 1..Len(gmsgq) : gmsgq'[i] = gmsgq[j]
    BY <1>2
  <2>3. gmsgq[j] \in Req /\ gmsgq[j] # r /\ node[gmsgq[j]] = "queued"
    BY <1>5, <2>1, <2>2
  <2>4. CASE s = r
    BY <1>4, <2>1, <2>2, <2>3, <2>4
  <2>5. CASE s # r
    <3>1. node[s] \in {"held", "freed"} /\ conn[s] = conn[gmsgq[j]]
      BY <1>5, <2>1, <2>2, <2>5
    <3> QED BY <2>2, <2>3, <3>1 DEF OrderInv, TakenBeforeQueued
  <2> QED BY <2>4, <2>5
<1>9. WrittenBeforeTaken'
  <2>1. SUFFICES ASSUME NEW q \in Slot, NEW i \in 1..Len(wire), Writing(q)',
                        wire[i].req # snode'[q],
                        conn[wire[i].req] = conn[snode'[q]]
                 PROVE  Before(accepted, wire[i].req, snode'[q])
    BY DEF WrittenBeforeTaken
  <2>2. CASE q = p
    <3>1. wire[i].req \in Req /\ node[wire[i].req] \in {"held", "freed"}
      BY DEF NodeInv, WrittenWasHeld
    <3>2. r = gmsgq[k] /\ snode'[q] = r
      BY <1>5, <2>2 DEF r
    <3> QED BY <1>1, <2>1, <3>1, <3>2 DEF OrderInv, TakenBeforeQueued
  <2>3. CASE q # p
    BY <1>5, <2>1, <2>3 DEF OrderInv, WrittenBeforeTaken
  <2> QED BY <2>2, <2>3
<1>10. WrittenInOrder'
  BY DEF OrderInv, WrittenInOrder
<1> QED BY <1>6, <1>7, <1>8, <1>9, <1>10 DEF OrderInv

(* A sender writes a part of the node it took: every message of its        *)
(* connection that is on the wire was pushed earlier.                      *)
LEMMA OrderWrite ==
  ASSUME TypeInv, NodeInv, OrderInv, Unreachable \subseteq {0}, NEW p \in Slot,
         NEW part \in {"H", "B"}, spc[p] = IF part = "H" THEN "header" ELSE "body",
         send_ok(p, part, snode[p]) \/ send_failed(p),
         UNCHANGED <<gmsgq, conn, accepted>>,
         \A r \in Req : \/ node'[r] = node[r]
                        \/ node'[r] = "freed" /\ node[r] = "held",
         \A q \in Slot : q # p => snode'[q] = snode[q] /\ spc'[q] = spc[q],
         spc'[p] \in {"header", "body"} => snode'[p] = snode[p]
  PROVE  OrderInv'
<1> USE SendTypes
<1>1. Writing(p) /\ snode[p] \in Req /\ conn[snode[p]] = peer_id(p)
  BY DEF Writing, NodeInv, TakenIsHeld
<1>2. \/ UNCHANGED wire
      \/ /\ Len(wire') = Len(wire) + 1
         /\ \A i \in 1..Len(wire) : wire'[i] = wire[i]
         /\ wire'[Len(wire) + 1].part = part
         /\ wire'[Len(wire) + 1].req = snode[p]
  BY <1>1, OneWrite
<1>3. \A i \in 1..Len(wire') :
        \/ i \in 1..Len(wire) /\ wire'[i] = wire[i]
        \/ /\ i = Len(wire) + 1 /\ wire'[i].part = part
           /\ wire'[i].req = snode[p]
  BY <1>2
<1>4. \A i \in 1..Len(wire) : wire[i].part = part => wire[i].req # snode[p]
  BY DEF NodeInv, NotYetWritten
<1>5. InUseWasAccepted' /\ LinkedInOrder'
  BY DEF OrderInv, InUseWasAccepted, LinkedInOrder
<1>6. TakenBeforeQueued'
  <2>1. \A r \in Req : /\ node'[r] = "queued" => node[r] = "queued"
                       /\ node'[r] \in {"held", "freed"} =>
                            node[r] \in {"held", "freed"}
    OBVIOUS
  <2> QED BY <2>1 DEF OrderInv, TakenBeforeQueued
<1>7. WrittenBeforeTaken'
  <2>1. SUFFICES ASSUME NEW q \in Slot, NEW i \in 1..Len(wire'), Writing(q)',
                        wire'[i].req # snode'[q],
                        conn[wire'[i].req] = conn[snode'[q]]
                 PROVE  Before(accepted, wire'[i].req, snode'[q])
    BY DEF WrittenBeforeTaken
  <2>2. snode'[q] = snode[q] /\ Writing(q)
    BY <1>1, <2>1 DEF Writing
  <2>3. CASE i \in 1..Len(wire) /\ wire'[i] = wire[i]
    BY <2>1, <2>2, <2>3 DEF OrderInv, WrittenBeforeTaken
  <2>4. CASE wire'[i].req = snode[p]
    <3>1. conn[snode[q]] = peer_id(q)
      BY <2>2 DEF NodeInv, TakenIsHeld
    <3>2. peer_id(p) = peer_id(q)
      BY <1>1, <2>1, <2>2, <2>4, <3>1
    <3>3. p = q
      BY <3>2, PeersDiffer
    <3> QED BY <2>1, <2>2, <2>4, <3>3
  <2> QED BY <1>3, <2>3, <2>4
<1>8. WrittenInOrder'
  <2>1. SUFFICES ASSUME NEW i \in 1..Len(wire'), NEW j \in 1..Len(wire'), i < j,
                        wire'[i].part = wire'[j].part,
                        conn[wire'[i].req] = conn[wire'[j].req]
                 PROVE  Before(accepted, wire'[i].req, wire'[j].req)
    BY DEF WrittenInOrder
  <2>2. i \in 1..Len(wire) /\ wire'[i] = wire[i]
    BY <1>3, <2>1
  <2>3. CASE j \in 1..Len(wire) /\ wire'[j] = wire[j]
    BY <2>1, <2>2, <2>3 DEF OrderInv, WrittenInOrder
  <2>4. CASE wire'[j].part = part /\ wire'[j].req = snode[p]
    <3>1. wire[i].req # snode[p] /\ conn[wire[i].req] = conn[snode[p]]
      BY <1>4, <2>1, <2>2, <2>4
    <3> QED BY <1>1, <2>2, <2>4, <3>1 DEF OrderInv, WrittenBeforeTaken
  <2> QED BY <1>3, <2>3, <2>4
<1> QED BY <1>5, <1>6, <1>7, <1>8 DEF OrderInv

(* Every step of a sender. *)
LEMMA OrderSender ==
  ASSUME TypeInv, NodeInv, OrderInv, Unreachable \subseteq {0}, NEW p \in Slot,
         SenderStep(p) \/ spurious_wakeup(p)
  PROVE  OrderInv'
<1> USE SendTypes
<1>1. CASE send_wait(p) \/ spurious_wakeup(p) \/ send_check(p)
  <2>1. /\ UNCHANGED <<gmsgq, node, conn, accepted, snode, wire>>
        /\ \E s \in {"blocked", "check", "wait", "pop", "lock"} :
             spc' = [spc EXCEPT ![p] = s]
    BY <1>1 DEF send_wait, spurious_wakeup, send_check, notSenders
  <2>2. \A q \in Slot : Writing(q)' => Writing(q)
    BY <2>1 DEF Writing
  <2> QED BY <2>1, <2>2, OrderKeeps
<1>2. CASE send_recreate(p)
  <2>1. /\ UNCHANGED <<gmsgq, node, conn, accepted, snode, wire>>
        /\ \E s \in {"connect", "connected", "pop"} :
             spc' = [spc EXCEPT ![p] = s]
    BY <1>2 DEF send_recreate, notSenders
  <2>2. \A q \in Slot : Writing(q)' => Writing(q)
    BY <2>1 DEF Writing
  <2> QED BY <2>1, <2>2, OrderKeeps
<1>3. CASE send_pop(p)
  <2>1. UNCHANGED <<conn, accepted, wire>> /\ spc[p] = "pop"
    BY <1>3 DEF send_pop, notSenders
  <2>2. CASE /\ spc' \in {spc, [spc EXCEPT ![p] = "wait"]}
             /\ UNCHANGED <<gmsgq, node, snode>>
    <3>1. \A q \in Slot : Writing(q)' => Writing(q)
      BY <2>2 DEF Writing
    <3> QED BY <2>1, <2>2, <3>1, OrderKeeps
  <2> QED BY <1>3, <2>1, <2>2, OrderPop DEF send_pop, PopFaults
<1>4. CASE send_header(p)
  <2>1. /\ spc[p] = "header" /\ spc' = [spc EXCEPT ![p] = "body"]
        /\ UNCHANGED <<gmsgq, node, conn, accepted, snode>>
        /\ send_ok(p, "H", snode[p]) \/ send_failed(p)
    BY <1>4 DEF send_header, notSenders
  <2>2. /\ \A q \in Slot : q # p => snode'[q] = snode[q] /\ spc'[q] = spc[q]
        /\ \A r \in Req : node'[r] = node[r]
        /\ snode'[p] = snode[p]
    BY <2>1
  <2> QED BY <2>1, <2>2, OrderWrite
<1>5. CASE send_body(p)
  <2>1. /\ spc[p] = "body" /\ spc' = [spc EXCEPT ![p] = "wait"]
        /\ node' = [node EXCEPT ![snode[p]] = "freed"]
        /\ snode' = [snode EXCEPT ![p] = NoReq]
        /\ UNCHANGED <<gmsgq, conn, accepted>>
        /\ send_ok(p, "B", snode[p]) \/ send_failed(p)
    BY <1>5 DEF send_body, notSenders
  <2>2. /\ \A q \in Slot : q # p => spc'[q] = spc[q] /\ snode'[q] = snode[q]
        /\ spc'[p] = "wait" /\ Writing(p)
    BY <2>1 DEF Writing
  <2>3. \A r \in Req : \/ node'[r] = node[r]
                       \/ node'[r] = "freed" /\ node[r] = "held"
    BY <2>1, <2>2 DEF NodeInv, TakenIsHeld
  <2> QED BY <2>1, <2>2, <2>3, OrderWrite
<1> QED BY <1>1, <1>2, <1>3, <1>4, <1>5 DEF SenderStep

(* OrderInv is inductive together with NodeInv and the types. *)
LEMMA OrderNext ==
  ASSUME Unreachable \subseteq {0}
  PROVE  TypeInv /\ NodeInv /\ OrderInv /\ [Next]_vars => OrderInv'
<1> SUFFICES ASSUME TypeInv, NodeInv, OrderInv, [Next]_vars PROVE OrderInv'
  OBVIOUS
<1>1. ASSUME UNCHANGED sendVars PROVE OrderInv'
  BY <1>1, OrderKeeps, SendTypes DEF sendVars, Writing
<1>2. CASE UNCHANGED vars
  BY <1>1, <1>2 DEF vars, queues, msgq, clients, senders, sendVars
<1>3. CASE Next
  BY <1>1, <1>3, OrderClient, OrderSender, OthersKeepNodes DEF Next
<1> QED BY <1>2, <1>3

(* When create_peers could connect every slot but the first, the messages  *)
(* of a connection are written in the order of push_to_msgq, for any       *)
(* number of peers and clients: that pop_from_msgq walks past nodes of     *)
(* other peers, leaves a last node linked, and that a lost connection is   *)
(* recreated between two writes, changes nothing in that order.            *)
THEOREM SentInOrder ==
  ASSUME Unreachable \subseteq {0}
  PROVE  Spec => []PerPeerOrder
<1>1. Init => OrderInv
  BY DEF Init, OrderInv, InUseWasAccepted, LinkedInOrder, TakenBeforeQueued,
         WrittenBeforeTaken, WrittenInOrder
<1>2. OrderInv => PerPeerOrder
  BY DEF OrderInv, WrittenInOrder, PerPeerOrder, Before, AcceptedBefore
<1> QED BY <1>1, <1>2, OrderNext, NodeInit, NodeNext, TypeInit, TypeNext, PTL
        DEF Spec

---------------------------------------------------------------------------
(* As long as no connection is lost, each one carries whole frames         *)

(* The descriptor of slot p is a connected socket to its own peer, no      *)
(* thread of the slot is about to replace or close it, and the stream is   *)
(* in the middle of the message whose header the sender has written.       *)
Steady(p) ==
  /\ c_state[p] = 1
  /\ c_fd[p] \in Fd /\ sock[c_fd[p]] = "up" /\ owner[c_fd[p]] = p
  /\ half[c_fd[p]] = IF spc[p] = "body" THEN snode[p] ELSE NoReq
  /\ spc[p] \notin {"lock", "connect", "connected"}
  /\ rpc[p] \notin {"lock", "connect", "connected", "close", "down"}
  /\ rpc[p] = "recv" => rfd[p] = c_fd[p]

SteadyInv == (\A p \in Slot : Steady(p)) /\ WrittenToPinned /\ Framed

(* What create_peers connects: slot i has descriptor i + 1, its own. *)
LEMMA SteadyInit == ASSUME Unreachable = {}, Init PROVE SteadyInv
<1>1. ASSUME NEW p \in Slot
      PROVE  c_fd[p] = p + 1 /\ p + 1 \in Fd /\ p + 1 # Stdin
  <2>1. p \in Nat /\ p + 1 <= MaxFd /\ MaxFd \in Nat
    BY PeersAssumption DEF Slot
  <2>2. Cardinality(0..p) = p + 1
    BY <2>1, FS_Interval
  <2>3. (0..p) \ {} = 0..p
    OBVIOUS
  <2>4. c_fd[p] = p + 1
    BY <2>2, <2>3 DEF Init, create_peers, PeerFd
  <2> QED BY <2>1, <2>4 DEF Fd, Stdin
<1>2. ASSUME NEW p \in Slot
      PROVE  Steady(p)
  <2>1. sock[p + 1] = "up" /\ half[p + 1] = NoReq
    BY <1>1 DEF Init, create_peers
  <2>2. owner[p + 1] \in Slot /\ c_fd[owner[p + 1]] = p + 1
    BY <1>1, <2>1 DEF Init, create_peers
  <2>3. owner[p + 1] = p
    BY <1>1, <2>2 DEF Slot
  <2>4. c_state[p] = 1
    BY DEF Init, create_peers, PeerState
  <2>5. spc[p] = "wait" /\ rpc[p] = "top"
    BY DEF Init
  <2> QED BY <1>1, <2>1, <2>3, <2>4, <2>5 DEF Steady
<1>3. WrittenToPinned /\ Framed
  BY DEF Init, WrittenToPinned, Framed
<1> QED BY <1>2, <1>3 DEF SteadyInv

(* A step that keeps the connections, the threads' places on them and the  *)
(* writes. *)
LEMMA SteadyKeeps ==
  ASSUME NodeInv, TypeInv, SteadyInv, UNCHANGED <<conns, snode, wire>>,
         \A r \in Req : node[r] # "new" => conn'[r] = conn[r],
         \A p \in Slot :
           /\ spc'[p] \notin {"lock", "connect", "connected"}
           /\ spc'[p] = "body" <=> spc[p] = "body"
           /\ rpc'[p] \notin {"lock", "connect", "connected", "close", "down"}
           /\ rpc'[p] = "recv" => rfd'[p] = c_fd[p]
  PROVE  SteadyInv'
<1>1. ASSUME NEW p \in Slot
      PROVE  Steady(p)'
  <2>1. Steady(p)
    BY DEF SteadyInv
  <2> QED BY <2>1 DEF Steady, conns
<1>2. \A i \in 1..Len(wire) : conn'[wire[i].req] = conn[wire[i].req]
  BY SendTypes DEF NodeInv, WrittenWasHeld
<1>3. WrittenToPinned' /\ Framed'
  BY <1>2 DEF SteadyInv, WrittenToPinned, Framed
<1> QED BY <1>1, <1>3 DEF SteadyInv

(* A write goes to the peer of the slot, where the stream is at the end of *)
(* a frame or behind the header of the same message.                       *)
LEMMA SteadyWrite ==
  ASSUME TypeInv, NodeInv, SteadyInv, Unreachable = {}, NEW p \in Slot,
         NEW part \in {"H", "B"}, spc[p] = IF part = "H" THEN "header" ELSE "body",
         send_ok(p, part, snode[p]) \/ send_failed(p),
         UNCHANGED <<c_fd, owner, rpc, rfd, conn>>,
         \A q \in Slot : q # p => snode'[q] = snode[q] /\ spc'[q] = spc[q],
         IF part = "H" THEN spc'[p] = "body" /\ snode'[p] = snode[p]
         ELSE spc'[p] = "wait"
  PROVE  SteadyInv'
<1> USE SendTypes
<1>0. \A q \in Slot : Steady(q)
  BY DEF SteadyInv
<1>1. /\ snode[p] \in Req /\ conn[snode[p]] = p
      /\ half[c_fd[p]] = IF part = "H" THEN NoReq ELSE snode[p]
  <2>1. Writing(p) /\ (spc[p] = "body" <=> part = "B")
    BY DEF Writing
  <2>2. conn[snode[p]] = p /\ snode[p] \in Req
    BY <2>1 DEF NodeInv, TakenIsHeld, peer_id, PeerId
  <2>3. half[c_fd[p]] = IF spc[p] = "body" THEN snode[p] ELSE NoReq
    BY <1>0 DEF Steady
  <2> QED BY <2>1, <2>2, <2>3
<1>2. send_ok(p, part, snode[p])
  <2>1. ~ send_failed(p)
    BY <1>0 DEF Steady, send_failed
  <2> QED BY <2>1
<1> DEFINE f == c_fd[p]
           e == [part |-> part, req |-> snode[p], to |-> owner[f],
                 after |-> half[f]]
<1>3. /\ f \in Fd /\ owner[f] = p
      /\ wire' = Append(wire, e)
      /\ half' = [half EXCEPT ![f] = IF part = "H" THEN snode[p] ELSE NoReq]
      /\ UNCHANGED <<c_state, sock>>
  BY <1>0, <1>2 DEF send_ok, written, Steady
<1>4. e.part = part /\ e.req = snode[p] /\ e.to = p /\ e.after = half[f]
  BY <1>3
<1> HIDE DEF e, f
<1>5. \A i \in 1..Len(wire') :
        (i \in 1..Len(wire) /\ wire'[i] = wire[i]) \/ wire'[i] = e
  BY <1>3
<1>6. WrittenToPinned'
  BY <1>1, <1>4, <1>5, SMTT(30) DEF SteadyInv, WrittenToPinned
<1>7. Framed'
  <2>1. e.after = IF e.part = "H" THEN NoReq ELSE e.req
    BY <1>1, <1>4 DEF f
  <2> QED BY <1>5, <2>1 DEF SteadyInv, Framed
<1>8. ASSUME NEW q \in Slot
      PROVE  Steady(q)'
  <2>1. half \in [Fd -> Req \cup {NoReq}]
    BY DEF TypeInv, TypeOK, ConnTypeOK
  <2>2. CASE q = p
    <3>1. half'[f] = IF spc'[p] = "body" THEN snode'[p] ELSE NoReq
      BY <1>3, <2>1
    <3>2. spc'[p] \in {"body", "wait"}
      OBVIOUS
    <3> QED BY <1>0, <1>3, <2>2, <3>1, <3>2 DEF Steady, f
  <2>3. CASE q # p
    <3>1. c_fd[q] # f /\ c_fd[q] \in Fd
      BY <1>0, <1>3, <2>3 DEF Steady
    <3>2. half'[c_fd[q]] = half[c_fd[q]]
      BY <1>3, <2>1, <3>1
    <3> QED BY <1>0, <1>3, <2>3, <3>2 DEF Steady
  <2> QED BY <2>2, <2>3
<1> QED BY <1>6, <1>7, <1>8 DEF SteadyInv

(* What a slot's threads may do while it is steady. *)
LEMMA SteadyPlaces ==
  ASSUME SteadyInv
  PROVE  \A p \in Slot :
           /\ spc[p] \notin {"lock", "connect", "connected"}
           /\ rpc[p] \notin {"lock", "connect", "connected", "close", "down"}
           /\ rpc[p] = "recv" => rfd[p] = c_fd[p]
           /\ c_state[p] = 1 /\ c_fd[p] \in Fd /\ sock[c_fd[p]] = "up"
BY DEF SteadyInv, Steady

(* The clients leave the connections alone, and a push gives a connection  *)
(* to a message that nobody has written yet.                               *)
LEMMA SteadyClient ==
  ASSUME TypeInv, NodeInv, SteadyInv, NEW c \in Client,
         sl_send_buf(c) \/ ClientStep(c)
  PROVE  SteadyInv'
<1> USE SendTypes
<1>1. UNCHANGED <<conns, snode, wire, rpc, rfd>>
  BY DEF sl_send_buf, ClientStep, push_empty, push_known, push_new, scan_skip,
         scan_take, peek_head, peek_next, notClients, senders, receivers
<1>2. \A r \in Req : node[r] # "new" => conn'[r] = conn[r]
  <2>1. CASE push_known(c) \/ scan_take(c)
    <3>1. PICK con : conn' = [conn EXCEPT ![creq[c]] = con]
      BY <2>1 DEF push_known, scan_take, LinkAtEnd
    <3>2. node[creq[c]] = "new"
      BY <2>1 DEF push_known, scan_take, NodeInv, SentIsNew, Sending
    <3> QED BY <3>1, <3>2
  <2>2. CASE ~ (push_known(c) \/ scan_take(c))
    BY <2>2 DEF sl_send_buf, ClientStep, push_empty, push_new, scan_skip,
                peek_head, peek_next, queues, msgq
  <2> QED BY <2>1, <2>2
<1>3. \A p \in Slot : \/ spc'[p] = spc[p]
                      \/ spc[p] = "blocked" /\ spc'[p] = "wait"
  <2>1. CASE peek_next(c)
    <3>1. \/ UNCHANGED spc
          \/ \E p \in Slot : /\ spc[p] = "blocked"
                             /\ spc' = [spc EXCEPT ![p] = "wait"]
      BY <2>1 DEF peek_next, signal
    <3> QED BY <3>1
  <2>2. CASE ~ peek_next(c)
    BY <2>2 DEF sl_send_buf, ClientStep, push_empty, push_known, push_new,
                scan_skip, scan_take, peek_head, notClients, senders
  <2> QED BY <2>1, <2>2
<1>4. \A p \in Slot :
        /\ spc'[p] \notin {"lock", "connect", "connected"}
        /\ spc'[p] = "body" <=> spc[p] = "body"
        /\ rpc'[p] \notin {"lock", "connect", "connected", "close", "down"}
        /\ rpc'[p] = "recv" => rfd'[p] = c_fd[p]
  BY <1>1, <1>3, SteadyPlaces
<1> QED BY <1>1, <1>2, <1>4, SteadyKeeps

(* The senders find the connection up and write to it. *)
LEMMA SteadySender ==
  ASSUME TypeInv, NodeInv, SteadyInv, Unreachable = {}, NEW p \in Slot,
         SenderStep(p) \/ spurious_wakeup(p)
  PROVE  SteadyInv'
<1> USE SendTypes, SteadyPlaces
<1>0. ASSUME UNCHANGED <<conns, snode, wire, rpc, rfd, conn>>,
             spc[p] # "body",
             spc' = spc \/ \E s \in {"blocked", "check", "wait", "pop"} :
                             spc' = [spc EXCEPT ![p] = s]
      PROVE  SteadyInv'
  <2>1. \A q \in Slot :
          /\ spc'[q] \notin {"lock", "connect", "connected"}
          /\ spc'[q] = "body" <=> spc[q] = "body"
          /\ rpc'[q] \notin {"lock", "connect", "connected", "close", "down"}
          /\ rpc'[q] = "recv" => rfd'[q] = c_fd[q]
    BY <1>0
  <2> QED BY <1>0, <2>1, SteadyKeeps
<1>1. CASE send_wait(p) \/ spurious_wakeup(p) \/ send_check(p)
  <2>1. UNCHANGED <<conns, snode, wire, rpc, rfd, conn>> /\ spc[p] # "body"
    BY <1>1 DEF send_wait, spurious_wakeup, send_check, notSenders, receivers
  <2>2. \E s \in {"blocked", "check", "wait", "pop"} :
          spc' = [spc EXCEPT ![p] = s]
    BY <1>1 DEF send_wait, spurious_wakeup, send_check
  <2> QED BY <1>0, <2>1, <2>2
<1>2. CASE send_recreate(p)
  BY <1>2 DEF send_recreate
<1>3. CASE send_pop(p)
  <2>1. UNCHANGED <<conns, wire, rpc, rfd, conn>> /\ spc[p] = "pop"
    BY <1>3 DEF send_pop, notSenders, receivers
  <2>2. CASE UNCHANGED snode /\ spc' \in {spc, [spc EXCEPT ![p] = "wait"]}
    BY <1>0, <2>1, <2>2
  <2>3. CASE /\ \E r : snode' = [snode EXCEPT ![p] = r]
             /\ spc' = [spc EXCEPT ![p] = "header"]
    <3>1. \A q \in Slot : /\ q # p => spc'[q] = spc[q] /\ snode'[q] = snode[q]
                          /\ spc'[p] = "header"
      BY <2>3
    <3>2. ASSUME NEW q \in Slot
          PROVE  Steady(q)'
      <4>1. Steady(q)
        BY DEF SteadyInv
      <4> QED BY <2>1, <3>1, <4>1 DEF Steady, conns
    <3>3. WrittenToPinned' /\ Framed'
      BY <2>1 DEF SteadyInv, WrittenToPinned, Framed
    <3> QED BY <3>2, <3>3 DEF SteadyInv
  <2> QED BY <1>3, <2>2, <2>3 DEF send_pop
<1>4. CASE send_header(p)
  <2>1. /\ spc[p] = "header" /\ spc' = [spc EXCEPT ![p] = "body"]
        /\ UNCHANGED <<c_fd, owner, rpc, rfd, conn, snode>>
        /\ send_ok(p, "H", snode[p]) \/ send_failed(p)
    BY <1>4 DEF send_header, notSenders, receivers
  <2>2. /\ \A q \in Slot : q # p => snode'[q] = snode[q] /\ spc'[q] = spc[q]
        /\ spc'[p] = "body" /\ snode'[p] = snode[p]
    BY <2>1
  <2> QED BY <2>1, <2>2, SteadyWrite
<1>5. CASE send_body(p)
  <2>1. /\ spc[p] = "body" /\ spc' = [spc EXCEPT ![p] = "wait"]
        /\ snode' = [snode EXCEPT ![p] = NoReq]
        /\ UNCHANGED <<c_fd, owner, rpc, rfd, conn>>
        /\ send_ok(p, "B", snode[p]) \/ send_failed(p)
    BY <1>5 DEF send_body, notSenders, receivers
  <2>2. /\ \A q \in Slot : q # p => snode'[q] = snode[q] /\ spc'[q] = spc[q]
        /\ spc'[p] = "wait"
    BY <2>1
  <2> QED BY <2>1, <2>2, SteadyWrite
<1> QED BY <1>1, <1>2, <1>3, <1>4, <1>5 DEF SenderStep

(* The receivers find it up too: no read fails, and no frame is taken for  *)
(* the end of the connection.                                              *)
LEMMA SteadyReceiver ==
  ASSUME TypeInv, NodeInv, SteadyInv, \A m \in InMsg : m.len # 0,
         NEW p \in Slot, ReceiverStep(p) \/ recv_message(p)
  PROVE  SteadyInv'
<1> USE SteadyPlaces
<1>1. UNCHANGED <<snode, wire, spc, conn>>
  BY OthersKeepNodes DEF sendVars
<1>2. rpc[p] = "recv" => Readable(p, {"up"}) /\ ~ Readable(p, {"eof", "dead"})
  BY DEF Readable
<1>3. rpc[p] = "recv" => Readable(p, {"up", "eof", "dead"})
  BY DEF Readable
<1>4. ~ (recv_recreate(p) \/ recv_eof(p) \/ recv_error(p) \/ recv_close(p)
         \/ recv_down(p))
  BY <1>2, <1>3 DEF recv_recreate, recv_eof, recv_error, recv_close, recv_down
<1>5. /\ UNCHANGED conns
      /\ \/ recv_getfd(p)
         \/ /\ UNCHANGED rfd
            /\ \/ UNCHANGED rpc
               \/ \E s \in {"top", "getfd", "dispatch", "callback", "remove"} :
                    rpc' = [rpc EXCEPT ![p] = s]
  <2>1. CASE recv_message(p)
    BY <2>1 DEF recv_message
  <2>2. CASE recv_top(p) \/ recv_drop(p) \/ recv_lookup(p) \/ recv_callback(p)
              \/ recv_remove(p)
    BY <2>2 DEF recv_top, recv_drop, recv_lookup, recv_callback, recv_remove,
                Finish
  <2>3. CASE recv_event_request(p) \/ recv_session(p)
    BY <2>3 DEF recv_event_request, recv_session, req_cb, Finish
  <2>4. CASE recv_getfd(p)
    BY <2>4 DEF recv_getfd
  <2> QED BY <1>4, <2>1, <2>2, <2>3, <2>4 DEF ReceiverStep
<1>6. rpc \in [Slot -> ReceiverPC] /\ rfd \in [Slot -> Fd \cup {NoFd}]
  BY DEF TypeInv, TypeOK
<1>7. \A q \in Slot :
        /\ rpc'[q] \notin {"lock", "connect", "connected", "close", "down"}
        /\ rpc'[q] = "recv" => rfd'[q] = c_fd[q]
  <2>1. CASE recv_getfd(p)
    BY <1>6, <2>1 DEF recv_getfd
  <2>2. CASE ~ recv_getfd(p)
    BY <1>5, <1>6, <2>2
  <2> QED BY <2>1, <2>2
<1>8. \A q \in Slot : /\ spc'[q] \notin {"lock", "connect", "connected"}
                      /\ spc'[q] = "body" <=> spc[q] = "body"
  BY <1>1
<1> QED BY <1>1, <1>5, <1>7, <1>8, SteadyKeeps

(* As long as no connection is lost the invariant holds on. *)
LEMMA SteadyNext ==
  ASSUME Unreachable = {}, \A m \in InMsg : m.len # 0
  PROVE  /\ TypeInv /\ NodeInv /\ (ndrop = 0 => SteadyInv) /\ [Next]_vars
         => (ndrop = 0 => SteadyInv)'
<1> SUFFICES ASSUME TypeInv, NodeInv, ndrop = 0 => SteadyInv, [Next]_vars,
                    ndrop' = 0
             PROVE  SteadyInv'
  OBVIOUS
<1>1. ndrop \in Nat
  BY EnvAssumption DEF TypeInv, TypeOK
<1>2. CASE UNCHANGED vars
  <2>1. UNCHANGED <<conns, snode, wire, spc, rpc, rfd, conn, ndrop>>
    BY <1>2 DEF vars, senders, receivers, queues, msgq, env
  <2> QED BY <2>1, SteadyKeeps, SteadyPlaces
<1>3. CASE Next
  <2>1. ~ drop
    BY <1>1 DEF drop
  <2>2. ASSUME NEW c \in Client, sl_send_buf(c) \/ ClientStep(c)
        PROVE  SteadyInv'
    <3>1. UNCHANGED ndrop
      BY <2>2 DEF sl_send_buf, ClientStep, push_empty, push_known, push_new,
                  scan_skip, scan_take, peek_head, peek_next, notClients, env
    <3> QED BY <2>2, <3>1, SteadyClient
  <2>3. ASSUME NEW p \in Slot, SenderStep(p) \/ spurious_wakeup(p)
        PROVE  SteadyInv'
    <3>1. UNCHANGED ndrop
      BY <2>3 DEF SenderStep, spurious_wakeup, send_wait, send_check,
                  send_recreate, send_pop, send_header, send_body, notSenders
    <3> QED BY <2>3, <3>1, SteadySender
  <2>4. ASSUME NEW p \in Slot, ReceiverStep(p) \/ recv_message(p)
        PROVE  SteadyInv'
    <3>1. UNCHANGED ndrop
      BY <2>4 DEF ReceiverStep, recv_message, recv_top, recv_recreate,
                  recv_getfd, recv_eof, recv_error, recv_close, recv_down,
                  recv_drop, recv_event_request, recv_session, recv_lookup,
                  recv_callback, recv_remove, env
    <3> QED BY <2>4, <3>1, SteadyReceiver
  <2>5. CASE qmanager \/ register_req_cb \/ tick
    <3>1. UNCHANGED <<conns, snode, wire, spc, rpc, rfd, conn, ndrop>>
      BY <2>5 DEF qmanager, register_req_cb, tick, sendSide, receivers, msgq,
                  senders, env
    <3> QED BY <3>1, SteadyKeeps, SteadyPlaces
  <2> QED BY <1>3, <2>1, <2>2, <2>3, <2>4, <2>5 DEF Next
<1> QED BY <1>2, <1>3

LEMMA SteadyUntilLost ==
  ASSUME Unreachable = {}, \A m \in InMsg : m.len # 0
  PROVE  Spec => [](ndrop = 0 => SteadyInv)
<1>1. Init => (ndrop = 0 => SteadyInv)
  BY SteadyInit
<1>2. TypeInv /\ NodeInv /\ [Next]_vars => NodeInv'
  BY NodeNext
<1> QED BY <1>1, <1>2, SteadyNext, NodeInit, TypeInit, TypeNext, PTL
        DEF Spec

(* When create_peers reached every peer and the peers send no frame of     *)
(* length 0, which the receiver takes for the end of the connection, then  *)
(* until a connection is first lost every write of send_worker_thread      *)
(* reaches the peer the id of the message is pinned to: no slot writes to  *)
(* a descriptor that has become another slot's.                            *)
THEOREM PinnedUntilLost ==
  ASSUME Unreachable = {}, \A m \in InMsg : m.len # 0
  PROVE  Spec => [](ndrop = 0 => WrittenToPinned)
<1>1. SteadyInv => WrittenToPinned
  BY DEF SteadyInv
<1> QED BY <1>1, SteadyUntilLost, PTL

(* Under the same conditions each stream is a sequence of whole frames,    *)
(* however the senders of the slots interleave their writes.               *)
THEOREM FramedUntilLost ==
  ASSUME Unreachable = {}, \A m \in InMsg : m.len # 0
  PROVE  Spec => [](ndrop = 0 => Framed)
<1>1. SteadyInv => Framed
  BY DEF SteadyInv
<1> QED BY <1>1, SteadyUntilLost, PTL
==============================================================================
