----------------------------- MODULE LifeProofs ------------------------------
(***************************************************************************)
(* With a single peer the library implements RequestLife: through all      *)
(* interleavings of its threads a request is accepted, leaves in its turn  *)
(* or is lost, and is answered at most once.                               *)
(***************************************************************************)
EXTENDS ClientLife, IdProofs, SendProofs

Used == {"queued", "held", "freed"}

---------------------------------------------------------------------------
(* The steps of the library, as far as a request notices them              *)

(* push_to_msgq links the request of its client, which nobody else has.    *)
LEMMA LinkStep ==
  ASSUME NumPeers = 1, TypeInv, NodeInv, OneInv, NEW c \in Client,
         push_known(c) \/ scan_take(c)
  PROVE  /\ creq[c] \in Req /\ node[creq[c]] = "new"
         /\ conn' = [conn EXCEPT ![creq[c]] = 0]
         /\ node' = [node EXCEPT ![creq[c]] = "queued"]
         /\ accepted' = Append(accepted, creq[c])
         /\ gmsgq' = Append(gmsgq, creq[c])
         /\ UNCHANGED <<fault, wire, calls, rpc, rn, rmsg>>
<1>1. creq[c] \in Req /\ node[creq[c]] = "new"
  BY SendTypes DEF push_known, scan_take, NodeInv, SentIsNew, Sending
<1>2. \E con \in Slot : LinkAtEnd(creq[c], con)
  <2>1. CASE push_known(c)
    <3>1. PICK k \in 1..Len(gtsidq) : LinkAtEnd(creq[c], gtsidq[k].conn)
      BY <2>1 DEF push_known, PinnedTo
    <3>2. gtsidq[k] \in Entry
      BY OwnTypes
    <3> QED BY <3>1, <3>2 DEF Entry
  <2>2. CASE scan_take(c)
    BY <2>2 DEF scan_take, TypeInv, TypeOK, QueueTypeOK
  <2> QED BY <2>1, <2>2
<1>3. LinkAtEnd(creq[c], 0)
  BY <1>2, OnlySlot
<1>4. ~ Freed(PushReads(gmsgq))
  BY NothingFreed DEF PushReads
<1>5. UNCHANGED <<wire, calls, rpc, rn, rmsg>>
  BY DEF push_known, scan_take, notClients, senders, receivers
<1> QED BY <1>1, <1>3, <1>4, <1>5 DEF LinkAtEnd, Push

(* Every other step of a client leaves the request as it is, except that   *)
(* sl_send_buf takes an unused one.                                        *)
LEMMA OtherClientStep ==
  ASSUME TypeInv, NEW c \in Client, sl_send_buf(c) \/ ClientStep(c),
         ~ (push_known(c) \/ scan_take(c))
  PROVE  /\ UNCHANGED <<gtsidq, gmsgq, conn, accepted, wire, calls, rpc, rn, rmsg>>
         /\ \A r \in Req : \/ node'[r] = node[r]
                           \/ node[r] = "none" /\ node'[r] = "new"
         /\ fault' = fault \/ fault' # "none"
<1>1. CASE sl_send_buf(c)
  <2>1. PICK r \in Req : node[r] = "none" /\ node' = [node EXCEPT ![r] = "new"]
    BY <1>1 DEF sl_send_buf
  <2>2. \A s \in Req : \/ node'[s] = node[s]
                       \/ node[s] = "none" /\ node'[s] = "new"
    BY <2>1, SendTypes
  <2> QED BY <1>1, <2>2 DEF sl_send_buf, notClients, senders, receivers, idq
<1>2. CASE push_empty(c) \/ push_new(c) \/ scan_skip(c)
  BY <1>2 DEF push_empty, push_new, scan_skip, notClients, senders, receivers,
              queues, idq, msgq
<1>3. CASE peek_head(c)
  BY <1>3 DEF peek_head, notClients, senders, receivers, queues, idq, msgq
<1>4. CASE peek_next(c)
  BY <1>4 DEF peek_next, receivers, queues, idq, msgq
<1> QED BY <1>1, <1>2, <1>3, <1>4 DEF ClientStep

(* The sender of the only slot takes the head of the queue, ... *)
LEMMA PopStep ==
  ASSUME NumPeers = 1, TypeInv, NodeInv, OneInv, NEW p \in Slot, send_pop(p)
  PROVE  /\ UNCHANGED <<gtsidq, conn, accepted, wire, calls, rpc, rn, rmsg, fault>>
         /\ \/ UNCHANGED <<node, gmsgq>>
            \/ /\ gmsgq # <<>> /\ gmsgq' = Tail(gmsgq)
               /\ node[gmsgq[1]] = "queued" /\ gmsgq[1] \in Req
               /\ node' = [node EXCEPT ![gmsgq[1]] = "held"]
<1>1. UNCHANGED <<gtsidq, conn, accepted, wire, calls, rpc, rn, rmsg>>
  BY DEF send_pop, notSenders, idq, receivers
<1>2. ASSUME NEW k \in 1..Len(gmsgq)
      PROVE  ~ PopFaults(k)
  <2>1. ~ Freed(PopReads(gmsgq, k))
    BY NothingFreed DEF PopReads
  <2>2. node[gmsgq[k]] # "held"
    BY DEF OneInv, OnlyQueuedLinked
  <2> QED BY <2>1, <2>2 DEF PopFaults
<1>3. ~ Freed(1..Len(gmsgq))
  BY NothingFreed
<1>4. ASSUME NEW k \in 1..Len(gmsgq), FirstFor(gmsgq, conn, peer_id(p), k)
      PROVE  /\ k = 1 /\ pop_from_msgq(gmsgq, k) = Tail(gmsgq)
             /\ gmsgq # <<>> /\ gmsgq[1] \in Req /\ node[gmsgq[1]] = "queued"
  <2>1. Len(gmsgq) \in Nat /\ 1 \in 1..Len(gmsgq) /\ gmsgq \in Seq(Req)
    BY SendTypes
  <2>2. conn[gmsgq[1]] = 0 /\ peer_id(p) = 0
    BY <2>1, OnlySlot DEF OneInv, LinkedForIt
  <2>3. ~ (1 \in 1..(k - 1))
    BY <1>4, <2>2 DEF FirstFor
  <2>4. k = 1
    BY <2>3
  <2>5. gmsgq # <<>>
    BY <2>1
  <2> QED BY <2>1, <2>4, <2>5, SendTypes, SMTT(30)
          DEF pop_from_msgq, OneInv, OnlyQueuedLinked
<1> QED BY <1>1, <1>2, <1>3, <1>4 DEF send_pop

(* ... writes it out and frees it, ... *)
LEMMA BodyStep ==
  ASSUME TypeInv, NodeInv, NEW p \in Slot, send_body(p)
  PROVE  /\ UNCHANGED <<gtsidq, gmsgq, conn, accepted, calls, rpc, rn, rmsg, fault>>
         /\ snode[p] \in Req /\ node[snode[p]] = "held" /\ ~ Written(snode[p])
         /\ node' = [node EXCEPT ![snode[p]] = "freed"]
         /\ \A r \in Req : r # snode[p] => Written(r)' = Written(r)
<1> USE SendTypes
<1>1. /\ spc[p] = "body" /\ snode[p] \in Req /\ node[snode[p]] = "held"
      /\ ~ Written(snode[p])
  BY DEF send_body, NodeInv, TakenIsHeld, Writing, NotYetWritten, Written
<1>2. /\ UNCHANGED <<gtsidq, gmsgq, conn, accepted, calls, rpc, rn, rmsg, fault>>
      /\ node' = [node EXCEPT ![snode[p]] = "freed"]
  BY <1>1 DEF send_body, notSenders, idq, receivers, UseNode
<1>3. \/ UNCHANGED wire
      \/ /\ Len(wire') = Len(wire) + 1
         /\ \A i \in 1..Len(wire) : wire'[i] = wire[i]
         /\ wire'[Len(wire) + 1].req = snode[p]
  BY <1>1, OneWrite DEF send_body
<1>4. ASSUME NEW r \in Req, r # snode[p]
      PROVE  Written(r)' = Written(r)
  <2>1. CASE UNCHANGED wire
    BY <2>1 DEF Written
  <2>2. CASE ~ UNCHANGED wire
    <3>1. /\ \A i \in 1..Len(wire) : i \in 1..Len(wire') /\ wire'[i] = wire[i]
          /\ \A i \in 1..Len(wire') : i \in 1..Len(wire) \/ wire'[i].req # r
      BY <1>3, <1>4, <2>2
    <3> QED BY <3>1 DEF Written
  <2> QED BY <2>1, <2>2
<1> QED BY <1>1, <1>2, <1>4

(* ... and writes nothing that ends the life of a request in between.      *)
LEMMA OtherSenderStep ==
  ASSUME TypeInv, NodeInv, NEW p \in Slot, SenderStep(p) \/ spurious_wakeup(p),
         ~ (send_pop(p) \/ send_body(p))
  PROVE  /\ UNCHANGED <<gtsidq, gmsgq, node, conn, accepted, calls, rpc, rn, rmsg>>
         /\ \A r \in Req : Written(r)' = Written(r)
         /\ fault' = fault \/ fault' # "none"
<1> USE SendTypes
<1>1. CASE send_header(p)
  <2>1. snode[p] \in Req
    BY <1>1 DEF send_header, Writing
  <2>2. \/ UNCHANGED wire
        \/ /\ Len(wire') = Len(wire) + 1
           /\ \A i \in 1..Len(wire) : wire'[i] = wire[i]
           /\ wire'[Len(wire) + 1].part = "H"
    BY <1>1, <2>1, OneWrite DEF send_header
  <2>3. ASSUME NEW r \in Req
        PROVE  Written(r)' = Written(r)
    <3>1. CASE UNCHANGED wire
      BY <3>1 DEF Written
    <3>2. CASE ~ UNCHANGED wire
      <4>1. /\ \A i \in 1..Len(wire) : i \in 1..Len(wire') /\ wire'[i] = wire[i]
            /\ \A i \in 1..Len(wire') : i \in 1..Len(wire) \/ wire'[i].part # "B"
        BY <2>2, <3>2
      <4> QED BY <4>1 DEF Written
    <3> QED BY <3>1, <3>2
  <2> QED BY <1>1, <2>3 DEF send_header, UseNode, notSenders, idq, receivers
<1>2. CASE send_wait(p) \/ spurious_wakeup(p) \/ send_check(p)
  BY <1>2 DEF send_wait, spurious_wakeup, send_check, notSenders, idq, receivers,
              Written
<1>3. CASE send_recreate(p)
  BY <1>3 DEF send_recreate, notSenders, idq, receivers, Written
<1> QED BY <1>1, <1>2, <1>3 DEF SenderStep

---------------------------------------------------------------------------
(* What was accepted                                                       *)

(* A request is accepted once and from then on queued, held or freed, and  *)
(* what is queued is linked: nothing is waiting where no sender finds it.  *)
AcceptedOnce == \A a, b \in 1..Len(accepted) : accepted[a] = accepted[b] => a = b
AcceptedInUse == \A a \in 1..Len(accepted) : node[accepted[a]] \in Used
QueuedIsLinked == \A r \in Req : node[r] = "queued" =>
                    \E i \in 1..Len(gmsgq) : gmsgq[i] = r

AcceptInv == AcceptedOnce /\ AcceptedInUse /\ QueuedIsLinked

(* A step that accepts nothing, takes nothing out of use and puts nothing  *)
(* into the queue.                                                         *)
LEMMA AcceptKeeps ==
  ASSUME TypeInv, AcceptInv, UNCHANGED <<accepted, gmsgq>>,
         \A r \in Req : node'[r] = node[r] \/ node'[r] # "queued",
         \A r \in Req : node[r] \in Used => node'[r] \in Used
  PROVE  AcceptInv'
<1>1. \A a \in 1..Len(accepted) : accepted[a] \in Req
  BY OwnTypes, ElementOfSeq
<1>2. AcceptedOnce' /\ AcceptedInUse'
  BY <1>1 DEF AcceptInv, AcceptedOnce, AcceptedInUse
<1>3. QueuedIsLinked'
  BY DEF AcceptInv, QueuedIsLinked
<1> QED BY <1>2, <1>3 DEF AcceptInv

LEMMA AcceptNext ==
  ASSUME NumPeers = 1
  PROVE  TypeInv /\ NodeInv /\ OneInv /\ AcceptInv /\ [Next]_vars => AcceptInv'
<1> SUFFICES ASSUME TypeInv, NodeInv, OneInv, AcceptInv, [Next]_vars
             PROVE  AcceptInv'
  OBVIOUS
<1> USE SendTypes
<1>0. /\ accepted \in Seq(Req) /\ Len(accepted) \in Nat
      /\ \A a \in 1..Len(accepted) : accepted[a] \in Req
  BY OwnTypes, ElementOfSeq
<1>1. ASSUME UNCHANGED sendVars PROVE AcceptInv'
  BY <1>1, AcceptKeeps DEF sendVars
<1>2. ASSUME NEW c \in Client, push_known(c) \/ scan_take(c)
      PROVE  AcceptInv'
  <2> DEFINE r == creq[c]
  <2>1. /\ r \in Req /\ node[r] = "new"
        /\ node' = [node EXCEPT ![r] = "queued"]
        /\ accepted' = Append(accepted, r) /\ gmsgq' = Append(gmsgq, r)
    BY <1>2, LinkStep
  <2> HIDE DEF r
  <2>2. /\ node'[r] = "queued" /\ \A s \in Req : s # r => node'[s] = node[s]
        /\ \A a \in 1..Len(accepted) : accepted[a] # r
    BY <1>0, <2>1 DEF AcceptInv, AcceptedInUse, Used
  <2>3. /\ \A a \in 1..Len(accepted') :
             \/ a \in 1..Len(accepted) /\ accepted'[a] = accepted[a]
             \/ a = Len(accepted) + 1 /\ accepted'[a] = r
    BY <1>0, <2>1
  <2>4. AcceptedOnce'
    BY <2>2, <2>3 DEF AcceptInv, AcceptedOnce
  <2>5. AcceptedInUse'
    BY <1>0, <2>2, <2>3 DEF AcceptInv, AcceptedInUse, Used
  <2>6. QueuedIsLinked'
    <3>1. /\ \A i \in 1..Len(gmsgq) : i \in 1..Len(gmsgq') /\ gmsgq'[i] = gmsgq[i]
          /\ \E i \in 1..Len(gmsgq') : gmsgq'[i] = r
      <4>1. /\ Len(gmsgq') = Len(gmsgq) + 1 /\ gmsgq'[Len(gmsgq) + 1] = r
            /\ \A i \in 1..Len(gmsgq) : gmsgq'[i] = gmsgq[i]
        BY <2>1
      <4>2. Len(gmsgq) + 1 \in 1..Len(gmsgq')
        BY <4>1
      <4>3. \A i \in 1..Len(gmsgq) : i \in 1..Len(gmsgq')
        BY <4>1
      <4>4. \E i \in 1..Len(gmsgq') : gmsgq'[i] = r
        BY <4>1, <4>2
      <4> QED BY <4>1, <4>3, <4>4
    <3> QED BY <2>2, <3>1 DEF AcceptInv, QueuedIsLinked
  <2> QED BY <2>4, <2>5, <2>6 DEF AcceptInv
<1>3. ASSUME NEW c \in Client, sl_send_buf(c) \/ ClientStep(c),
             ~ (push_known(c) \/ scan_take(c))
      PROVE  AcceptInv'
  <2>1. /\ UNCHANGED <<gmsgq, accepted>>
        /\ \A r \in Req : \/ node'[r] = node[r]
                          \/ node[r] = "none" /\ node'[r] = "new"
    BY <1>3, OtherClientStep
  <2> QED BY <2>1, AcceptKeeps DEF Used
<1>4. ASSUME NEW p \in Slot, send_pop(p)
      PROVE  AcceptInv'
  <2>1. UNCHANGED accepted
    BY <1>4, PopStep
  <2>2. CASE UNCHANGED <<node, gmsgq>>
    BY <2>1, <2>2, AcceptKeeps
  <2>3. CASE /\ gmsgq # <<>> /\ gmsgq' = Tail(gmsgq)
             /\ node[gmsgq[1]] = "queued" /\ gmsgq[1] \in Req
             /\ node' = [node EXCEPT ![gmsgq[1]] = "held"]
    <3>1. /\ node'[gmsgq[1]] = "held"
          /\ \A s \in Req : s # gmsgq[1] => node'[s] = node[s]
      BY <2>3
    <3>2. AcceptedOnce' /\ AcceptedInUse'
      BY <1>0, <2>1, <3>1 DEF AcceptInv, AcceptedOnce, AcceptedInUse, Used
    <3>3. QueuedIsLinked'
      <4>1. SUFFICES ASSUME NEW s \in Req, node'[s] = "queued"
                     PROVE  \E i \in 1..Len(gmsgq') : gmsgq'[i] = s
        BY DEF QueuedIsLinked
      <4>2. s # gmsgq[1] /\ node[s] = "queued"
        BY <3>1, <4>1
      <4>3. PICK j \in 1..Len(gmsgq) : gmsgq[j] = s
        BY <4>2 DEF AcceptInv, QueuedIsLinked
      <4>4. /\ Len(gmsgq') = Len(gmsgq) - 1
            /\ \A i \in 1..(Len(gmsgq) - 1) : gmsgq'[i] = gmsgq[i + 1]
        BY <2>3
      <4>5. PICK i \in Int : i = j - 1
        OBVIOUS
      <4>6. i \in 1..Len(gmsgq') /\ gmsgq'[i] = gmsgq[i + 1] /\ i + 1 = j
        BY <4>2, <4>3, <4>4, <4>5
      <4> QED BY <4>3, <4>6
    <3> QED BY <3>2, <3>3 DEF AcceptInv
  <2> QED BY <1>4, <2>2, <2>3, PopStep
<1>5. ASSUME NEW p \in Slot, send_body(p)
      PROVE  AcceptInv'
  <2>1. /\ UNCHANGED <<gmsgq, accepted>> /\ snode[p] \in Req
        /\ node' = [node EXCEPT ![snode[p]] = "freed"]
    BY <1>5, BodyStep
  <2>2. \A r \in Req : node'[r] = node[r] \/ node'[r] = "freed"
    BY <2>1
  <2> QED BY <2>1, <2>2, AcceptKeeps DEF Used
<1>6. ASSUME NEW p \in Slot, SenderStep(p) \/ spurious_wakeup(p),
             ~ (send_pop(p) \/ send_body(p))
      PROVE  AcceptInv'
  BY <1>6, OtherSenderStep, AcceptKeeps
<1>7. CASE UNCHANGED vars
  BY <1>1, <1>7 DEF vars, queues, msgq, clients, senders, sendVars
<1>8. CASE Next
  BY <1>1, <1>2, <1>3, <1>4, <1>5, <1>6, <1>8, OthersKeepNodes DEF Next
<1> QED BY <1>7, <1>8

(* The sender's node is the first accepted of those that still wait. *)
LEMMA TakenIsFirst ==
  ASSUME NumPeers = 1, TypeInv, NodeInv, OrderInv, AcceptInv, NEW p \in Slot,
         Writing(p), NEW a \in 1..Len(accepted), NEW b \in 1..Len(accepted),
         a < b, accepted[b] = snode[p], conn[accepted[a]] = conn[snode[p]]
  PROVE  node[accepted[a]] = "freed"
<1> USE SendTypes
<1>0. /\ accepted[a] \in Req /\ node[accepted[a]] \in Used
      /\ node[snode[p]] = "held" /\ snode[p] \in Req
  BY OwnTypes, ElementOfSeq DEF AcceptInv, AcceptedInUse, NodeInv, TakenIsHeld
<1>1. node[accepted[a]] # "held"
  <2>1. SUFFICES ASSUME node[accepted[a]] = "held" PROVE FALSE
    OBVIOUS
  <2>2. PICK q \in Slot : Writing(q) /\ snode[q] = accepted[a]
    BY <1>0, <2>1 DEF NodeInv, HeldIsTaken
  <2>3. q = p
    BY OnlySlot
  <2> QED BY <2>2, <2>3 DEF AcceptInv, AcceptedOnce
<1>2. node[accepted[a]] # "queued"
  <2>1. SUFFICES ASSUME node[accepted[a]] = "queued" PROVE FALSE
    OBVIOUS
  <2>2. PICK i \in 1..Len(gmsgq) : gmsgq[i] = accepted[a]
    BY <1>0, <2>1 DEF AcceptInv, QueuedIsLinked
  <2>3. Before(accepted, snode[p], accepted[a])
    BY <1>0, <2>1, <2>2 DEF OrderInv, TakenBeforeQueued
  <2>4. PICK x \in 1..Len(accepted), y \in 1..Len(accepted) :
          x < y /\ accepted[x] = snode[p] /\ accepted[y] = accepted[a]
    BY <2>3 DEF Before
  <2>5. x = b /\ y = a
    BY <2>4 DEF AcceptInv, AcceptedOnce
  <2> QED BY <2>4, <2>5
<1> QED BY <1>0, <1>1, <1>2 DEF Used


---------------------------------------------------------------------------
(* What was answered                                                       *)

(* An entry, a copy of one and a call are about an accepted request.  What *)
(* the receiver is about to answer was not answered, and an entry whose    *)
(* request was is the one the receiver removes next.                       *)
EnteredInUse == \A i \in 1..Len(gtsidq) : node[gtsidq[i].callback] \in Used
CalledInUse == \A r \in Req : CallOf(calls, r) => node[r] \in Used
CopyNotCalled ==
  \A p \in Slot : rpc[p] = "callback" =>
    /\ rn[p].callback \in Req /\ node[rn[p].callback] \in Used
    /\ ReqId[rn[p].callback] = rmsg[p].tid /\ ~ CallOf(calls, rn[p].callback)
CalledIsRemoved ==
  \A i \in 1..Len(gtsidq) : CallOf(calls, gtsidq[i].callback) =>
    \E p \in Slot : rpc[p] = "remove" /\ rmsg[p].tid = gtsidq[i].id

AnsInv == EnteredInUse /\ CalledInUse /\ CopyNotCalled /\ CalledIsRemoved

(* A step that answers nothing, enters at most a request that was not      *)
(* answered, and leaves the receiver in or out of a response.              *)
LEMMA AnsKeeps ==
  ASSUME TypeInv, AnsInv,
         \A r \in Req : CallOf(calls', r) <=> CallOf(calls, r),
         \A r \in Req : node[r] \in Used => node'[r] \in Used,
         \A i \in 1..Len(gtsidq') :
           \/ \E j \in 1..Len(gtsidq) : /\ gtsidq'[i].id = gtsidq[j].id
                                        /\ gtsidq'[i].callback = gtsidq[j].callback
           \/ /\ gtsidq'[i].callback \in Req /\ node'[gtsidq'[i].callback] \in Used
              /\ ~ CallOf(calls, gtsidq'[i].callback),
         \A p \in Slot : \/ /\ rpc[p] \notin {"callback", "remove"}
                            /\ rpc'[p] \notin {"callback", "remove"}
                         \/ /\ rpc'[p] = rpc[p] /\ rn'[p] = rn[p]
                            /\ rmsg'[p] = rmsg[p]
  PROVE  AnsInv'
<1>0. \A i \in 1..Len(gtsidq) : gtsidq[i].callback \in Req
  BY OwnTypes DEF Entry
<1>1. EnteredInUse'
  BY <1>0 DEF AnsInv, EnteredInUse
<1>2. CalledInUse'
  BY DEF AnsInv, CalledInUse
<1>3. CopyNotCalled'
  BY DEF AnsInv, CopyNotCalled
<1>4. CalledIsRemoved'
  <2>1. SUFFICES ASSUME NEW i \in 1..Len(gtsidq'), CallOf(calls', gtsidq'[i].callback)
                 PROVE  \E p \in Slot : rpc'[p] = "remove" /\ rmsg'[p].tid = gtsidq'[i].id
    BY DEF CalledIsRemoved
  <2>2. PICK j \in 1..Len(gtsidq) : /\ gtsidq'[i].id = gtsidq[j].id
                                    /\ gtsidq'[i].callback = gtsidq[j].callback
    BY <2>1
  <2>3. CallOf(calls, gtsidq[j].callback)
    BY <1>0, <2>1, <2>2
  <2>4. PICK p \in Slot : rpc[p] = "remove" /\ rmsg[p].tid = gtsidq[j].id
    BY <2>3 DEF AnsInv, CalledIsRemoved
  <2> QED BY <2>2, <2>4
<1> QED BY <1>1, <1>2, <1>3, <1>4 DEF AnsInv

(* The request of an entry a client makes or renews is not answered yet. *)
LEMMA AnsLink ==
  ASSUME NumPeers = 1, TypeInv, NodeInv, OneInv, AnsInv, NEW c \in Client,
         push_known(c) \/ scan_take(c)
  PROVE  AnsInv'
<1> USE OwnTypes
<1> DEFINE r == creq[c]
<1>1. /\ r \in Req /\ node[r] = "new" /\ node' = [node EXCEPT ![r] = "queued"]
      /\ UNCHANGED <<calls, rpc, rn, rmsg>>
  BY LinkStep
<1>2. \A i \in 1..Len(gtsidq') :
        \/ \E j \in 1..Len(gtsidq) : /\ gtsidq'[i].id = gtsidq[j].id
                                     /\ gtsidq'[i].callback = gtsidq[j].callback
        \/ gtsidq'[i].callback = r
  <2>1. CASE push_known(c)
    <3>1. PICK k \in 1..Len(gtsidq) : gtsidq' = update_entry_idq(gtsidq, k, r, now)
      BY <2>1 DEF push_known
    <3> HIDE DEF r
    <3>2. /\ Len(gtsidq') = Len(gtsidq)
          /\ \A i \in 1..Len(gtsidq) :
               /\ gtsidq'[i].id = gtsidq[i].id
               /\ gtsidq'[i].callback = IF i = k THEN r ELSE gtsidq[i].callback
      BY <3>1, UpdateEntry
    <3> QED BY <3>2
  <2>2. CASE scan_take(c)
    <3>1. gtsidq' = add_entry_idq(gtsidq, ReqId[r], r, glast_con_rr, catime[c])
      BY <2>2 DEF scan_take
    <3> HIDE DEF r
    <3>2. /\ Len(gtsidq') = Len(gtsidq) + 1
          /\ \A i \in 1..Len(gtsidq) : gtsidq'[i] = gtsidq[i]
          /\ gtsidq'[Len(gtsidq) + 1].callback = r
      BY <3>1, AddEntry
    <3>3. \A i \in 1..Len(gtsidq') : i \in 1..Len(gtsidq) \/ i = Len(gtsidq) + 1
      BY <3>2
    <3> QED BY <3>2, <3>3
  <2> QED BY <2>1, <2>2
<1> HIDE DEF r
<1>3. /\ node'[r] = "queued" /\ \A s \in Req : s # r => node'[s] = node[s]
      /\ ~ CallOf(calls, r)
  BY <1>1, SendTypes DEF AnsInv, CalledInUse, Used
<1>4. \A s \in Req : node[s] \in Used => node'[s] \in Used
  BY <1>3 DEF Used
<1>5. \A i \in 1..Len(gtsidq') :
        \/ \E j \in 1..Len(gtsidq) : /\ gtsidq'[i].id = gtsidq[j].id
                                     /\ gtsidq'[i].callback = gtsidq[j].callback
        \/ /\ gtsidq'[i].callback \in Req /\ node'[gtsidq'[i].callback] \in Used
           /\ ~ CallOf(calls, gtsidq'[i].callback)
  BY <1>1, <1>2, <1>3 DEF Used
<1> QED BY <1>1, <1>4, <1>5, AnsKeeps

(* The receiver copies an entry: with one receiver, nobody answers it at   *)
(* the same time.                                                          *)
LEMMA AnsLookup ==
  ASSUME NumPeers = 1, TypeInv, MatchInv, AnsInv, NEW p \in Slot, recv_lookup(p)
  PROVE  AnsInv'
<1> USE OwnTypes
<1>1. UNCHANGED <<gtsidq, calls, node>> /\ rpc[p] = "dispatch"
  BY DEF recv_lookup, sendSide, msgq
<1>2. CASE Finish(p)
  BY <1>1, <1>2, AnsKeeps DEF Finish
<1>3. ASSUME NEW k \in 1..Len(gtsidq), lookup_ID_idq(gtsidq, rmsg[p].tid, k),
             rn' = [rn EXCEPT ![p] = [callback |-> gtsidq[k].callback,
                                      is_expired |-> gtsidq[k].is_expired,
                                      elapsed |-> now - gtsidq[k].ATime]],
             rpc' = [rpc EXCEPT ![p] = "callback"], UNCHANGED rmsg
      PROVE  AnsInv'
  <2>1. rpc'[p] = "callback" /\ rn'[p].callback = gtsidq[k].callback
    BY <1>3
  <2>2. \A q \in Slot : q = p
    BY OnlySlot
  <2>3. \A i \in 1..Len(gtsidq) : ~ CallOf(calls, gtsidq[i].callback)
    BY <1>1, <2>2 DEF AnsInv, CalledIsRemoved
  <2>4. ReqId[gtsidq[k].callback] = rmsg[p].tid /\ gtsidq[k].callback \in Req
    BY <1>3 DEF lookup_ID_idq, MatchInv, EntryNamesRequest, Entry
  <2>5. CopyNotCalled'
    BY <1>1, <1>3, <2>1, <2>2, <2>3, <2>4 DEF AnsInv, CopyNotCalled, EnteredInUse
  <2>6. CalledIsRemoved'
    BY <1>1, <2>3 DEF CalledIsRemoved
  <2> QED BY <1>1, <2>5, <2>6 DEF AnsInv, EnteredInUse, CalledInUse
<1> QED BY <1>2, <1>3 DEF recv_lookup

(* It calls the callback; the entry, if still about that request, is the   *)
(* one with the id of the response.                                        *)
LEMMA AnsCallback ==
  ASSUME NumPeers = 1, TypeInv, MatchInv, AnsInv, NEW p \in Slot, recv_callback(p)
  PROVE  AnsInv'
<1> USE OwnTypes
<1> DEFINE e == [kind |-> "res", callback |-> rn[p].callback,
                 is_timeout |-> rn[p].is_expired, elapsed |-> rn[p].elapsed]
<1>1. /\ UNCHANGED <<gtsidq, node, rmsg, rn>> /\ calls' = Append(calls, e)
      /\ rpc[p] = "callback" /\ rpc' = [rpc EXCEPT ![p] = "remove"]
  BY DEF recv_callback, sendSide, msgq
<1>2. e.callback = rn[p].callback
  OBVIOUS
<1> HIDE DEF e
<1>3. \A i \in 1..Len(calls') :
        (i \in 1..Len(calls) /\ calls'[i] = calls[i]) \/ calls'[i] = e
  BY <1>1, CallsGrow
<1>4. \A r : CallOf(calls', r) => CallOf(calls, r) \/ r = rn[p].callback
  BY <1>2, <1>3 DEF CallOf
<1>5. rpc'[p] = "remove" /\ \A q \in Slot : q = p
  BY <1>1, OnlySlot
<1>6. /\ rn[p].callback \in Req /\ node[rn[p].callback] \in Used
      /\ ReqId[rn[p].callback] = rmsg[p].tid
  BY <1>1 DEF AnsInv, CopyNotCalled
<1>7. CalledInUse'
  BY <1>1, <1>4, <1>6 DEF AnsInv, CalledInUse
<1>8. CalledIsRemoved'
  <2>1. SUFFICES ASSUME NEW i \in 1..Len(gtsidq), CallOf(calls', gtsidq[i].callback)
                 PROVE  rmsg[p].tid = gtsidq[i].id
    BY <1>1, <1>5 DEF CalledIsRemoved
  <2>2. gtsidq[i].callback = rn[p].callback
    BY <1>1, <1>4, <1>5, <2>1 DEF AnsInv, CalledIsRemoved
  <2> QED BY <1>6, <2>2 DEF MatchInv, EntryNamesRequest
<1>9. CopyNotCalled' /\ EnteredInUse'
  BY <1>1, <1>5 DEF AnsInv, CopyNotCalled, EnteredInUse
<1> QED BY <1>7, <1>8, <1>9 DEF AnsInv

(* It removes the entry of that id, the only one. *)
LEMMA AnsRemove ==
  ASSUME NumPeers = 1, TypeInv, UniqueInv, AnsInv, NEW p \in Slot, recv_remove(p)
  PROVE  AnsInv'
<1> USE OwnTypes
<1>1. /\ UNCHANGED <<node, calls>> /\ rpc[p] = "remove"
      /\ rem_id(gtsidq, rmsg[p].tid, gtsidq') /\ Finish(p)
  BY DEF recv_remove, sendSide, msgq
<1>2. rpc'[p] = "top" /\ \A q \in Slot : q = p
  BY <1>1, OnlySlot DEF Finish
<1>3. \A i \in 1..Len(gtsidq) :
        /\ gtsidq[i].id # NoId
        /\ gtsidq[i].id # rmsg[p].tid => ~ CallOf(calls, gtsidq[i].callback)
  <2>1. \A i \in 1..Len(gtsidq) : gtsidq[i].id # NoId
    BY ReqAssumption DEF Entry
  <2>2. \A i \in 1..Len(gtsidq) :
          gtsidq[i].id # rmsg[p].tid => ~ CallOf(calls, gtsidq[i].callback)
    BY <1>2 DEF AnsInv, CalledIsRemoved
  <2> QED BY <2>1, <2>2
<1>4. \A i \in 1..Len(gtsidq') : \E j \in 1..Len(gtsidq) :
        gtsidq'[i] = gtsidq[j] /\ gtsidq[j].id # rmsg[p].tid
  <2>1. CASE ~ is_ID_present_idq(gtsidq, rmsg[p].tid) /\ gtsidq' = gtsidq
    BY <1>3, <2>1 DEF is_ID_present_idq
  <2>2. ASSUME NEW k \in 1..Len(gtsidq), lookup_ID_idq(gtsidq, rmsg[p].tid, k),
               gtsidq' = RemoveAt(gtsidq, k), NEW i \in 1..Len(gtsidq')
        PROVE  \E j \in 1..Len(gtsidq) :
                 gtsidq'[i] = gtsidq[j] /\ gtsidq[j].id # rmsg[p].tid
    <3>1. /\ Len(gtsidq') = Len(gtsidq) - 1
          /\ \A m \in 1..(Len(gtsidq) - 1) :
               gtsidq'[m] = IF m < k THEN gtsidq[m] ELSE gtsidq[m + 1]
      BY <2>2, RemoveAtProperties
    <3>2. PICK j \in 1..Len(gtsidq) : gtsidq'[i] = gtsidq[j] /\ j # k
      BY <3>1, SMTT(30)
    <3>3. gtsidq[j].id # rmsg[p].tid
      BY <2>2, <3>2 DEF lookup_ID_idq, UniqueInv, UniqueIds
    <3> QED BY <3>2, <3>3
  <2> QED BY <1>1, <2>1, <2>2 DEF rem_id
<1>5. CalledIsRemoved' /\ EnteredInUse'
  BY <1>1, <1>3, <1>4 DEF AnsInv, CalledIsRemoved, EnteredInUse
<1>6. CopyNotCalled'
  BY <1>2 DEF CopyNotCalled
<1> QED BY <1>1, <1>5, <1>6 DEF AnsInv, CalledInUse


(* What the receiver does outside of a response. *)
LEMMA OtherReceiverStep ==
  ASSUME TypeInv, NEW p \in Slot, ReceiverStep(p) \/ recv_message(p),
         ~ (recv_lookup(p) \/ recv_callback(p) \/ recv_remove(p))
  PROVE  /\ UNCHANGED gtsidq
         /\ \/ UNCHANGED calls
            \/ /\ UNCHANGED fault
               /\ \E e : calls' = Append(calls, e) /\ e.kind = "req"
                         /\ e.callback = NoReq
         /\ \A q \in Slot : \/ /\ rpc[q] \notin {"callback", "remove"}
                               /\ rpc'[q] \notin {"callback", "remove"}
                            \/ /\ rpc'[q] = rpc[q] /\ rn'[q] = rn[q]
                               /\ rmsg'[q] = rmsg[q]
<1> USE OwnTypes
<1>1. CASE recv_event_request(p) \/ recv_session(p)
  <2>1. UNCHANGED gtsidq /\ rpc[p] = "dispatch" /\ \E t, e : req_cb(p, t, e)
    BY <1>1 DEF recv_event_request, recv_session
  <2>2. PICK t, e : req_cb(p, t, e)
    BY <2>1
  <2>3. CASE UNCHANGED <<calls, rpc, rmsg, rn>>
    BY <2>1, <2>3
  <2>4. CASE /\ calls' = Append(calls, [kind |-> "req", callback |-> NoReq,
                                        is_timeout |-> t, elapsed |-> e])
             /\ Finish(p) /\ UNCHANGED fault
    <3>1. \E x : calls' = Append(calls, x) /\ x.kind = "req" /\ x.callback = NoReq
      <4> DEFINE x == [kind |-> "req", callback |-> NoReq, is_timeout |-> t,
                       elapsed |-> e]
      <4>1. x.kind = "req" /\ x.callback = NoReq
        OBVIOUS
      <4>2. calls' = Append(calls, x)
        BY <2>4
      <4> HIDE DEF x
      <4> QED BY <4>1, <4>2
    <3>2. /\ rpc'[p] = "top"
          /\ \A q \in Slot : q # p => /\ rpc'[q] = rpc[q] /\ rn'[q] = rn[q]
                                      /\ rmsg'[q] = rmsg[q]
      BY <2>4 DEF Finish
    <3> QED BY <2>1, <2>4, <3>1, <3>2
  <2> QED BY <2>2, <2>3, <2>4 DEF req_cb
<1>2. CASE ~ (recv_event_request(p) \/ recv_session(p))
  <2>1. UNCHANGED <<gtsidq, calls>>
    BY <1>2 DEF ReceiverStep, recv_message, recv_top, recv_recreate, recv_getfd,
                recv_eof, recv_error, recv_close, recv_down, recv_drop
  <2>2. \A q \in Slot : q # p => /\ rpc'[q] = rpc[q] /\ rn'[q] = rn[q]
                                 /\ rmsg'[q] = rmsg[q]
    BY <1>2 DEF ReceiverStep, recv_message, recv_top, recv_recreate, recv_getfd,
                recv_eof, recv_error, recv_close, recv_down, recv_drop, Finish
  <2>3. rpc[p] \notin {"callback", "remove"} /\ rpc'[p] \notin {"callback", "remove"}
    BY <1>2 DEF ReceiverStep, recv_message, recv_top, recv_recreate, recv_getfd,
                recv_eof, recv_error, recv_close, recv_down, recv_drop, Finish
  <2> QED BY <2>1, <2>2, <2>3
<1> QED BY <1>1, <1>2

(* AnsInv is inductive together with what precedes. *)
LEMMA AnsNext ==
  ASSUME NumPeers = 1
  PROVE  /\ TypeInv /\ NodeInv /\ OneInv /\ UniqueInv /\ MatchInv /\ AnsInv
         /\ [Next]_vars
         => AnsInv'
<1> SUFFICES ASSUME TypeInv, NodeInv, OneInv, UniqueInv, MatchInv, AnsInv, [Next]_vars
             PROVE  AnsInv'
  OBVIOUS
<1> USE OwnTypes
<1>1. ASSUME UNCHANGED <<gtsidq, calls, rpc, rn, rmsg>>,
             \A r \in Req : node[r] \in Used => node'[r] \in Used
      PROVE  AnsInv'
  BY <1>1, AnsKeeps
<1>2. ASSUME NEW c \in Client, sl_send_buf(c) \/ ClientStep(c)
      PROVE  AnsInv'
  <2>1. CASE push_known(c) \/ scan_take(c)
    BY <2>1, AnsLink
  <2>2. CASE ~ (push_known(c) \/ scan_take(c))
    <3>1. \A r \in Req : node[r] \in Used => node'[r] \in Used
      BY <1>2, <2>2, OtherClientStep DEF Used
    <3> QED BY <1>1, <1>2, <2>2, <3>1, OtherClientStep
  <2> QED BY <2>1, <2>2
<1>3. ASSUME NEW p \in Slot, SenderStep(p) \/ spurious_wakeup(p)
      PROVE  AnsInv'
  <2>1. CASE send_pop(p)
    <3>1. \A r \in Req : node[r] \in Used => node'[r] \in Used
      BY <2>1, PopStep, SendTypes DEF Used
    <3> QED BY <1>1, <2>1, <3>1, PopStep
  <2>2. CASE send_body(p)
    <3>1. \A r \in Req : node[r] \in Used => node'[r] \in Used
      BY <2>2, BodyStep, SendTypes DEF Used
    <3> QED BY <1>1, <2>2, <3>1, BodyStep
  <2>3. CASE ~ (send_pop(p) \/ send_body(p))
    BY <1>1, <1>3, <2>3, OtherSenderStep
  <2> QED BY <2>1, <2>2, <2>3
<1>4. ASSUME NEW p \in Slot, ReceiverStep(p) \/ recv_message(p)
      PROVE  AnsInv'
  <2>1. CASE recv_lookup(p) \/ recv_callback(p) \/ recv_remove(p)
    BY <2>1, AnsLookup, AnsCallback, AnsRemove
  <2>2. CASE ~ (recv_lookup(p) \/ recv_callback(p) \/ recv_remove(p))
    <3>1. UNCHANGED node
      BY <1>4, OthersKeepNodes DEF sendVars
    <3>2. \A r \in Req : CallOf(calls', r) <=> CallOf(calls, r)
      <4>1. CASE UNCHANGED calls
        BY <4>1
      <4>2. ASSUME NEW e, calls' = Append(calls, e), e.callback = NoReq, NEW r \in Req
            PROVE  CallOf(calls', r) <=> CallOf(calls, r)
        <5>1. r # e.callback
          BY <4>2, ReqAssumption
        <5>2. CallOf(calls, r) => CallOf(calls', r)
          BY <4>2, CallsGrow
        <5>3. \A i \in 1..Len(calls') :
                (i \in 1..Len(calls) /\ calls'[i] = calls[i]) \/ calls'[i] = e
          BY <4>2, CallsGrow
        <5> QED BY <5>1, <5>2, <5>3 DEF CallOf
      <4> QED BY <1>4, <2>2, <4>1, <4>2, OtherReceiverStep
    <3> QED BY <1>4, <2>2, <3>1, <3>2, OtherReceiverStep, AnsKeeps
  <2> QED BY <2>1, <2>2
<1>5. CASE qmanager
  <2>1. /\ UNCHANGED <<node, calls, rpc, rn, rmsg>>
        /\ gtsidq' = list_expired_idq(gtsidq, now)
    BY <1>5 DEF qmanager, sendSide, msgq, receivers
  <2>2. /\ Len(gtsidq') = Len(gtsidq)
        /\ \A i \in 1..Len(gtsidq) : /\ gtsidq'[i].id = gtsidq[i].id
                                     /\ gtsidq'[i].callback = gtsidq[i].callback
    BY <2>1, ListExpired
  <2>3. \A i \in 1..Len(gtsidq') : \E j \in 1..Len(gtsidq) :
          gtsidq'[i].id = gtsidq[j].id /\ gtsidq'[i].callback = gtsidq[j].callback
    BY <2>2
  <2> QED BY <2>1, <2>3, AnsKeeps
<1>6. CASE register_req_cb \/ drop \/ tick
  BY <1>1, <1>6 DEF register_req_cb, drop, tick, sendSide, receivers, msgq
<1>7. CASE UNCHANGED vars
  BY <1>1, <1>7 DEF vars, queues, idq, msgq, receivers
<1> HIDE DEF AnsInv
<1> QED BY <1>2, <1>3, <1>4, <1>5, <1>6, <1>7 DEF Next

(* At the start nothing was accepted and nothing answered. *)
LEMMA AnsInit == Init => AcceptInv /\ AnsInv
BY DEF Init, AcceptInv, AcceptedOnce, AcceptedInUse, QueuedIsLinked, AnsInv,
       EnteredInUse, CalledInUse, CopyNotCalled, CalledIsRemoved, CallOf


---------------------------------------------------------------------------
(* The library implements RequestLife                                      *)

(* Phase and the count of the answers, for given nodes, writes and calls. *)
Wrote(wr, r) == \E i \in 1..Len(wr) : wr[i].part = "B" /\ wr[i].req = r
PhaseIn(nd, wr, r) ==
  CASE Wrote(wr, r)                         -> "sent"
    [] ~ Wrote(wr, r) /\ nd[r] = "freed"    -> "lost"
    [] ~ Wrote(wr, r) /\ nd[r] \in {"queued", "held"} -> "waiting"
    [] OTHER                                -> "new"
Answers(cs, r) == {i \in 1..Len(cs) : cs[i].kind = "res" /\ cs[i].callback = r}

LEMMA PhaseValue ==
  ASSUME NEW nd, NEW wr, NEW r
  PROVE  /\ Wrote(wr, r) => PhaseIn(nd, wr, r) = "sent"
         /\ ~ Wrote(wr, r) /\ nd[r] = "freed" => PhaseIn(nd, wr, r) = "lost"
         /\ ~ Wrote(wr, r) /\ nd[r] \in {"queued", "held"}
              => PhaseIn(nd, wr, r) = "waiting"
         /\ ~ Wrote(wr, r) /\ nd[r] \notin Used => PhaseIn(nd, wr, r) = "new"
BY DEF PhaseIn, Used

(* Only a client that links a request and a sender that frees it change    *)
(* its phase.                                                              *)
LEMMA PhaseStays ==
  ASSUME NEW r, Wrote(wire', r) <=> Wrote(wire, r),
         \/ node'[r] = node[r]
         \/ node[r] = "none" /\ node'[r] = "new"
         \/ node[r] = "queued" /\ node'[r] = "held"
  PROVE  PhaseIn(node', wire', r) = PhaseIn(node, wire, r)
BY DEF PhaseIn

(* A first answer is counted. *)
LEMMA FirstAnswer ==
  ASSUME TypeInv, NEW r, ~ CallOf(calls, r), NEW e, calls' = Append(calls, e),
         e.kind = "res", e.callback = r
  PROVE  /\ Cardinality(Answers(calls, r)) = 0
         /\ Cardinality(Answers(calls', r)) = 1
         /\ \A s : s # r => Answers(calls', s) = Answers(calls, s)
<1>0. /\ Len(calls') = Len(calls) + 1 /\ Len(calls) \in Nat
      /\ \A i \in 1..Len(calls) : calls'[i] = calls[i]
      /\ calls'[Len(calls) + 1] = e
  BY OwnTypes
<1> DEFINE l == Len(calls)
<1>1. /\ l + 1 \in 1..Len(calls') /\ \A i \in 1..l : i \in 1..Len(calls') /\ i # l + 1
      /\ \A i \in 1..Len(calls') : i \in 1..l \/ i = l + 1
  BY <1>0
<1>2. Answers(calls, r) = {}
  BY DEF Answers, CallOf
<1>3. Answers(calls', r) = {l + 1}
  BY <1>0, <1>1 DEF Answers, CallOf
<1>4. \A s : s # r => Answers(calls', s) = Answers(calls, s)
  BY <1>0, <1>1 DEF Answers
<1> QED BY <1>2, <1>3, <1>4, FS_EmptySet, FS_Singleton

(* A call of the request callback is not. *)
LEMMA NoAnswer ==
  ASSUME TypeInv, NEW e, calls' = Append(calls, e), e.kind = "req"
  PROVE  \A s : Answers(calls', s) = Answers(calls, s)
<1>0. /\ Len(calls') = Len(calls) + 1 /\ Len(calls) \in Nat
      /\ \A i \in 1..Len(calls) : calls'[i] = calls[i]
      /\ calls'[Len(calls) + 1] = e
  BY OwnTypes
<1> DEFINE l == Len(calls)
<1>1. /\ \A i \in 1..l : i \in 1..Len(calls')
      /\ \A i \in 1..Len(calls') : i \in 1..l \/ i = l + 1
  BY <1>0, SMTT(30)
<1> QED BY <1>0, <1>1 DEF Answers

(* No thread takes a step after a memory error. *)
LEMMA StepsRun == Next => fault = "none"
BY DEF Next, Running, sl_send_buf, ClientStep, push_empty, push_known, push_new,
       scan_skip, scan_take, peek_head, peek_next, SenderStep, spurious_wakeup,
       send_wait, send_check, send_recreate, send_pop, send_header, send_body,
       ReceiverStep, recv_message, recv_top, recv_recreate, recv_getfd, recv_eof,
       recv_error, recv_close, recv_down, recv_drop, recv_event_request,
       recv_session, recv_lookup, recv_callback, recv_remove, qmanager,
       register_req_cb, drop, tick

(* A request that was accepted is no longer new. *)
LEMMA UsedIsNotNew ==
  ASSUME NEW r, node[r] \in Used
  PROVE  PhaseIn(node, wire, r) # "new"
BY DEF PhaseIn, Used


(* A step is one of these for the requests. *)
Stays ==
  /\ UNCHANGED <<accepted, conn>>
  /\ fault' = fault \/ (fault = "none" /\ fault' # "none")
  /\ \A r \in Req : /\ PhaseIn(node', wire', r) = PhaseIn(node, wire, r)
                    /\ Answers(calls', r) = Answers(calls, r)
Enters(r) ==
  /\ PhaseIn(node, wire, r) = "new" /\ PhaseIn(node', wire', r) = "waiting"
  /\ accepted' = Append(accepted, r) /\ conn' = [conn EXCEPT ![r] = 0]
  /\ \A s \in Req : s # r => PhaseIn(node', wire', s) = PhaseIn(node, wire, s)
  /\ UNCHANGED calls
Leaves(r) ==
  /\ PhaseIn(node, wire, r) = "waiting"
  /\ PhaseIn(node', wire', r) \in {"sent", "lost"}
  /\ \A a, b \in 1..Len(accepted) :
       a < b /\ accepted[b] = r /\ conn[accepted[a]] = conn[r]
       => accepted[a] \in Req /\ PhaseIn(node, wire, accepted[a]) # "waiting"
  /\ \A s \in Req : s # r => PhaseIn(node', wire', s) = PhaseIn(node, wire, s)
  /\ UNCHANGED <<accepted, conn, calls>>
Answered(r) ==
  /\ PhaseIn(node, wire, r) # "new"
  /\ Cardinality(Answers(calls, r)) = 0 /\ Cardinality(Answers(calls', r)) = 1
  /\ \A s \in Req : s # r => Answers(calls', s) = Answers(calls, s)
  /\ \A s \in Req : PhaseIn(node', wire', s) = PhaseIn(node, wire, s)
  /\ UNCHANGED <<accepted, conn>>

(* Every step of the library accepts a request, lets the next one leave,   *)
(* answers one that was not answered, ends the process, or does nothing a  *)
(* request notices.                                                        *)
LEMMA LifeStep ==
  ASSUME NumPeers = 1, TypeInv, NodeInv, OneInv, OrderInv, UniqueInv, MatchInv,
         AcceptInv, AnsInv, [Next]_vars
  PROVE  \/ Stays
         \/ /\ fault = "none" /\ UNCHANGED fault
            /\ \E r \in Req : Enters(r) \/ Leaves(r) \/ Answered(r)
<1> DEFINE Goal == \/ Stays
                   \/ /\ fault = "none" /\ UNCHANGED fault
                      /\ \E r \in Req : Enters(r) \/ Leaves(r) \/ Answered(r)
<1> SUFFICES Goal
  OBVIOUS
<1> USE DEF Stays, Enters, Leaves, Answered
<1> USE SendTypes
<1>1. ASSUME NEW r
      PROVE  (Written(r) <=> Wrote(wire, r)) /\ (Written(r)' <=> Wrote(wire', r))
  BY DEF Written, Wrote
<1>2. ASSUME UNCHANGED <<node, wire, accepted, conn, calls>>,
             fault' = fault \/ (fault = "none" /\ fault' # "none")
      PROVE  Goal
  BY <1>2
<1>3. ASSUME NEW c \in Client, push_known(c) \/ scan_take(c), fault = "none"
      PROVE  Goal
  <2> DEFINE r == creq[c]
  <2>1. /\ r \in Req /\ node[r] = "new" /\ conn' = [conn EXCEPT ![r] = 0]
        /\ node' = [node EXCEPT ![r] = "queued"]
        /\ accepted' = Append(accepted, r)
        /\ UNCHANGED <<fault, wire, calls>>
    BY <1>3, LinkStep
  <2> HIDE DEF r
  <2>2. node'[r] = "queued" /\ \A s \in Req : s # r => node'[s] = node[s]
    BY <2>1
  <2>3. ~ Wrote(wire, r)
    BY <2>1 DEF Wrote, NodeInv, WrittenWasHeld
  <2>4. PhaseIn(node, wire, r) = "new" /\ PhaseIn(node', wire', r) = "waiting"
    BY <2>1, <2>2, <2>3, PhaseValue DEF Used
  <2>5. \A s \in Req : s # r => PhaseIn(node', wire', s) = PhaseIn(node, wire, s)
    BY <2>1, <2>2, PhaseStays
  <2>6. Enters(r)
    BY <2>1, <2>4, <2>5
  <2> QED BY <1>3, <2>1, <2>6
<1>4. ASSUME NEW c \in Client, sl_send_buf(c) \/ ClientStep(c), fault = "none",
             ~ (push_known(c) \/ scan_take(c))
      PROVE  Goal
  <2>1. /\ UNCHANGED <<conn, accepted, wire, calls>>
        /\ \A r \in Req : \/ node'[r] = node[r]
                          \/ node[r] = "none" /\ node'[r] = "new"
        /\ fault' = fault \/ fault' # "none"
    BY <1>4, OtherClientStep
  <2>2. \A r \in Req : PhaseIn(node', wire', r) = PhaseIn(node, wire, r)
    BY <2>1, PhaseStays
  <2> QED BY <1>4, <2>1, <2>2
<1>5. ASSUME NEW p \in Slot, send_pop(p)
      PROVE  Goal
  <2>1. UNCHANGED <<conn, accepted, wire, calls, fault>>
    BY <1>5, PopStep
  <2>2. \A r \in Req : \/ node'[r] = node[r]
                       \/ node[r] = "queued" /\ node'[r] = "held"
    BY <1>5, PopStep
  <2>3. \A r \in Req : PhaseIn(node', wire', r) = PhaseIn(node, wire, r)
    BY <2>1, <2>2, PhaseStays
  <2> QED BY <2>1, <2>3
<1>6. ASSUME NEW p \in Slot, send_body(p), fault = "none"
      PROVE  Goal
  <2> DEFINE r == snode[p]
  <2>1. /\ UNCHANGED <<conn, accepted, calls, fault>>
        /\ r \in Req /\ node[r] = "held" /\ ~ Written(r)
        /\ node' = [node EXCEPT ![r] = "freed"]
        /\ \A s \in Req : s # r => Written(s)' = Written(s)
    BY <1>6, BodyStep
  <2>2. Writing(p)
    BY <1>6 DEF send_body, Writing
  <2>3. \A a, b \in 1..Len(accepted) :
          a < b /\ accepted[b] = r /\ conn[accepted[a]] = conn[r]
          => accepted[a] \in Req /\ PhaseIn(node, wire, accepted[a]) # "waiting"
    <3>1. SUFFICES ASSUME NEW a \in 1..Len(accepted), NEW b \in 1..Len(accepted),
                          a < b, accepted[b] = r, conn[accepted[a]] = conn[r]
                   PROVE  /\ accepted[a] \in Req
                          /\ PhaseIn(node, wire, accepted[a]) # "waiting"
      OBVIOUS
    <3>2. accepted[a] \in Req
      BY OwnTypes, ElementOfSeq
    <3>3. node[accepted[a]] = "freed"
      BY <2>2, <3>1, TakenIsFirst
    <3> QED BY <3>2, <3>3 DEF PhaseIn
  <2> HIDE DEF r
  <2>4. node'[r] = "freed" /\ \A s \in Req : s # r => node'[s] = node[s]
    BY <2>1
  <2>5. /\ PhaseIn(node, wire, r) = "waiting"
        /\ PhaseIn(node', wire', r) \in {"sent", "lost"}
    BY <1>1, <2>1, <2>4, PhaseValue, ZenonT(40)
  <2>6. ASSUME NEW s \in Req, s # r
        PROVE  PhaseIn(node', wire', s) = PhaseIn(node, wire, s)
    <3>1. Wrote(wire', s) <=> Wrote(wire, s)
      BY <1>1, <2>1, <2>6
    <3> QED BY <2>4, <2>6, <3>1, PhaseStays
  <2>7. Leaves(r)
    BY <2>1, <2>3, <2>5, <2>6
  <2> QED BY <1>6, <2>1, <2>7
<1>7. ASSUME NEW p \in Slot, SenderStep(p) \/ spurious_wakeup(p), fault = "none",
             ~ (send_pop(p) \/ send_body(p))
      PROVE  Goal
  <2>1. /\ UNCHANGED <<node, conn, accepted, calls>>
        /\ \A r \in Req : Written(r)' = Written(r)
        /\ fault' = fault \/ fault' # "none"
    BY <1>7, OtherSenderStep
  <2>2. ASSUME NEW r \in Req
        PROVE  PhaseIn(node', wire', r) = PhaseIn(node, wire, r)
    <3>1. Wrote(wire', r) <=> Wrote(wire, r)
      BY <1>1, <2>1
    <3> QED BY <2>1, <3>1, PhaseStays
  <2> QED BY <1>7, <2>1, <2>2
<1>8. ASSUME NEW p \in Slot, recv_callback(p), fault = "none"
      PROVE  Goal
  <2> DEFINE e == [kind |-> "res", callback |-> rn[p].callback,
                   is_timeout |-> rn[p].is_expired, elapsed |-> rn[p].elapsed]
             r == rn[p].callback
  <2>1. /\ UNCHANGED <<node, wire, accepted, conn, fault>>
        /\ calls' = Append(calls, e) /\ rpc[p] = "callback"
    BY <1>8 DEF recv_callback, sendSide, msgq, senders
  <2>2. e.kind = "res" /\ e.callback = r
    OBVIOUS
  <2>3. r \in Req /\ node[r] \in Used /\ ~ CallOf(calls, r)
    BY <2>1 DEF AnsInv, CopyNotCalled
  <2> HIDE DEF e, r
  <2>4. /\ Cardinality(Answers(calls, r)) = 0
        /\ Cardinality(Answers(calls', r)) = 1
        /\ \A s : s # r => Answers(calls', s) = Answers(calls, s)
    BY <2>1, <2>2, <2>3, FirstAnswer
  <2>5. PhaseIn(node, wire, r) # "new"
    BY <2>3, UsedIsNotNew
  <2>6. Answered(r)
    BY <2>1, <2>4, <2>5
  <2> QED BY <1>8, <2>1, <2>3, <2>6
<1>9. ASSUME NEW p \in Slot, ReceiverStep(p) \/ recv_message(p), fault = "none",
             ~ recv_callback(p)
      PROVE  Goal
  <2>1. /\ UNCHANGED <<node, wire, accepted, conn>>
        /\ fault' = fault \/ fault' # "none"
    BY <1>9, OthersKeepNodes DEF sendVars
  <2>2. \A r \in Req : Answers(calls', r) = Answers(calls, r)
    <3>1. CASE recv_lookup(p) \/ recv_remove(p)
      BY <3>1 DEF recv_lookup, recv_remove
    <3>2. CASE ~ (recv_lookup(p) \/ recv_remove(p))
      <4>1. \/ UNCHANGED calls
            \/ \E e : calls' = Append(calls, e) /\ e.kind = "req"
        BY <1>9, <3>2, OtherReceiverStep
      <4> QED BY <4>1, NoAnswer
    <3> QED BY <3>1, <3>2
  <2> QED BY <1>9, <2>1, <2>2
<1>10. CASE qmanager \/ register_req_cb \/ drop \/ tick
  <2>1. UNCHANGED <<node, wire, accepted, conn, fault>>
    BY <1>10, OthersKeepNodes DEF sendVars
  <2>2. UNCHANGED calls
    BY <1>10 DEF qmanager, register_req_cb, drop, tick, receivers
  <2> QED BY <1>2, <2>1, <2>2
<1>11. CASE UNCHANGED vars
  BY <1>2, <1>11 DEF vars, queues, msgq, senders, receivers
<1> HIDE DEF Goal
<1>12. CASE Next
  <2>1. fault = "none"
    BY <1>12, StepsRun
  <2> QED BY <1>3, <1>4, <1>5, <1>6, <1>7, <1>8, <1>9, <1>10, <1>12, <2>1 DEF Next
<1> QED BY <1>11, <1>12


(* With a single peer the library keeps what RequestLife promises for each *)
(* request, whatever ids the application uses again, whatever responses    *)
(* arrive and whatever connections are lost: push_to_msgq accepts it once, *)
(* send_worker_thread writes or drops it once and in its turn, and         *)
(* recv_worker_thread calls its callback at most once, after that.  With   *)
(* two peers it is false: two receivers may both copy the entry of an id   *)
(* before either removes it.                                               *)
THEOREM OnePeerLivesAsPromised ==
  ASSUME NumPeers = 1
  PROVE  Spec => LivesAsPromised
<1> DEFINE phase == [r \in Req |-> Phase(r)]
           answered == [r \in Req |-> Cardinality({i \in 1..Len(calls) :
                          calls[i].kind = "res" /\ calls[i].callback = r})]
           LInv == /\ TypeInv /\ NodeInv /\ OneInv /\ OrderInv /\ UniqueInv
                   /\ MatchInv /\ AcceptInv /\ AnsInv
<1>1. Init => LInv /\ Life!LifeInit
  <2> SUFFICES ASSUME Init PROVE LInv /\ Life!LifeInit
    OBVIOUS
  <2>1. LInv
    <3>1. TypeInv /\ NodeInv /\ MatchInv /\ AcceptInv /\ AnsInv
      BY TypeInit, NodeInit, MatchInit, AnsInit
    <3>2. OneInv /\ UniqueInv
      BY DEF Init, OneInv, OnlyQueuedLinked, QueueOpsSafe, LinkedOnce, LinkedForIt,
             UniqueInv, UniqueIds, ScanHoldsQtex, ScannedIsAbsent
    <3>3. OrderInv
      BY DEF Init, OrderInv, InUseWasAccepted, LinkedInOrder, TakenBeforeQueued,
             WrittenBeforeTaken, WrittenInOrder
    <3> QED BY <3>1, <3>2, <3>3
  <2>2. \A r \in Req : Phase(r) = "new"
    BY DEF Init, Phase, Written
  <2>3. \A r \in Req : Cardinality({i \in 1..Len(calls) :
          calls[i].kind = "res" /\ calls[i].callback = r}) = 0
    <3>1. calls = <<>>
      BY DEF Init
    <3>2. 1..Len(calls) = {}
      BY <3>1
    <3>3. ASSUME NEW r \in Req
          PROVE  {i \in 1..Len(calls) :
                    calls[i].kind = "res" /\ calls[i].callback = r} = {}
      BY <3>2
    <3> QED BY <3>3, FS_EmptySet
  <2> QED BY <2>1, <2>2, <2>3 DEF Init, Life!LifeInit
<1>2. LInv /\ [Next]_vars => LInv'
  BY TypeNext, NodeNext, OneNext, OrderNext, UniqueNext, MatchNext, AcceptNext,
     AnsNext, OnlySlot
<1>3. LInv /\ [Next]_vars => [Life!LifeNext]_(Life!lifevars)
  <2> SUFFICES ASSUME LInv, [Next]_vars PROVE [Life!LifeNext]_(Life!lifevars)
    OBVIOUS
  <2>1. /\ phase = [r \in Req |-> PhaseIn(node, wire, r)]
        /\ phase' = [r \in Req |-> PhaseIn(node', wire', r)]
    BY DEF Phase, PhaseIn, Written, Wrote
  <2>2. /\ answered = [r \in Req |-> Cardinality(Answers(calls, r))]
        /\ answered' = [r \in Req |-> Cardinality(Answers(calls', r))]
    BY DEF Answers
  <2> HIDE DEF phase, answered
  <2>3. CASE Stays
    BY <2>1, <2>2, <2>3 DEF Stays, Life!LifeNext, Life!End, Life!lifevars, phase, answered
  <2>4. ASSUME fault = "none", UNCHANGED fault, NEW r \in Req, Enters(r)
        PROVE  Life!LifeNext
    <3>1. /\ phase[r] = "new" /\ phase' = [phase EXCEPT ![r] = "waiting"]
          /\ answered' = answered
      BY <2>1, <2>2, <2>4 DEF Enters
    <3>2. /\ accepted' = Append(accepted, r) /\ conn' = [conn EXCEPT ![r] = 0]
          /\ UNCHANGED (fault # "none")
      BY <2>4 DEF Enters
    <3>3. Life!Accept(r, 0)
      BY <3>1, <3>2 DEF Life!Accept, phase, answered
    <3> QED BY <2>4, <3>3, OnlySlot DEF Life!LifeNext
  <2>5. ASSUME fault = "none", UNCHANGED fault, NEW r \in Req, Leaves(r)
        PROVE  Life!LifeNext
    <3>1. /\ phase[r] = "waiting" /\ answered' = answered
          /\ \E how \in {"sent", "lost"} : phase' = [phase EXCEPT ![r] = how]
      <4>1. PICK how \in {"sent", "lost"} : PhaseIn(node', wire', r) = how
        BY <2>5 DEF Leaves
      <4>2. phase' = [phase EXCEPT ![r] = how]
        BY <2>1, <2>5, <4>1 DEF Leaves
      <4> QED BY <2>1, <2>2, <2>5, <4>2 DEF Leaves
    <3>2. \A i, j \in 1..Len(accepted) :
            i < j /\ accepted[j] = r /\ conn[accepted[i]] = conn[r]
            => phase[accepted[i]] # "waiting"
      BY <2>1, <2>5 DEF Leaves
    <3>3. UNCHANGED <<accepted, conn, fault # "none">>
      BY <2>5 DEF Leaves
    <3>4. Life!Leave(r)
      BY <3>1, <3>2, <3>3 DEF Life!Leave, Life!IsNext, phase, answered
    <3> QED BY <2>5, <3>4 DEF Life!LifeNext
  <2>6. ASSUME fault = "none", UNCHANGED fault, NEW r \in Req, Answered(r)
        PROVE  Life!LifeNext
    <3>1. /\ phase[r] # "new" /\ phase' = phase
          /\ answered[r] = 0 /\ answered' = [answered EXCEPT ![r] = 1]
      BY <2>1, <2>2, <2>6 DEF Answered
    <3>2. UNCHANGED <<accepted, conn, fault # "none">>
      BY <2>6 DEF Answered
    <3>3. Life!Answer(r)
      BY <3>1, <3>2 DEF Life!Answer, phase, answered
    <3> QED BY <2>6, <3>3 DEF Life!LifeNext
  <2> QED BY <2>3, <2>4, <2>5, <2>6, LifeStep
<1> HIDE DEF LInv
<1> QED BY <1>1, <1>2, <1>3, PTL DEF Spec, LivesAsPromised, Life!LifeSpec
==============================================================================
