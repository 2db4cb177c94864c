----------------------------- MODULE TypeProofs ------------------------------
(***************************************************************************)
(* The types of the variables of ClientLib, for every number of peers,     *)
(* clients, requests and descriptors and every bound on the environment,   *)
(* and the lemmas the other proofs share.                                  *)
(***************************************************************************)
EXTENDS ClientLib, SequenceTheorems, TLAPS

---------------------------------------------------------------------------
(* Sequences                                                               *)

(* What is left of a sequence when the element at k is unlinked, as rem_id *)
(* and pop_from_msgq do: the elements after it move up by one.             *)
LEMMA RemoveAtProperties ==
  ASSUME NEW S, NEW s \in Seq(S), NEW k \in 1..Len(s)
  PROVE  /\ RemoveAt(s, k) \in Seq(S)
         /\ Len(RemoveAt(s, k)) = Len(s) - 1
         /\ \A i \in 1..(Len(s) - 1) :
              RemoveAt(s, k)[i] = IF i < k THEN s[i] ELSE s[i + 1]
<1> DEFINE a == SubSeq(s, 1, k - 1)
           b == SubSeq(s, k + 1, Len(s))
<1>1. /\ a \in Seq(S) /\ Len(a) = k - 1
      /\ \A i \in 1..(k - 1) : a[i] = s[i]
  BY SubSeqProperties
<1>2. /\ b \in Seq(S) /\ Len(b) = Len(s) - k
      /\ \A i \in 1..(Len(s) - k) : b[i] = s[k + i]
  BY SubSeqProperties
<1> HIDE DEF a, b
<1>3. /\ a \o b \in Seq(S) /\ Len(a \o b) = Len(s) - 1
      /\ \A i \in 1..(Len(s) - 1) :
           (a \o b)[i] = IF i <= Len(a) THEN a[i] ELSE b[i - Len(a)]
  BY <1>1, <1>2, ConcatProperties
<1>4. RemoveAt(s, k) = a \o b
  BY DEF RemoveAt, a, b
<1>5. ASSUME NEW i \in 1..(Len(s) - 1)
      PROVE  (a \o b)[i] = IF i < k THEN s[i] ELSE s[i + 1]
  <2>1. CASE i < k
    BY <1>1, <1>3, <2>1
  <2>2. CASE ~ (i < k)
    <3>1. PICK j \in 1..(Len(s) - k) : i - Len(a) = j /\ k + j = i + 1
      <4>1. i - Len(a) \in 1..(Len(s) - k) /\ k + (i - Len(a)) = i + 1
        BY <1>1, <2>2
      <4> QED BY <4>1
    <3>2. (a \o b)[i] = b[j]
      BY <1>1, <1>3, <2>2, <3>1
    <3>3. b[j] = s[i + 1]
      BY <1>2, <3>1
    <3> QED BY <2>2, <3>2, <3>3
  <2> QED BY <2>1, <2>2
<1> QED BY <1>3, <1>4, <1>5

---------------------------------------------------------------------------
(* Types                                                                   *)

(* Every operation on the id queue of task.c returns a queue of entries.   *)
LEMMA IdQueueTypes ==
  ASSUME NEW q \in Seq(Entry)
  PROVE  /\ \A id \in Id, r \in Req, con \in Slot, t \in Nat :
              add_entry_idq(q, id, r, con, t) \in Seq(Entry)
         /\ \A k \in 1..Len(q), r \in Req, t \in Nat :
              update_entry_idq(q, k, r, t) \in Seq(Entry)
         /\ \A t \in Nat : list_expired_idq(q, t) \in Seq(Entry)
         /\ \A id, q2 : rem_id(q, id, q2) => q2 \in Seq(Entry)
<1>1. ASSUME NEW id \in Id, NEW r \in Req, NEW con \in Slot, NEW t \in Nat
      PROVE  add_entry_idq(q, id, r, con, t) \in Seq(Entry)
  BY ExpiryAssumption DEF add_entry_idq, Entry
<1>2. ASSUME NEW k \in 1..Len(q), NEW r \in Req, NEW t \in Nat
      PROVE  update_entry_idq(q, k, r, t) \in Seq(Entry)
  <2> DEFINE e == [q[k] EXCEPT !.ATime = t, !.ETime = t + EXPIRY,
                               !.callback = r]
  <2>1. q[k] \in Entry
    BY ElementOfSeq
  <2>2. e \in Entry
    <3>1. t + EXPIRY \in Nat
      BY ExpiryAssumption
    <3>2. ASSUME NEW x \in Entry, NEW u \in Nat
          PROVE  [x EXCEPT !.ATime = t, !.ETime = u, !.callback = r] \in Entry
      BY DEF Entry
    <3> QED BY <2>1, <3>1, <3>2
  <2>3. update_entry_idq(q, k, r, t) = [q EXCEPT ![k] = e]
    BY DEF update_entry_idq
  <2> HIDE DEF e
  <2> QED BY <2>2, <2>3, ExceptSeq
<1>3. ASSUME NEW t \in Nat
      PROVE  list_expired_idq(q, t) \in Seq(Entry)
  <2> DEFINE e(i) == IF Expired(q[i], t) THEN [q[i] EXCEPT !.is_expired = 1]
                     ELSE q[i]
  <2>1. ASSUME NEW i \in 1..Len(q)
        PROVE  e(i) \in Entry
    <3>1. q[i] \in Entry
      BY ElementOfSeq
    <3> QED BY <3>1 DEF Entry
  <2>2. list_expired_idq(q, t) = [i \in 1..Len(q) |-> e(i)]
    BY DEF list_expired_idq
  <2> HIDE DEF e
  <2>3. Len(q) \in Nat
    BY LenProperties
  <2> QED BY <2>1, <2>2, <2>3, IsASeq
<1>4. ASSUME NEW id, NEW q2, rem_id(q, id, q2)
      PROVE  q2 \in Seq(Entry)
  BY <1>4, RemoveAtProperties DEF rem_id
<1> QED BY <1>1, <1>2, <1>3, <1>4

(* What the local variables of a thread are while it is in a call: a       *)
(* client has a request, with an id while it scans the connections, and a  *)
(* sender that writes has a node.                                          *)
ThreadsOK ==
  /\ \A c \in Client : cpc[c] # "idle" => creq[c] \in Req
  /\ \A c \in Client : cpc[c] = "scan" => ReqId[creq[c]] \in Id
  /\ \A p \in Slot : spc[p] \in {"header", "body"} => snode[p] \in Req

TypeInv == TypeOK /\ ThreadsOK

(* The tables create_peers builds and the empty queues have their types.   *)
LEMMA TypeInit == Init => TypeInv
<1> SUFFICES ASSUME Init PROVE TypeInv
  OBVIOUS
<1> USE PeersAssumption, ReqAssumption, EnvAssumption
<1>1. ConnTypeOK
  BY DEF Init, create_peers, PeerState, ConnTypeOK, SockState
<1>2. QueueTypeOK
  BY DEF Init, QueueTypeOK, Slot, Node
<1>3. TypeOK
  BY <1>1, <1>2 DEF Init, TypeOK, NoMsg, NoEntry, MsgType, ClientPC,
                    SenderPC, ReceiverPC, Copy
<1>4. ThreadsOK
  BY DEF Init, ThreadsOK
<1> QED BY <1>3, <1>4 DEF TypeInv

(* The operations on the message queue keep its type. *)
LEMMA MsgQueueTypes ==
  ASSUME TypeInv
  PROVE  /\ \A r \in Req, con \in Slot :
              LinkAtEnd(r, con) =>
                /\ gmsgq' \in Seq(Req) /\ accepted' \in Seq(Req)
                /\ node' \in [Req -> Node]
                /\ conn' \in [Req -> Slot \cup {-1}]
                /\ fault' \in {fault, "push_freed"}
         /\ \A k \in 1..Len(gmsgq) :
              /\ gmsgq[k] \in Req
              /\ pop_from_msgq(gmsgq, k) \in Seq(Req)
<1>1. ASSUME NEW r \in Req, NEW con \in Slot, LinkAtEnd(r, con)
      PROVE  /\ gmsgq' \in Seq(Req) /\ accepted' \in Seq(Req)
             /\ node' \in [Req -> Node]
             /\ conn' \in [Req -> Slot \cup {-1}]
             /\ fault' \in {fault, "push_freed"}
  <2> USE DEF TypeInv, TypeOK, QueueTypeOK
  <2>1. conn' \in [Req -> Slot \cup {-1}]
    BY <1>1 DEF LinkAtEnd
  <2>2. CASE Freed(PushReads(gmsgq))
    BY <1>1, <2>1, <2>2 DEF LinkAtEnd
  <2>3. CASE ~ Freed(PushReads(gmsgq))
    <3>1. /\ gmsgq' = Append(gmsgq, r) /\ accepted' = Append(accepted, r)
          /\ node' = [node EXCEPT ![r] = "queued"] /\ fault' = fault
      BY <1>1, <2>3 DEF LinkAtEnd, Push
    <3>2. gmsgq' \in Seq(Req) /\ accepted' \in Seq(Req)
      BY <3>1, AppendProperties
    <3>3. node' \in [Req -> Node]
      BY <3>1 DEF Node
    <3> QED BY <2>1, <3>1, <3>2, <3>3
  <2> QED BY <2>2, <2>3
<1>2. ASSUME NEW k \in 1..Len(gmsgq)
      PROVE  gmsgq[k] \in Req /\ pop_from_msgq(gmsgq, k) \in Seq(Req)
  <2>1. gmsgq \in Seq(Req)
    BY DEF TypeInv, TypeOK, QueueTypeOK
  <2>2. gmsgq[k] \in Req
    BY <2>1, ElementOfSeq
  <2>3. RemoveAt(gmsgq, k) \in Seq(Req)
    BY <2>1, RemoveAtProperties
  <2> QED BY <2>1, <2>2, <2>3 DEF pop_from_msgq
<1> QED BY <1>1, <1>2

(* The round robin and the peer ids stay inside the connection table.      *)
LEMMA SlotTypes ==
  /\ \A i \in Slot : NextSlot(i) \in Slot /\ peer_id(i) \in Slot
  /\ 0 \in Slot
BY PeersAssumption DEF Slot, NextSlot, peer_id, PeerId

(* recreate_conn keeps the types of the connection table. *)
LEMMA RecreateTypes ==
  ASSUME TypeInv, NEW p \in Slot
  PROVE  /\ recreate_conn(p) => ConnTypeOK'
         /\ connect_ok(p) => ConnTypeOK' /\ nfail' \in 0..MaxFail
         /\ connect_failed(p) => ConnTypeOK' /\ nfail' \in 0..MaxFail
         /\ recreate_done(p) => ConnTypeOK'
<1> USE DEF TypeInv, TypeOK, ConnTypeOK
<1>1. recreate_conn(p) => ConnTypeOK'
  BY DEF recreate_conn, SockState
<1>2. connect_ok(p) => ConnTypeOK' /\ nfail' \in 0..MaxFail
  BY DEF connect_ok, SockState
<1>3. connect_failed(p) => ConnTypeOK' /\ nfail' \in 0..MaxFail
  BY EnvAssumption DEF connect_failed
<1>4. recreate_done(p) => ConnTypeOK'
  BY DEF recreate_done
<1> QED BY <1>1, <1>2, <1>3, <1>4

(* The calls of the application keep the types and what threads hold.      *)
LEMMA ClientTypes ==
  ASSUME TypeInv, NEW c \in Client, sl_send_buf(c) \/ ClientStep(c)
  PROVE  TypeInv'
<1> USE PeersAssumption, ReqAssumption
    DEF TypeInv, TypeOK, ConnTypeOK, QueueTypeOK, ThreadsOK, notClients,
        queues, msgq, idq, conns, clients, senders, receivers, env,
        ClientPC, SenderPC
<1>1. CASE sl_send_buf(c)
  BY <1>1 DEF sl_send_buf, Node
<1>2. CASE push_empty(c)
  BY <1>2 DEF push_empty
<1>3. CASE push_known(c)
  <2>1. creq[c] \in Req /\ now \in Nat
    BY <1>3, EnvAssumption DEF push_known
  <2>2. PICK k \in 1..Len(gtsidq) :
          /\ gtsidq' = update_entry_idq(gtsidq, k, creq[c], now)
          /\ LinkAtEnd(creq[c], PinnedTo(k))
    BY <1>3 DEF push_known
  <2>3. PinnedTo(k) \in Slot
    <3>1. gtsidq[k] \in Entry
      BY ElementOfSeq
    <3> QED BY <3>1 DEF PinnedTo, Entry
  <2>4. gtsidq' \in Seq(Entry)
    BY <2>1, <2>2, IdQueueTypes
  <2>5. /\ gmsgq' \in Seq(Req) /\ accepted' \in Seq(Req)
        /\ node' \in [Req -> Node]
        /\ conn' \in [Req -> Slot \cup {-1}]
        /\ fault' \in {fault, "push_freed"}
    BY <2>1, <2>2, <2>3, MsgQueueTypes
  <2> QED BY <1>3, <2>4, <2>5 DEF push_known
<1>4. CASE push_new(c)
  BY <1>4, EnvAssumption DEF push_new, lock_qtex
<1>5. CASE scan_skip(c)
  BY <1>5, SlotTypes DEF scan_skip
<1>6. CASE scan_take(c)
  <2>1. /\ creq[c] \in Req /\ ReqId[creq[c]] \in Id /\ catime[c] \in Nat
        /\ glast_con_rr \in Slot
    BY <1>6 DEF scan_take
  <2>2. gtsidq' \in Seq(Entry)
    BY <1>6, <2>1, IdQueueTypes DEF scan_take
  <2>3. /\ gmsgq' \in Seq(Req) /\ accepted' \in Seq(Req)
        /\ node' \in [Req -> Node]
        /\ conn' \in [Req -> Slot \cup {-1}]
        /\ fault' \in {fault, "push_freed"}
    BY <1>6, <2>1, MsgQueueTypes DEF scan_take
  <2>4. glast_con_rr' \in Slot
    BY <1>6, <2>1, SlotTypes DEF scan_take
  <2> QED BY <1>6, <2>2, <2>3, <2>4 DEF scan_take, unlock_qtex
<1>7. CASE peek_head(c)
  <2>1. gmsgq # <<>> => Head(gmsgq) \in Req
    BY HeadTailProperties
  <2>2. \/ fault' = "null_head" /\ UNCHANGED <<cpc, chd, condition_mutex>>
        \/ /\ condition_mutex' = c
           /\ chd' = [chd EXCEPT ![c] = Head(gmsgq)]
           /\ cpc' = [cpc EXCEPT ![c] = "next"]
           /\ UNCHANGED fault
           /\ gmsgq # <<>>
    BY <1>7 DEF peek_head
  <2>3. /\ fault' \in {fault, "null_head"}
        /\ condition_mutex' \in Client \cup {NoOne}
        /\ chd' \in [Client -> Req \cup {NoReq}]
        /\ cpc' \in [Client -> ClientPC]
        /\ \A d \in Client : cpc'[d] \in {cpc[d], "next"}
        /\ cpc[c] = "peek" /\ \A d \in Client \ {c} : cpc'[d] = cpc[d]
    <3>1. cpc[c] = "peek"
      BY <1>7 DEF peek_head
    <3>2. CASE fault' = "null_head" /\ UNCHANGED <<cpc, chd, condition_mutex>>
      BY <3>1, <3>2
    <3>3. CASE /\ condition_mutex' = c
               /\ chd' = [chd EXCEPT ![c] = Head(gmsgq)]
               /\ cpc' = [cpc EXCEPT ![c] = "next"]
               /\ UNCHANGED fault
               /\ gmsgq # <<>>
      BY <2>1, <3>1, <3>3
    <3> QED BY <2>2, <3>2, <3>3
  <2>4. UNCHANGED <<notClients, queues, creq, catime, qtex>>
    BY <1>7 DEF peek_head
  <2> QED BY <2>3, <2>4
<1>8. CASE peek_next(c)
  <2>1. \/ UNCHANGED spc
        \/ \E p \in Slot : spc' = [spc EXCEPT ![p] = "wait"]
    BY <1>8 DEF peek_next, signal
  <2>2. /\ spc' \in [Slot -> SenderPC]
        /\ \A p \in Slot : spc'[p] \in {spc[p], "wait"}
    <3>1. CASE UNCHANGED spc
      BY <3>1
    <3>2. ASSUME NEW p \in Slot, spc' = [spc EXCEPT ![p] = "wait"]
          PROVE  /\ spc' \in [Slot -> SenderPC]
                 /\ \A s \in Slot : spc'[s] \in {spc[s], "wait"}
      BY <3>2
    <3> QED BY <2>1, <3>1, <3>2
  <2>3. /\ fault' \in {fault, "head_freed"}
        /\ condition_mutex' = NoOne
        /\ chd' = [chd EXCEPT ![c] = NoReq]
        /\ creq' = [creq EXCEPT ![c] = NoReq]
        /\ cpc' = [cpc EXCEPT ![c] = "idle"]
        /\ UNCHANGED <<receivers, conns, queues, env, catime, qtex, snode,
                       wire>>
    BY <1>8 DEF peek_next
  <2> QED BY <2>2, <2>3
<1> QED BY <1>1, <1>2, <1>3, <1>4, <1>5, <1>6, <1>7, <1>8 DEF ClientStep

(* A write and its failure keep the types of what they change. *)
LEMMA WriteTypes ==
  ASSUME TypeInv, NEW p \in Slot, NEW part \in {"H", "B"}, NEW r \in Req,
         send_ok(p, part, r) \/ send_failed(p),
         UNCHANGED <<c_fd, owner, conntex>>
  PROVE  /\ ConnTypeOK'
         /\ wire' \in Seq(Write)
<1> USE DEF TypeInv, TypeOK, ConnTypeOK
<1>1. CASE send_ok(p, part, r)
  <2>1. PICK f \in Fd :
          /\ wire' = Append(wire, [part |-> part, req |-> r,
                                   to |-> owner[f], after |-> half[f]])
          /\ half' = [half EXCEPT ![f] = IF part = "H" THEN r ELSE NoReq]
          /\ UNCHANGED <<c_state, sock>>
    BY <1>1 DEF send_ok, written
  <2>2. [part |-> part, req |-> r, to |-> owner[f], after |-> half[f]]
          \in Write
    BY DEF Write
  <2>3. wire' \in Seq(Write)
    BY <2>1, <2>2, AppendProperties
  <2> QED BY <2>1, <2>3
<1>2. CASE send_failed(p)
  BY <1>2 DEF send_failed, set_down, SockState
<1> QED BY <1>1, <1>2

(* So does every step of send_worker_thread... *)
LEMMA SenderTypes ==
  ASSUME TypeInv, NEW p \in Slot, SenderStep(p) \/ spurious_wakeup(p)
  PROVE  TypeInv'
<1> USE PeersAssumption, ReqAssumption
    DEF TypeInv, TypeOK, ConnTypeOK, QueueTypeOK, ThreadsOK, notSenders,
        idq, conns, clients, receivers, SenderPC
<1>1. CASE send_wait(p)
  BY <1>1 DEF send_wait
<1>2. CASE spurious_wakeup(p)
  BY <1>2 DEF spurious_wakeup
<1>3. CASE send_check(p)
  BY <1>3 DEF send_check
<1>4. CASE send_recreate(p)
  <2>1. ConnTypeOK' /\ nfail' \in 0..MaxFail
    BY <1>4, SlotTypes, RecreateTypes DEF send_recreate
  <2>2. PICK s \in {"connect", "connected", "pop"} :
          spc' = [spc EXCEPT ![p] = s]
    BY <1>4 DEF send_recreate
  <2>3. UNCHANGED <<notSenders, gmsgq, node, snode, wire, fault>>
    BY <1>4 DEF send_recreate
  <2> QED BY <2>1, <2>2, <2>3, SMTT(30)
<1>5. CASE send_pop(p)
  <2>1. UNCHANGED <<notSenders, conns, wire, nfail>>
    BY <1>5 DEF send_pop
  <2>2. CASE \E k \in 1..Len(gmsgq) :
               /\ snode' = [snode EXCEPT ![p] = gmsgq[k]]
               /\ node' = [node EXCEPT ![gmsgq[k]] = "held"]
               /\ gmsgq' = pop_from_msgq(gmsgq, k)
               /\ spc' = [spc EXCEPT ![p] = "header"]
               /\ UNCHANGED fault
    <3>1. PICK k \in 1..Len(gmsgq) :
               /\ snode' = [snode EXCEPT ![p] = gmsgq[k]]
               /\ node' = [node EXCEPT ![gmsgq[k]] = "held"]
               /\ gmsgq' = pop_from_msgq(gmsgq, k)
               /\ spc' = [spc EXCEPT ![p] = "header"]
               /\ UNCHANGED fault
      BY <2>2
    <3>2. gmsgq[k] \in Req /\ gmsgq' \in Seq(Req)
      BY <3>1, MsgQueueTypes
    <3>3. node' \in [Req -> Node]
      BY <3>1 DEF Node
    <3> QED BY <2>1, <3>1, <3>2, <3>3
  <2>3. CASE /\ spc' = [spc EXCEPT ![p] = "wait"]
             /\ UNCHANGED <<gmsgq, node, snode, fault>>
    BY <2>1, <2>3
  <2>4. CASE /\ fault' = "pop_freed"
             /\ UNCHANGED <<gmsgq, node, snode, spc>>
    BY <2>1, <2>4
  <2> QED BY <1>5, <2>2, <2>3, <2>4 DEF send_pop
<1>6. CASE send_header(p)
  <2>1. /\ ConnTypeOK'
        /\ wire' \in Seq(Write)
    BY <1>6, WriteTypes DEF send_header
  <2>2. /\ fault' \in {fault, "node_freed"}
        /\ spc' = [spc EXCEPT ![p] = "body"]
        /\ UNCHANGED <<notSenders, gmsgq, node, c_fd, owner, conntex, snode,
                       nfail>>
    BY <1>6 DEF send_header, UseNode
  <2>3. snode[p] \in Req
    BY <1>6 DEF send_header
  <2> QED BY <2>1, <2>2, <2>3
<1>7. CASE send_body(p)
  <2>1. snode[p] \in Req
    BY <1>7 DEF send_body
  <2>2. /\ ConnTypeOK'
        /\ wire' \in Seq(Write)
    BY <1>7, <2>1, WriteTypes DEF send_body
  <2>3. /\ fault' \in {fault, "node_freed"}
        /\ node' = [node EXCEPT ![snode[p]] = "freed"]
        /\ snode' = [snode EXCEPT ![p] = NoReq]
        /\ spc' = [spc EXCEPT ![p] = "wait"]
        /\ UNCHANGED <<notSenders, gmsgq, c_fd, owner, conntex, nfail>>
    BY <1>7 DEF send_body, UseNode
  <2>4. node' \in [Req -> Node]
    BY <2>1, <2>3 DEF Node
  <2> QED BY <2>2, <2>3, <2>4
<1> QED BY <1>1, <1>2, <1>3, <1>4, <1>5, <1>6, <1>7 DEF SenderStep

(* A copied entry and a call of the request callback have their types. *)
LEMMA LookupTypes ==
  ASSUME TypeInv, NEW k \in 1..Len(gtsidq)
  PROVE  /\ gtsidq[k].callback \in Req
         /\ gtsidq[k].is_expired \in {0, 1}
         /\ now - gtsidq[k].ATime \in Int
<1>1. gtsidq[k] \in Entry
  BY ElementOfSeq DEF TypeInv, TypeOK, QueueTypeOK
<1>2. now \in Int
  BY EnvAssumption DEF TypeInv, TypeOK
<1> QED BY <1>1, <1>2 DEF Entry

(* The end of an iteration of recv_worker_thread clears its locals. *)
LEMMA FinishTypes ==
  ASSUME TypeInv, NEW p \in Slot, Finish(p)
  PROVE  /\ rpc' \in [Slot -> ReceiverPC]
         /\ rmsg' \in [Slot -> MsgType]
         /\ rn' \in [Slot -> Copy]
<1>1. NoMsg \in MsgType
  BY DEF NoMsg, MsgType
<1>2. NoEntry \in Copy
  BY DEF NoEntry, Copy
<1> QED BY <1>1, <1>2 DEF TypeInv, TypeOK, Finish, ReceiverPC

(* A call of the request callback records a call, or stops the process.    *)
LEMMA CallTypes ==
  ASSUME TypeInv, NEW p \in Slot, NEW t \in {0, 1}, NEW e \in Int,
         req_cb(p, t, e)
  PROVE  /\ rpc' \in [Slot -> ReceiverPC]
         /\ rmsg' \in [Slot -> MsgType]
         /\ rn' \in [Slot -> Copy]
         /\ calls' \in Seq(Call)
         /\ fault' \in {fault, "null_req_cb"}
<1>1. CASE reg_req_cb = 1
  <2>1. [kind |-> "req", callback |-> NoReq, is_timeout |-> t, elapsed |-> e]
          \in Call
    BY DEF Call
  <2>2. /\ calls' = Append(calls, [kind |-> "req", callback |-> NoReq,
                                   is_timeout |-> t, elapsed |-> e])
        /\ Finish(p) /\ UNCHANGED fault
    BY <1>1 DEF req_cb
  <2>3. calls' \in Seq(Call)
    BY <2>1, <2>2, AppendProperties DEF TypeInv, TypeOK
  <2> QED BY <2>2, <2>3, FinishTypes
<1>2. CASE reg_req_cb # 1
  BY <1>2 DEF req_cb, TypeInv, TypeOK
<1> QED BY <1>1, <1>2

(* ... every step of recv_worker_thread... *)
LEMMA ReceiverTypes ==
  ASSUME TypeInv, NEW p \in Slot, ReceiverStep(p) \/ recv_message(p)
  PROVE  TypeInv'
<1> USE DEF TypeInv, TypeOK, ConnTypeOK, QueueTypeOK, ThreadsOK, sendSide,
            msgq, conns, clients, senders, env
<1>1. CASE recv_top(p)
  BY <1>1 DEF recv_top, ReceiverPC
<1>2. CASE recv_recreate(p)
  <2>1. ConnTypeOK' /\ nfail' \in 0..MaxFail
    BY <1>2, SlotTypes, RecreateTypes DEF recv_recreate
  <2>2. PICK s \in {"connect", "connected", "top"} :
          rpc' = [rpc EXCEPT ![p] = s]
    BY <1>2 DEF recv_recreate
  <2>3. UNCHANGED <<sendSide, gtsidq, rfd, rrc, rmsg, rn, reg_req_cb, calls,
                    now, nin, ndrop, fault>>
    BY <1>2 DEF recv_recreate
  <2> QED BY <2>1, <2>2, <2>3 DEF ReceiverPC
<1>3. CASE recv_getfd(p)
  BY <1>3 DEF recv_getfd, ReceiverPC
<1>4. CASE recv_message(p)
  <2>1. nin' \in 0..MaxIn
    BY <1>4, EnvAssumption DEF recv_message
  <2>2. PICK m \in InMsg :
          /\ rrc' = [rrc EXCEPT ![p] = m.len]
          /\ \/ rpc' = [rpc EXCEPT ![p] = "close"] /\ UNCHANGED rmsg
             \/ /\ rpc' = [rpc EXCEPT ![p] = "dispatch"]
                /\ rmsg' = [rmsg EXCEPT ![p] = m]
    BY <1>4 DEF recv_message
  <2>3. m \in MsgType /\ m.len \in {0, 1}
    BY EnvAssumption DEF MsgType
  <2>4. /\ rrc' \in [Slot -> {0, 1}]
        /\ rpc' \in [Slot -> ReceiverPC]
        /\ rmsg' \in [Slot -> MsgType]
    <3>1. rrc' \in [Slot -> {0, 1}]
      BY <2>2, <2>3
    <3>2. CASE rpc' = [rpc EXCEPT ![p] = "close"] /\ UNCHANGED rmsg
      BY <3>1, <3>2 DEF ReceiverPC
    <3>3. CASE /\ rpc' = [rpc EXCEPT ![p] = "dispatch"]
               /\ rmsg' = [rmsg EXCEPT ![p] = m]
      BY <2>3, <3>1, <3>3 DEF ReceiverPC
    <3> QED BY <2>2, <3>2, <3>3
  <2>5. UNCHANGED <<sendSide, conns, gtsidq, rfd, rn, reg_req_cb, calls, now,
                    ndrop, nfail, fault>>
    BY <1>4 DEF recv_message
  <2> QED BY <2>1, <2>4, <2>5
<1>5. CASE recv_eof(p)
  BY <1>5 DEF recv_eof, ReceiverPC
<1>6. CASE recv_error(p)
  <2>1. \A rc \in rc_after_error(p) : rc \in {0, 1}
    BY DEF rc_after_error
  <2> QED BY <1>6, <2>1 DEF recv_error, ReceiverPC, SockState
<1>7. CASE recv_close(p)
  BY <1>7 DEF recv_close, ReceiverPC, SockState
<1>8. CASE recv_down(p)
  BY <1>8 DEF recv_down, set_down, ReceiverPC
<1>9. CASE recv_drop(p)
  BY <1>9, FinishTypes DEF recv_drop
<1>10. CASE recv_event_request(p)
  <2>1. \E t \in {0, 1}, e \in Int : req_cb(p, t, e)
    BY <1>10, LookupTypes DEF recv_event_request
  <2>2. UNCHANGED <<sendSide, conns, env, gtsidq, rfd, rrc, reg_req_cb>>
    BY <1>10 DEF recv_event_request
  <2> QED BY <2>1, <2>2, CallTypes
<1>11. CASE recv_session(p)
  <2>1. req_cb(p, 0, 0)
    BY <1>11 DEF recv_session
  <2>2. UNCHANGED <<sendSide, conns, env, gtsidq, rfd, rrc, reg_req_cb>>
    BY <1>11 DEF recv_session
  <2> QED BY <2>1, <2>2, CallTypes, SMTT(30)
<1>12. CASE recv_lookup(p)
  <2>1. /\ rpc' \in [Slot -> ReceiverPC]
        /\ rmsg' \in [Slot -> MsgType]
        /\ rn' \in [Slot -> Copy]
    <3>1. CASE Finish(p)
      BY <3>1, FinishTypes
    <3>2. ASSUME NEW k \in 1..Len(gtsidq),
                 rn' = [rn EXCEPT ![p] =
                          [callback |-> gtsidq[k].callback,
                           is_expired |-> gtsidq[k].is_expired,
                           elapsed |-> now - gtsidq[k].ATime]],
                 rpc' = [rpc EXCEPT ![p] = "callback"],
                 UNCHANGED rmsg
          PROVE  /\ rpc' \in [Slot -> ReceiverPC]
                 /\ rmsg' \in [Slot -> MsgType]
                 /\ rn' \in [Slot -> Copy]
      <4>1. [callback |-> gtsidq[k].callback,
             is_expired |-> gtsidq[k].is_expired,
             elapsed |-> now - gtsidq[k].ATime] \in Copy
        BY LookupTypes DEF Copy
      <4> QED BY <3>2, <4>1 DEF ReceiverPC
    <3> QED BY <1>12, <3>1, <3>2 DEF recv_lookup
  <2>2. UNCHANGED <<sendSide, conns, env, gtsidq, rfd, rrc, reg_req_cb, calls,
                    fault>>
    BY <1>12 DEF recv_lookup
  <2> QED BY <2>1, <2>2
<1>13. CASE recv_callback(p)
  <2>1. rn[p] \in Copy
    OBVIOUS
  <2>2. [kind |-> "res", callback |-> rn[p].callback,
         is_timeout |-> rn[p].is_expired, elapsed |-> rn[p].elapsed] \in Call
    BY <2>1 DEF Copy, Call
  <2>3. calls' \in Seq(Call)
    BY <1>13, <2>2, AppendProperties DEF recv_callback
  <2> QED BY <1>13, <2>3 DEF recv_callback, ReceiverPC
<1>14. CASE recv_remove(p)
  <2>1. gtsidq' \in Seq(Entry)
    BY <1>14, IdQueueTypes DEF recv_remove
  <2> QED BY <1>14, <2>1, FinishTypes DEF recv_remove
<1> QED
  BY <1>1, <1>2, <1>3, <1>4, <1>5, <1>6, <1>7, <1>8, <1>9, <1>10, <1>11,
     <1>12, <1>13, <1>14 DEF ReceiverStep

(* ... and those of qmanager_thread, the application and the environment.  *)
LEMMA OtherTypes ==
  ASSUME TypeInv, qmanager \/ register_req_cb \/ drop \/ tick
  PROVE  TypeInv'
<1> USE DEF TypeInv, TypeOK, ConnTypeOK, QueueTypeOK, ThreadsOK, sendSide,
            msgq, conns, clients, senders, receivers, env
<1>1. CASE qmanager
  <2>1. gtsidq' \in Seq(Entry)
    BY <1>1, EnvAssumption, IdQueueTypes DEF qmanager
  <2> QED BY <1>1, <2>1 DEF qmanager
<1>2. CASE register_req_cb
  BY <1>2 DEF register_req_cb
<1>3. CASE drop
  BY <1>3, EnvAssumption DEF drop, SockState
<1>4. CASE tick
  BY <1>4, EnvAssumption DEF tick
<1> QED BY <1>1, <1>2, <1>3, <1>4

(* The types are inductive together with what the threads hold. *)
LEMMA TypeNext == TypeInv /\ [Next]_vars => TypeInv'
<1> SUFFICES ASSUME TypeInv, [Next]_vars PROVE TypeInv'
  OBVIOUS
<1>1. CASE UNCHANGED vars
  BY <1>1 DEF TypeInv, TypeOK, ConnTypeOK, QueueTypeOK, ThreadsOK, vars,
              queues, idq, msgq, conns, clients, senders, receivers, env
<1>2. CASE Next
  BY <1>2, ClientTypes, SenderTypes, ReceiverTypes, OtherTypes DEF Next
<1> QED BY <1>1, <1>2

(* Every variable of the library keeps its type, whatever the number of    *)
(* peers, clients and descriptors: the round robin of add_entry_idq never  *)
(* leaves the connection table, and no queue operation ever mixes a        *)
(* null pointer into a list.                                               *)
THEOREM TypeCorrect == Spec => []TypeOK
<1>1. TypeInv => TypeOK
  BY DEF TypeInv
<1> QED BY <1>1, TypeInit, TypeNext, PTL DEF Spec

---------------------------------------------------------------------------
(* A client between sl_send_buf and the linking of its request has it for  *)
(* itself: what both other proof modules build on.                         *)
Sending(c) == cpc[c] \in {"push", "scan"}
SentByOne ==
  \A c, d \in Client : Sending(c) /\ Sending(d) /\ creq[c] = creq[d] => c = d
==============================================================================
