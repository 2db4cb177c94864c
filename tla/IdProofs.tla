------------------------------ MODULE IdProofs -------------------------------
(***************************************************************************)
(* The id queue, for every number of peers, clients and requests: an id    *)
(* has one entry, and the entry is about the last request of the id.       *)
(***************************************************************************)
EXTENDS TypeProofs

---------------------------------------------------------------------------
(* What the operations of task.c do to the fields of the entries.          *)

(* update_entry_idq changes the callback of one entry, ids and connections *)
(* stay.                                                                   *)
LEMMA UpdateEntry ==
  ASSUME NEW q \in Seq(Entry), NEW k \in 1..Len(q), NEW r, NEW t
  PROVE  /\ Len(update_entry_idq(q, k, r, t)) = Len(q)
         /\ \A i \in 1..Len(q) :
              LET e == update_entry_idq(q, k, r, t)[i]
              IN  /\ e.id = q[i].id /\ e.conn = q[i].conn
                  /\ e.callback = IF i = k THEN r ELSE q[i].callback
<1> DEFINE x == [q[k] EXCEPT !.ATime = t, !.ETime = t + EXPIRY, !.callback = r]
<1>1. \A i \in 1..Len(q) : q[i] \in Entry
  BY ElementOfSeq
<1>2. x.id = q[k].id /\ x.conn = q[k].conn /\ x.callback = r
  BY <1>1 DEF Entry
<1>3. update_entry_idq(q, k, r, t) = [q EXCEPT ![k] = x]
  BY DEF update_entry_idq
<1> HIDE DEF x
<1>4. /\ Len([q EXCEPT ![k] = x]) = Len(q)
      /\ \A i \in 1..Len(q) : [q EXCEPT ![k] = x][i] = IF i = k THEN x ELSE q[i]
  BY LenProperties
<1> QED BY <1>2, <1>3, <1>4

(* list_expired_idq changes neither ids nor connections nor callbacks nor  *)
(* times, and marks only what is past its time.                            *)
LEMMA ListExpired ==
  ASSUME NEW q \in Seq(Entry), NEW t
  PROVE  /\ Len(list_expired_idq(q, t)) = Len(q)
         /\ \A i \in 1..Len(q) :
              LET e == list_expired_idq(q, t)[i]
              IN  /\ e.id = q[i].id /\ e.conn = q[i].conn
                  /\ e.callback = q[i].callback
                  /\ e.ATime = q[i].ATime /\ e.ETime = q[i].ETime
                  /\ e.is_expired = q[i].is_expired \/ q[i].ETime < t
<1> DEFINE x(i) == IF Expired(q[i], t) THEN [q[i] EXCEPT !.is_expired = 1]
                   ELSE q[i]
<1>1. ASSUME NEW i \in 1..Len(q)
      PROVE  /\ x(i).id = q[i].id /\ x(i).conn = q[i].conn
             /\ x(i).callback = q[i].callback
             /\ x(i).ATime = q[i].ATime /\ x(i).ETime = q[i].ETime
             /\ x(i).is_expired = q[i].is_expired \/ q[i].ETime < t
  <2>1. q[i] \in Entry
    BY ElementOfSeq
  <2> QED BY <2>1 DEF Entry, Expired
<1>2. list_expired_idq(q, t) = [i \in 1..Len(q) |-> x(i)]
  BY DEF list_expired_idq
<1> HIDE DEF x
<1>3. Len(q) \in Nat
  BY LenProperties
<1> QED BY <1>1, <1>2, <1>3

(* add_entry_idq leaves the entries there were and appends its own. *)
LEMMA AddEntry ==
  ASSUME NEW q \in Seq(Entry), NEW id, NEW r, NEW con, NEW t
  PROVE  LET q2 == add_entry_idq(q, id, r, con, t)
         IN  /\ Len(q2) = Len(q) + 1
             /\ \A i \in 1..Len(q) : q2[i] = q[i]
             /\ q2[Len(q) + 1].id = id /\ q2[Len(q) + 1].conn = con
             /\ q2[Len(q) + 1].callback = r
             /\ q2[Len(q) + 1].is_expired = 0 /\ q2[Len(q) + 1].ATime = t
             /\ q2[Len(q) + 1].ETime = t + EXPIRY
BY DEF add_entry_idq

(* rem_id keeps the other entries, in their order. *)
LEMMA RemoveEntry ==
  ASSUME NEW q \in Seq(Entry), NEW id, NEW q2, rem_id(q, id, q2)
  PROVE  \/ q2 = q
         \/ \E k \in 1..Len(q) :
              /\ Len(q2) = Len(q) - 1
              /\ \A i \in 1..(Len(q) - 1) :
                   q2[i] = IF i < k THEN q[i] ELSE q[i + 1]
BY RemoveAtProperties DEF rem_id

(* Only clients, recv_remove and qmanager touch the id queue and only      *)
(* clients the request they send; nobody makes a node unused again.        *)
LEMMA OthersKeepIds ==
  ASSUME TypeInv
  PROVE  /\ \A p \in Slot :
              \/ SenderStep(p) \/ spurious_wakeup(p)
              => /\ UNCHANGED <<gtsidq, qtex, cpc, creq, conn>>
                 /\ \A r \in Req : node'[r] = "none" => node[r] = "none"
         /\ \A p \in Slot :
              \/ ReceiverStep(p) \/ recv_message(p)
              => /\ UNCHANGED <<qtex, cpc, creq, conn, node>>
                 /\ \/ UNCHANGED gtsidq
                    \/ \E id : rem_id(gtsidq, id, gtsidq')
         /\ qmanager => /\ UNCHANGED <<qtex, cpc, creq, conn, node>>
                        /\ gtsidq' = list_expired_idq(gtsidq, now)
         /\ register_req_cb \/ drop \/ tick
              => UNCHANGED <<gtsidq, qtex, cpc, creq, conn, node>>
<1>1. ASSUME NEW p \in Slot, SenderStep(p) \/ spurious_wakeup(p)
      PROVE  /\ UNCHANGED <<gtsidq, qtex, cpc, creq, conn>>
             /\ \A r \in Req : node'[r] = "none" => node[r] = "none"
  <2>1. UNCHANGED <<gtsidq, qtex, cpc, creq, conn>>
    BY <1>1 DEF SenderStep, spurious_wakeup, send_wait, send_check,
                send_recreate, send_pop, send_header, send_body, notSenders,
                idq, clients
  <2>2. \/ UNCHANGED node
        \/ \E r \in Req, s \in {"held", "freed"} :
             node' = [node EXCEPT ![r] = s]
    <3>1. CASE send_pop(p)
      BY <3>1, MsgQueueTypes DEF send_pop
    <3>2. CASE send_body(p)
      BY <3>2 DEF send_body, TypeInv, ThreadsOK
    <3>3. CASE ~ send_pop(p) /\ ~ send_body(p)
      BY <1>1, <3>3 DEF SenderStep, spurious_wakeup, send_wait, send_check,
                        send_recreate, send_header
    <3> QED BY <3>1, <3>2, <3>3
  <2>3. node \in [Req -> Node]
    BY DEF TypeInv, TypeOK, QueueTypeOK
  <2> QED BY <2>1, <2>2, <2>3
<1>2. ASSUME NEW p \in Slot, ReceiverStep(p) \/ recv_message(p)
      PROVE  /\ UNCHANGED <<qtex, cpc, creq, conn, node>>
             /\ \/ UNCHANGED gtsidq
                \/ \E id : rem_id(gtsidq, id, gtsidq')
  <2>1. UNCHANGED sendSide
    BY <1>2 DEF ReceiverStep, recv_message, recv_top, recv_recreate,
                recv_getfd, recv_eof, recv_error, recv_close, recv_down,
                recv_drop, recv_event_request, recv_session, recv_lookup,
                recv_callback, recv_remove
  <2>2. recv_remove(p) \/ UNCHANGED gtsidq
    BY <1>2 DEF ReceiverStep, recv_message, recv_top, recv_recreate,
                recv_getfd, recv_eof, recv_error, recv_close, recv_down,
                recv_drop, recv_event_request, recv_session, recv_lookup,
                recv_callback
  <2> QED BY <2>1, <2>2 DEF sendSide, clients, msgq, recv_remove
<1>3. qmanager => /\ UNCHANGED <<qtex, cpc, creq, conn, node>>
                  /\ gtsidq' = list_expired_idq(gtsidq, now)
  BY DEF qmanager, sendSide, clients, msgq
<1>4. register_req_cb \/ drop \/ tick
        => UNCHANGED <<gtsidq, qtex, cpc, creq, conn, node>>
  BY DEF register_req_cb, drop, tick, sendSide, clients, msgq
<1> QED BY <1>1, <1>2, <1>3, <1>4

---------------------------------------------------------------------------
(* One entry per id                                                        *)

(* UniqueIds is not inductive: that add_entry_idq may append its entry     *)
(* rests on what push_to_msgq saw before the scan.  The client that scans  *)
(* holds qtex, and its id has stayed absent since.                         *)
ScanHoldsQtex == \A c \in Client : cpc[c] = "scan" => qtex = c
ScannedIsAbsent ==
  \A c \in Client : cpc[c] = "scan" =>
    \A i \in 1..Len(gtsidq) : gtsidq[i].id # ReqId[creq[c]]

UniqueInv == UniqueIds /\ ScanHoldsQtex /\ ScannedIsAbsent

(* What the clients do keeps one entry per id. *)
LEMMA UniqueClient ==
  ASSUME TypeInv, UniqueInv, NEW c \in Client, sl_send_buf(c) \/ ClientStep(c)
  PROVE  UniqueInv'
<1> USE DEF UniqueInv, UniqueIds, ScanHoldsQtex, ScannedIsAbsent
<1>0. /\ gtsidq \in Seq(Entry) /\ Len(gtsidq) \in Nat
      /\ cpc \in [Client -> ClientPC] /\ creq \in [Client -> Req \cup {NoReq}]
  BY LenProperties DEF TypeInv, TypeOK, QueueTypeOK
<1>1. CASE sl_send_buf(c)
  BY <1>0, <1>1, ReqAssumption DEF sl_send_buf, idq
<1>2. CASE push_empty(c)
  BY <1>0, <1>2 DEF push_empty, queues, idq
<1>3. CASE push_known(c)
  <2>1. PICK k \in 1..Len(gtsidq) :
          gtsidq' = update_entry_idq(gtsidq, k, creq[c], now)
    BY <1>3 DEF push_known
  <2>2. /\ Len(gtsidq') = Len(gtsidq)
        /\ \A i \in 1..Len(gtsidq) : gtsidq'[i].id = gtsidq[i].id
    BY <1>0, <2>1, UpdateEntry
  <2>3. UNCHANGED <<creq, qtex>> /\ cpc' = [cpc EXCEPT ![c] = "peek"]
    BY <1>3 DEF push_known
  <2>4. \A d \in Client : cpc'[d] = "scan" => cpc[d] = "scan"
    BY <1>0, <2>3
  <2>5. UniqueIds'
    BY <2>2
  <2>6. ScannedIsAbsent'
    BY <2>2, <2>3, <2>4
  <2> QED BY <2>3, <2>4, <2>5, <2>6
<1>4. CASE push_new(c)
  <2>1. \A i \in 1..Len(gtsidq) : gtsidq[i].id # ReqId[creq[c]]
    BY <1>4 DEF push_new, is_ID_present_idq
  <2>2. \A d \in Client : cpc[d] # "scan"
    BY <1>4, ReqAssumption DEF push_new
  <2> QED BY <1>0, <1>4, <2>1, <2>2 DEF push_new, lock_qtex, queues, idq
<1>5. CASE scan_skip(c)
  BY <1>5 DEF scan_skip, clients
<1>6. CASE scan_take(c)
  <2>1. \A d \in Client : cpc'[d] # "scan"
    BY <1>0, <1>6 DEF scan_take
  <2>2. \A i \in 1..Len(gtsidq) : gtsidq[i].id # ReqId[creq[c]]
    BY <1>6 DEF scan_take
  <2>3. /\ Len(gtsidq') = Len(gtsidq) + 1
        /\ \A i \in 1..Len(gtsidq) : gtsidq'[i] = gtsidq[i]
        /\ gtsidq'[Len(gtsidq) + 1].id = ReqId[creq[c]]
    BY <1>0, <1>6, AddEntry DEF scan_take
  <2>4. UniqueIds'
    <3>1. SUFFICES ASSUME NEW i \in 1..Len(gtsidq'),
                          NEW j \in 1..Len(gtsidq'),
                          gtsidq'[i].id = gtsidq'[j].id, i # j
                   PROVE  FALSE
      OBVIOUS
    <3>2. CASE i \in 1..Len(gtsidq) /\ j \in 1..Len(gtsidq)
      BY <2>3, <3>1, <3>2
    <3>3. CASE i = Len(gtsidq) + 1 /\ j \in 1..Len(gtsidq)
      BY <2>2, <2>3, <3>1, <3>3
    <3>4. CASE j = Len(gtsidq) + 1 /\ i \in 1..Len(gtsidq)
      BY <2>2, <2>3, <3>1, <3>4
    <3> QED BY <1>0, <2>3, <3>1, <3>2, <3>3, <3>4
  <2> QED BY <2>1, <2>4
<1>7. CASE peek_head(c)
  BY <1>0, <1>7 DEF peek_head, queues, idq
<1>8. CASE peek_next(c)
  BY <1>0, <1>8 DEF peek_next, queues, idq
<1> QED BY <1>1, <1>2, <1>3, <1>4, <1>5, <1>6, <1>7, <1>8 DEF ClientStep

(* So does every other step: responses remove entries, expiry marks them.  *)
LEMMA UniqueNext == TypeInv /\ UniqueInv /\ [Next]_vars => UniqueInv'
<1> SUFFICES ASSUME TypeInv, UniqueInv, [Next]_vars PROVE UniqueInv'
  OBVIOUS
<1> USE DEF UniqueInv, UniqueIds, ScanHoldsQtex, ScannedIsAbsent
<1>0. gtsidq \in Seq(Entry) /\ Len(gtsidq) \in Nat
  BY LenProperties DEF TypeInv, TypeOK, QueueTypeOK
<1>1. ASSUME UNCHANGED <<gtsidq, qtex, cpc, creq>>
      PROVE  UniqueInv'
  BY <1>1
<1>2. ASSUME UNCHANGED <<qtex, cpc, creq>>, NEW id, rem_id(gtsidq, id, gtsidq')
      PROVE  UniqueInv'
  <2>1. CASE gtsidq' = gtsidq
    BY <1>1, <1>2, <2>1
  <2>2. ASSUME NEW k \in 1..Len(gtsidq),
               Len(gtsidq') = Len(gtsidq) - 1,
               \A i \in 1..(Len(gtsidq) - 1) :
                 gtsidq'[i] = IF i < k THEN gtsidq[i] ELSE gtsidq[i + 1]
        PROVE  UniqueInv'
    <3> DEFINE old(i) == IF i < k THEN i ELSE i + 1
    <3>1. /\ \A i \in 1..Len(gtsidq') :
               old(i) \in 1..Len(gtsidq) /\ gtsidq'[i] = gtsidq[old(i)]
          /\ \A i, j \in 1..Len(gtsidq') : old(i) = old(j) => i = j
      BY <1>0, <2>2
    <3> HIDE DEF old
    <3>2. UniqueIds'
      BY <3>1
    <3>3. ScannedIsAbsent'
      BY <1>2, <3>1
    <3> QED BY <1>2, <3>2, <3>3
  <2> QED BY <1>0, <1>2, <2>1, <2>2, RemoveEntry
<1>3. ASSUME UNCHANGED <<qtex, cpc, creq>>,
             gtsidq' = list_expired_idq(gtsidq, now)
      PROVE  UniqueInv'
  <2>1. /\ Len(gtsidq') = Len(gtsidq)
        /\ \A i \in 1..Len(gtsidq) : gtsidq'[i].id = gtsidq[i].id
    BY <1>0, <1>3, ListExpired
  <2> QED BY <1>3, <2>1
<1>4. CASE UNCHANGED vars
  BY <1>1, <1>4 DEF vars, queues, idq, clients
<1>5. CASE Next
  <2>1. ASSUME NEW c \in Client, sl_send_buf(c) \/ ClientStep(c)
        PROVE  UniqueInv'
    BY <2>1, UniqueClient
  <2> HIDE DEF UniqueInv
  <2>2. ASSUME NEW p \in Slot, SenderStep(p) \/ spurious_wakeup(p)
        PROVE  UniqueInv'
    BY <1>1, <2>2, OthersKeepIds
  <2>3. ASSUME NEW p \in Slot, ReceiverStep(p) \/ recv_message(p)
        PROVE  UniqueInv'
    BY <1>1, <1>2, <2>3, OthersKeepIds
  <2>4. CASE qmanager
    BY <1>3, <2>4, OthersKeepIds
  <2>5. CASE register_req_cb \/ drop \/ tick
    BY <1>1, <2>5, OthersKeepIds
  <2> QED BY <1>5, <2>1, <2>2, <2>3, <2>4, <2>5 DEF Next
<1> QED BY <1>4, <1>5

(* However many threads call sl_send_buf, receive responses and expire     *)
(* entries at once, push_to_msgq never gives an id a second entry.         *)
THEOREM IdsAreUnique == Spec => []UniqueIds
<1>1. Init => UniqueInv
  BY DEF Init, UniqueInv, UniqueIds, ScanHoldsQtex, ScannedIsAbsent
<1>2. UniqueInv => UniqueIds
  BY DEF UniqueInv
<1> QED BY <1>1, <1>2, UniqueNext, TypeInit, TypeNext, PTL DEF Spec

---------------------------------------------------------------------------
(* The entry of an id is about its last request                            *)

(* A client on its way to linking a request is the only one that has it:   *)
(* the request is in use, no other client sends it and no entry holds its  *)
(* callback yet.  So the connection LinkAtEnd gives it is that of its own  *)
(* entry only.                                                             *)
InUse ==
  /\ \A c \in Client : Sending(c) => node[creq[c]] # "none"
  /\ \A i \in 1..Len(gtsidq) : node[gtsidq[i].callback] # "none"
NotYetEntered ==
  \A c \in Client : Sending(c) =>
    \A i \in 1..Len(gtsidq) : gtsidq[i].callback # creq[c]

(* The first part of EntryMatchesRequest, which needs no more than that. *)
EntryNamesRequest ==
  \A i \in 1..Len(gtsidq) :
    /\ ReqId[gtsidq[i].callback] = gtsidq[i].id
    /\ conn[gtsidq[i].callback] = gtsidq[i].conn

MatchInv == EntryNamesRequest /\ InUse /\ SentByOne /\ NotYetEntered

(* The types of the variables MatchInv speaks of. *)
LEMMA EntryCallbacks ==
  ASSUME TypeInv
  PROVE  /\ gtsidq \in Seq(Entry) /\ Len(gtsidq) \in Nat
         /\ \A i \in 1..Len(gtsidq) : gtsidq[i].callback \in Req
         /\ cpc \in [Client -> ClientPC]
         /\ creq \in [Client -> Req \cup {NoReq}]
         /\ \A c \in Client : cpc[c] # "idle" => creq[c] \in Req
         /\ node \in [Req -> Node] /\ conn \in [Req -> Slot \cup {-1}]
<1>1. gtsidq \in Seq(Entry)
  BY DEF TypeInv, TypeOK, QueueTypeOK
<1>2. \A i \in 1..Len(gtsidq) : gtsidq[i].callback \in Req
  BY LookupTypes
<1> QED BY <1>1, <1>2, LenProperties
    DEF TypeInv, TypeOK, QueueTypeOK, ThreadsOK

(* Linking a request sets its connection and leaves every node in use.     *)
LEMMA LinkedIsInUse ==
  ASSUME TypeInv, NEW r \in Req, NEW con, node[r] # "none", LinkAtEnd(r, con)
  PROVE  /\ conn' = [conn EXCEPT ![r] = con]
         /\ \A s \in Req : node[s] # "none" => node'[s] # "none"
BY DEF LinkAtEnd, TypeInv, TypeOK, QueueTypeOK

(* What the clients do keeps the entries in step with the requests. *)
LEMMA MatchClient ==
  ASSUME TypeInv, MatchInv, NEW c \in Client, sl_send_buf(c) \/ ClientStep(c)
  PROVE  MatchInv'
<1> USE EntryCallbacks
    DEF MatchInv, EntryNamesRequest, InUse, SentByOne, NotYetEntered, Sending
<1>1. CASE sl_send_buf(c)
  <2>1. PICK r \in Req : /\ node[r] = "none"
                         /\ node' = [node EXCEPT ![r] = "new"]
                         /\ creq' = [creq EXCEPT ![c] = r]
    BY <1>1 DEF sl_send_buf
  <2>2. /\ UNCHANGED <<gtsidq, conn>>
        /\ cpc' = [cpc EXCEPT ![c] = "push"]
    BY <1>1 DEF sl_send_buf, idq
  <2>3. EntryNamesRequest' /\ InUse'
    BY <2>1, <2>2
  <2>4. SentByOne'
    BY <2>1, <2>2
  <2>5. NotYetEntered'
    BY <2>1, <2>2
  <2> QED BY <2>3, <2>4, <2>5
<1>2. CASE push_empty(c)
  BY <1>2 DEF push_empty, queues, idq, msgq
<1>3. CASE push_known(c)
  <2>1. creq[c] \in Req /\ node[creq[c]] # "none" /\ Sending(c)
    BY <1>3 DEF push_known
  <2>2. PICK k \in 1..Len(gtsidq) :
          /\ lookup_ID_idq(gtsidq, ReqId[creq[c]], k)
          /\ gtsidq' = update_entry_idq(gtsidq, k, creq[c], now)
          /\ LinkAtEnd(creq[c], gtsidq[k].conn)
    BY <1>3 DEF push_known, PinnedTo
  <2>3. /\ UNCHANGED creq
        /\ \A d \in Client : Sending(d)' => d # c /\ Sending(d)
    BY <1>3 DEF push_known
  <2>4. /\ conn' = [conn EXCEPT ![creq[c]] = gtsidq[k].conn]
        /\ \A s \in Req : node[s] # "none" => node'[s] # "none"
    BY <2>1, <2>2, LinkedIsInUse
  <2>5. /\ Len(gtsidq') = Len(gtsidq)
        /\ \A i \in 1..Len(gtsidq) :
             /\ gtsidq'[i].id = gtsidq[i].id /\ gtsidq'[i].conn = gtsidq[i].conn
             /\ gtsidq'[i].callback = IF i = k THEN creq[c]
                                      ELSE gtsidq[i].callback
    BY <2>2, UpdateEntry
  <2>6. gtsidq[k].id = ReqId[creq[c]]
    BY <2>2 DEF lookup_ID_idq
  <2>7. EntryNamesRequest'
    BY <2>1, <2>4, <2>5, <2>6
  <2>8. InUse'
    BY <2>1, <2>3, <2>4, <2>5
  <2>9. SentByOne' /\ NotYetEntered'
    BY <2>1, <2>3, <2>5, SMTT(30)
  <2> QED BY <2>7, <2>8, <2>9
<1>4. CASE push_new(c)
  <2>1. /\ UNCHANGED <<gtsidq, creq, node, conn>>
        /\ \A d \in Client : Sending(d)' = Sending(d)
    BY <1>4 DEF push_new, queues, idq, msgq
  <2> QED BY <2>1
<1>5. CASE scan_skip(c)
  BY <1>5 DEF scan_skip, clients, msgq
<1>6. CASE scan_take(c)
  <2>1. creq[c] \in Req /\ node[creq[c]] # "none" /\ Sending(c)
    BY <1>6 DEF scan_take
  <2>2. /\ UNCHANGED creq
        /\ \A d \in Client : Sending(d)' => d # c /\ Sending(d)
    BY <1>6 DEF scan_take
  <2>3. LinkAtEnd(creq[c], glast_con_rr)
    BY <1>6 DEF scan_take
  <2>4. /\ conn' = [conn EXCEPT ![creq[c]] = glast_con_rr]
        /\ \A s \in Req : node[s] # "none" => node'[s] # "none"
    BY <2>1, <2>3, LinkedIsInUse
  <2>5. /\ Len(gtsidq') = Len(gtsidq) + 1
        /\ \A i \in 1..Len(gtsidq) : gtsidq'[i] = gtsidq[i]
        /\ gtsidq'[Len(gtsidq) + 1].id = ReqId[creq[c]]
        /\ gtsidq'[Len(gtsidq) + 1].conn = glast_con_rr
        /\ gtsidq'[Len(gtsidq) + 1].callback = creq[c]
    BY <1>6, AddEntry DEF scan_take
  <2>6. EntryNamesRequest'
    BY <2>1, <2>4, <2>5
  <2>7. \A i \in 1..Len(gtsidq') :
          \/ i \in 1..Len(gtsidq) /\ gtsidq'[i].callback = gtsidq[i].callback
          \/ gtsidq'[i].callback = creq[c]
    BY <2>5
  <2>8. InUse'
    BY <2>1, <2>2, <2>4, <2>7
  <2>9. SentByOne'
    BY <2>2
  <2>10. NotYetEntered'
    <3>1. SUFFICES ASSUME NEW d \in Client, Sending(d)',
                          NEW i \in 1..Len(gtsidq')
                   PROVE  gtsidq'[i].callback # creq[d]
      BY <2>2
    <3>2. Sending(d) /\ creq[d] # creq[c]
      BY <2>1, <2>2, <3>1
    <3> QED BY <2>7, <3>2
  <2> QED BY <2>6, <2>8, <2>9, <2>10
<1>7. CASE peek_head(c)
  <2>1. /\ UNCHANGED <<gtsidq, creq, node, conn>>
        /\ \A d \in Client : Sending(d)' = Sending(d)
    BY <1>7 DEF peek_head, queues, idq, msgq
  <2> QED BY <2>1
<1>8. CASE peek_next(c)
  <2>1. /\ UNCHANGED <<gtsidq, node, conn>>
        /\ \A d \in Client : Sending(d)' => Sending(d) /\ creq'[d] = creq[d]
    BY <1>8 DEF peek_next, queues, idq, msgq
  <2> QED BY <2>1
<1> QED BY <1>1, <1>2, <1>3, <1>4, <1>5, <1>6, <1>7, <1>8 DEF ClientStep

(* So does every other step. *)
LEMMA MatchNext == TypeInv /\ MatchInv /\ [Next]_vars => MatchInv'
<1> SUFFICES ASSUME TypeInv, MatchInv, [Next]_vars PROVE MatchInv'
  OBVIOUS
<1> USE DEF MatchInv, EntryNamesRequest, InUse, SentByOne, NotYetEntered,
            Sending
<1>1. ASSUME UNCHANGED <<gtsidq, cpc, creq, conn>>,
             \A r \in Req : node'[r] = "none" => node[r] = "none"
      PROVE  MatchInv'
  BY <1>1, EntryCallbacks
<1>2. ASSUME UNCHANGED <<cpc, creq, conn, node>>,
             NEW id, rem_id(gtsidq, id, gtsidq')
      PROVE  MatchInv'
  <2>1. \A i \in 1..Len(gtsidq') : \E j \in 1..Len(gtsidq) :
          gtsidq'[i] = gtsidq[j]
    <3>1. CASE gtsidq' = gtsidq
      BY <3>1
    <3>2. ASSUME NEW k \in 1..Len(gtsidq),
                 Len(gtsidq') = Len(gtsidq) - 1,
                 \A i \in 1..(Len(gtsidq) - 1) :
                   gtsidq'[i] = IF i < k THEN gtsidq[i] ELSE gtsidq[i + 1],
                 NEW i \in 1..Len(gtsidq')
          PROVE  \E j \in 1..Len(gtsidq) : gtsidq'[i] = gtsidq[j]
      BY <3>2, EntryCallbacks
    <3> QED BY <1>2, <3>1, <3>2, RemoveEntry, EntryCallbacks
  <2>2. ASSUME NEW i \in 1..Len(gtsidq')
        PROVE  \E j \in 1..Len(gtsidq) : gtsidq'[i] = gtsidq[j]
    BY <2>1
  <2>3. EntryNamesRequest' /\ InUse' /\ NotYetEntered'
    BY <1>2, <2>2
  <2> QED BY <1>2, <2>3
<1>3. ASSUME UNCHANGED <<cpc, creq, conn, node>>,
             gtsidq' = list_expired_idq(gtsidq, now)
      PROVE  MatchInv'
  <2>1. /\ Len(gtsidq') = Len(gtsidq)
        /\ \A i \in 1..Len(gtsidq) :
             /\ gtsidq'[i].id = gtsidq[i].id /\ gtsidq'[i].conn = gtsidq[i].conn
             /\ gtsidq'[i].callback = gtsidq[i].callback
    BY <1>3, ListExpired, EntryCallbacks
  <2> QED BY <1>3, <2>1
<1>4. CASE UNCHANGED vars
  BY <1>1, <1>4 DEF vars, queues, idq, msgq, clients
<1>5. CASE Next
  <2> HIDE DEF MatchInv
  <2>1. ASSUME NEW c \in Client, sl_send_buf(c) \/ ClientStep(c)
        PROVE  MatchInv'
    BY <2>1, MatchClient
  <2>2. ASSUME NEW p \in Slot, SenderStep(p) \/ spurious_wakeup(p)
        PROVE  MatchInv'
    BY <1>1, <2>2, OthersKeepIds
  <2>3. ASSUME NEW p \in Slot, ReceiverStep(p) \/ recv_message(p)
        PROVE  MatchInv'
    BY <1>1, <1>2, <2>3, OthersKeepIds
  <2>4. CASE qmanager
    BY <1>3, <2>4, OthersKeepIds
  <2>5. CASE register_req_cb \/ drop \/ tick
    BY <1>1, <2>5, OthersKeepIds
  <2> QED BY <1>5, <2>1, <2>2, <2>3, <2>4, <2>5 DEF Next
<1> QED BY <1>4, <1>5

(* At the start there is no entry and no client sends. *)
LEMMA MatchInit == Init => MatchInv
BY DEF Init, MatchInv, EntryNamesRequest, InUse, SentByOne, NotYetEntered,
       Sending

(* The second part: the request of the entry at i is the last one accepted *)
(* with its id.                                                            *)
LastOf(q, acc, i) ==
  \E a \in 1..Len(acc) :
    /\ acc[a] = q[i].callback
    /\ \A b \in (a + 1)..Len(acc) : ReqId[acc[b]] # q[i].id
EntryIsLast == Running => \A i \in 1..Len(gtsidq) : LastOf(gtsidq, accepted, i)

(* Accepting a request of another id leaves the last request of an id. *)
LEMMA LastOfOther ==
  ASSUME NEW q, NEW q2, NEW acc \in Seq(Req), NEW r \in Req, NEW i, NEW j,
         LastOf(q, acc, i), q2[j].id = q[i].id, q2[j].callback = q[i].callback,
         ReqId[r] # q[i].id
  PROVE  LastOf(q2, Append(acc, r), j)
<1>1. PICK a \in 1..Len(acc) :
        /\ acc[a] = q[i].callback
        /\ \A b \in (a + 1)..Len(acc) : ReqId[acc[b]] # q[i].id
  BY DEF LastOf
<1> DEFINE s == Append(acc, r)
<1>2. /\ Len(s) = Len(acc) + 1 /\ Len(acc) \in Nat /\ s[Len(acc) + 1] = r
      /\ \A b \in 1..Len(acc) : s[b] = acc[b]
  BY LenProperties
<1> HIDE DEF s
<1>3. a \in 1..Len(s) /\ s[a] = acc[a]
  BY <1>2
<1>4. \A b \in (a + 1)..Len(s) : b \in (a + 1)..Len(acc) \/ b = Len(acc) + 1
  BY <1>2
<1>5. \A b \in (a + 1)..Len(acc) : s[b] = acc[b]
  BY <1>2
<1>6. \A b \in (a + 1)..Len(s) : ReqId[s[b]] # q[i].id
  BY <1>1, <1>2, <1>4, <1>5
<1> QED BY <1>1, <1>3, <1>6 DEF LastOf, s

(* The request that was accepted last is the last one of its id. *)
LEMMA LastOfNewest ==
  ASSUME NEW q, NEW acc \in Seq(Req), NEW r \in Req, NEW i, q[i].callback = r
  PROVE  LastOf(q, Append(acc, r), i)
<1> DEFINE s == Append(acc, r)
<1>1. Len(s) = Len(acc) + 1 /\ Len(acc) \in Nat /\ s[Len(acc) + 1] = r
  BY LenProperties
<1> HIDE DEF s
<1>2. Len(s) \in 1..Len(s) /\ (Len(s) + 1)..Len(s) = {}
  BY <1>1
<1> QED BY <1>1, <1>2 DEF LastOf, s

(* Only the id and the callback of an entry matter, not its place or times. *)
LEMMA LastOfSame ==
  ASSUME NEW q, NEW q2, NEW acc, NEW i, NEW j, LastOf(q, acc, i),
         q2[j].id = q[i].id, q2[j].callback = q[i].callback
  PROVE  LastOf(q2, acc, j)
BY DEF LastOf

(* No step leads out of a fault. *)
LEMMA RunningBefore == [Next]_vars /\ Running' => Running
BY DEF Next, Running, vars, sl_send_buf, ClientStep, push_empty, push_known, push_new,
       scan_skip, scan_take, peek_head, peek_next, SenderStep, spurious_wakeup,
       send_wait, send_check, send_recreate, send_pop, send_header, send_body,
       ReceiverStep, recv_message, recv_top, recv_recreate, recv_getfd, recv_eof,
       recv_error, recv_close, recv_down, recv_drop, recv_event_request, recv_session,
       recv_lookup, recv_callback, recv_remove, qmanager, register_req_cb, drop, tick

(* A step that accepts no request and leaves of the entries what it keeps. *)
LEMMA LastKept ==
  ASSUME EntryIsLast, [Next]_vars, UNCHANGED accepted,
         \A i \in 1..Len(gtsidq') : \E j \in 1..Len(gtsidq) :
           gtsidq'[i].id = gtsidq[j].id /\ gtsidq'[i].callback = gtsidq[j].callback
  PROVE  EntryIsLast'
<1> SUFFICES ASSUME Running', NEW i \in 1..Len(gtsidq')
             PROVE  LastOf(gtsidq', accepted, i)
  BY DEF EntryIsLast, LastOf
<1>1. PICK j \in 1..Len(gtsidq) :
        gtsidq'[i].id = gtsidq[j].id /\ gtsidq'[i].callback = gtsidq[j].callback
  OBVIOUS
<1>2. LastOf(gtsidq, accepted, j)
  BY RunningBefore DEF EntryIsLast
<1> QED BY <1>1, <1>2, LastOfSame

(* The clients: a request that is accepted takes over the entry of its id, *)
(* and there is no second one.                                             *)
LEMMA LastClient ==
  ASSUME TypeInv, UniqueInv, MatchInv, EntryIsLast, NEW c \in Client,
         sl_send_buf(c) \/ ClientStep(c)
  PROVE  EntryIsLast'
<1>0. /\ gtsidq \in Seq(Entry) /\ Len(gtsidq) \in Nat /\ accepted \in Seq(Req)
      /\ cpc[c] # "idle" => creq[c] \in Req
  BY EntryCallbacks DEF TypeInv, TypeOK, QueueTypeOK
<1>1. [Next]_vars
  BY DEF Next
<1>2. CASE push_known(c)
  <2>1. PICK k \in 1..Len(gtsidq) :
          /\ lookup_ID_idq(gtsidq, ReqId[creq[c]], k)
          /\ gtsidq' = update_entry_idq(gtsidq, k, creq[c], now)
          /\ LinkAtEnd(creq[c], PinnedTo(k))
    BY <1>2 DEF push_known
  <2>2. creq[c] \in Req /\ Running /\ gtsidq[k].id = ReqId[creq[c]]
    BY <1>0, <1>2, <2>1 DEF push_known, lookup_ID_idq
  <2>3. /\ Len(gtsidq') = Len(gtsidq)
        /\ \A i \in 1..Len(gtsidq) :
             /\ gtsidq'[i].id = gtsidq[i].id
             /\ gtsidq'[i].callback = IF i = k THEN creq[c] ELSE gtsidq[i].callback
    BY <1>0, <2>1, UpdateEntry
  <2> SUFFICES ASSUME Running', NEW i \in 1..Len(gtsidq')
               PROVE  LastOf(gtsidq', accepted', i)
    BY DEF EntryIsLast, LastOf
  <2>4. accepted' = Append(accepted, creq[c])
    BY <2>1 DEF LinkAtEnd, Running
  <2>5. CASE i = k
    <3>1. gtsidq'[i].callback = creq[c]
      BY <2>3, <2>5
    <3> QED BY <1>0, <2>2, <2>4, <3>1, LastOfNewest
  <2>6. CASE i # k
    <3>1. i \in 1..Len(gtsidq) /\ gtsidq[i].id # ReqId[creq[c]]
      BY <2>2, <2>3, <2>6 DEF UniqueInv, UniqueIds
    <3>2. LastOf(gtsidq, accepted, i)
      BY <2>2, <3>1 DEF EntryIsLast
    <3>3. gtsidq'[i].id = gtsidq[i].id /\ gtsidq'[i].callback = gtsidq[i].callback
      BY <2>3, <2>6, <3>1
    <3> QED BY <1>0, <2>2, <2>4, <3>1, <3>2, <3>3, LastOfOther
  <2> QED BY <2>5, <2>6
<1>3. CASE scan_take(c)
  <2>1. /\ creq[c] \in Req /\ Running /\ LinkAtEnd(creq[c], glast_con_rr)
        /\ \A i \in 1..Len(gtsidq) : gtsidq[i].id # ReqId[creq[c]]
    BY <1>0, <1>3 DEF scan_take, UniqueInv, ScannedIsAbsent
  <2>2. /\ Len(gtsidq') = Len(gtsidq) + 1
        /\ \A i \in 1..Len(gtsidq) : gtsidq'[i] = gtsidq[i]
        /\ gtsidq'[Len(gtsidq) + 1].callback = creq[c]
    BY <1>0, <1>3, AddEntry DEF scan_take
  <2> SUFFICES ASSUME Running', NEW i \in 1..Len(gtsidq')
               PROVE  LastOf(gtsidq', accepted', i)
    BY DEF EntryIsLast, LastOf
  <2>3. accepted' = Append(accepted, creq[c])
    BY <2>1 DEF LinkAtEnd, Running
  <2>4. CASE i = Len(gtsidq) + 1
    <3>1. gtsidq'[i].callback = creq[c]
      BY <2>2, <2>4
    <3> QED BY <1>0, <2>1, <2>3, <3>1, LastOfNewest
  <2>5. CASE i \in 1..Len(gtsidq)
    <3>1. LastOf(gtsidq, accepted, i)
      BY <2>1, <2>5 DEF EntryIsLast
    <3>2. gtsidq'[i] = gtsidq[i] /\ gtsidq[i].id # ReqId[creq[c]]
      BY <2>1, <2>2, <2>5
    <3> QED BY <1>0, <2>1, <2>3, <3>1, <3>2, LastOfOther
  <2> QED BY <1>0, <2>2, <2>4, <2>5
<1>4. CASE ~ (push_known(c) \/ scan_take(c))
  <2>1. UNCHANGED <<gtsidq, accepted>>
    BY <1>4 DEF sl_send_buf, ClientStep, push_empty, push_new, scan_skip, peek_head,
                peek_next, queues, idq, msgq
  <2> QED BY <1>1, <2>1, LastKept
<1> QED BY <1>2, <1>3, <1>4

(* So does every other step: none of them accepts a request. *)
LEMMA LastNext ==
  TypeInv /\ UniqueInv /\ MatchInv /\ EntryIsLast /\ [Next]_vars => EntryIsLast'
<1> SUFFICES ASSUME TypeInv, UniqueInv, MatchInv, EntryIsLast, [Next]_vars
             PROVE  EntryIsLast'
  OBVIOUS
<1>0. gtsidq \in Seq(Entry) /\ Len(gtsidq) \in Nat
  BY EntryCallbacks
<1>1. CASE UNCHANGED <<gtsidq, accepted>>
  BY <1>1, LastKept
<1>2. ASSUME UNCHANGED accepted, NEW id, rem_id(gtsidq, id, gtsidq')
      PROVE  EntryIsLast'
  <2>1. ASSUME NEW k \in 1..Len(gtsidq),
               Len(gtsidq') = Len(gtsidq) - 1,
               \A i \in 1..(Len(gtsidq) - 1) :
                 gtsidq'[i] = IF i < k THEN gtsidq[i] ELSE gtsidq[i + 1],
               NEW i \in 1..Len(gtsidq')
        PROVE  \E j \in 1..Len(gtsidq) : gtsidq'[i] = gtsidq[j]
    BY <1>0, <2>1
  <2>2. \A i \in 1..Len(gtsidq') : \E j \in 1..Len(gtsidq) : gtsidq'[i] = gtsidq[j]
    <3>1. CASE gtsidq' = gtsidq
      BY <3>1
    <3> QED BY <1>0, <1>2, <2>1, <3>1, RemoveEntry
  <2> QED BY <1>2, <2>2, LastKept
<1>3. CASE UNCHANGED accepted /\ gtsidq' = list_expired_idq(gtsidq, now)
  <2>1. /\ Len(gtsidq') = Len(gtsidq)
        /\ \A i \in 1..Len(gtsidq) :
             gtsidq'[i].id = gtsidq[i].id /\ gtsidq'[i].callback = gtsidq[i].callback
    BY <1>0, <1>3, ListExpired
  <2> QED BY <1>3, <2>1, LastKept
<1>4. CASE UNCHANGED vars
  BY <1>1, <1>4 DEF vars, queues, idq, msgq
<1>5. ASSUME NEW p \in Slot, SenderStep(p) \/ spurious_wakeup(p)
      PROVE  EntryIsLast'
  <2>1. UNCHANGED <<gtsidq, accepted>>
    BY <1>5 DEF SenderStep, spurious_wakeup, send_wait, send_check, send_recreate,
                send_pop, send_header, send_body, notSenders, idq
  <2> QED BY <1>1, <2>1
<1>6. ASSUME NEW p \in Slot, ReceiverStep(p) \/ recv_message(p)
      PROVE  EntryIsLast'
  <2>1. UNCHANGED accepted
    BY <1>6 DEF ReceiverStep, recv_message, recv_top, recv_recreate, recv_getfd,
                recv_eof, recv_error, recv_close, recv_down, recv_drop,
                recv_event_request, recv_session, recv_lookup, recv_callback,
                recv_remove, sendSide, msgq
  <2>2. UNCHANGED gtsidq \/ \E id : rem_id(gtsidq, id, gtsidq')
    BY <1>6, OthersKeepIds
  <2> QED BY <1>1, <1>2, <2>1, <2>2
<1>7. CASE qmanager \/ register_req_cb \/ drop \/ tick
  <2>1. UNCHANGED accepted
    BY <1>7 DEF qmanager, register_req_cb, drop, tick, sendSide, msgq
  <2> QED BY <1>1, <1>3, <1>7, <2>1, OthersKeepIds
<1> QED BY <1>4, <1>5, <1>6, <1>7, LastClient DEF Next

(* The entry a response is matched with names the callback of the last     *)
(* accepted request of its id, queued for the connection the id is pinned  *)
(* to, though add_entry_idq and update_entry_idq write the entry and       *)
(* push_to_msgq the node, and responses remove entries in between.         *)
THEOREM EntriesMatchRequests == Spec => []EntryMatchesRequest
<1>1. MatchInv /\ EntryIsLast => EntryMatchesRequest
  BY DEF MatchInv, EntryNamesRequest, EntryIsLast, LastOf, EntryMatchesRequest
<1>2. Init => EntryIsLast
  BY DEF Init, EntryIsLast
<1>3. Init => UniqueInv
  BY DEF Init, UniqueInv, UniqueIds, ScanHoldsQtex, ScannedIsAbsent
<1> QED BY <1>1, <1>2, <1>3, MatchInit, MatchNext, LastNext, UniqueNext, TypeInit, TypeNext,
           PTL DEF Spec

---------------------------------------------------------------------------
(* When no id is used twice, a request is answered, and as it should be    *)

(* The application gives each of its requests an id of its own, or none. *)
OwnIds == \A r, s \in Req : ReqId[r] = ReqId[s] /\ ReqId[r] # NoId => r = s

(* A call of callback r is among the calls cs. *)
CallOf(cs, r) == \E i \in 1..Len(cs) : cs[i].callback = r

(* An entry is marked only when its time is over, and what the receiver    *)
(* copies from it under qtex says the same later, when its callback runs.  *)
EntryIsTimed ==
  \A i \in 1..Len(gtsidq) :
    /\ gtsidq[i].ETime = gtsidq[i].ATime + EXPIRY
    /\ gtsidq[i].is_expired = 1 => gtsidq[i].ETime < now
CopyIsTimed ==
  \A p \in Slot : rpc[p] = "callback" /\ rn[p].is_expired = 1 =>
    rn[p].elapsed > EXPIRY

(* The receiver that is about to remove an entry has called the callback   *)
(* of the only request that can have put it there.                         *)
CopyIsOfId ==
  \A p \in Slot : rpc[p] = "callback" =>
    rn[p].callback \in Req /\ ReqId[rn[p].callback] = rmsg[p].tid
RemovedWasCalled ==
  \A p \in Slot : rpc[p] = "remove" =>
    \A r \in Req : ReqId[r] = rmsg[p].tid /\ ReqId[r] # NoId => CallOf(calls, r)
CalledOrEntered ==
  \A a \in 1..Len(accepted) :
    \/ CallOf(calls, accepted[a])
    \/ \E i \in 1..Len(gtsidq) : gtsidq[i].callback = accepted[a]

OwnInv == /\ EntryIsTimed /\ CopyIsTimed /\ TimeoutIsLate
          /\ CopyIsOfId /\ RemovedWasCalled /\ CalledOrEntered

(* The types of the variables OwnInv speaks of. *)
LEMMA OwnTypes ==
  ASSUME TypeInv
  PROVE  /\ gtsidq \in Seq(Entry) /\ Len(gtsidq) \in Nat
         /\ \A i \in 1..Len(gtsidq) : gtsidq[i] \in Entry
         /\ accepted \in Seq(Req) /\ Len(accepted) \in Nat
         /\ calls \in Seq(Call) /\ Len(calls) \in Nat
         /\ rpc \in [Slot -> ReceiverPC] /\ rmsg \in [Slot -> MsgType]
         /\ rn \in [Slot -> Copy] /\ now \in Nat /\ EXPIRY \in Nat
BY LenProperties, ElementOfSeq, EnvAssumption, ExpiryAssumption
   DEF TypeInv, TypeOK, QueueTypeOK

(* With ids of their own no request finds an entry of its id.  *)
LEMMA NeverKnown ==
  ASSUME OwnIds, TypeInv, MatchInv, NEW c \in Client
  PROVE  ~ push_known(c)
<1> SUFFICES ASSUME push_known(c) PROVE FALSE
  OBVIOUS
<1>1. PICK k \in 1..Len(gtsidq) : lookup_ID_idq(gtsidq, ReqId[creq[c]], k)
  BY DEF push_known
<1>2. /\ ReqId[creq[c]] # NoId /\ gtsidq[k].id = ReqId[creq[c]]
      /\ Sending(c) /\ creq[c] \in Req /\ gtsidq[k].callback \in Req
  BY <1>1, EntryCallbacks DEF lookup_ID_idq, push_known, Sending
<1>3. ReqId[gtsidq[k].callback] = ReqId[creq[c]]
  BY <1>1, <1>2 DEF MatchInv, EntryNamesRequest
<1>4. gtsidq[k].callback = creq[c]
  BY <1>2, <1>3 DEF OwnIds
<1> QED BY <1>2, <1>4 DEF MatchInv, NotYetEntered

(* A call that is added leaves the others. *)
LEMMA CallsGrow ==
  ASSUME TypeInv, NEW e, calls' = Append(calls, e)
  PROVE  /\ \A r : CallOf(calls, r) => CallOf(calls', r)
         /\ CallOf(calls', e.callback)
         /\ \A i \in 1..Len(calls') :
              (i \in 1..Len(calls) /\ calls'[i] = calls[i]) \/ calls'[i] = e
<1>1. /\ Len(calls') = Len(calls) + 1 /\ Len(calls) \in Nat
      /\ \A i \in 1..Len(calls) : calls'[i] = calls[i]
      /\ calls'[Len(calls) + 1] = e
  BY OwnTypes
<1>2. /\ \A i \in 1..Len(calls) : i \in 1..Len(calls')
      /\ Len(calls) + 1 \in 1..Len(calls')
      /\ \A i \in 1..Len(calls') : i \in 1..Len(calls) \/ i = Len(calls) + 1
  BY <1>1
<1> QED BY <1>1, <1>2 DEF CallOf

(* A step that leaves the entries alone, adds at most a call of the        *)
(* request callback and brings no receiver to a response.                  *)
LEMMA OwnKeeps ==
  ASSUME TypeInv, OwnInv, UNCHANGED <<gtsidq, accepted>>, now' \in {now, now + 1},
         calls' = calls \/ \E e : calls' = Append(calls, e) /\ e.kind = "req",
         \A p \in Slot : \/ rpc'[p] \notin {"callback", "remove"}
                         \/ /\ rpc'[p] = rpc[p] /\ rn'[p] = rn[p]
                            /\ rmsg'[p] = rmsg[p]
  PROVE  OwnInv'
<1> USE OwnTypes
<1>1. /\ \A r : CallOf(calls, r) => CallOf(calls', r)
      /\ \A i \in 1..Len(calls') :
           (i \in 1..Len(calls) /\ calls'[i] = calls[i]) \/ calls'[i].kind = "req"
  <2>1. CASE calls' = calls
    BY <2>1
  <2>2. ASSUME NEW e, calls' = Append(calls, e), e.kind = "req"
        PROVE  /\ \A r : CallOf(calls, r) => CallOf(calls', r)
               /\ \A i \in 1..Len(calls') :
                    \/ i \in 1..Len(calls) /\ calls'[i] = calls[i]
                    \/ calls'[i].kind = "req"
    BY <2>2, CallsGrow
  <2> QED BY <2>1, <2>2
<1>2. EntryIsTimed'
  <2>1. SUFFICES ASSUME NEW i \in 1..Len(gtsidq)
                 PROVE  /\ gtsidq[i].ETime = gtsidq[i].ATime + EXPIRY
                        /\ gtsidq[i].is_expired = 1 => gtsidq[i].ETime < now'
    BY DEF EntryIsTimed
  <2>2. gtsidq[i].ETime \in Nat
    BY DEF Entry
  <2> QED BY <2>2 DEF OwnInv, EntryIsTimed
<1>3. CopyIsTimed' /\ CopyIsOfId'
  BY DEF OwnInv, CopyIsTimed, CopyIsOfId
<1>4. RemovedWasCalled'
  BY <1>1 DEF OwnInv, RemovedWasCalled
<1>5. CalledOrEntered'
  BY <1>1 DEF OwnInv, CalledOrEntered
<1>6. TimeoutIsLate'
  BY <1>1 DEF OwnInv, TimeoutIsLate
<1> QED BY <1>2, <1>3, <1>4, <1>5, <1>6 DEF OwnInv

(* What add_entry_idq leaves in the queue of ids. *)
LEMMA EntryAdded ==
  ASSUME gtsidq \in Seq(Entry), NEW id, NEW r, NEW con, NEW t,
         gtsidq' = add_entry_idq(gtsidq, id, r, con, t)
  PROVE  /\ Len(gtsidq') = Len(gtsidq) + 1
         /\ \A i \in 1..Len(gtsidq) : gtsidq'[i] = gtsidq[i]
         /\ gtsidq'[Len(gtsidq) + 1].callback = r
         /\ gtsidq'[Len(gtsidq) + 1].is_expired = 0
         /\ gtsidq'[Len(gtsidq) + 1].ATime = t
         /\ gtsidq'[Len(gtsidq) + 1].ETime = t + EXPIRY
BY AddEntry

(* A client enters a request at the time it took before the scan. *)
LEMMA OwnClient ==
  ASSUME OwnIds, TypeInv, MatchInv, OwnInv, NEW c \in Client,
         sl_send_buf(c) \/ ClientStep(c)
  PROVE  OwnInv'
<1> USE OwnTypes
<1>1. UNCHANGED <<now, calls, rpc, rn, rmsg>>
  BY DEF sl_send_buf, ClientStep, push_empty, push_known, push_new, scan_skip,
         scan_take, peek_head, peek_next, notClients, receivers, env
<1>2. CASE scan_take(c)
  <2> DEFINE n == Len(gtsidq)
  <2>1. /\ gtsidq' = add_entry_idq(gtsidq, ReqId[creq[c]], creq[c],
                                   glast_con_rr, catime[c])
        /\ LinkAtEnd(creq[c], glast_con_rr) /\ catime[c] \in Nat
    BY <1>2 DEF scan_take, TypeInv, TypeOK
  <2>2. /\ Len(gtsidq') = n + 1 /\ \A i \in 1..n : gtsidq'[i] = gtsidq[i]
        /\ gtsidq'[n + 1].callback = creq[c] /\ gtsidq'[n + 1].is_expired = 0
        /\ gtsidq'[n + 1].ATime = catime[c]
        /\ gtsidq'[n + 1].ETime = catime[c] + EXPIRY
    BY <2>1, EntryAdded
  <2>3. /\ n \in Nat /\ n + 1 \in 1..Len(gtsidq')
        /\ \A i \in 1..n : i \in 1..Len(gtsidq')
        /\ \A i \in 1..Len(gtsidq') : i \in 1..n \/ i = n + 1
    BY <2>2
  <2> HIDE DEF n
  <2>4. EntryIsTimed'
    <3>1. SUFFICES ASSUME NEW i \in 1..Len(gtsidq')
                   PROVE  /\ gtsidq'[i].ETime = gtsidq'[i].ATime + EXPIRY
                          /\ gtsidq'[i].is_expired = 1 => gtsidq'[i].ETime < now
      BY <1>1 DEF EntryIsTimed
    <3>2. CASE i = n + 1
      BY <2>2, <3>2
    <3>3. CASE i \in 1..n
      BY <2>2, <3>3 DEF OwnInv, EntryIsTimed, n
    <3> QED BY <2>3, <3>2, <3>3
  <2>5. CalledOrEntered'
    <3>1. \A a \in 1..Len(accepted') :
            \/ a \in 1..Len(accepted) /\ accepted'[a] = accepted[a]
            \/ accepted'[a] = creq[c]
      BY <2>1 DEF LinkAtEnd
    <3>2. SUFFICES ASSUME NEW a \in 1..Len(accepted')
                   PROVE  \/ CallOf(calls, accepted'[a])
                          \/ \E i \in 1..Len(gtsidq') :
                               gtsidq'[i].callback = accepted'[a]
      BY <1>1 DEF CalledOrEntered
    <3>3. CASE accepted'[a] = creq[c]
      BY <2>2, <2>3, <3>3
    <3>4. CASE a \in 1..Len(accepted) /\ accepted'[a] = accepted[a]
      BY <2>2, <2>3, <3>4 DEF OwnInv, CalledOrEntered, n
    <3> QED BY <3>1, <3>3, <3>4
  <2>6. CopyIsTimed' /\ CopyIsOfId' /\ RemovedWasCalled' /\ TimeoutIsLate'
    BY <1>1 DEF OwnInv, CopyIsTimed, CopyIsOfId, RemovedWasCalled, TimeoutIsLate
  <2> QED BY <2>4, <2>5, <2>6 DEF OwnInv
<1>3. CASE ~ scan_take(c)
  <2>1. UNCHANGED <<gtsidq, accepted>>
    BY <1>3, NeverKnown DEF sl_send_buf, ClientStep, push_empty, push_new,
         scan_skip, peek_head, peek_next, queues, idq, msgq
  <2> QED BY <1>1, <2>1, OwnKeeps
<1> QED BY <1>2, <1>3

(* The three steps of a response: the entry is copied, ... *)
LEMMA OwnLookup ==
  ASSUME TypeInv, MatchInv, OwnInv, NEW p \in Slot, recv_lookup(p)
  PROVE  OwnInv'
<1> USE OwnTypes
<1>1. UNCHANGED <<gtsidq, accepted, calls, now>>
  BY DEF recv_lookup, sendSide, msgq, env
<1>2. CASE Finish(p)
  BY <1>1, <1>2, OwnKeeps DEF Finish
<1>3. ASSUME NEW k \in 1..Len(gtsidq), lookup_ID_idq(gtsidq, rmsg[p].tid, k),
             rn' = [rn EXCEPT ![p] = [callback |-> gtsidq[k].callback,
                                      is_expired |-> gtsidq[k].is_expired,
                                      elapsed |-> now - gtsidq[k].ATime]],
             rpc' = [rpc EXCEPT ![p] = "callback"], UNCHANGED rmsg
      PROVE  OwnInv'
  <2>1. /\ rpc'[p] = "callback" /\ rn'[p].callback = gtsidq[k].callback
        /\ rn'[p].is_expired = gtsidq[k].is_expired
        /\ rn'[p].elapsed = now - gtsidq[k].ATime
        /\ \A q \in Slot : q # p => rpc'[q] = rpc[q] /\ rn'[q] = rn[q]
    BY <1>3
  <2>2. /\ gtsidq[k].ETime = gtsidq[k].ATime + EXPIRY
        /\ gtsidq[k].is_expired = 1 => gtsidq[k].ETime < now
        /\ gtsidq[k].ATime \in Nat
    BY DEF OwnInv, EntryIsTimed, Entry
  <2>3. gtsidq[k].is_expired = 1 => now - gtsidq[k].ATime > EXPIRY
    BY <2>2
  <2>4. CopyIsTimed'
    BY <2>1, <2>3 DEF OwnInv, CopyIsTimed
  <2>5. ReqId[gtsidq[k].callback] = rmsg[p].tid /\ gtsidq[k].callback \in Req
    BY <1>3 DEF lookup_ID_idq, MatchInv, EntryNamesRequest, Entry
  <2>6. CopyIsOfId'
    BY <1>3, <2>1, <2>5 DEF OwnInv, CopyIsOfId
  <2>7. RemovedWasCalled'
    BY <1>1, <1>3, <2>1 DEF OwnInv, RemovedWasCalled
  <2>8. EntryIsTimed' /\ TimeoutIsLate' /\ CalledOrEntered'
    BY <1>1 DEF OwnInv, EntryIsTimed, TimeoutIsLate, CalledOrEntered
  <2> QED BY <2>4, <2>6, <2>7, <2>8 DEF OwnInv
<1> QED BY <1>2, <1>3 DEF recv_lookup

(* ... the callback called... *)
LEMMA OwnCallback ==
  ASSUME OwnIds, TypeInv, OwnInv, NEW p \in Slot, recv_callback(p)
  PROVE  OwnInv'
<1> USE OwnTypes
<1> DEFINE e == [kind |-> "res", callback |-> rn[p].callback,
                 is_timeout |-> rn[p].is_expired, elapsed |-> rn[p].elapsed]
<1>1. /\ UNCHANGED <<gtsidq, accepted, now, rmsg, rn>> /\ calls' = Append(calls, e)
      /\ rpc[p] = "callback" /\ rpc' = [rpc EXCEPT ![p] = "remove"]
  BY DEF recv_callback, sendSide, msgq, env
<1>2. /\ e.callback = rn[p].callback /\ e.is_timeout = rn[p].is_expired
      /\ e.elapsed = rn[p].elapsed
  OBVIOUS
<1> HIDE DEF e
<1>3. /\ \A r : CallOf(calls, r) => CallOf(calls', r)
      /\ CallOf(calls', rn[p].callback)
      /\ \A i \in 1..Len(calls') :
           (i \in 1..Len(calls) /\ calls'[i] = calls[i]) \/ calls'[i] = e
  BY <1>1, <1>2, CallsGrow
<1>4. /\ rpc'[p] = "remove"
      /\ \A q \in Slot : q # p => rpc'[q] = rpc[q]
  BY <1>1
<1>5. TimeoutIsLate'
  BY <1>1, <1>2, <1>3 DEF OwnInv, TimeoutIsLate, CopyIsTimed
<1>6. RemovedWasCalled'
  <2>1. SUFFICES ASSUME NEW q \in Slot, rpc'[q] = "remove", NEW r \in Req,
                        ReqId[r] = rmsg[q].tid, ReqId[r] # NoId
                 PROVE  CallOf(calls', r)
    BY <1>1 DEF RemovedWasCalled
  <2>2. CASE q = p
    <3>1. rn[p].callback \in Req /\ ReqId[rn[p].callback] = rmsg[p].tid
      BY <1>1 DEF OwnInv, CopyIsOfId
    <3>2. r = rn[p].callback
      BY <2>1, <2>2, <3>1 DEF OwnIds
    <3> QED BY <1>3, <3>2
  <2>3. CASE q # p
    BY <1>3, <1>4, <2>1, <2>3 DEF OwnInv, RemovedWasCalled
  <2> QED BY <2>2, <2>3
<1>7. CopyIsTimed' /\ CopyIsOfId'
  BY <1>1, <1>4 DEF OwnInv, CopyIsTimed, CopyIsOfId
<1>8. EntryIsTimed' /\ CalledOrEntered'
  BY <1>1, <1>3 DEF OwnInv, EntryIsTimed, CalledOrEntered
<1> QED BY <1>5, <1>6, <1>7, <1>8 DEF OwnInv

(* ... and the entry of its id removed, which is that of the request just  *)
(* answered.                                                               *)
LEMMA OwnRemove ==
  ASSUME TypeInv, MatchInv, OwnInv, NEW p \in Slot, recv_remove(p)
  PROVE  OwnInv'
<1> USE OwnTypes
<1>1. /\ UNCHANGED <<accepted, calls, now>> /\ rpc[p] = "remove"
      /\ rem_id(gtsidq, rmsg[p].tid, gtsidq') /\ Finish(p)
  BY DEF recv_remove, sendSide, msgq, env
<1>2. CASE gtsidq' = gtsidq
  BY <1>1, <1>2, OwnKeeps DEF Finish
<1>3. ASSUME NEW k \in 1..Len(gtsidq), lookup_ID_idq(gtsidq, rmsg[p].tid, k),
             gtsidq' = RemoveAt(gtsidq, k)
      PROVE  OwnInv'
  <2>1. /\ Len(gtsidq') = Len(gtsidq) - 1
        /\ \A i \in 1..(Len(gtsidq) - 1) :
             gtsidq'[i] = IF i < k THEN gtsidq[i] ELSE gtsidq[i + 1]
    BY <1>3, RemoveAtProperties
  <2>2. \A i \in 1..Len(gtsidq') : \E j \in 1..Len(gtsidq) : gtsidq'[i] = gtsidq[j]
    BY <2>1
  <2>3. \A j \in 1..Len(gtsidq) : j # k =>
          \E i \in 1..Len(gtsidq') : gtsidq'[i] = gtsidq[j]
    <3>1. SUFFICES ASSUME NEW j \in 1..Len(gtsidq), j # k
                   PROVE  \E i \in 1..Len(gtsidq') : gtsidq'[i] = gtsidq[j]
      OBVIOUS
    <3>2. CASE j < k
      <4>1. j \in 1..Len(gtsidq') /\ gtsidq'[j] = gtsidq[j]
        BY <2>1, <3>2
      <4> QED BY <4>1
    <3>3. CASE j > k
      <4>1. PICK i \in Int : i = j - 1
        OBVIOUS
      <4>2. i \in 1..Len(gtsidq') /\ gtsidq'[i] = gtsidq[i + 1] /\ i + 1 = j
        BY <2>1, <3>3, <4>1
      <4> QED BY <4>2
    <3> QED BY <3>1, <3>2, <3>3
  <2>4. EntryIsTimed'
    BY <1>1, <2>2 DEF OwnInv, EntryIsTimed
  <2>5. CallOf(calls, gtsidq[k].callback)
    <3>1. /\ ReqId[gtsidq[k].callback] = rmsg[p].tid /\ rmsg[p].tid # NoId
          /\ gtsidq[k].callback \in Req
      BY <1>3 DEF lookup_ID_idq, MatchInv, EntryNamesRequest, Entry
    <3> QED BY <1>1, <3>1 DEF OwnInv, RemovedWasCalled
  <2>6. CalledOrEntered'
    <3>1. SUFFICES ASSUME NEW a \in 1..Len(accepted), ~ CallOf(calls, accepted[a])
                   PROVE  \E i \in 1..Len(gtsidq') :
                            gtsidq'[i].callback = accepted[a]
      BY <1>1 DEF CalledOrEntered
    <3>2. PICK j \in 1..Len(gtsidq) : gtsidq[j].callback = accepted[a]
      BY <3>1 DEF OwnInv, CalledOrEntered
    <3>3. j # k
      BY <2>5, <3>1, <3>2
    <3> QED BY <2>3, <3>2, <3>3
  <2>7. \A q \in Slot : \/ rpc'[q] = "top"
                        \/ /\ rpc'[q] = rpc[q] /\ rn'[q] = rn[q]
                           /\ rmsg'[q] = rmsg[q]
    BY <1>1 DEF Finish
  <2>8. CopyIsTimed' /\ CopyIsOfId' /\ RemovedWasCalled' /\ TimeoutIsLate'
    BY <1>1, <2>7 DEF OwnInv, CopyIsTimed, CopyIsOfId, RemovedWasCalled,
                      TimeoutIsLate
  <2> QED BY <2>4, <2>6, <2>8 DEF OwnInv
<1> QED BY <1>1, <1>2, <1>3 DEF rem_id

(* What the senders, the receivers outside of a response and the           *)
(* environment leave alone.                                                *)
LEMMA OwnOthers ==
  ASSUME TypeInv, OwnInv
  PROVE  /\ \A p \in Slot : SenderStep(p) \/ spurious_wakeup(p) => OwnInv'
         /\ \A p \in Slot :
              /\ ReceiverStep(p) \/ recv_message(p)
              /\ ~ (recv_lookup(p) \/ recv_callback(p) \/ recv_remove(p))
              => OwnInv'
         /\ register_req_cb \/ drop \/ tick => OwnInv'
<1> USE OwnTypes
<1>1. ASSUME NEW p \in Slot, SenderStep(p) \/ spurious_wakeup(p)
      PROVE  OwnInv'
  <2>1. UNCHANGED <<gtsidq, accepted, calls, now, rpc, rn, rmsg>>
    BY <1>1 DEF SenderStep, spurious_wakeup, send_wait, send_check,
                send_recreate, send_pop, send_header, send_body, notSenders,
                idq, receivers
  <2> QED BY <2>1, OwnKeeps
<1>2. ASSUME NEW p \in Slot, ReceiverStep(p) \/ recv_message(p),
             ~ (recv_lookup(p) \/ recv_callback(p) \/ recv_remove(p))
      PROVE  OwnInv'
  <2>1. CASE recv_event_request(p) \/ recv_session(p)
    <3>1. /\ UNCHANGED <<gtsidq, accepted, now>>
          /\ \E t, e : req_cb(p, t, e)
      BY <2>1 DEF recv_event_request, recv_session, sendSide, msgq, env
    <3>2. PICK t, e : req_cb(p, t, e)
      BY <3>1
    <3>3. CASE UNCHANGED <<calls, rpc, rmsg, rn>>
      BY <3>1, <3>3, OwnKeeps
    <3>4. CASE /\ calls' = Append(calls, [kind |-> "req", callback |-> NoReq,
                                          is_timeout |-> t, elapsed |-> e])
               /\ Finish(p)
      <4>1. \A q \in Slot : \/ rpc'[q] = "top"
                            \/ /\ rpc'[q] = rpc[q] /\ rn'[q] = rn[q]
                               /\ rmsg'[q] = rmsg[q]
        BY <3>4 DEF Finish
      <4>2. \E x : calls' = Append(calls, x) /\ x.kind = "req"
        BY <3>4
      <4> QED BY <3>1, <4>1, <4>2, OwnKeeps
    <3> QED BY <3>2, <3>3, <3>4 DEF req_cb
  <2>2. CASE ~ (recv_event_request(p) \/ recv_session(p))
    <3>1. UNCHANGED <<gtsidq, accepted, calls, now>>
      BY <1>2, <2>2 DEF ReceiverStep, recv_message, recv_top, recv_recreate,
           recv_getfd, recv_eof, recv_error, recv_close, recv_down, recv_drop,
           sendSide, msgq, env
    <3>2. \A q \in Slot : q # p => /\ rpc'[q] = rpc[q] /\ rn'[q] = rn[q]
                                   /\ rmsg'[q] = rmsg[q]
      BY <1>2, <2>2 DEF ReceiverStep, recv_message, recv_top, recv_recreate,
           recv_getfd, recv_eof, recv_error, recv_close, recv_down, recv_drop,
           Finish
    <3>3. rpc'[p] \notin {"callback", "remove"}
      BY <1>2, <2>2 DEF ReceiverStep, recv_message, recv_top, recv_recreate,
           recv_getfd, recv_eof, recv_error, recv_close, recv_down, recv_drop,
           Finish
    <3> QED BY <3>1, <3>2, <3>3, OwnKeeps
  <2> QED BY <2>1, <2>2
<1>3. ASSUME register_req_cb \/ drop \/ tick
      PROVE  OwnInv'
  <2>1. /\ UNCHANGED <<gtsidq, accepted, calls, rpc, rn, rmsg>>
        /\ now' \in {now, now + 1}
    BY <1>3 DEF register_req_cb, drop, tick, sendSide, receivers, msgq, env
  <2> QED BY <2>1, OwnKeeps
<1> QED BY <1>1, <1>2, <1>3

(* OwnInv is inductive together with MatchInv and the types. *)
LEMMA OwnNext ==
  ASSUME OwnIds
  PROVE  TypeInv /\ MatchInv /\ OwnInv /\ [Next]_vars => OwnInv'
<1> SUFFICES ASSUME TypeInv, MatchInv, OwnInv, [Next]_vars PROVE OwnInv'
  OBVIOUS
<1> USE OwnTypes
<1>1. CASE UNCHANGED vars
  BY <1>1, OwnKeeps DEF vars, queues, idq, msgq, receivers, env
<1>2. CASE qmanager
  <2>1. /\ UNCHANGED <<accepted, calls, now, rpc, rn, rmsg>>
        /\ gtsidq' = list_expired_idq(gtsidq, now)
    BY <1>2 DEF qmanager, sendSide, msgq, receivers, env
  <2>2. /\ Len(gtsidq') = Len(gtsidq)
        /\ \A i \in 1..Len(gtsidq) :
             /\ gtsidq'[i].callback = gtsidq[i].callback
             /\ gtsidq'[i].ATime = gtsidq[i].ATime
             /\ gtsidq'[i].ETime = gtsidq[i].ETime
             /\ \/ gtsidq'[i].is_expired = gtsidq[i].is_expired
                \/ gtsidq[i].ETime < now
    BY <2>1, ListExpired
  <2>3. EntryIsTimed'
    BY <2>1, <2>2 DEF OwnInv, EntryIsTimed
  <2>4. CalledOrEntered'
    BY <2>1, <2>2 DEF OwnInv, CalledOrEntered
  <2>5. CopyIsTimed' /\ CopyIsOfId' /\ RemovedWasCalled' /\ TimeoutIsLate'
    BY <2>1 DEF OwnInv, CopyIsTimed, CopyIsOfId, RemovedWasCalled, TimeoutIsLate
  <2> QED BY <2>3, <2>4, <2>5 DEF OwnInv
<1>3. CASE Next
  <2>1. ASSUME NEW p \in Slot, ReceiverStep(p) \/ recv_message(p)
        PROVE  OwnInv'
    BY <2>1, OwnLookup, OwnCallback, OwnRemove, OwnOthers
  <2> QED BY <1>2, <1>3, <2>1, OwnClient, OwnOthers DEF Next
<1> QED BY <1>1, <1>3

(* At the start there is no entry, no call and no response. *)
LEMMA OwnInit == Init => OwnInv
BY DEF Init, OwnInv, EntryIsTimed, CopyIsTimed, TimeoutIsLate, CopyIsOfId,
       RemovedWasCalled, CalledOrEntered

(* As long as no id is used a second time, the callback of a request is    *)
(* told of a timeout only when more than EXPIRY has passed since it was    *)
(* sent, though the mark is set by qmanager_thread, copied under qtex and  *)
(* read when the lock is gone.  With an id in use again it is false: see   *)
(* the run v_expired.                                                      *)
THEOREM TimeoutsAreLate ==
  ASSUME OwnIds
  PROVE  Spec => []TimeoutIsLate
<1>1. OwnInv => TimeoutIsLate
  BY DEF OwnInv
<1> QED BY <1>1, OwnInit, OwnNext, MatchInit, MatchNext, TypeInit, TypeNext, PTL
        DEF Spec

(* Nor is the entry of such a request ever removed before its callback was *)
(* called: whatever responses arrive on whichever connections, rem_id of   *)
(* recv_worker_thread takes only what was answered.                        *)
THEOREM AcceptedIsAnswerable ==
  ASSUME OwnIds
  PROVE  Spec => []Answerable
<1>1. OwnInv => Answerable
  BY DEF OwnInv, CalledOrEntered, Answerable, CallOf, Called
<1> QED BY <1>1, OwnInit, OwnNext, MatchInit, MatchNext, TypeInit, TypeNext, PTL
        DEF Spec
==============================================================================
