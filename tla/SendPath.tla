------------------------------ MODULE SendPath -------------------------------
(***************************************************************************)
(* From sl_send_buf to the socket: the calls the application's threads     *)
(* make (ready_to_send, push_to_msgq, the scan of add_entry_idq) and the   *)
(* send_worker_thread of each slot.  A step is what happens between two    *)
(* points where another thread can interfere: lock acquisitions, blocking  *)
(* calls and the unprotected reads of shared memory.                       *)
(***************************************************************************)
EXTENDS LibState

notClients == <<conns, senders, receivers, env>>
notSenders == <<idq, conn, accepted, clients, receivers, now, nin, ndrop>>

Freed(positions) == \E i \in positions : node[gmsgq[i]] = "freed"

---------------------------------------------------------------------------
(* The application's threads.                                              *)

sl_send_buf(c) ==
  /\ Running /\ cpc[c] = "idle"
  /\ \E r \in Req :
       /\ node[r] = "none"
       /\ node' = [node EXCEPT ![r] = "new"]
       /\ creq' = [creq EXCEPT ![c] = r]
  /\ cpc' = [cpc EXCEPT ![c] = "push"]
  /\ UNCHANGED <<notClients, idq, gmsgq, conn, accepted, chd, catime, qtex,
                 condition_mutex, fault>>

(* The last lines of push_to_msgq: request r is linked for connection con. *)
LinkAtEnd(r, con) ==
  /\ conn' = [conn EXCEPT ![r] = con]
  /\ \/ /\ ~ Freed(PushReads(gmsgq))
        /\ gmsgq' = Push(gmsgq, r)
        /\ node' = [node EXCEPT ![r] = "queued"]
        /\ accepted' = Append(accepted, r)
        /\ UNCHANGED fault
     \/ /\ Freed(PushReads(gmsgq))
        /\ fault' = "push_freed"
        /\ UNCHANGED <<gmsgq, node, accepted>>

(* A request without id is not queued; the caller is not told. *)
push_empty(c) ==
  /\ Running /\ cpc[c] = "push" /\ qtex = NoOne
  /\ ReqId[creq[c]] = NoId
  /\ cpc' = [cpc EXCEPT ![c] = "peek"]
  /\ UNCHANGED <<notClients, queues, creq, chd, catime, qtex, condition_mutex,
                 fault>>

PinnedTo(k) == gtsidq[k].conn

(* An id that is already pinned keeps its connection. *)
push_known(c) ==
  /\ Running /\ cpc[c] = "push" /\ qtex = NoOne
  /\ \E k \in 1..Len(gtsidq) :
       /\ lookup_ID_idq(gtsidq, ReqId[creq[c]], k)
       /\ gtsidq' = update_entry_idq(gtsidq, k, creq[c], now)
       /\ LinkAtEnd(creq[c], PinnedTo(k))
  /\ cpc' = [cpc EXCEPT ![c] = "peek"]
  /\ UNCHANGED <<notClients, glast_con_rr, creq, chd, catime, qtex,
                 condition_mutex>>

(* qtex stays locked from the test for the id to the end of the insertion. *)
lock_qtex_missing(c) == UNCHANGED qtex
lock_qtex(c) == qtex' = c

unlock_qtex_missing == UNCHANGED qtex
unlock_qtex == qtex' = NoOne

(* add_entry_idq takes the time, then looks for a connection, with qtex.   *)
push_new(c) ==
  /\ Running /\ cpc[c] = "push" /\ qtex = NoOne
  /\ ReqId[creq[c]] # NoId
  /\ ~ is_ID_present_idq(gtsidq, ReqId[creq[c]])
  /\ lock_qtex(c)
  /\ catime' = [catime EXCEPT ![c] = now]
  /\ cpc' = [cpc EXCEPT ![c] = "scan"]
  /\ UNCHANGED <<notClients, queues, creq, chd, condition_mutex, fault>>

NextSlot_off_by_one(i) == IF i = NumPeers THEN 0 ELSE i + 1

NextSlot(i) == IF i + 1 = NumPeers THEN 0 ELSE i + 1

scan_skip(c) ==
  /\ Running /\ cpc[c] = "scan"
  /\ c_state[glast_con_rr] # 1
  /\ glast_con_rr' = NextSlot(glast_con_rr)
  /\ UNCHANGED <<notClients, clients, msgq, gtsidq, fault>>

scan_take(c) ==
  /\ Running /\ cpc[c] = "scan"
  /\ c_state[glast_con_rr] = 1
  /\ gtsidq' = add_entry_idq(gtsidq, ReqId[creq[c]], creq[c], glast_con_rr,
                             catime[c])
  /\ glast_con_rr' = NextSlot(glast_con_rr)
  /\ LinkAtEnd(creq[c], glast_con_rr)
  /\ unlock_qtex
  /\ catime' = [catime EXCEPT ![c] = 0]
  /\ cpc' = [cpc EXCEPT ![c] = "peek"]
  /\ UNCHANGED <<notClients, creq, chd, condition_mutex>>

(* ready_to_send evaluates gmsgq->next with condition_mutex and without    *)
(* qtex: first it reads the head...                                        *)
peek_head(c) ==
  /\ Running /\ cpc[c] = "peek" /\ condition_mutex = NoOne
  /\ \/ /\ gmsgq = <<>>
        /\ fault' = "null_head"
        /\ UNCHANGED <<cpc, chd, condition_mutex>>
     \/ /\ gmsgq # <<>>
        /\ condition_mutex' = c
        /\ chd' = [chd EXCEPT ![c] = Head(gmsgq)]
        /\ cpc' = [cpc EXCEPT ![c] = "next"]
        /\ UNCHANGED fault
  /\ UNCHANGED <<notClients, queues, creq, catime, qtex>>

signal_missing == UNCHANGED spc

(* pthread_cond_signal wakes one of the senders that wait, if any does.    *)
signal ==
  \/ \E p \in Slot : spc[p] = "blocked" /\ spc' = [spc EXCEPT ![p] = "wait"]
  \/ (\A p \in Slot : spc[p] # "blocked") /\ UNCHANGED spc

(* ... then the node it points to, and signals when that is the last one.  *)
peek_next(c) ==
  /\ Running /\ cpc[c] = "next"
  /\ \/ node[chd[c]] = "freed" /\ fault' = "head_freed" /\ UNCHANGED spc
     \/ /\ node[chd[c]] # "freed"
        /\ IF HasNext(gmsgq, chd[c]) THEN UNCHANGED spc ELSE signal
        /\ UNCHANGED fault
  /\ condition_mutex' = NoOne
  /\ chd' = [chd EXCEPT ![c] = NoReq]
  /\ creq' = [creq EXCEPT ![c] = NoReq]
  /\ cpc' = [cpc EXCEPT ![c] = "idle"]
  /\ UNCHANGED <<receivers, conns, queues, env, catime, qtex, snode, wire>>

ClientStep(c) ==
  \/ push_empty(c) \/ push_known(c) \/ push_new(c)
  \/ scan_skip(c) \/ scan_take(c)
  \/ peek_head(c) \/ peek_next(c)

---------------------------------------------------------------------------
(* send_worker_thread of slot p.                                           *)

(* Lines 256-261: the queue is tested and, when empty, waited for.         *)
send_wait(p) ==
  /\ Running /\ spc[p] = "wait" /\ condition_mutex = NoOne
  /\ spc' = [spc EXCEPT ![p] = IF gmsgq = <<>> THEN "blocked" ELSE "check"]
  /\ UNCHANGED <<notSenders, conns, gmsgq, node, snode, wire, nfail, fault>>

(* pthread_cond_wait may return without a signal. *)
spurious_wakeup(p) ==
  /\ Running /\ spc[p] = "blocked"
  /\ spc' = [spc EXCEPT ![p] = "wait"]
  /\ UNCHANGED <<notSenders, conns, gmsgq, node, snode, wire, nfail, fault>>

(* The state is tested without conntex. *)
send_check(p) ==
  /\ Running /\ spc[p] = "check"
  /\ spc' = [spc EXCEPT ![p] = IF c_state[p] = 1 THEN "pop" ELSE "lock"]
  /\ UNCHANGED <<notSenders, conns, gmsgq, node, snode, wire, nfail, fault>>

send_recreate(p) ==
  /\ Running
  /\ \/ /\ spc[p] = "lock"
        /\ recreate_conn(peer_id(p))
        /\ spc' = [spc EXCEPT ![p] = "connect"]
        /\ UNCHANGED nfail
     \/ /\ spc[p] = "connect"
        /\ \/ connect_ok(peer_id(p)) /\ spc' = [spc EXCEPT ![p] = "connected"]
           \/ connect_failed(peer_id(p)) /\ spc' = [spc EXCEPT ![p] = "pop"]
     \/ /\ spc[p] = "connected"
        /\ recreate_done(peer_id(p))
        /\ spc' = [spc EXCEPT ![p] = "pop"]
        /\ UNCHANGED nfail
  /\ UNCHANGED <<notSenders, gmsgq, node, snode, wire, fault>>

(* pop_from_msgq of the node at k meets a freed node, or unlinks a node    *)
(* from between two others that another sender has popped before: its prev *)
(* is null.  (Two slots can have one peer id.)                             *)
PopFaults(k) ==
  \/ Freed(PopReads(gmsgq, k))
  \/ k \in 2..(Len(gmsgq) - 1) /\ node[gmsgq[k]] = "held"

send_pop(p) ==
  /\ Running /\ spc[p] = "pop" /\ qtex = NoOne
  /\ \/ \E k \in 1..Len(gmsgq) :
          /\ FirstFor(gmsgq, conn, peer_id(p), k)
          /\ ~ PopFaults(k)
          /\ snode' = [snode EXCEPT ![p] = gmsgq[k]]
          /\ node' = [node EXCEPT ![gmsgq[k]] = "held"]
          /\ gmsgq' = pop_from_msgq(gmsgq, k)
          /\ spc' = [spc EXCEPT ![p] = "header"]
          /\ UNCHANGED fault
     \/ /\ NoneFor(gmsgq, conn, peer_id(p))
        /\ ~ Freed(1..Len(gmsgq))
        /\ spc' = [spc EXCEPT ![p] = "wait"]
        /\ UNCHANGED <<gmsgq, node, snode, fault>>
     \/ /\ \/ \E k \in 1..Len(gmsgq) :
                /\ FirstFor(gmsgq, conn, peer_id(p), k)
                /\ PopFaults(k)
           \/ NoneFor(gmsgq, conn, peer_id(p)) /\ Freed(1..Len(gmsgq))
        /\ fault' = "pop_freed"
        /\ UNCHANGED <<gmsgq, node, snode, spc>>
  /\ UNCHANGED <<notSenders, conns, wire, nfail>>

(* send_to_fd with the descriptor the slot has now.  A write to a socket   *)
(* whose peer has closed may still succeed, until one has failed; `after'  *)
(* is what the stream was in the middle of when the write succeeded.       *)
written_restarts(part, r, f) ==
  LET e == [part |-> part, req |-> r, to |-> owner[f], after |-> half[f]]
  IN  wire' = Append(Append(wire, e), e)
written(part, r, f) ==
  wire' = Append(wire, [part |-> part, req |-> r, to |-> owner[f],
                        after |-> half[f]])

send_ok(p, part, r) ==
  \E f \in Fd :
    /\ c_fd[p] = f /\ sock[f] \in {"up", "eof"}
    /\ written(part, r, f)
    /\ half' = [half EXCEPT ![f] = IF part = "H" THEN r ELSE NoReq]
    /\ UNCHANGED <<c_state, sock>>

send_failed(p) ==
  /\ \A f \in Fd : c_fd[p] = f => sock[f] # "up"
  /\ sock' = [f \in Fd |-> IF c_fd[p] = f /\ sock[f] \in {"eof", "reset"}
                           THEN "dead" ELSE sock[f]]
  /\ set_down(p)
  /\ UNCHANGED <<wire, half>>

(* node->len, node->data are read whether or not the node is still there. *)
UseNode(p) ==
  fault' = IF node[snode[p]] = "freed" THEN "node_freed" ELSE fault

send_header_missing(p) ==
  /\ Running /\ spc[p] = "header"
  /\ UseNode(p)
  /\ spc' = [spc EXCEPT ![p] = "body"]
  /\ UNCHANGED <<notSenders, conns, gmsgq, node, snode, wire, nfail>>

send_header(p) ==
  /\ Running /\ spc[p] = "header"
  /\ UseNode(p)
  /\ send_ok(p, "H", snode[p]) \/ send_failed(p)
  /\ spc' = [spc EXCEPT ![p] = "body"]
  /\ UNCHANGED <<notSenders, gmsgq, node, c_fd, owner, conntex, snode, nfail>>

(* Whatever became of the message, it is freed. *)
send_body(p) ==
  /\ Running /\ spc[p] = "body"
  /\ UseNode(p)
  /\ send_ok(p, "B", snode[p]) \/ send_failed(p)
  /\ node' = [node EXCEPT ![snode[p]] = "freed"]
  /\ snode' = [snode EXCEPT ![p] = NoReq]
  /\ spc' = [spc EXCEPT ![p] = "wait"]
  /\ UNCHANGED <<notSenders, gmsgq, c_fd, owner, conntex, nfail>>

SenderStep(p) ==
  \/ send_wait(p) \/ send_check(p) \/ send_recreate(p) \/ send_pop(p)
  \/ send_header(p) \/ send_body(p)
==============================================================================
