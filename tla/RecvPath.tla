------------------------------ MODULE RecvPath -------------------------------
(***************************************************************************)
(* From the socket to the application: the recv_worker_thread of each      *)
(* slot, the qmanager_thread, the registration of the request callback,    *)
(* and the environment they meet: the peers, the network and the clock.    *)
(***************************************************************************)
EXTENDS LibState

sendSide == <<msgq, glast_con_rr, clients, senders>>

NoMsg == [len |-> 0, event |-> 0, typ |-> "none", sid |-> 0, tid |-> NoId]
NoEntry == [callback |-> NoReq, is_expired |-> 0, elapsed |-> 0]

---------------------------------------------------------------------------
(* Keeping the connection: lines 57-80.                                    *)

(* The loop head clears n and tests the state, without conntex. *)
recv_top(p) ==
  /\ Running /\ rpc[p] = "top"
  /\ rpc' = [rpc EXCEPT ![p] = IF c_state[p] = 1 THEN "getfd" ELSE "lock"]
  /\ UNCHANGED <<sendSide, conns, env, gtsidq, rfd, rrc, rmsg, rn, reg_req_cb,
                 calls, fault>>

recv_recreate(p) ==
  /\ Running
  /\ \/ /\ rpc[p] = "lock"
        /\ recreate_conn(peer_id(p))
        /\ rpc' = [rpc EXCEPT ![p] = "connect"]
        /\ UNCHANGED nfail
     \/ /\ rpc[p] = "connect"
        /\ \/ connect_ok(peer_id(p)) /\ rpc' = [rpc EXCEPT ![p] = "connected"]
           \/ connect_failed(peer_id(p)) /\ rpc' = [rpc EXCEPT ![p] = "top"]
     \/ /\ rpc[p] = "connected"
        /\ recreate_done(peer_id(p))
        /\ rpc' = [rpc EXCEPT ![p] = "top"]
        /\ UNCHANGED nfail
  /\ UNCHANGED <<sendSide, gtsidq, rfd, rrc, rmsg, rn, reg_req_cb, calls, now,
                 nin, ndrop, fault>>

(* The descriptor is read once for the whole call of receive_from_fd. *)
recv_getfd(p) ==
  /\ Running /\ rpc[p] = "getfd"
  /\ rfd' = [rfd EXCEPT ![p] = c_fd[p]]
  /\ rpc' = [rpc EXCEPT ![p] = "recv"]
  /\ UNCHANGED <<sendSide, conns, env, gtsidq, rrc, rmsg, rn, reg_req_cb,
                 calls, fault>>

Readable(p, states) == \E f \in Fd : rfd[p] = f /\ sock[f] \in states

(* receive_from_fd returns a frame and sets rc to its length.  The switch  *)
(* takes a frame of length 0 for a lost connection.                        *)
recv_message(p) ==
  /\ Running /\ rpc[p] = "recv" /\ Readable(p, {"up"})
  /\ nin < MaxIn
  /\ nin' = nin + 1
  /\ \E m \in InMsg :
       /\ rrc' = [rrc EXCEPT ![p] = m.len]
       /\ \/ m.len = 0 /\ rpc' = [rpc EXCEPT ![p] = "close"] /\ UNCHANGED rmsg
          \/ /\ m.len # 0
             /\ rpc' = [rpc EXCEPT ![p] = "dispatch"]
             /\ rmsg' = [rmsg EXCEPT ![p] = m]
  /\ UNCHANGED <<sendSide, conns, gtsidq, rfd, rn, reg_req_cb, calls, now,
                 ndrop, nfail, fault>>

(* The peer has closed: receive_from_fd returns NULL and leaves rc as the  *)
(* call before set it.  With rc # 0 the parsers find nothing in the null   *)
(* message and the loop starts again.                                      *)
recv_eof(p) ==
  /\ Running /\ rpc[p] = "recv" /\ Readable(p, {"eof", "dead"})
  /\ rpc' = [rpc EXCEPT ![p] = IF rrc[p] = 0 THEN "close" ELSE "top"]
  /\ UNCHANGED <<sendSide, conns, env, gtsidq, rfd, rrc, rmsg, rn, reg_req_cb,
                 calls, fault>>

(* recv() fails.  In the length, which then reads as 0, rc becomes 0; in   *)
(* the middle of a body the loop calls recv() again, which reports the end *)
(* of the stream, and rc stays what it was.                                *)
rc_after_error(p) ==
  {0} \cup {rc \in {rrc[p]} : InMsg # {} /\ Readable(p, {"reset"})}

recv_error(p) ==
  /\ Running /\ rpc[p] = "recv" /\ ~ Readable(p, {"up", "eof", "dead"})
  /\ sock' = [f \in Fd |-> IF rfd[p] = f /\ sock[f] = "reset"
                           THEN "dead" ELSE sock[f]]
  /\ \E rc \in rc_after_error(p) :
       /\ rrc' = [rrc EXCEPT ![p] = rc]
       /\ rpc' = [rpc EXCEPT ![p] = IF rc = 0 THEN "close" ELSE "top"]
  /\ UNCHANGED <<sendSide, env, gtsidq, c_fd, c_state, owner, half, conntex,
                 rfd, rmsg, rn, reg_req_cb, calls, fault>>

(* case 0: the descriptor the slot has now is closed, whichever was read.  *)
recv_close(p) ==
  /\ Running /\ rpc[p] = "close"
  /\ sock' = [f \in Fd |-> IF c_fd[p] = f /\ f # Stdin THEN "closed"
                           ELSE sock[f]]
  /\ rpc' = [rpc EXCEPT ![p] = "down"]
  /\ UNCHANGED <<sendSide, env, gtsidq, c_fd, c_state, owner, half, conntex,
                 rfd, rrc, rmsg, rn, reg_req_cb, calls, fault>>

recv_down(p) ==
  /\ Running /\ rpc[p] = "down"
  /\ set_down(p)
  /\ rpc' = [rpc EXCEPT ![p] = "top"]
  /\ UNCHANGED <<sendSide, env, gtsidq, c_fd, sock, owner, half, conntex, rfd,
                 rrc, rmsg, rn, reg_req_cb, calls, fault>>

---------------------------------------------------------------------------
(* Dispatching a message: lines 83-239.                                    *)

(* Which branch of the nested tests takes message m. *)
Branch(m) ==
  CASE m.typ = "none"                                      -> "drop"
    [] m.typ = "request"  /\ m.event = 1                   -> "event_request"
    [] m.typ = "request"  /\ m.event = 0 /\ m.sid = 1      -> "session"
    [] m.typ = "request"  /\ m.event = 0 /\ m.sid = 0      -> "drop"
    [] m.typ = "response" /\ m.event = 0 /\ m.sid = 1      -> "session"
    [] m.typ = "response" /\ (m.event = 1 \/ m.sid = 0)     -> "response"

(* The end of an iteration; the next one clears message and n. *)
Finish(p) ==
  /\ rpc' = [rpc EXCEPT ![p] = "top"]
  /\ rmsg' = [rmsg EXCEPT ![p] = NoMsg]
  /\ rn' = [rn EXCEPT ![p] = NoEntry]

recv_drop(p) ==
  /\ Running /\ rpc[p] = "dispatch" /\ Branch(rmsg[p]) = "drop"
  /\ Finish(p)
  /\ UNCHANGED <<sendSide, conns, env, gtsidq, rfd, rrc, reg_req_cb, calls,
                 fault>>

(* A call of req_cb.reg_req_cb, which is null until it is registered. *)
req_cb(p, is_timeout, elapsed) ==
  \/ /\ reg_req_cb = 1
     /\ calls' = Append(calls, [kind |-> "req", callback |-> NoReq,
                                is_timeout |-> is_timeout,
                                elapsed |-> elapsed])
     /\ Finish(p)
     /\ UNCHANGED fault
  \/ /\ reg_req_cb = 0
     /\ fault' = "null_req_cb"
     /\ UNCHANGED <<calls, rpc, rmsg, rn>>

(* An event request is handed on with the result of the lookup of its TID. *)
recv_event_request(p) ==
  /\ Running /\ rpc[p] = "dispatch" /\ Branch(rmsg[p]) = "event_request"
  /\ qtex = NoOne
  /\ \/ \E k \in 1..Len(gtsidq) :
          /\ lookup_ID_idq(gtsidq, rmsg[p].tid, k)
          /\ req_cb(p, 1, now - gtsidq[k].ATime)
     \/ ~ is_ID_present_idq(gtsidq, rmsg[p].tid) /\ req_cb(p, 0, 0)
  /\ UNCHANGED <<sendSide, conns, env, gtsidq, rfd, rrc, reg_req_cb>>

recv_session(p) ==
  /\ Running /\ rpc[p] = "dispatch" /\ Branch(rmsg[p]) = "session"
  /\ req_cb(p, 0, 0)
  /\ UNCHANGED <<sendSide, conns, env, gtsidq, rfd, rrc, reg_req_cb>>

(* A response: the entry is copied under qtex... *)
recv_lookup(p) ==
  /\ Running /\ rpc[p] = "dispatch" /\ Branch(rmsg[p]) = "response"
  /\ qtex = NoOne
  /\ \/ \E k \in 1..Len(gtsidq) :
          /\ lookup_ID_idq(gtsidq, rmsg[p].tid, k)
          /\ rn' = [rn EXCEPT ![p] = [callback |-> gtsidq[k].callback,
                                      is_expired |-> gtsidq[k].is_expired,
                                      elapsed |-> now - gtsidq[k].ATime]]
          /\ rpc' = [rpc EXCEPT ![p] = "callback"]
          /\ UNCHANGED rmsg
     \/ /\ ~ is_ID_present_idq(gtsidq, rmsg[p].tid)
        /\ Finish(p)
  /\ UNCHANGED <<sendSide, conns, env, gtsidq, rfd, rrc, reg_req_cb, calls,
                 fault>>

(* ... its callback runs without a lock... *)
recv_callback(p) ==
  /\ Running /\ rpc[p] = "callback"
  /\ calls' = Append(calls, [kind |-> "res", callback |-> rn[p].callback,
                             is_timeout |-> rn[p].is_expired,
                             elapsed |-> rn[p].elapsed])
  /\ rpc' = [rpc EXCEPT ![p] = "remove"]
  /\ UNCHANGED <<sendSide, conns, env, gtsidq, rfd, rrc, rmsg, rn, reg_req_cb,
                 fault>>

(* ... and the entry with that id, whatever it holds by now, is removed.   *)
recv_remove(p) ==
  /\ Running /\ rpc[p] = "remove" /\ qtex = NoOne
  /\ rem_id(gtsidq, rmsg[p].tid, gtsidq')
  /\ Finish(p)
  /\ UNCHANGED <<sendSide, conns, env, rfd, rrc, reg_req_cb, calls, fault>>

ReceiverStep(p) ==
  \/ recv_top(p) \/ recv_recreate(p) \/ recv_getfd(p)
  \/ recv_eof(p) \/ recv_error(p) \/ recv_close(p) \/ recv_down(p)
  \/ recv_drop(p) \/ recv_event_request(p) \/ recv_session(p)
  \/ recv_lookup(p) \/ recv_callback(p) \/ recv_remove(p)

---------------------------------------------------------------------------
(* qmanager_thread: one pass over the ids. *)
qmanager ==
  /\ Running /\ qtex = NoOne
  /\ gtsidq' = list_expired_idq(gtsidq, now)
  /\ UNCHANGED <<sendSide, receivers, conns, env, fault>>

register_req_cb ==
  /\ Running /\ reg_req_cb = 0
  /\ reg_req_cb' = 1
  /\ UNCHANGED <<sendSide, conns, env, gtsidq, rpc, rfd, rrc, rmsg, rn, calls,
                 fault>>

(* The peer closes a connection, or it breaks. *)
drop ==
  /\ Running /\ ndrop < MaxDrops
  /\ ndrop' = ndrop + 1
  /\ \E f \in Fd : /\ sock[f] = "up"
                   /\ \E how \in {"eof", "reset"} :
                        sock' = [sock EXCEPT ![f] = how]
  /\ UNCHANGED <<sendSide, receivers, gtsidq, c_fd, c_state, owner, half,
                 conntex, now, nin, nfail, fault>>

tick ==
  /\ Running /\ now < MaxTime
  /\ now' = now + 1
  /\ UNCHANGED <<sendSide, receivers, conns, gtsidq, nin, ndrop, nfail, fault>>
==============================================================================
