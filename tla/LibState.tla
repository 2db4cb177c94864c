------------------------------ MODULE LibState -------------------------------
(***************************************************************************)
(* What the threads of mod_tcpclient share: the connection table, the two  *)
(* queues, the three mutexes and the condition variable of work.c, and the *)
(* kernel's table of descriptors.  create_peers gives the initial table,   *)
(* recreate_conn is the operation two classes of threads have in common.   *)
(***************************************************************************)
EXTENDS Integers, Sequences, FiniteSets, IdQueue, MsgQueue, ConnTable

CONSTANTS
  NumPeers,     \* gconfig.num_peers
  Unreachable,  \* the peers create_peers could not connect to
  MaxFd,        \* the largest descriptor the process may open
  Client,       \* threads of the application that call sl_send_buf
  Req,          \* the requests they send, each one once
  ReqId,        \* request_t.id of each request
  Id,           \* the ids other than the empty string
  InMsg,        \* what a peer may send: see MsgType
  MaxTime,      \* bound: last instant of the clock
  MaxIn,        \* bound: frames received from all peers
  MaxDrops,     \* bound: connections lost
  MaxFail,      \* bound: refused attempts to reconnect
  NoOne, NoReq  \* an unlocked mutex, a null pointer to a node

Slot  == 0..(NumPeers - 1)
NoFd  == -1
Stdin == 0
Fd    == 0..MaxFd

(* A frame as recv_worker_thread sees it: its length is zero or not; the   *)
(* attributes <EVENT> and <SID> are present or not; <TYPE> is absent, 1 or *)
(* something else; <TID> is an id.                                         *)
MsgType == [len : {0, 1}, event : {0, 1},
            typ : {"none", "request", "response"}, sid : {0, 1},
            tid : Id \cup {NoId}]

ASSUME PeersAssumption == /\ NumPeers \in Nat \ {0}
                          /\ Unreachable \subseteq Slot
                          /\ MaxFd \in Nat /\ NumPeers <= MaxFd
ASSUME ReqAssumption   == /\ ReqId \in [Req -> Id \cup {NoId}]
                          /\ NoReq \notin Req /\ NoOne \notin Client
                          /\ NoId \notin Id
ASSUME EnvAssumption   == /\ InMsg \subseteq MsgType
                          /\ MaxTime \in Nat /\ MaxIn \in Nat
                          /\ MaxDrops \in Nat /\ MaxFail \in Nat

VARIABLES
  c_fd, c_state,                \* gconn_list[i].fd and .state
  sock, owner, half,            \* per descriptor: the socket, its address,
                                \* the request it is in the middle of
  gtsidq, glast_con_rr,         \* the ids and the round robin of task.c
  gmsgq, node, conn,            \* the messages; state and connection of each
  qtex, conntex, condition_mutex,
  cpc, creq, chd, catime,       \* a client: pc, request, head it read, time
  spc, snode,                   \* send_worker_thread: pc, node
  rpc, rfd, rrc, rmsg, rn,      \* recv_worker_thread: pc, fd, rc, message, n
  reg_req_cb,                   \* is the request callback registered
  now, nin, ndrop, nfail,       \* the clock and the environment's budget
  fault,                        \* the memory error that stopped the process
  accepted, wire, calls         \* history: pushes, writes, callbacks

idq      == <<gtsidq, glast_con_rr>>
msgq     == <<gmsgq, node, conn, accepted>>
queues   == <<idq, msgq>>
conns    == <<c_fd, c_state, sock, owner, half, conntex>>
clients  == <<cpc, creq, chd, catime, qtex, condition_mutex>>
senders  == <<spc, snode, wire>>
receivers == <<rpc, rfd, rrc, rmsg, rn, reg_req_cb, calls>>
env      == <<now, nin, ndrop, nfail>>
vars     == <<queues, conns, clients, senders, receivers, env, fault>>

(* A memory error ends the process: no thread takes a step after it. *)
Running == fault = "none"

(* gconn_list[i].peer_id: create_peers leaves the zero of calloc in a slot *)
(* it could not connect, and nothing writes it later.                      *)
peer_id(i) == PeerId(i, Unreachable)

(* create_peers: the table of ConnTable, and the sockets that go with it.  *)
create_peers ==
  /\ c_fd \in [Slot -> Fd]
  /\ \A i \in Slot : c_fd[i] = PeerFd(i, Unreachable)
  /\ c_state = [i \in Slot |-> PeerState(i, Unreachable)]
  /\ sock    = [f \in Fd |-> IF f = Stdin THEN "nosock"
                             ELSE IF \E i \in Slot : c_fd[i] = f THEN "up"
                             ELSE "closed"]
  /\ owner \in [Fd -> Slot]
  /\ \A f \in Fd : IF sock[f] = "up" THEN c_fd[owner[f]] = f ELSE owner[f] = 0
  /\ half    = [f \in Fd |-> NoReq]
  /\ conntex = 0

Entry == [id : Id, conn : Slot, is_expired : {0, 1}, ATime : Nat, ETime : Nat,
          callback : Req]
Node  == {"none", "new", "queued", "held", "freed"}
(* A socket: not one (stdin), free, created, connected, closed by the      *)
(* peer, broken with the error not yet reported, broken and reported.      *)
SockState == {"nosock", "closed", "unconnected", "up", "eof", "reset", "dead"}

ConnTypeOK ==
  /\ c_fd \in [Slot -> Fd \cup {NoFd}]
  /\ c_state \in [Slot -> {0, 1}]
  /\ sock \in [Fd -> SockState]
  /\ owner \in [Fd -> Slot]
  /\ half \in [Fd -> Req \cup {NoReq}]
  /\ conntex \in {0, 1}

QueueTypeOK ==
  /\ gtsidq \in Seq(Entry)
  /\ glast_con_rr \in Slot
  /\ gmsgq \in Seq(Req)
  /\ node \in [Req -> Node]
  /\ conn \in [Req -> Slot \cup {-1}]
  /\ accepted \in Seq(Req)

---------------------------------------------------------------------------
(* c->state = 0, without a lock, by the threads of slot p. *)
set_down_missing(p) == UNCHANGED c_state
set_down(p) == c_state' = [c_state EXCEPT ![p] = 0]

(* socket(): the lowest free descriptor, -1 when the process has no more.  *)
socket(f) ==
  \/ /\ f \in Fd /\ sock[f] = "closed"
     /\ \A g \in Fd : g < f => sock[g] # "closed"
  \/ f = NoFd /\ \A g \in Fd : sock[g] # "closed"

(* recreate_conn up to the call of connect.  It takes a new descriptor and *)
(* does not close the one it replaces.                                     *)
recreate_conn(pid) ==
  /\ conntex = 0
  /\ conntex' = 1
  /\ c_state' = [c_state EXCEPT ![pid] = 0]
  /\ \E f \in Fd \cup {NoFd} :
       /\ socket(f)
       /\ c_fd' = [c_fd EXCEPT ![pid] = f]
       /\ sock' = [g \in Fd |-> IF g = f THEN "unconnected" ELSE sock[g]]
       /\ owner' = [g \in Fd |-> IF g = f THEN pid ELSE owner[g]]
       /\ half' = [g \in Fd |-> IF g = f THEN NoReq ELSE half[g]]

(* connect() on the descriptor the slot has now: the peer accepts it...    *)
connect_ok(pid) ==
  \E f \in Fd : /\ c_fd[pid] = f /\ sock[f] = "unconnected"
                /\ sock' = [sock EXCEPT ![f] = "up"]
                /\ UNCHANGED <<c_fd, c_state, owner, half, conntex, nfail>>

(* ... or it fails, refused or on a bad descriptor, and the attempt ends.  *)
connect_failed(pid) ==
  /\ \/ /\ \E f \in Fd : c_fd[pid] = f /\ sock[f] = "unconnected"
        /\ nfail < MaxFail
        /\ nfail' = nfail + 1
     \/ /\ \A f \in Fd : c_fd[pid] = f => sock[f] # "unconnected"
        /\ UNCHANGED nfail
  /\ conntex' = 0
  /\ UNCHANGED <<c_fd, c_state, sock, owner, half>>

recreate_done_keeps_state(pid) ==
  /\ conntex' = 0
  /\ UNCHANGED <<c_fd, c_state, sock, owner, half>>

(* The end of a successful attempt. *)
recreate_done(pid) ==
  /\ c_state' = [c_state EXCEPT ![pid] = 1]
  /\ conntex' = 0
  /\ UNCHANGED <<c_fd, sock, owner, half>>
==============================================================================
