------------------------------- MODULE Startup -------------------------------
(***************************************************************************)
(* mod_init, manage and create_peers, step by step, against peers that may *)
(* refuse, a kernel that may run out of descriptors and threads, and an    *)
(* application that registers its request callback when it likes.          *)
(***************************************************************************)
EXTENDS ConnTable

CONSTANTS StartPeers,   \* num_peers
          StartFds      \* descriptors the process can still get

ASSUME StartAssumption == StartPeers \in Nat /\ StartFds \in Nat

VARIABLES
  ipc, si, retry, sconn,     \* mod_init: where it is, and the locals i, retry, conn
  tfd, tstate, tpid,         \* gconn_list[i].fd, .state, .peer_id
  inuse,                     \* open descriptors
  refused,                   \* slots whose first connect was refused
  receivers,                 \* slots whose recv_worker_thread runs
  registered                 \* is req_cb set

tablevars == <<tfd, tstate, tpid>>
stvars == <<ipc, si, retry, sconn, tablevars, inuse, refused, receivers, registered>>

StartSlot == 0..(StartPeers - 1)

StartInit ==
  /\ ipc = "idle" /\ si = 0 /\ retry = 0 /\ sconn = 0
  /\ tfd = [i \in StartSlot |-> 0] /\ tstate = tfd /\ tpid = tfd
  /\ inuse = {} /\ refused = {} /\ receivers = {}
  /\ registered = FALSE

register_req_cb ==
  /\ ~ registered /\ ipc \notin {"exit", "null_req_cb"}
  /\ registered' = TRUE
  /\ UNCHANGED <<ipc, si, retry, sconn, tablevars, inuse, refused, receivers>>

mod_init ==
  /\ ipc = "idle" /\ ipc' = "next" /\ si' = 0
  /\ UNCHANGED <<retry, sconn, tablevars, inuse, refused, receivers, registered>>

(* socket(): the lowest free descriptor, or none, and the process ends. *)
create_socket ==
  /\ ipc = "next" /\ si < StartPeers
  /\ retry' = 1
  /\ \/ \E f \in (1..StartFds) \ inuse :
          /\ \A g \in 1..(f - 1) : g \in inuse
          /\ sconn' = f /\ inuse' = inuse \cup {f} /\ ipc' = "connect"
     \/ ipc' = "exit" /\ UNCHANGED <<sconn, inuse>>
  /\ UNCHANGED <<si, tablevars, refused, receivers, registered>>

connect_ok ==
  /\ ipc = "connect" /\ sconn \in inuse
  /\ tfd' = [tfd EXCEPT ![si] = sconn] /\ tstate' = [tstate EXCEPT ![si] = 1]
  /\ tpid' = [tpid EXCEPT ![si] = si]
  /\ ipc' = "next" /\ si' = si + 1
  /\ UNCHANGED <<retry, sconn, inuse, refused, receivers, registered>>

no_close(conn) == inuse
close(conn) == inuse \ {conn}

retry_again(r) == r
fewer(r) == r - 1

(* The first refusal closes the descriptor and connects it again. *)
connect_retry ==
  /\ ipc = "connect" /\ retry = 1
  /\ refused' = refused \cup {si}
  /\ inuse' = close(sconn) /\ retry' = fewer(retry)
  /\ UNCHANGED <<ipc, si, sconn, tablevars, receivers, registered>>

connect_gives_up ==
  /\ ipc = "connect" /\ retry = 0
  /\ ipc' = "next" /\ si' = si + 1
  /\ UNCHANGED <<retry, sconn, tablevars, inuse, refused, receivers, registered>>

(* manage: the queue manager, then two threads for each slot. *)
create_qmanager ==
  /\ ipc = "next" /\ si = StartPeers
  /\ ipc' \in {"recv", "exit"} /\ si' = 0
  /\ UNCHANGED <<retry, sconn, tablevars, inuse, refused, receivers, registered>>

create_receiver ==
  /\ ipc = "recv" /\ si < StartPeers
  /\ \/ ipc' = "send" /\ receivers' = receivers \cup {si}
     \/ ipc' = "exit" /\ UNCHANGED receivers
  /\ UNCHANGED <<si, retry, sconn, tablevars, inuse, refused, registered>>

create_sender ==
  /\ ipc = "send"
  /\ \/ ipc' = "recv" /\ si' = si + 1
     \/ ipc' = "exit" /\ UNCHANGED si
  /\ UNCHANGED <<retry, sconn, tablevars, inuse, refused, receivers, registered>>

init_returns ==
  /\ ipc = "recv" /\ si = StartPeers
  /\ ipc' = "ready"
  /\ UNCHANGED <<si, retry, sconn, tablevars, inuse, refused, receivers, registered>>

(* A request from a peer: its receiver calls req_cb without a test. *)
receive_request ==
  /\ ipc \notin {"exit", "null_req_cb"}
  /\ \E p \in receivers : tstate[p] = 1
  /\ ~ registered /\ ipc' = "null_req_cb"
  /\ UNCHANGED <<si, retry, sconn, tablevars, inuse, refused, receivers, registered>>

StartStep ==
  \/ create_socket \/ connect_ok \/ connect_retry \/ connect_gives_up
  \/ create_qmanager \/ create_receiver \/ create_sender \/ init_returns

StartNext == register_req_cb \/ mod_init \/ StartStep \/ receive_request

StartSpec == StartInit /\ [][StartNext]_stvars

---------------------------------------------------------------------------
(* When the first thread starts, the table of create_peers is the one the  *)
(* model of the running library begins with, for the set of slots refused  *)
(* at first: the second connect, on a closed descriptor, rescues none, and *)
(* no descriptor is in two slots or leaked.                                *)
TableAsAssumed ==
  ipc \in {"recv", "send", "ready"} =>
    /\ \A i \in StartSlot : /\ tfd[i] = PeerFd(i, refused)
                            /\ tstate[i] = PeerState(i, refused)
                            /\ tpid[i] = PeerId(i, refused)
    /\ inuse = {tfd[i] : i \in StartSlot \ refused}

(* mod_init returns or ends the process: with every peer refusing, too. *)
InitEnds == ipc # "idle" ~> ipc \in {"ready", "exit", "null_req_cb"}
==============================================================================
