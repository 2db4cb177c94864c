------------------------------ MODULE ClientLib ------------------------------
(***************************************************************************)
(* The library as a whole: the threads manage() starts (a receiver and a   *)
(* sender per slot, the queue manager), the threads of the application and *)
(* the environment, interleaved.  A memory error ends the process.         *)
(***************************************************************************)
EXTENDS SendPath, RecvPath

Init ==
  /\ create_peers
  /\ gtsidq = <<>> /\ glast_con_rr = 0
  /\ gmsgq = <<>>
  /\ node = [r \in Req |-> "none"]
  /\ conn = [r \in Req |-> -1]
  /\ qtex = NoOne /\ condition_mutex = NoOne
  /\ cpc = [c \in Client |-> "idle"]
  /\ creq = [c \in Client |-> NoReq]
  /\ chd = [c \in Client |-> NoReq]
  /\ catime = [c \in Client |-> 0]
  /\ spc = [p \in Slot |-> "wait"]
  /\ snode = [p \in Slot |-> NoReq]
  /\ rpc = [p \in Slot |-> "top"]
  /\ rfd = [p \in Slot |-> NoFd]
  /\ rrc = [p \in Slot |-> 0]
  /\ rmsg = [p \in Slot |-> NoMsg]
  /\ rn = [p \in Slot |-> NoEntry]
  /\ reg_req_cb \in {0, 1}
  /\ now = 0 /\ nin = 0 /\ ndrop = 0 /\ nfail = 0
  /\ fault = "none"
  /\ accepted = <<>> /\ wire = <<>> /\ calls = <<>>

Next ==
  \/ \E c \in Client : sl_send_buf(c) \/ ClientStep(c)
  \/ \E p \in Slot : SenderStep(p) \/ spurious_wakeup(p)
  \/ \E p \in Slot : ReceiverStep(p) \/ recv_message(p)
  \/ qmanager \/ register_req_cb
  \/ drop \/ tick

Spec == Init /\ [][Next]_vars

(* Every thread that can run does.  Nothing is assumed of the application, *)
(* the peers, the clock and spurious wakeups.                              *)
Fairness ==
  /\ \A c \in Client : WF_vars(ClientStep(c))
  /\ \A p \in Slot : WF_vars(SenderStep(p)) /\ WF_vars(ReceiverStep(p))
  /\ WF_vars(qmanager)

FairSpec == Spec /\ Fairness

---------------------------------------------------------------------------
ClientPC   == {"idle", "push", "scan", "peek", "next"}
SenderPC   == {"wait", "blocked", "check", "lock", "connect", "connected",
               "pop", "header", "body"}
ReceiverPC == {"top", "lock", "connect", "connected", "getfd", "recv",
               "close", "down", "dispatch", "callback", "remove"}
Copy  == [callback : Req \cup {NoReq}, is_expired : {0, 1}, elapsed : Int]
Write == [part : {"H", "B"}, req : Req, to : Slot, after : Req \cup {NoReq}]
Call  == [kind : {"req", "res"}, callback : Req \cup {NoReq},
          is_timeout : {0, 1}, elapsed : Int]

(* Every variable keeps its type, as the C declarations of the globals in  *)
(* work.c and task.c and of the locals of the threads have it.             *)
TypeOK ==
  /\ ConnTypeOK
  /\ QueueTypeOK
  /\ qtex \in Client \cup {NoOne}
  /\ condition_mutex \in Client \cup {NoOne}
  /\ cpc \in [Client -> ClientPC]
  /\ creq \in [Client -> Req \cup {NoReq}]
  /\ chd \in [Client -> Req \cup {NoReq}]
  /\ catime \in [Client -> Nat]
  /\ spc \in [Slot -> SenderPC]
  /\ snode \in [Slot -> Req \cup {NoReq}]
  /\ rpc \in [Slot -> ReceiverPC]
  /\ rfd \in [Slot -> Fd \cup {NoFd}]
  /\ rrc \in [Slot -> {0, 1}]
  /\ rmsg \in [Slot -> MsgType]
  /\ rn \in [Slot -> Copy]
  /\ reg_req_cb \in {0, 1}
  /\ now \in 0..MaxTime /\ nin \in 0..MaxIn
  /\ ndrop \in 0..MaxDrops /\ nfail \in 0..MaxFail
  /\ fault \in {"none", "null_head", "head_freed", "push_freed", "pop_freed",
                "node_freed", "null_req_cb"}
  /\ wire \in Seq(Write)
  /\ calls \in Seq(Call)

---------------------------------------------------------------------------
(* The message queue                                                       *)

(* pop_from_msgq unlinks what it returns: every node still linked in gmsgq *)
(* is waiting to be sent, none is in the hands of a sender or freed.       *)
OnlyQueuedLinked ==
  \A i \in 1..Len(gmsgq) : node[gmsgq[i]] = "queued"

(* Neither push_to_msgq nor pop_from_msgq ever walks over a freed node.    *)
QueueOpsSafe == fault \notin {"push_freed", "pop_freed"}

(* ready_to_send never reads the head of gmsgq when it is null or freed.   *)
HeadIsThere == fault \notin {"null_head", "head_freed"}

(* No header and no body of a request is written to a socket twice,        *)
(* whatever connections are lost and recreated while it is sent.           *)
WrittenOnce ==
  \A i, j \in 1..Len(wire) :
    wire[i].part = wire[j].part /\ wire[i].req = wire[j].req => i = j

AcceptedBefore(r, s) ==
  \E a, b \in 1..Len(accepted) : a < b /\ accepted[a] = r /\ accepted[b] = s

(* The messages of one connection are written in the order in which        *)
(* push_to_msgq queued them.                                               *)
PerPeerOrder ==
  \A i, j \in 1..Len(wire) :
    /\ i < j /\ wire[i].part = wire[j].part
    /\ conn[wire[i].req] = conn[wire[j].req]
    => AcceptedBefore(wire[i].req, wire[j].req)

(* What send_worker_thread writes reaches the peer the id is pinned to.    *)
WrittenToPinned ==
  \A i \in 1..Len(wire) : wire[i].to = conn[wire[i].req]

(* Each connection carries whole frames: a header begins at a frame        *)
(* boundary and a body follows its own header.                             *)
Framed ==
  \A i \in 1..Len(wire) :
    wire[i].after = IF wire[i].part = "H" THEN NoReq ELSE wire[i].req

---------------------------------------------------------------------------
(* The ids and their callbacks                                             *)

(* The id queue never holds two entries of one id, though the test for the *)
(* id and the insertion are separate walks: they share qtex.               *)
UniqueIds ==
  \A i, j \in 1..Len(gtsidq) : gtsidq[i].id = gtsidq[j].id => i = j

(* The entry add_entry_idq or update_entry_idq left of an id is about its  *)
(* last request: the request whose callback it holds carries the id, was   *)
(* queued for the connection the id is pinned to, and push_to_msgq has     *)
(* accepted no other request of the id since.                              *)
EntryMatchesRequest ==
  \A i \in 1..Len(gtsidq) :
    /\ ReqId[gtsidq[i].callback] = gtsidq[i].id
    /\ conn[gtsidq[i].callback] = gtsidq[i].conn
    /\ Running => \E a \in 1..Len(accepted) :
         /\ accepted[a] = gtsidq[i].callback
         /\ \A b \in (a + 1)..Len(accepted) : ReqId[accepted[b]] # gtsidq[i].id

Called(r) == \E i \in 1..Len(calls) : calls[i].callback = r

Superseded(r) == \E s \in Req : ReqId[s] = ReqId[r] /\ AcceptedBefore(r, s)

(* Until its callback is called, or a later request of its id replaces it, *)
(* an accepted request has an entry in gtsidq through which a response     *)
(* finds it.                                                               *)
Answerable ==
  \A a \in 1..Len(accepted) :
    \/ Called(accepted[a]) \/ Superseded(accepted[a])
    \/ \E i \in 1..Len(gtsidq) : gtsidq[i].callback = accepted[a]

(* A response callback is told of a timeout only when more than EXPIRY has *)
(* passed since the request it answers.                                    *)
TimeoutIsLate ==
  \A i \in 1..Len(calls) :
    calls[i].kind = "res" /\ calls[i].is_timeout = 1
      => calls[i].elapsed > EXPIRY

---------------------------------------------------------------------------
(* Liveness                                                                *)

Crashed == ~ Running

Written(r) == \E i \in 1..Len(wire) : wire[i].part = "B" /\ wire[i].req = r

(* A queued request is eventually written: no wakeup of the sender that    *)
(* waits in pthread_cond_wait is lost.                                     *)
QueuedIsWritten ==
  \A r \in Req : node[r] = "queued" ~> Written(r) \/ Crashed

(* The connection of a slot is up when the table says so, its descriptor   *)
(* is a connected socket to its peer, and that is the one the receiver     *)
(* reads from.                                                             *)
Connected(p) ==
  /\ c_state[p] = 1
  /\ \E f \in Fd : c_fd[p] = f /\ sock[f] = "up" /\ owner[f] = p
  /\ rpc[p] = "recv" => rfd[p] = c_fd[p]

(* A lost connection is in the end up again for good: while nothing is     *)
(* sent the receivers alone see to it.  (A slot that create_peers could    *)
(* not connect has peer id 0, so its receiver recreates slot 0: that is    *)
(* right for slot 0 only, no other one comes up.)                          *)
ConnRecovers == <>[](Crashed \/ \A p \in Slot : Connected(p))

(* The scan of add_entry_idq, which holds qtex, finds a connection. *)
ScanEnds ==
  \A c \in Client : cpc[c] = "scan" ~> cpc[c] # "scan" \/ Crashed

(* A frame that was received is handled to the end: the lookup and the     *)
(* removal of its id get qtex.                                             *)
FrameIsHandled ==
  \A p \in Slot :
    rpc[p] \in {"dispatch", "callback", "remove"} ~> rpc[p] = "top" \/ Crashed

Overdue(r) == \E i \in 1..Len(gtsidq) :
                gtsidq[i].callback = r /\ Expired(gtsidq[i], now)
Unmarked(r) == \E i \in 1..Len(gtsidq) :
                 gtsidq[i].callback = r /\ gtsidq[i].is_expired = 0

(* qmanager_thread marks every entry whose time is over. *)
OverdueIsMarked ==
  \A r \in Req : (Overdue(r) /\ Unmarked(r)) ~> (~ Unmarked(r) \/ Crashed)
==============================================================================
