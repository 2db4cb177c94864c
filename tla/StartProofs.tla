----------------------------- MODULE StartProofs -----------------------------
(***************************************************************************)
(* What create_peers and mod_init guarantee, for any number of peers and   *)
(* of descriptors and any set of refusals: the table the threads start     *)
(* with.  And what the stub calls mod_init with, for files of any length.  *)
(***************************************************************************)
EXTENDS Startup, Config, FiniteSetTheorems, SequenceTheorems, TLAPS

(* The slots below k that got a connection, and how many they are. *)
Reached(k) == (0..(k - 1)) \ refused
Count(k) == Cardinality(Reached(k))

(* The locals of mod_init and the table have the types of their C          *)
(* declarations.                                                           *)
StartTypeOK ==
  /\ ipc \in {"idle", "next", "connect", "recv", "send", "ready", "exit", "null_req_cb"}
  /\ si \in 0..StartPeers /\ retry \in {0, 1}
  /\ ipc \in {"connect", "send"} => si < StartPeers
  /\ tfd \in [StartSlot -> Nat] /\ tstate \in [StartSlot -> {0, 1}]
  /\ tpid \in [StartSlot -> StartSlot]
  /\ refused \subseteq StartSlot
  /\ registered \in BOOLEAN

(* Slots below si are as ConnTable describes them, the others are zero. *)
TableSoFar ==
  \A s \in StartSlot :
    /\ tfd[s] = IF s < si THEN PeerFd(s, refused) ELSE 0
    /\ tstate[s] = IF s < si THEN PeerState(s, refused) ELSE 0
    /\ tpid[s] = IF s < si THEN PeerId(s, refused) ELSE 0

(* create_peers uses the descriptors without a gap, one for each slot that *)
(* it has connected, and one more while it connects.                       *)
FdsSoFar ==
  /\ {tfd[s] : s \in Reached(si)} = 1..Count(si)
  /\ ipc # "connect" => inuse = 1..Count(si)
  /\ ipc = "connect" => /\ sconn = Count(si) + 1
                        /\ inuse = 1..(Count(si) + retry)
                        /\ si \in refused <=> retry = 0

Creating ==
  ipc \in {"idle", "next", "connect"} =>
    /\ TableSoFar /\ FdsSoFar
    /\ \A s \in refused : s < si \/ (s = si /\ ipc = "connect")
    /\ ipc = "idle" => si = 0

StartInv == StartTypeOK /\ Creating /\ TableAsAssumed

---------------------------------------------------------------------------
(* How many slots below k are connected: zero at first, and one more with  *)
(* each slot that is not refused.                                          *)
LEMMA CountSteps ==
  /\ Count(0) = 0
  /\ \A k \in Nat :
       /\ IsFiniteSet(Reached(k)) /\ Count(k) \in Nat
       /\ k \in refused => Reached(k + 1) = Reached(k) /\ Count(k + 1) = Count(k)
       /\ k \notin refused => /\ Reached(k + 1) = Reached(k) \cup {k}
                              /\ Count(k + 1) = Count(k) + 1
<1>1. Count(0) = 0
  <2>1. Reached(0) = {}
    BY DEF Reached
  <2> QED BY <2>1, FS_EmptySet DEF Count
<1>2. ASSUME NEW k \in Nat
      PROVE  /\ IsFiniteSet(Reached(k)) /\ Count(k) \in Nat
             /\ k \in refused => Reached(k + 1) = Reached(k) /\ Count(k + 1) = Count(k)
             /\ k \notin refused => /\ Reached(k + 1) = Reached(k) \cup {k}
                                    /\ Count(k + 1) = Count(k) + 1
  <2>1. IsFiniteSet(0..(k - 1))
    BY FS_Interval
  <2>2. IsFiniteSet(Reached(k))
    BY <2>1, FS_Difference DEF Reached
  <2>3. Count(k) \in Nat
    BY <2>2, FS_CardinalityType DEF Count
  <2>4. ASSUME k \in refused PROVE Reached(k + 1) = Reached(k)
    BY <2>4 DEF Reached
  <2>5. ASSUME k \notin refused PROVE Reached(k + 1) = Reached(k) \cup {k}
    BY <2>5 DEF Reached
  <2>6. k \notin Reached(k)
    BY DEF Reached
  <2>7. ASSUME k \notin refused PROVE Count(k + 1) = Count(k) + 1
    BY <2>2, <2>5, <2>6, <2>7, FS_AddElement DEF Count
  <2> QED BY <2>2, <2>3, <2>4, <2>5, <2>7 DEF Count
<1> QED BY <1>1, <1>2

LEMMA OneMore == \A n \in Nat : (1..n) \cup {n + 1} = 1..(n + 1)
OBVIOUS

(* PeerFd of ConnTable counts the same slots. *)
LEMMA PeerFdCounts ==
  ASSUME NEW s \in Nat
  PROVE  PeerFd(s, refused) = IF s \in refused THEN 0 ELSE Count(s + 1)
BY DEF PeerFd, Count, Reached

---------------------------------------------------------------------------
(* mod_init, manage and the application's calls keep StartInv, action by   *)
(* action.                                                                 *)

LEMMA StartBegins == StartInit => StartInv
<1> SUFFICES ASSUME StartInit PROVE StartInv
  OBVIOUS
<1> USE StartAssumption DEF StartInit, StartSlot
<1>1. StartTypeOK
  <2>1. tpid \in [StartSlot -> StartSlot]
    OBVIOUS
  <2>2. tfd \in [StartSlot -> Nat] /\ tstate \in [StartSlot -> {0, 1}]
    OBVIOUS
  <2>3. registered \in BOOLEAN
    OBVIOUS
  <2>4. si \in 0..StartPeers /\ retry \in {0, 1} /\ refused \subseteq StartSlot
    OBVIOUS
  <2>5. ipc = "idle"
    OBVIOUS
  <2> HIDE DEF StartInit, StartSlot
  <2> QED BY <2>1, <2>2, <2>3, <2>4, <2>5 DEF StartTypeOK
<1>2. TableSoFar
  BY DEF TableSoFar
<1>3. FdsSoFar
  <2>1. Reached(0) = {} /\ Count(0) = 0
    BY CountSteps DEF Reached
  <2> QED BY <2>1 DEF FdsSoFar
<1> QED BY <1>1, <1>2, <1>3 DEF StartInv, Creating, TableAsAssumed

(* What only the calls of the application and of manage do leaves the      *)
(* table alone.                                                            *)
LEMMA TableKept ==
  ASSUME StartInv, UNCHANGED <<tablevars, inuse, refused>>,
         ipc \in {"recv", "send", "ready"} \/ ipc' \in {"exit", "null_req_cb"},
         ipc' \in {"recv", "send", "ready", "exit", "null_req_cb"}
  PROVE  Creating' /\ TableAsAssumed'
BY DEF StartInv, Creating, TableAsAssumed, tablevars

LEMMA RegisterKeeps == StartInv /\ register_req_cb => StartInv'
<1> SUFFICES ASSUME StartInv, register_req_cb PROVE StartInv'
  OBVIOUS
<1> USE DEF StartInv, register_req_cb, tablevars
<1>1. StartTypeOK'
  BY DEF StartTypeOK
<1>2. Creating'
  <2>1. Reached(si)' = Reached(si) /\ Count(si)' = Count(si)
    BY DEF Reached, Count
  <2>2. TableSoFar => TableSoFar'
    BY DEF TableSoFar
  <2>3. FdsSoFar => FdsSoFar'
    BY <2>1 DEF FdsSoFar
  <2> QED BY <2>2, <2>3 DEF Creating
<1> QED BY <1>1, <1>2 DEF TableAsAssumed

LEMMA ModInitKeeps == StartInv /\ mod_init => StartInv'
<1> SUFFICES ASSUME StartInv, mod_init PROVE StartInv'
  OBVIOUS
<1> USE DEF StartInv, mod_init, tablevars
<1>1. StartTypeOK'
  BY StartAssumption DEF StartTypeOK
<1>2. Creating'
  BY DEF Creating, TableSoFar, FdsSoFar, Count, Reached
<1> QED BY <1>1, <1>2 DEF TableAsAssumed

(* The lowest free descriptor is the one behind those in use. *)
LEMMA SocketKeeps == StartInv /\ create_socket => StartInv'
<1> SUFFICES ASSUME StartInv, create_socket PROVE StartInv'
  OBVIOUS
<1> USE DEF StartInv, create_socket, tablevars
<1>1. StartTypeOK' /\ TableAsAssumed'
  BY StartAssumption DEF StartTypeOK, TableAsAssumed
<1>2. CASE ipc' = "exit"
  BY <1>1, <1>2 DEF Creating
<1>3. CASE ipc' = "connect"
  <2>1. TableSoFar' /\ Count(si)' = Count(si) /\ Reached(si)' = Reached(si)
    BY <1>3 DEF Creating, TableSoFar, Count, Reached
  <2>2. si \notin refused /\ \A s \in refused : s < si
    BY StartAssumption DEF Creating, StartTypeOK
  <2>3. inuse = 1..Count(si) /\ {tfd[s] : s \in Reached(si)} = 1..Count(si)
    BY DEF Creating, FdsSoFar
  <2>4. Count(si) \in Nat
    BY CountSteps, StartAssumption DEF StartTypeOK
  <2>5. PICK f \in (1..StartFds) \ inuse :
          /\ \A g \in 1..(f - 1) : g \in inuse
          /\ sconn' = f /\ inuse' = inuse \cup {f}
    BY <1>3
  <2>6. f = Count(si) + 1
    <3>1. f > Count(si)
      BY <2>3, <2>4, <2>5, StartAssumption
    <3>2. f - 1 \in inuse \/ f = 1
      BY <2>5, StartAssumption
    <3> QED BY <3>1, <3>2, <2>3, <2>4, StartAssumption
  <2>7. inuse' = 1..(Count(si) + 1)
    BY <2>3, <2>4, <2>5, <2>6
  <2>8. FdsSoFar'
    BY <1>3, <2>1, <2>2, <2>3, <2>5, <2>6, <2>7 DEF FdsSoFar
  <2>9. Creating'
    BY <1>3, <2>1, <2>2, <2>8 DEF Creating
  <2> QED BY <1>1, <2>9
<1> QED BY <1>2, <1>3

LEMMA ConnectOkKeeps == StartInv /\ connect_ok => StartInv'
<1> SUFFICES ASSUME StartInv, connect_ok PROVE StartInv'
  OBVIOUS
<1> USE DEF StartInv, connect_ok
<1>1. si \in StartSlot /\ si \in Nat /\ StartPeers \in Nat
  BY StartAssumption DEF StartTypeOK, StartSlot
<1>2. Count(si) \in Nat
  BY <1>1, CountSteps
<1>3. /\ sconn = Count(si) + 1 /\ inuse = 1..(Count(si) + retry)
      /\ si \in refused <=> retry = 0
      /\ {tfd[s] : s \in Reached(si)} = 1..Count(si)
      /\ TableSoFar
      /\ \A s \in refused : s <= si
  BY <1>1 DEF Creating, FdsSoFar, StartTypeOK, StartSlot
<1>4. retry = 1 /\ si \notin refused
  BY <1>2, <1>3 DEF StartTypeOK
<1>5. /\ Reached(si + 1) = Reached(si) \cup {si} /\ Count(si + 1) = Count(si) + 1
      /\ Reached(si)' = Reached(si + 1) /\ Count(si)' = Count(si + 1)
  BY <1>1, <1>4, CountSteps DEF Reached, Count
<1>6. StartTypeOK' /\ TableAsAssumed'
  BY <1>1, <1>2, <1>3 DEF StartTypeOK, TableAsAssumed
<1>7. TableSoFar'
  <2> SUFFICES ASSUME NEW s \in StartSlot
               PROVE  /\ tfd'[s] = IF s < si + 1 THEN PeerFd(s, refused) ELSE 0
                      /\ tstate'[s] = IF s < si + 1 THEN PeerState(s, refused) ELSE 0
                      /\ tpid'[s] = IF s < si + 1 THEN PeerId(s, refused) ELSE 0
    BY DEF TableSoFar, PeerFd, PeerState, PeerId
  <2>1. CASE s = si
    <3>1. PeerFd(s, refused) = sconn
      BY <1>1, <1>3, <1>4, <1>5, <2>1, PeerFdCounts
    <3> QED BY <1>1, <1>4, <2>1, <3>1 DEF StartTypeOK, PeerState, PeerId
  <2>2. CASE s # si
    <3>1. s < si + 1 <=> s < si
      BY <1>1, <2>2 DEF StartSlot
    <3>2. tfd'[s] = tfd[s] /\ tstate'[s] = tstate[s] /\ tpid'[s] = tpid[s]
      BY <2>2 DEF StartTypeOK
    <3> QED BY <1>3, <3>1, <3>2 DEF TableSoFar
  <2> QED BY <2>1, <2>2
<1>8. FdsSoFar'
  <2>1. \A s \in Reached(si) : s \in StartSlot /\ s # si
    BY <1>1 DEF Reached, StartSlot
  <2>2. \A s \in Reached(si) : tfd'[s] = tfd[s]
    BY <2>1 DEF StartTypeOK
  <2>3. tfd'[si] = Count(si) + 1
    BY <1>1, <1>3 DEF StartTypeOK
  <2>4. {tfd'[s] : s \in Reached(si) \cup {si}} = {tfd[s] : s \in Reached(si)} \cup {Count(si) + 1}
    BY <2>2, <2>3
  <2>5. {tfd'[s] : s \in Reached(si) \cup {si}} = 1..(Count(si) + 1)
    <3>1. (1..Count(si)) \cup {Count(si) + 1} = 1..(Count(si) + 1)
      BY <1>2, OneMore
    <3>2. {tfd[s] : s \in Reached(si)} = 1..Count(si)
      BY <1>3
    <3> QED BY <2>4, <3>1, <3>2, Zenon
  <2> QED BY <1>3, <1>4, <1>5, <2>5 DEF FdsSoFar
<1>9. Creating'
  BY <1>1, <1>3, <1>4, <1>7, <1>8 DEF Creating, StartTypeOK, StartSlot
<1> QED BY <1>6, <1>9

(* The refused descriptor is closed, and none is taken in its place. *)
LEMMA RetryKeeps == StartInv /\ connect_retry => StartInv'
<1> SUFFICES ASSUME StartInv, connect_retry PROVE StartInv'
  OBVIOUS
<1> USE DEF StartInv, connect_retry, close, fewer, tablevars
<1>1. si \in StartSlot /\ si \in Nat
  BY StartAssumption DEF StartTypeOK, StartSlot
<1>2. Count(si) \in Nat
  BY <1>1, CountSteps
<1>3. /\ sconn = Count(si) + 1 /\ inuse = 1..(Count(si) + 1)
      /\ {tfd[s] : s \in Reached(si)} = 1..Count(si)
      /\ TableSoFar
      /\ \A s \in refused : s <= si
  BY <1>1 DEF Creating, FdsSoFar, StartTypeOK, StartSlot
<1>4. Reached(si)' = Reached(si) /\ Count(si)' = Count(si)
  <2>1. Reached(si)' = Reached(si)
    BY <1>1 DEF Reached
  <2> QED BY <2>1 DEF Count
<1>5. StartTypeOK' /\ TableAsAssumed'
  BY <1>1 DEF StartTypeOK, TableAsAssumed
<1>6. TableSoFar'
  <2> SUFFICES ASSUME NEW s \in StartSlot, s < si
               PROVE  /\ PeerFd(s, refused)' = PeerFd(s, refused)
                      /\ PeerState(s, refused)' = PeerState(s, refused)
                      /\ PeerId(s, refused)' = PeerId(s, refused)
    BY <1>3 DEF TableSoFar
  <2>1. (0..s) \ refused' = (0..s) \ refused
    BY <1>1 DEF StartSlot
  <2>2. s \in refused' <=> s \in refused
    BY <1>1 DEF StartSlot
  <2> QED BY <2>1, <2>2 DEF PeerFd, PeerState, PeerId
<1>7. FdsSoFar'
  <2>1. inuse' = 1..Count(si)
    BY <1>2, <1>3
  <2> QED BY <1>2, <1>3, <1>4, <2>1 DEF FdsSoFar
<1>8. Creating'
  BY <1>1, <1>3, <1>6, <1>7 DEF Creating, StartTypeOK, StartSlot
<1> QED BY <1>5, <1>8

LEMMA GivesUpKeeps == StartInv /\ connect_gives_up => StartInv'
<1> SUFFICES ASSUME StartInv, connect_gives_up PROVE StartInv'
  OBVIOUS
<1> USE DEF StartInv, connect_gives_up, tablevars
<1>1. si \in StartSlot /\ si \in Nat /\ StartPeers \in Nat
  BY StartAssumption DEF StartTypeOK, StartSlot
<1>2. /\ inuse = 1..(Count(si) + 0) /\ si \in refused
      /\ {tfd[s] : s \in Reached(si)} = 1..Count(si)
      /\ TableSoFar
      /\ \A s \in refused : s <= si
  BY <1>1 DEF Creating, FdsSoFar, StartTypeOK, StartSlot
<1>3. /\ Count(si) \in Nat
      /\ Reached(si)' = Reached(si) /\ Count(si)' = Count(si)
  BY <1>1, <1>2, CountSteps DEF Reached, Count
<1>4. StartTypeOK' /\ TableAsAssumed'
  BY <1>1 DEF StartTypeOK, TableAsAssumed
<1>5. TableSoFar'
  <2> SUFFICES ASSUME NEW s \in StartSlot
               PROVE  /\ tfd[s] = IF s < si + 1 THEN PeerFd(s, refused) ELSE 0
                      /\ tstate[s] = IF s < si + 1 THEN PeerState(s, refused) ELSE 0
                      /\ tpid[s] = IF s < si + 1 THEN PeerId(s, refused) ELSE 0
    BY DEF TableSoFar
  <2>1. CASE s = si
    BY <1>1, <1>2, <2>1 DEF TableSoFar, PeerFd, PeerState, PeerId
  <2>2. CASE s # si
    <3>1. s < si + 1 <=> s < si
      BY <1>1, <2>2 DEF StartSlot
    <3> QED BY <1>2, <3>1 DEF TableSoFar
  <2> QED BY <2>1, <2>2
<1>6. FdsSoFar'
  BY <1>2, <1>3 DEF FdsSoFar
<1>7. Creating'
  BY <1>1, <1>2, <1>5, <1>6 DEF Creating, StartTypeOK, StartSlot
<1> QED BY <1>4, <1>7

(* With the last slot the table is the one of ConnTable. *)
LEMMA QmanagerKeeps == StartInv /\ create_qmanager => StartInv'
<1> SUFFICES ASSUME StartInv, create_qmanager PROVE StartInv'
  OBVIOUS
<1> USE DEF StartInv, create_qmanager, tablevars
<1>1. StartTypeOK' /\ Creating'
  BY StartAssumption DEF StartTypeOK, Creating
<1>2. TableSoFar /\ FdsSoFar /\ si = StartPeers
  BY DEF Creating
<1>3. Reached(si) = StartSlot \ refused
  BY <1>2 DEF Reached, StartSlot
<1>4. inuse = {tfd[s] : s \in StartSlot \ refused}
  BY <1>2, <1>3 DEF FdsSoFar
<1>5. \A s \in StartSlot : /\ tfd[s] = PeerFd(s, refused)
                           /\ tstate[s] = PeerState(s, refused)
                           /\ tpid[s] = PeerId(s, refused)
  BY <1>2, StartAssumption DEF TableSoFar, StartSlot
<1> QED BY <1>1, <1>4, <1>5 DEF TableAsAssumed

LEMMA ThreadsKeep ==
  StartInv /\ (create_receiver \/ create_sender \/ init_returns \/ receive_request)
    => StartInv'
<1> SUFFICES ASSUME StartInv, create_receiver \/ create_sender \/ init_returns \/ receive_request
             PROVE  StartInv'
  OBVIOUS
<1> USE DEF create_receiver, create_sender, init_returns, receive_request
<1>1. StartTypeOK'
  BY StartAssumption DEF StartInv, StartTypeOK, tablevars
<1>2. Creating' /\ TableAsAssumed'
  <2>1. /\ UNCHANGED <<tablevars, inuse, refused>>
        /\ ipc \in {"recv", "send", "ready"} \/ ipc' \in {"exit", "null_req_cb"}
        /\ ipc' \in {"recv", "send", "ready", "exit", "null_req_cb"}
    OBVIOUS
  <2> QED BY <2>1, TableKept
<1> QED BY <1>1, <1>2 DEF StartInv

LEMMA StartIsInductive == StartSpec => []StartInv
<1>1. StartInv /\ [StartNext]_stvars => StartInv'
  <2> SUFFICES ASSUME StartInv, [StartNext]_stvars PROVE StartInv'
    OBVIOUS
  <2>1. CASE UNCHANGED stvars
    <3>1. Reached(si)' = Reached(si) /\ Count(si)' = Count(si)
      BY <2>1 DEF stvars, tablevars, Reached, Count
    <3> USE <2>1 DEF StartInv, stvars, tablevars
    <3>2. Creating'
      <4>1. (TableSoFar => TableSoFar') /\ (FdsSoFar => FdsSoFar')
        BY <3>1 DEF TableSoFar, FdsSoFar
      <4> QED BY <4>1 DEF Creating
    <3> QED BY <3>2 DEF StartTypeOK, TableAsAssumed
  <2>2. CASE StartNext
    BY <2>2, RegisterKeeps, ModInitKeeps, SocketKeeps, ConnectOkKeeps, RetryKeeps,
       GivesUpKeeps, QmanagerKeeps, ThreadsKeep DEF StartNext, StartStep
  <2> QED BY <2>1, <2>2
<1> QED BY StartBegins, <1>1, PTL DEF StartSpec

---------------------------------------------------------------------------
(* When manage starts the first thread, the table of create_peers is the   *)
(* one the model of the running library begins with, for any number of     *)
(* peers, of descriptors and of refusals, and no descriptor is leaked.     *)
THEOREM TableIsAsAssumed == StartSpec => []TableAsAssumed
<1>1. StartInv => TableAsAssumed
  BY DEF StartInv
<1> QED BY StartIsInductive, <1>1, PTL

---------------------------------------------------------------------------
(* The file is understood as it was meant                                  *)

(* GW line g is the only one and has no empty part. *)
Plain(g) == /\ GWLines = {g}
            /\ \A j \in 1..Len(file[g].parts) : ~ file[g].parts[j].empty

PeerOf(p) == [ip |-> p.ip, port |-> p.port]

(* ConfigMeant speaks of the end.  On the way: what was read is good, the  *)
(* last WT line before this one has set the number of workers, and the     *)
(* table holds the parts before the one that is next.                      *)
ConfigTypeOK ==
  /\ file \in Seq(TextLine) /\ ln \in Nat \ {0} /\ ti \in Nat \ {0} /\ ci \in Nat
  /\ cfpc \in {"read", "parts", "mod_init", "invalid", "crashed"}
  /\ cfpc = "parts" => ln \in GWLines
WorkersSoFar ==
  cfpc \in {"read", "parts", "mod_init"} =>
    /\ \A k \in WTLines : k < ln => file[k].eqs = 1 /\ file[k].val \in 0..32
    /\ (\E k \in WTLines : k < ln) =>
         \E w \in WTLines : /\ w < ln /\ \A v \in WTLines : v < ln => v <= w
                            /\ num_worker_threads = file[w].val
PeersSoFar(g, n) ==
  /\ num_peers = Len(file[g].parts) /\ file[g].eqs = 1
  /\ DOMAIN peers = 0..(num_peers - 1)
  /\ \A j \in 1..Len(file[g].parts) : j < n =>
       /\ GoodPart(file[g].parts[j])
       /\ peers[j - 1] = PeerOf(file[g].parts[j])
GatewaysSoFar(g) ==
  /\ ~ overrun
  /\ cfpc = "read" /\ ln <= g => ci = 0
  /\ cfpc = "parts" => ln = g /\ ci = ti - 1 /\ PeersSoFar(g, ti)
  /\ cfpc \in {"read", "mod_init"} /\ ln > g
       => PeersSoFar(g, Len(file[g].parts) + 1)
  /\ cfpc = "mod_init" => ln > Len(file)
  /\ cfpc \in {"invalid", "crashed"} => ~ GoodFile

ConfigInv == /\ ConfigTypeOK /\ WorkersSoFar
             /\ \A g \in GWLines : Plain(g) => GatewaysSoFar(g)

LEMMA LineTypes ==
  ASSUME ConfigTypeOK
  PROVE  /\ Len(file) \in Nat
         /\ \A k \in 1..Len(file) :
              /\ file[k] \in TextLine /\ file[k].parts \in Seq(Part)
              /\ Len(file[k].parts) \in Nat
              /\ \A j \in 1..Len(file[k].parts) : file[k].parts[j] \in Part
<1>1. file \in Seq(TextLine) /\ Len(file) \in Nat
  BY LenProperties DEF ConfigTypeOK
<1>2. ASSUME NEW k \in 1..Len(file)
      PROVE  file[k] \in TextLine /\ file[k].parts \in Seq(Part)
  <2>1. file[k] \in TextLine
    BY <1>1, ElementOfSeq
  <2> QED BY <2>1 DEF TextLine
<1> QED BY <1>1, <1>2, LenProperties, ElementOfSeq

(* A number is not a missing text. *)
LEMMA NumberIsText == \A x \in Int : x # NoText
BY ConfigAssumption

(* validateIpPort lets through what is good, and nothing else. *)
LEMMA PartChecked ==
  ASSUME NEW p \in Part, ~ p.empty
  PROVE  /\ validateIpPort(p) \in {"parts", "invalid", "crashed"}
         /\ validateIpPort(p) = "parts" <=> GoodPart(p)
         /\ GoodPart(p) => p.colons = 1 /\ p.ip # NoText
<1> DEFINE port == p.port
           ip == p.ip
<1> HIDE DEF port, ip
<1>1. port \in 0..MaxPort => port # NoText
  <2>1. MaxPort \in Nat
    BY DEF MaxPort
  <2> QED BY <2>1, NumberIsText
<1>2. chkPort(port) <=> port \in 0..MaxPort
  BY DEF chkPort
<1>3. chkIP(ip) <=> Len(ip) = 4 /\ \A k \in 1..4 : ip[k] \in 0..255
  BY DEF chkIP
<1>4. GoodPart(p) <=> /\ p.colons = 1 /\ ip # NoText /\ chkIP(ip)
                      /\ port # NoText /\ chkPort(port)
  <2>1. GoodPart(p) <=> /\ p.colons = 1 /\ ip # NoText
                        /\ Len(ip) = 4 /\ \A k \in 1..4 : ip[k] \in 0..255
                        /\ port \in 0..MaxPort
    BY DEF GoodPart, port, ip
  <2> QED BY <1>1, <1>2, <1>3, <2>1
<1>5. validateIpPort(p) = IF p.colons # 1 THEN "invalid"
                          ELSE IF ip = NoText THEN "crashed"
                          ELSE IF ~ chkIP(ip) THEN "invalid"
                          ELSE IF port = NoText THEN "crashed"
                          ELSE IF ~ chkPort(port) THEN "invalid"
                          ELSE "parts"
  BY DEF validateIpPort, port, ip
<1>6. GoodPart(p) => p.ip # NoText
  BY <1>4 DEF ip
<1> QED BY <1>4, <1>5, <1>6

LEMMA ConfigTypes == ConfigTypeOK /\ [ConfigNext]_cfvars => ConfigTypeOK'
<1> SUFFICES ASSUME ConfigTypeOK, [ConfigNext]_cfvars PROVE ConfigTypeOK'
  OBVIOUS
<1> USE DEF ConfigTypeOK
<1>1. CASE UNCHANGED cfvars
  BY <1>1 DEF cfvars, GWLines
<1>2. CASE read_gw \/ skip_empty \/ gw_done \/ read_wt \/ read_other \/ end_of_file
  BY <1>2 DEF read_gw, skip_empty, gw_done, read_wt, read_other, end_of_file,
                 Reading, Line, GWLines
<1>3. CASE read_part
  BY <1>3 DEF read_part, validateIpPort, GWLines
<1> QED BY <1>1, <1>2, <1>3 DEF ConfigNext

LEMMA WorkersStep == ConfigTypeOK /\ WorkersSoFar /\ [ConfigNext]_cfvars => WorkersSoFar'
<1> SUFFICES ASSUME ConfigTypeOK, WorkersSoFar, [ConfigNext]_cfvars
             PROVE  WorkersSoFar'
  OBVIOUS
<1>0. ln \in Nat /\ WTLines' = WTLines /\ UNCHANGED file
  BY DEF ConfigTypeOK, cfvars, ConfigNext, read_gw, skip_empty, gw_done, read_wt,
         read_other, end_of_file, read_part, WTLines
<1>1. \A k \in WTLines : k \in Nat
  BY LineTypes DEF WTLines
<1>2. CASE /\ UNCHANGED <<ln, num_worker_threads>>
           /\ cfpc' \in {"read", "parts", "mod_init"} => cfpc \in {"read", "parts", "mod_init"}
  BY <1>0, <1>2 DEF WorkersSoFar
<1>3. ASSUME ln \notin WTLines, ln' = ln + 1, cfpc \in {"read", "parts"},
             UNCHANGED num_worker_threads
      PROVE  WorkersSoFar'
  <2>1. \A k \in WTLines : k < ln' <=> k < ln
    BY <1>0, <1>1, <1>3
  <2> QED BY <1>0, <1>3, <2>1 DEF WorkersSoFar
<1>4. CASE read_wt
  <2>1. CASE cfpc' # "read"
    BY <1>4, <2>1 DEF read_wt, WorkersSoFar
  <2>2. CASE cfpc' = "read"
    <3>1. /\ ln \in WTLines /\ ln' = ln + 1 /\ cfpc = "read"
          /\ file[ln].eqs = 1 /\ file[ln].val \in 0..32
          /\ num_worker_threads' = file[ln].val
      BY <1>0, <1>4, <2>2 DEF read_wt, Reading, Line, WTLines, chkWT, ConfigTypeOK
    <3>2. ASSUME NEW k \in WTLines PROVE k < ln' <=> k < ln \/ k = ln
      <4>1. k \in Nat
        BY <1>1
      <4> QED BY <1>0, <3>1, <4>1
    <3>3. \A k \in WTLines : k < ln' => file[k].eqs = 1 /\ file[k].val \in 0..32
      BY <3>1, <3>2 DEF WorkersSoFar
    <3>4. ln < ln' /\ \A v \in WTLines : v < ln' => v <= ln
      BY <1>0, <1>1, <3>1, <3>2
    <3> QED BY <1>0, <3>1, <3>3, <3>4 DEF WorkersSoFar
  <2> QED BY <2>1, <2>2
<1>5. CASE read_other \/ gw_done
  <2>1. CASE read_other
    BY <1>3, <2>1 DEF read_other, Reading, Line, WTLines
  <2>2. CASE gw_done
    BY <1>3, <2>2 DEF gw_done, ConfigTypeOK, GWLines, WTLines
  <2> QED BY <1>5, <2>1, <2>2
<1>6. CASE ~ (read_wt \/ read_other \/ gw_done)
  BY <1>2, <1>6 DEF cfvars, ConfigNext, read_gw, skip_empty, read_part,
                    end_of_file, Reading
<1> QED BY <1>4, <1>5, <1>6


(* The file does not change, and neither does what it says. *)
LEMMA SameFile ==
  ASSUME [ConfigNext]_cfvars
  PROVE  /\ UNCHANGED <<file, GWLines, WTLines, GoodFile>>
         /\ \A g : Plain(g)' <=> Plain(g)
<1>1. UNCHANGED file
  BY DEF cfvars, ConfigNext, read_gw, skip_empty, gw_done, read_wt, read_other,
         end_of_file, read_part
<1>2. UNCHANGED <<GWLines, WTLines>>
  BY <1>1 DEF GWLines, WTLines
<1> QED BY <1>1, <1>2 DEF GoodFile, Plain

(* What is read of the one GW line. *)
LEMMA GatewayStep ==
  ASSUME ConfigTypeOK, WorkersSoFar, [ConfigNext]_cfvars, NEW g \in GWLines,
         Plain(g), GatewaysSoFar(g)
  PROVE  GatewaysSoFar(g)'
<1> DEFINE pts == file[g].parts
<1>0. /\ UNCHANGED <<file, GoodFile>> /\ g \in 1..Len(file) /\ file[g].gw
      /\ ln \in Nat \ {0} /\ ti \in Nat \ {0} /\ ci \in Nat /\ Len(file) \in Nat
      /\ Len(pts) \in Nat /\ \A j \in 1..Len(pts) : pts[j] \in Part /\ ~ pts[j].empty
      /\ \A k \in 1..Len(file) : file[k].gw => k = g
  BY SameFile, LineTypes DEF GWLines, Plain, ConfigTypeOK
<1>1. ASSUME UNCHANGED <<cfpc, ln, ti, ci, num_peers, peers, overrun>>
      PROVE  GatewaysSoFar(g)'
  BY <1>0, <1>1 DEF GatewaysSoFar, PeersSoFar
<1>2. CASE read_gw
  <2>1. /\ cfpc = "read" /\ ln = g /\ ci = 0 /\ UNCHANGED <<ln, ci, overrun>>
        /\ num_peers' = Len(pts) /\ ti' = 1
        /\ peers' = [k \in 0..(num_peers' - 1) |-> Unset]
        /\ cfpc' = IF file[g].eqs = 1 THEN "parts" ELSE "invalid"
    BY <1>0, <1>2 DEF read_gw, Reading, Line, commas, GatewaysSoFar
  <2>2. DOMAIN peers' = 0..(num_peers' - 1)
    BY <2>1
  <2>3. file[g].eqs # 1 => ~ GoodFile
    BY DEF GoodFile
  <2>4. \A j \in 1..Len(pts) : ~ (j < 1)
    BY <1>0
  <2> QED BY <1>0, <2>1, <2>2, <2>3, <2>4 DEF GatewaysSoFar, PeersSoFar
<1>3. CASE read_part
  <2> DEFINE p == pts[ti]
  <2>1. /\ cfpc = "parts" /\ ln = g /\ ci = ti - 1 /\ PeersSoFar(g, ti)
        /\ ti \in 1..Len(pts) /\ ~ overrun
    BY <1>0, <1>3 DEF read_part, Line, GatewaysSoFar
  <2>2. p \in Part /\ ~ p.empty
    BY <1>0, <2>1
  <2>3. /\ num_peers = Len(pts) /\ DOMAIN peers = 0..(num_peers - 1)
        /\ ci \in DOMAIN peers /\ ci \in Nat
    BY <1>0, <2>1 DEF PeersSoFar
  <2>4. /\ cfpc' = validateIpPort(p) /\ ci' = ci + 1 /\ ti' = ti + 1
        /\ UNCHANGED <<ln, num_peers>> /\ ~ overrun'
        /\ peers' = IF p.colons = 1 /\ p.ip # NoText
                    THEN [peers EXCEPT ![ci] = PeerOf(p)] ELSE peers
    BY <1>3, <2>1, <2>3 DEF read_part, Line, PeerOf
  <2>5. CASE GoodPart(p)
    <3>1. cfpc' = "parts" /\ peers' = [peers EXCEPT ![ci] = PeerOf(p)]
      BY <2>2, <2>4, <2>5, PartChecked
    <3>2. /\ DOMAIN peers' = DOMAIN peers /\ peers'[ci] = PeerOf(p)
          /\ \A k \in DOMAIN peers : k # ci => peers'[k] = peers[k]
      BY <2>3, <3>1
    <3>3. ASSUME NEW j \in 1..Len(pts), j < ti'
          PROVE  GoodPart(pts[j]) /\ peers'[j - 1] = PeerOf(pts[j])
      <4>1. CASE j = ti
        <5>1. j - 1 = ci
          BY <2>1, <4>1
        <5> QED BY <2>5, <3>2, <4>1, <5>1
      <4>2. CASE j # ti
        <5>1. j < ti /\ j - 1 \in DOMAIN peers /\ j - 1 # ci
          BY <1>0, <2>1, <2>3, <2>4, <3>3, <4>2, SMTT(30)
        <5> QED BY <2>1, <3>2, <5>1 DEF PeersSoFar
      <4> QED BY <4>1, <4>2
    <3>4. PeersSoFar(g, ti)'
      BY <1>0, <2>1, <2>3, <2>4, <3>2, <3>3 DEF PeersSoFar
    <3>5. ci' = ti' - 1
      BY <1>0, <2>1, <2>4
    <3> QED BY <1>0, <2>1, <2>4, <3>1, <3>4, <3>5 DEF GatewaysSoFar
  <2>6. CASE ~ GoodPart(p)
    <3>1. cfpc' \in {"invalid", "crashed"}
      BY <2>2, <2>4, <2>6, PartChecked
    <3>2. ~ GoodFile
      BY <2>1, <2>6 DEF GoodFile
    <3> QED BY <1>0, <2>4, <3>1, <3>2 DEF GatewaysSoFar
  <2> QED BY <2>5, <2>6
<1>4. CASE skip_empty
  BY <1>0, <1>4 DEF skip_empty, Line, GatewaysSoFar
<1>5. CASE gw_done
  <2>1. /\ cfpc = "parts" /\ ln = g /\ PeersSoFar(g, ti) /\ ti > Len(pts)
        /\ cfpc' = "read" /\ ln' = ln + 1 /\ ~ overrun
        /\ UNCHANGED <<ti, ci, num_peers, peers, overrun>>
    BY <1>0, <1>5 DEF gw_done, Line, GatewaysSoFar
  <2>2. \A j \in 1..Len(pts) : j < ti
    BY <1>0, <2>1
  <2>3. PeersSoFar(g, Len(file[g].parts) + 1)'
    BY <1>0, <2>1, <2>2 DEF PeersSoFar
  <2>4. ~ (ln' <= g)
    BY <1>0, <2>1
  <2> QED BY <1>0, <2>1, <2>3, <2>4 DEF GatewaysSoFar
<1>6. CASE read_wt \/ read_other
  <2>1. /\ cfpc = "read" /\ ln' = ln + 1 /\ ln # g /\ UNCHANGED <<ci, num_peers, peers, overrun>>
        /\ cfpc' \in {"read", "invalid", "crashed"}
    BY <1>0, <1>6 DEF read_wt, read_other, Reading, Line
  <2>2. (ln' <= g => ln <= g) /\ (ln' > g => ln > g)
    BY <1>0, <2>1
  <2>3. cfpc' # "read" => ~ GoodFile
    <3>1. SUFFICES ASSUME cfpc' # "read" PROVE ~ GoodFile
      OBVIOUS
    <3>2. ln \in WTLines /\ ~ (file[ln].eqs = 1 /\ file[ln].val \in 0..32)
      <4>1. read_wt /\ ln \in 1..Len(file)
        BY <1>0, <1>6, <2>1, <3>1 DEF read_wt, read_other, Reading
      <4>2. 0..32 \subseteq Int
        OBVIOUS
      <4>3. NoText \notin 0..32
        BY <4>2, ConfigAssumption
      <4> QED BY <3>1, <4>1, <4>3 DEF read_wt, Line, WTLines, chkWT
    <3> QED BY <3>2 DEF GoodFile
  <2> QED BY <1>0, <2>1, <2>2, <2>3 DEF GatewaysSoFar, PeersSoFar
<1>7. CASE end_of_file
  BY <1>0, <1>7 DEF end_of_file, GatewaysSoFar, PeersSoFar
<1>8. CASE UNCHANGED cfvars
  BY <1>1, <1>8 DEF cfvars
<1> QED BY <1>2, <1>3, <1>4, <1>5, <1>6, <1>7, <1>8 DEF ConfigNext

(* From a file with one GW line and no empty part, of any length and with  *)
(* any number of peers, the stub calls mod_init exactly with the peers of  *)
(* that line, in order, and the number of the last WT line, and only when  *)
(* every line is good; the table is never written behind its end.          *)
THEOREM ConfigIsMeant == ConfigSpec => []ConfigMeant
<1>1. ConfigInit => ConfigInv
  <2> SUFFICES ASSUME ConfigInit PROVE ConfigInv
    OBVIOUS
  <2>1. ConfigTypeOK
    BY ConfigAssumption DEF ConfigInit, ConfigTypeOK
  <2>2. Len(file) \in Nat /\ ln = 1
    BY <2>1, LineTypes DEF ConfigInit
  <2>3. WorkersSoFar
    BY <2>2 DEF WorkersSoFar, WTLines
  <2>4. ASSUME NEW g \in GWLines PROVE GatewaysSoFar(g)
    BY <2>2 DEF ConfigInit, GWLines, GatewaysSoFar
  <2> QED BY <2>1, <2>3, <2>4 DEF ConfigInv
<1>2. ConfigInv /\ [ConfigNext]_cfvars => ConfigInv'
  <2> SUFFICES ASSUME ConfigInv, [ConfigNext]_cfvars PROVE ConfigInv'
    OBVIOUS
  <2>1. ASSUME NEW g \in GWLines', Plain(g)' PROVE GatewaysSoFar(g)'
    BY <2>1, SameFile, GatewayStep DEF ConfigInv
  <2> QED BY <2>1, ConfigTypes, WorkersStep DEF ConfigInv
<1>3. ConfigInv => ConfigMeant
  <2> SUFFICES ASSUME ConfigInv, NEW g \in GWLines, GWLines = {g},
                      \A j \in 1..Len(file[g].parts) : ~ file[g].parts[j].empty
               PROVE  /\ ~ overrun
                      /\ cfpc = "mod_init" =>
                           /\ GoodFile
                           /\ num_peers = Len(file[g].parts)
                           /\ \A j \in 1..num_peers :
                                peers[j - 1] = [ip   |-> file[g].parts[j].ip,
                                                port |-> file[g].parts[j].port]
                           /\ WTLines # {} =>
                                \E w \in WTLines : /\ \A v \in WTLines : v <= w
                                                   /\ num_worker_threads = file[w].val
                      /\ cfpc \in {"invalid", "crashed"} => ~ GoodFile
    BY DEF ConfigMeant
  <2>1. GatewaysSoFar(g) /\ WorkersSoFar
    BY DEF ConfigInv, Plain
  <2>2. ASSUME cfpc = "mod_init"
        PROVE  /\ GoodFile
               /\ num_peers = Len(file[g].parts)
               /\ \A j \in 1..num_peers :
                    peers[j - 1] = [ip   |-> file[g].parts[j].ip,
                                    port |-> file[g].parts[j].port]
               /\ WTLines # {} =>
                    \E w \in WTLines : /\ \A v \in WTLines : v <= w
                                       /\ num_worker_threads = file[w].val
    <3>1. /\ Len(file) \in Nat /\ ln \in Nat /\ g \in 1..Len(file)
          /\ Len(file[g].parts) \in Nat
      BY LineTypes DEF ConfigInv, ConfigTypeOK, GWLines
    <3>2. ln > g /\ \A k \in WTLines : k < ln
      BY <2>1, <2>2, <3>1 DEF GatewaysSoFar, WTLines
    <3>3. PeersSoFar(g, Len(file[g].parts) + 1)
      BY <2>1, <2>2, <3>2 DEF GatewaysSoFar
    <3>4. \A j \in 1..Len(file[g].parts) : j < Len(file[g].parts) + 1
      BY <3>1
    <3>5. GoodFile
      BY <2>1, <2>2, <3>2, <3>3, <3>4 DEF GoodFile, PeersSoFar, WorkersSoFar
    <3> QED BY <2>1, <2>2, <3>2, <3>3, <3>4, <3>5 DEF PeersSoFar, WorkersSoFar, PeerOf
  <2> QED BY <2>1, <2>2 DEF GatewaysSoFar
<1> QED BY <1>1, <1>2, <1>3, PTL DEF ConfigSpec
==============================================================================
