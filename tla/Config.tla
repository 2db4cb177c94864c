------------------------------- MODULE Config --------------------------------
(***************************************************************************)
(* The stub application reads tcp_clb.cfg: main and validateIpPort of      *)
(* stub.c, the checks of utils.c.  A line is what the checks can tell of   *)
(* it: which key it contains, how many `=', its parts between commas, the  *)
(* number of a WT line.  A part is empty or has colons, the dotted parts   *)
(* of its address (-1: not a number), and the number atoi makes of its     *)
(* port.  NoText is a missing text: strcpy and atoi end the process on it. *)
(***************************************************************************)
EXTENDS Integers, Sequences

CONSTANTS Files,    \* the files, sequences of lines
          NoText, Unset

Part == [empty : BOOLEAN, colons : Nat, ip : Seq(Int) \cup {NoText},
         port : Int \cup {NoText}]
TextLine == [gw : BOOLEAN, wt : BOOLEAN, eqs : Nat, parts : Seq(Part),
             val : Int \cup {NoText}]

ASSUME ConfigAssumption == /\ NoText \notin Int /\ Unset \notin Int
                           /\ Files \subseteq Seq(TextLine)

VARIABLES file, ln, ti, ci,     \* the file, its line, the next part, i
          cfpc,                 \* where main is, or how it ended
          num_peers, peers,     \* config->num_peers, config->peers
          num_worker_threads,
          overrun               \* a slot behind the end of peers was written

cfvars == <<file, ln, ti, ci, cfpc, num_peers, peers, num_worker_threads, overrun>>

chkIP(ip) == Len(ip) = 4 /\ \A k \in 1..Len(ip) : ip[k] \in 0..255
MaxPort == 65535
chkPort_any(port) == port >= 0
chkPort(port) == port \in 0..MaxPort
chkWT(val) == val \in 0..32

(* config is malloc'ed: its fields hold anything until they are written. *)
ConfigInit ==
  /\ file \in Files /\ ln = 1 /\ ti = 1 /\ ci = 0
  /\ cfpc = "read"
  /\ num_peers = Unset /\ peers = <<>> /\ num_worker_threads = Unset
  /\ overrun = FALSE

Line == file[ln]
Reading == cfpc = "read" /\ ln <= Len(file)

commas(line) == Len(line.parts) - 1

(* A line with GW: room for one peer more than there are commas. *)
read_gw ==
  /\ Reading /\ Line.gw
  /\ num_peers' = commas(Line) + 1
  /\ peers' = [k \in 0..(num_peers' - 1) |-> Unset]
  /\ cfpc' = IF Line.eqs = 1 THEN "parts" ELSE "invalid"
  /\ ti' = 1
  /\ UNCHANGED <<file, ln, ci, num_worker_threads, overrun>>

(* strtok_r passes over empty parts. *)
skip_empty ==
  /\ cfpc = "parts" /\ ti <= Len(Line.parts) /\ Line.parts[ti].empty
  /\ ti' = ti + 1
  /\ UNCHANGED <<file, ln, ci, cfpc, num_peers, peers, num_worker_threads, overrun>>

(* validateIpPort writes the slot, then checks; main leaves on a failure.  *)
validateIpPort(p) ==
  IF p.colons # 1 THEN "invalid"
  ELSE IF p.ip = NoText THEN "crashed"
  ELSE IF ~ chkIP(p.ip) THEN "invalid"
  ELSE IF p.port = NoText THEN "crashed"
  ELSE IF ~ chkPort(p.port) THEN "invalid"
  ELSE "parts"

read_part ==
  /\ cfpc = "parts" /\ ti <= Len(Line.parts) /\ ~ Line.parts[ti].empty
  /\ LET p == Line.parts[ti]
         writes == p.colons = 1 /\ p.ip # NoText
     IN  /\ cfpc' = validateIpPort(p)
         /\ peers' = IF writes /\ ci \in DOMAIN peers
                     THEN [peers EXCEPT ![ci] = [ip |-> p.ip, port |-> p.port]]
                     ELSE peers
         /\ overrun' = (overrun \/ (writes /\ ci \notin DOMAIN peers))
  /\ ci' = ci + 1 /\ ti' = ti + 1
  /\ UNCHANGED <<file, ln, num_peers, num_worker_threads>>

gw_done ==
  /\ cfpc = "parts" /\ ti > Len(Line.parts)
  /\ cfpc' = "read" /\ ln' = ln + 1
  /\ UNCHANGED <<file, ti, ci, num_peers, peers, num_worker_threads, overrun>>

read_wt ==
  /\ Reading /\ ~ Line.gw /\ Line.wt
  /\ cfpc' = IF Line.eqs # 1 THEN "invalid"
             ELSE IF Line.val = NoText THEN "crashed"
             ELSE IF chkWT(Line.val) THEN "read" ELSE "invalid"
  /\ num_worker_threads' = IF cfpc' = "read" THEN Line.val ELSE num_worker_threads
  /\ ln' = ln + 1
  /\ UNCHANGED <<file, ti, ci, num_peers, peers, overrun>>

read_other ==
  /\ Reading /\ ~ Line.gw /\ ~ Line.wt
  /\ ln' = ln + 1
  /\ UNCHANGED <<file, ti, ci, cfpc, num_peers, peers, num_worker_threads, overrun>>

(* The end of the file: mod_init is called with what config holds. *)
end_of_file ==
  /\ cfpc = "read" /\ ln > Len(file)
  /\ cfpc' = "mod_init"
  /\ UNCHANGED <<file, ln, ti, ci, num_peers, peers, num_worker_threads, overrun>>

ConfigNext ==
  \/ read_gw \/ skip_empty \/ read_part \/ gw_done
  \/ read_wt \/ read_other \/ end_of_file

ConfigSpec == ConfigInit /\ [][ConfigNext]_cfvars

---------------------------------------------------------------------------
GWLines == {k \in 1..Len(file) : file[k].gw}
WTLines == {k \in 1..Len(file) : ~ file[k].gw /\ file[k].wt}

(* A part as the comment in main shows it: 127.0.0.1:7878. *)
GoodPart(p) ==
  /\ ~ p.empty /\ p.colons = 1 /\ p.ip # NoText
  /\ Len(p.ip) = 4 /\ \A k \in 1..4 : p.ip[k] \in 0..255
  /\ p.port \in 0..MaxPort

GoodFile ==
  /\ \A k \in GWLines \cup WTLines : file[k].eqs = 1
  /\ \A k \in GWLines : \A j \in 1..Len(file[k].parts) : GoodPart(file[k].parts[j])
  /\ \A k \in WTLines : file[k].val \in 0..32

(* From a file with one GW line and without empty parts, mod_init gets     *)
(* every peer of the line, in its order, and the last WT number; it is     *)
(* called exactly when every line is good.  With a second GW line the      *)
(* index goes on behind the end of the new table; with an empty part a     *)
(* slot stays unwritten; with no GW line the table does.                   *)
ConfigMeant ==
  \A g \in GWLines :
    GWLines = {g} /\ (\A j \in 1..Len(file[g].parts) : ~ file[g].parts[j].empty) =>
      /\ ~ overrun
      /\ cfpc = "mod_init" =>
           /\ GoodFile
           /\ num_peers = Len(file[g].parts)
           /\ \A j \in 1..num_peers : peers[j - 1] = [ip   |-> file[g].parts[j].ip,
                                                      port |-> file[g].parts[j].port]
           /\ WTLines # {} =>
                \E w \in WTLines : /\ \A v \in WTLines : v <= w
                                   /\ num_worker_threads = file[w].val
      /\ cfpc \in {"invalid", "crashed"} => ~ GoodFile
==============================================================================
