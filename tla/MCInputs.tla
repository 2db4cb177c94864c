------------------------------- MODULE MCInputs ------------------------------
(***************************************************************************)
(* What the library and its application take in, for TLC: the file, the    *)
(* start, the frames, the attributes.  The parts do not share state here,  *)
(* and an execution is one of one part, so that the state spaces add up.   *)
(***************************************************************************)
EXTENDS Config, Startup, Framing, XmlAttribute

VARIABLE part

vars == <<cfvars, stvars, fvars, xvars, part>>

(* All texts of up to six tokens. *)
MCText == UNION {[1..k -> Token] : k \in 0..6}

MCPart(empty, colons, ip, port) ==
  [empty |-> empty, colons |-> colons, ip |-> ip, port |-> port]

MCParts ==
  {MCPart(FALSE, 1, <<127, 0, 0, 1>>, 0), MCPart(FALSE, 1, <<10, 0, 255, 1>>, 65535),
   MCPart(FALSE, 1, <<10, 0, 0, 1>>, 65536), MCPart(FALSE, 1, <<256, 0, 0, 1>>, 80),
   MCPart(FALSE, 1, <<10, 0, 1>>, 80), MCPart(FALSE, 1, <<10, 0, -1, 1>>, 80),
   MCPart(FALSE, 1, <<10, 0, 0, 2>>, NoText), MCPart(FALSE, 2, <<10, 0, 0, 2>>, 80),
   MCPart(FALSE, 1, NoText, NoText), MCPart(TRUE, 0, <<>>, NoText)}

GWLine(eqs, parts) == [gw |-> TRUE, wt |-> FALSE, eqs |-> eqs, parts |-> parts, val |-> NoText]
WTLine(eqs, val) == [gw |-> FALSE, wt |-> TRUE, eqs |-> eqs, parts |-> <<>>, val |-> val]
Comment == [gw |-> FALSE, wt |-> FALSE, eqs |-> 0, parts |-> <<>>, val |-> NoText]

MCLines ==
  {GWLine(1, p) : p \in UNION {[1..k -> MCParts] : k \in 1..2}}
    \cup {GWLine(0, <<MCPart(FALSE, 1, <<127, 0, 0, 1>>, 80)>>)}
    \cup {WTLine(1, v) : v \in {-1, 0, 32, 33, NoText}} \cup {WTLine(2, 4), Comment}

MCFiles == UNION {[1..k -> MCLines] : k \in 0..2}

NoFile == <<>>

Init ==
  /\ ConfigInit /\ StartInit /\ FrameInit /\ XmlInit
  /\ part \in {"config", "start", "frame", "xml"}
  /\ part = "config" \/ file = NoFile

Configs(A) == part = "config" /\ A /\ UNCHANGED <<stvars, fvars, xvars, part>>
Starts(A)  == part = "start" /\ A /\ UNCHANGED <<cfvars, fvars, xvars, part>>
Frames(A)  == part = "frame" /\ A /\ UNCHANGED <<cfvars, stvars, xvars, part>>
Xmls(A)    == part = "xml" /\ A /\ UNCHANGED <<cfvars, stvars, fvars, part>>

Next == Configs(ConfigNext) \/ Starts(StartNext) \/ Frames(FrameNext) \/ Xmls(XmlNext)

(* A thread inside a function runs on.  Nobody has to send, and no peer    *)
(* has to accept or refuse in the end: connect() returns either way.       *)
Fairness ==
  /\ WF_vars(Starts(StartStep))
  /\ WF_vars(Frames(OutStep))
  /\ WF_vars(Frames(InStep))

Spec == Init /\ [][Next]_vars /\ Fairness
==============================================================================
