---------------------------- MODULE MCClientLib ------------------------------
(* Instances of ClientLib for TLC: ids of the requests, messages of peers. *)
EXTENDS ClientLife, TLC

CONSTANTS r1, r2, r3, a, b

Distinct == (r1 :> a @@ r2 :> b)
Shared   == (r1 :> a @@ r2 :> a)
Mixed    == (r1 :> a @@ r2 :> b @@ r3 :> a)
OneEmpty == (r1 :> a @@ r2 :> a @@ r3 :> NoId)
One      == (r1 :> a)
None     == <<>>

(* The clients are interchangeable; used with invariants only. *)
ClientSymmetry == Permutations(Client)

Msg(event, typ, sid, tid) ==
  [len |-> 1, event |-> event, typ |-> typ, sid |-> sid, tid |-> tid]

Silent    == {}
Responses == {Msg(1, "response", 0, a), Msg(0, "response", 0, b)}
Traffic   == Responses \cup
             {Msg(1, "request", 0, a), Msg(1, "request", 0, NoId),
              Msg(0, "request", 1, NoId), Msg(0, "none", 0, NoId)}
Frames    == {Msg(0, "none", 0, NoId),
              [Msg(0, "none", 0, NoId) EXCEPT !.len = 0]}
==============================================================================
