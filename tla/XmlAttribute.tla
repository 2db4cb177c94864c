---------------------------- MODULE XmlAttribute -----------------------------
(***************************************************************************)
(* parse_xml_attribute of task.c: the search for the text between two      *)
(* keys.  For one call a text is a sequence of tokens: its start key, its  *)
(* end key, or any other character.  A key begins with `<', which occurs   *)
(* nowhere else in it, so skipping one character of a key hides the key    *)
(* and nothing more; counting tokens is then as good as counting bytes.    *)
(* Indices are those of the code: in[i] is the token xin[i + 1].           *)
(***************************************************************************)
EXTENDS Integers, Sequences

CONSTANT Text   \* the texts the function is called with

Token == {"start", "end", "char"}

ASSUME TextAssumption == Text \subseteq Seq(Token)

VARIABLES xpc, xin, xi, xj, xout

xvars == <<xpc, xin, xi, xj, xout>>

(* The caller's xchar: text position and length, and the value returned. *)
NoValue == [ret |-> 0, s |-> 0, len |-> 0]

XmlInit == xpc = "idle" /\ xin = <<>> /\ xi = 0 /\ xj = 0 /\ xout = NoValue

(* An empty text is not searched. *)
parse_xml_attribute ==
  /\ xpc = "idle" /\ xin' \in Text
  /\ xpc' = IF xin' = <<>> THEN "done" ELSE "loop"
  /\ xout' = NoValue
  /\ UNCHANGED <<xi, xj>>

At(tok) == xpc = "loop" /\ xi < Len(xin) /\ xin[xi + 1] = tok

(* The value begins behind the key; the loop then steps once more. *)
behind_kept(i) == xj
behind_step(i) == i + 2
behind(i) == i + 1

start_key ==
  /\ At("start")
  /\ xj' = behind(xi) /\ xi' = xi + 2
  /\ UNCHANGED <<xpc, xin, xout>>

value_with_end_key(j, i) == [ret |-> 1, s |-> j, len |-> i - j + 1]
value(j, i) == [ret |-> 1, s |-> j, len |-> i - j]

end_key ==
  /\ At("end")
  /\ xout' = value(xj, xi) /\ xpc' = "done"
  /\ UNCHANGED <<xin, xi, xj>>

next_char ==
  /\ At("char")
  /\ xi' = xi + 1
  /\ UNCHANGED <<xpc, xin, xj, xout>>

not_found ==
  /\ xpc = "loop" /\ xi >= Len(xin)
  /\ xout' = NoValue /\ xpc' = "done"
  /\ UNCHANGED <<xin, xi, xj>>

XmlStep == start_key \/ end_key \/ next_char \/ not_found

XmlNext == parse_xml_attribute \/ XmlStep

XmlSpec == XmlInit /\ [][XmlNext]_xvars

---------------------------------------------------------------------------
(* The locals and the result of parse_xml_attribute keep their types: a    *)
(* start key at the very end takes the index one past the text.            *)
XmlTypeOK ==
  /\ xpc \in {"idle", "loop", "done"}
  /\ xin \in Seq(Token)
  /\ xi \in 0..(Len(xin) + 1)
  /\ xj \in 0..Len(xin)
  /\ xout \in [ret : {0, 1}, s : Nat, len : Nat]

(* Whatever the text, keys out of order or repeated included, the value    *)
(* returned lies inside the text and ends at an end key: the callers copy  *)
(* out.len bytes from out.s.                                               *)
ValueInText ==
  xpc = "done" /\ xout.ret = 1 =>
    /\ xout.s + xout.len < Len(xin)
    /\ xin[xout.s + xout.len + 1] = "end"

Chars(t, a, b) == \A k \in a..b : t[k] = "char"

(* From s to e there is an element: a start key, its value, an end key. *)
Element(t, s, e) ==
  /\ s \in 1..Len(t) /\ e \in 1..Len(t) /\ s < e
  /\ t[s] = "start" /\ t[e] = "end" /\ Chars(t, s + 1, e - 1)

(* The keys of the text alternate, so that it is a row of elements. *)
Alternates(t) ==
  /\ \A s \in 1..Len(t) : t[s] = "start" => \E e \in 1..Len(t) : Element(t, s, e)
  /\ \A e \in 1..Len(t) : t[e] = "end"   => \E s \in 1..Len(t) : Element(t, s, e)

(* The first element that is not empty. *)
FirstValue(t, s, e) ==
  /\ Element(t, s, e) /\ s + 1 < e
  /\ \A d \in 1..(s - 1) : t[d] = "start" => t[d + 1] = "end"

(* In a text whose keys alternate, parse_xml_attribute finds the first     *)
(* value that is not empty, and nothing when there is none: stepping over  *)
(* the first character of an empty element's end key does no harm.         *)
FindsFirstValue ==
  xpc = "done" /\ Alternates(xin) =>
    \/ \E s, e \in 1..Len(xin) :
         FirstValue(xin, s, e) /\ xout = [ret |-> 1, s |-> s, len |-> e - s - 1]
    \/ /\ \A s, e \in 1..Len(xin) : ~ FirstValue(xin, s, e)
       /\ xout = NoValue
==============================================================================
