------------------------------- MODULE IdQueue -------------------------------
(***************************************************************************)
(* gtsidq, the queue of transaction ids of task.c: a linked list whose     *)
(* entries pin an id (TID+SID) to a connection and hold the callback that  *)
(* answers it.  The list is the sequence of its entries in `next' order    *)
(* (`prev' is written and never read).  Every operation runs under qtex,   *)
(* so each is one step from the queue to a result or to the new queue.     *)
(***************************************************************************)
EXTENDS Integers, Sequences, SequencesExt

CONSTANTS
  EXPIRY,   \* life of an id, in ticks of the clock (30 s in task.h)
  NoId      \* the empty string: the id of a message that carries none

ASSUME ExpiryAssumption == EXPIRY \in Nat

(* The walk shared by is_ID_present_idq and lookup_ID_idq: the entry at k  *)
(* is the first with this id.  An empty id is never searched for.          *)
lookup_ID_idq(q, tid, k) ==
  /\ tid # NoId
  /\ k \in 1..Len(q)
  /\ q[k].id = tid
  /\ \A j \in 1..(k - 1) : q[j].id # tid

is_ID_present_idq(q, tid) ==
  tid # NoId /\ \E k \in 1..Len(q) : q[k].id = tid

update_entry_idq_keeps_callback(q, k, callback, now) ==
  [q EXCEPT ![k] = [@ EXCEPT !.ATime = now, !.ETime = now + EXPIRY]]

(* A new message of a known id renews the times and the callback of its    *)
(* entry, found at k; connection and is_expired keep their values.         *)
update_entry_idq(q, k, callback, now) ==
  [q EXCEPT ![k] = [@ EXCEPT !.ATime = now, !.ETime = now + EXPIRY,
                             !.callback = callback]]

(* The entry add_entry_idq links at the end, once its scan of the          *)
(* connections has settled on con; the times were taken before the scan.   *)
add_entry_idq(q, tid, callback, con, atime) ==
  Append(q, [id |-> tid, conn |-> con, is_expired |-> 0,
             ATime |-> atime, ETime |-> atime + EXPIRY, callback |-> callback])

(* Entries past their time are marked; none is removed. *)
Expired_at_limit(e, now) == e.ETime <= now
Expired(e, now) == e.ETime < now

list_expired_idq_head(q, now) ==
  [i \in 1..Len(q) |-> IF i = 1 /\ Expired(q[i], now)
                       THEN [q[i] EXCEPT !.is_expired = 1] ELSE q[i]]

list_expired_idq(q, now) ==
  [i \in 1..Len(q) |-> IF Expired(q[i], now)
                       THEN [q[i] EXCEPT !.is_expired = 1] ELSE q[i]]

rem_id_no_match(q, tid, q2) == q2 = q

rem_id_head(q, tid, q2) == q2 = IF q = <<>> THEN q ELSE Tail(q)

(* q2 is q without its first entry with this id, or q when there is none.  *)
rem_id(q, tid, q2) ==
  \/ \E k \in 1..Len(q) : lookup_ID_idq(q, tid, k) /\ q2 = RemoveAt(q, k)
  \/ ~ is_ID_present_idq(q, tid) /\ q2 = q
==============================================================================
