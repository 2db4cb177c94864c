------------------------------ MODULE MsgQueue -------------------------------
(***************************************************************************)
(* gmsgq, the linked list of the messages waiting to be sent: the sequence *)
(* of the nodes met from the head along `next'.  A node may be popped and  *)
(* freed while it is still in that sequence, so besides its result each    *)
(* operation has the positions it dereferences: a freed node there is a    *)
(* use after free.  `prev' needs no state of its own: it is read only for  *)
(* a node that is neither first nor last, where it is the predecessor, or  *)
(* null when the node was popped before and stayed linked.                 *)
(***************************************************************************)
EXTENDS Integers, Sequences, SequencesExt

(* push_to_msgq walks to the last node and links the new one behind it. *)
Push(q, n)   == Append(q, n)
PushReads(q) == 1..Len(q)

FirstFor_any(q, conn, con, k) == k \in 1..Len(q) /\ conn[q[k]] = con

FirstFor_head(q, conn, con, k) == k \in 1..Len(q) /\ k = 1

(* The node at k is the first one for connection con. *)
FirstFor(q, conn, con, k) ==
  /\ k \in 1..Len(q)
  /\ conn[q[k]] = con
  /\ \A j \in 1..(k - 1) : conn[q[j]] # con

NoneFor(q, conn, con) == \A k \in 1..Len(q) : conn[q[k]] # con

pop_from_msgq_keeps_head(q, k) ==
  IF k < Len(q) THEN RemoveAt(q, k) ELSE q

(* The list after pop_from_msgq has taken the node at k: the head is       *)
(* unlinked, and so is a node with a successor; a last node that is not    *)
(* the head stays linked.                                                  *)
pop_from_msgq(q, k) ==
  CASE k = 1                -> Tail(q)
    [] k > 1 /\ k < Len(q)  -> RemoveAt(q, k)
    [] k > 1 /\ k >= Len(q) -> q

(* It reads the nodes up to k and writes the successor's prev. *)
PopReads(q, k) == {i \in 1..Len(q) : i <= k + 1}

(* node->next as ready_to_send reads it: NULL for a last node and for a    *)
(* node already unlinked.                                                  *)
HasNext(q, n) == \E i \in 1..(Len(q) - 1) : q[i] = n
==============================================================================
