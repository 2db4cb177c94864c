------------------------------ MODULE SafeQueue ------------------------------
(***************************************************************************)
(* threadsafe_queue of safeqtempl.h: a deque, a mutex and a condition      *)
(* variable.  A critical section is one step; what takes a second mutex,   *)
(* or acts after the unlock, is a step of its own.  The queues are those   *)
(* of ThreadPool as well; SafeSpec lets threads use them directly.         *)
(***************************************************************************)
EXTENDS Integers, Sequences, FiniteSets

CONSTANTS
  Queue,     \* the queues
  User,      \* threads that call the operations
  Item,      \* what is pushed, each item at most once
  Programs,  \* sets of operations that the users of one execution call;
             \* {} when the queues are those of a pool
  MaxMoves,  \* bound: move assignments
  NoUser

ASSUME SafeAssumption ==
  /\ NoUser \notin User /\ User \cap Queue = {} /\ IsFiniteSet(User) /\ MaxMoves \in Nat
  /\ Programs \subseteq SUBSET {"push", "pop", "front", "clear", "move", "copy"}

VARIABLES
  items, holder, waiting,  \* _queue, _mutex and the threads in _cond.wait
  program,                 \* the operations called in this execution
  upc, uq,                 \* per user: where it is, its queue
  pushed, popped, cleared, \* items pushed; how often popped; items destroyed
  nmoves                   \* move assignments so far

qvars == <<items, holder, waiting>>
uvars == <<program, upc, uq, pushed, popped, cleared, nmoves>>
svars == <<qvars, uvars>>

NoQueue == -1

QueueInit ==
  /\ items = [q \in Queue |-> <<>>]
  /\ holder = [q \in Queue |-> NoUser]
  /\ waiting = [q \in Queue |-> {}]

SafeInit ==
  /\ QueueInit
  /\ program \in Programs
  /\ upc = [u \in User |-> "idle"]
  /\ uq = [u \in User |-> NoQueue]
  /\ pushed = {} /\ popped = [x \in Item |-> 0] /\ cleared = {} /\ nmoves = 0

---------------------------------------------------------------------------
(* The queue's part of each operation.                                     *)

Free(q) == holder[q] = NoUser

empty(q) == items[q] = <<>>

Enqueue(q, x) == Free(q) /\ items' = [items EXCEPT ![q] = Append(@, x)]

front_left(q) == UNCHANGED items
remove_front(q) == items' = [items EXCEPT ![q] = Tail(@)]
Dequeue(q) == Free(q) /\ ~ empty(q) /\ remove_front(q)

unlock_missing(q) == UNCHANGED holder
unlock(q) == holder' = [holder EXCEPT ![q] = NoUser]

notify_nobody(q) == UNCHANGED waiting
notify_one(q) ==
  \/ waiting[q] = {} /\ UNCHANGED waiting
  \/ \E t \in waiting[q] : waiting' = [waiting EXCEPT ![q] = @ \ {t}]

(* The loop around _cond.wait: the thread sleeps until it is notified. *)
Wait(q, t) ==
  /\ Free(q) /\ empty(q)
  /\ waiting' = [waiting EXCEPT ![q] = @ \cup {t}]

---------------------------------------------------------------------------
(* Threads that call the operations.                                       *)

Calls(u, op, q) == op \in program /\ upc[u] = "idle" /\ uq' = [uq EXCEPT ![u] = q]
Goes(u, pc) == upc' = [upc EXCEPT ![u] = pc]
Returns(u) == Goes(u, "idle") /\ uq' = [uq EXCEPT ![u] = NoQueue]

push_back(u, q, x) ==
  /\ Calls(u, "push", q) /\ x \notin pushed /\ Enqueue(q, x)
  /\ pushed' = pushed \cup {x} /\ Goes(u, "notify")
  /\ UNCHANGED <<holder, waiting, program, popped, cleared, nmoves>>

push_notify(u) ==
  /\ upc[u] = "notify" /\ notify_one(uq[u]) /\ Returns(u)
  /\ UNCHANGED <<items, holder, program, popped, pushed, cleared, nmoves>>

(* pop_front and front are in their loop until there is an item. *)
pop_front(u, q) ==
  /\ Calls(u, "pop", q) /\ Goes(u, "pop")
  /\ UNCHANGED <<qvars, program, popped, pushed, cleared, nmoves>>

front(u, q) ==
  /\ Calls(u, "front", q) /\ Goes(u, "front")
  /\ UNCHANGED <<qvars, program, popped, pushed, cleared, nmoves>>

Awake(u) == upc[u] \in {"pop", "front"} /\ u \notin waiting[uq[u]]

wait_for_item(u) ==
  /\ Awake(u) /\ Wait(uq[u], u)
  /\ UNCHANGED <<items, holder, uvars>>

pop_item(u) ==
  /\ Awake(u) /\ upc[u] = "pop" /\ Dequeue(uq[u])
  /\ popped' = [popped EXCEPT ![Head(items[uq[u]])] = @ + 1]
  /\ Returns(u)
  /\ UNCHANGED <<holder, waiting, program, pushed, cleared, nmoves>>

(* front() returns a reference and leaves the item. *)
front_item(u) ==
  /\ Awake(u) /\ upc[u] = "front"
  /\ Free(uq[u]) /\ ~ empty(uq[u]) /\ Returns(u)
  /\ UNCHANGED <<qvars, program, popped, pushed, cleared, nmoves>>

clear(u, q) ==
  /\ "clear" \in program /\ upc[u] = "idle" /\ Free(q) /\ ~ empty(q)
  /\ cleared' = cleared \cup {items[q][i] : i \in DOMAIN items[q]}
  /\ items' = [items EXCEPT ![q] = <<>>]
  /\ UNCHANGED <<holder, waiting, program, upc, uq, popped, pushed, nmoves>>

(* Move assignment locks its own mutex, then the other queue's; what the   *)
(* queue held is destroyed.  It notifies nobody.                           *)
move_lock(u, q) ==
  /\ Calls(u, "move", q) /\ Free(q) /\ nmoves < MaxMoves
  /\ nmoves' = nmoves + 1
  /\ holder' = [holder EXCEPT ![q] = u] /\ Goes(u, "move")
  /\ UNCHANGED <<items, waiting, program, popped, pushed, cleared>>

move_assign(u, r) ==
  /\ upc[u] = "move" /\ r # uq[u] /\ Free(r)
  /\ items' = [items EXCEPT ![uq[u]] = items[r], ![r] = <<>>]
  /\ cleared' = cleared \cup {items[uq[u]][i] : i \in DOMAIN items[uq[u]]}
  /\ unlock(uq[u]) /\ Returns(u)
  /\ UNCHANGED <<waiting, program, popped, pushed, nmoves>>

(* Copy assignment locks the mutex of the queue it copies twice.  It does  *)
(* not get the second lock and does not return.                            *)
copy_lock(u, q) ==
  /\ Calls(u, "copy", q) /\ Free(q)
  /\ holder' = [holder EXCEPT ![q] = u] /\ Goes(u, "copy")
  /\ UNCHANGED <<items, waiting, program, popped, pushed, cleared, nmoves>>

UserStep(u) ==
  \/ push_notify(u) \/ wait_for_item(u) \/ pop_item(u) \/ front_item(u)
  \/ \E r \in Queue : move_assign(u, r)

UserCall(u) ==
  \E q \in Queue :
    \/ \E x \in Item : push_back(u, q, x)
    \/ pop_front(u, q) \/ front(u, q) \/ clear(u, q)
    \/ move_lock(u, q) \/ copy_lock(u, q)

SafeNext == \E u \in User : UserCall(u) \/ UserStep(u)

SafeSpec == SafeInit /\ [][SafeNext]_svars

---------------------------------------------------------------------------
Held == UNION {{items[q][i] : i \in DOMAIN items[q]} : q \in Queue}
Popped == {x \in Item : popped[x] > 0}

(* No item of a threadsafe_queue is lost or handed out twice, whichever    *)
(* operations run side by side: it is in one place of one queue, or one    *)
(* thread has popped it, or clear() or an assignment destroyed it.         *)
ItemOnce ==
  program # {} =>
  /\ pushed = Held \cup Popped \cup cleared
  /\ Held \cap Popped = {} /\ Held \cap cleared = {} /\ Popped \cap cleared = {}
  /\ \A x \in Item : popped[x] <= 1
  /\ \A q, r \in Queue : \A i \in DOMAIN items[q], j \in DOMAIN items[r] :
       items[q][i] = items[r][j] => q = r /\ i = j

(* push_back notifies after it has unlocked, and still no wakeup is lost:  *)
(* with more items than threads on their way to a pop, nobody sleeps.      *)
(* Only front(), which takes a notification and leaves the item, and move  *)
(* assignment, which does not notify, break this.                          *)
NoSleeperMissed ==
  program # {} /\ program \subseteq {"push", "pop", "clear"} =>
    \A q \in Queue :
      waiting[q] # {} =>
        Len(items[q]) <= Cardinality({u \in User : uq[u] = q /\
                           (upc[u] = "notify" \/ Awake(u))})

(* Who sleeps in pop_front while there is an item gets one, and who waits  *)
(* for a mutex gets it: every operation comes to its end or waits for an   *)
(* item.  Two moves in opposite directions and every copy assignment are   *)
(* the exceptions, and front() and move with a sleeper beside them.        *)
OperationsEnd ==
  \A u \in User : upc[u] # "idle" ~>
    \/ upc[u] = "idle"
    \/ u \in waiting[uq[u]] /\ (items[uq[u]] = <<>> \/ program \cap {"front", "move"} # {})
    \/ \E v \in User : upc[v] = "copy"
    \/ \E v, w \in User : v # w /\ upc[v] = "move" /\ upc[w] = "move"
==============================================================================
