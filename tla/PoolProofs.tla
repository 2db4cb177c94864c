------------------------------ MODULE PoolProofs -----------------------------
(***************************************************************************)
(* threadsafe_queue and threadPool, for any number of queues, threads,     *)
(* items and tasks.                                                        *)
(***************************************************************************)
EXTENDS ThreadPool, SequenceTheorems, FiniteSetTheorems, TLAPS

(* The queues, what each user is doing and the history have their types; a *)
(* user inside an operation has a queue, and is inside an operation of the *)
(* program only.                                                           *)
SafeTypeOK ==
  /\ items \in [Queue -> Seq(Item)] /\ waiting \in [Queue -> SUBSET User]
  /\ program \in SUBSET {"push", "pop", "front", "clear", "move", "copy"}
  /\ upc \in [User -> {"idle", "notify", "pop", "front", "move", "copy"}]
  /\ uq \in [User -> Queue \cup {NoQueue}]
  /\ \A u \in User : /\ upc[u] # "idle" => uq[u] \in Queue
                     /\ upc[u] \in {"pop", "front", "move"} => upc[u] \in program
  /\ pushed \subseteq Item /\ cleared \subseteq Item /\ popped \in [Item -> Nat]

(* Who sleeps on a queue's condition variable is in pop_front or front of  *)
(* that queue.                                                             *)
SleepersInLoop ==
  \A q \in Queue : \A u \in waiting[q] : uq[u] = q /\ upc[u] \in {"pop", "front"}

Elems(s) == {s[k] : k \in 1..Len(s)}

(* The parts of ItemOnce, for single items. *)
Accounted ==
  \A x \in Item :
    /\ x \in pushed <=> (\E q \in Queue : x \in Elems(items[q])) \/ popped[x] = 1 \/ x \in cleared
    /\ popped[x] \in {0, 1} /\ ~ (popped[x] = 1 /\ x \in cleared)
    /\ \A q \in Queue : x \in Elems(items[q]) => popped[x] = 0 /\ x \notin cleared

InOnePlace ==
  /\ \A q, r \in Queue : \A x \in Item : x \in Elems(items[q]) /\ x \in Elems(items[r]) => q = r
  /\ \A q \in Queue : \A j, k \in 1..Len(items[q]) : items[q][j] = items[q][k] => j = k

SafeInv == SafeTypeOK /\ SleepersInLoop /\ Accounted /\ InOnePlace

---------------------------------------------------------------------------
(* What an operation on a sequence does to the set of its elements.        *)

LEMMA AppendElems ==
  ASSUME NEW T, NEW s \in Seq(T), NEW x \in T
  PROVE  /\ Len(Append(s, x)) = Len(s) + 1
         /\ \A k \in 1..Len(s) : Append(s, x)[k] = s[k]
         /\ Append(s, x)[Len(s) + 1] = x
         /\ Elems(Append(s, x)) = Elems(s) \cup {x}
<1>1. /\ Len(Append(s, x)) = Len(s) + 1 /\ Len(s) \in Nat
      /\ \A k \in 1..Len(s) : Append(s, x)[k] = s[k]
      /\ Append(s, x)[Len(s) + 1] = x
  OBVIOUS
<1> QED BY <1>1 DEF Elems

LEMMA TailElems ==
  ASSUME NEW T, NEW s \in Seq(T), s # <<>>, \A j, k \in 1..Len(s) : s[j] = s[k] => j = k
  PROVE  /\ Head(s) = s[1] /\ Head(s) \in T /\ Len(Tail(s)) = Len(s) - 1
         /\ \A k \in 1..Len(Tail(s)) : Tail(s)[k] = s[k + 1]
         /\ Elems(Tail(s)) = Elems(s) \ {Head(s)}
<1>1. /\ Head(s) = s[1] /\ Head(s) \in T /\ Len(Tail(s)) = Len(s) - 1 /\ Len(s) \in Nat \ {0}
      /\ \A k \in 1..Len(Tail(s)) : Tail(s)[k] = s[k + 1]
  OBVIOUS
<1>2. \A k \in 1..Len(Tail(s)) : k + 1 \in 1..Len(s) /\ s[k + 1] # s[1]
  BY <1>1
<1>3. \A k \in 1..Len(s) : s[k] # s[1] => k - 1 \in 1..Len(Tail(s)) /\ Tail(s)[k - 1] = s[k]
  <2> SUFFICES ASSUME NEW k \in 1..Len(s), s[k] # s[1]
               PROVE  k - 1 \in 1..Len(Tail(s)) /\ Tail(s)[k - 1] = s[k]
    OBVIOUS
  <2>1. k # 1 /\ k - 1 \in 1..Len(Tail(s)) /\ k - 1 + 1 = k
    BY <1>1
  <2> QED BY <1>1, <2>1
<1> QED BY <1>1, <1>2, <1>3 DEF Elems

(* _cond.notify_one wakes one of the threads that wait, if any does. *)
LEMMA NotifyWakes ==
  ASSUME NEW T, waiting \in [Queue -> SUBSET T], NEW q \in Queue, notify_one(q)
  PROVE  /\ waiting' \in [Queue -> SUBSET T]
         /\ \A r \in Queue : r # q => waiting'[r] = waiting[r]
         /\ \/ waiting[q] = {} /\ waiting' = waiting
            \/ \E t \in waiting[q] : waiting'[q] = waiting[q] \ {t}
<1>1. CASE waiting[q] = {} /\ waiting' = waiting
  BY <1>1
<1>2. CASE \E t \in waiting[q] : waiting' = [waiting EXCEPT ![q] = @ \ {t}]
  <2>1. PICK t \in waiting[q] : waiting' = [waiting EXCEPT ![q] = waiting[q] \ {t}]
    BY <1>2
  <2>2. waiting[q] \ {t} \in SUBSET T
    OBVIOUS
  <2> QED BY <2>1, <2>2
<1> QED BY <1>1, <1>2 DEF notify_one

---------------------------------------------------------------------------
(* threadsafe_queue: types and sleepers.                                   *)

LEMMA SafeTypes == SafeTypeOK /\ [SafeNext]_svars => SafeTypeOK'
<1> SUFFICES ASSUME SafeTypeOK, [SafeNext]_svars PROVE SafeTypeOK'
  OBVIOUS
<1> USE DEF SafeTypeOK, qvars, uvars
<1>1. CASE UNCHANGED svars
  BY <1>1 DEF svars
<1>2. ASSUME NEW u \in User, NEW q \in Queue, NEW x \in Item, push_back(u, q, x)
      PROVE  SafeTypeOK'
  <2>1. items' \in [Queue -> Seq(Item)]
    BY <1>2 DEF push_back, Enqueue
  <2> QED BY <1>2, <2>1 DEF push_back, Calls, Goes
<1>3. ASSUME NEW u \in User, NEW q \in Queue, pop_front(u, q) \/ front(u, q)
      PROVE  SafeTypeOK'
  BY <1>3, ZenonT(40) DEF pop_front, front, Calls, Goes
<1>4. ASSUME NEW u \in User, NEW q \in Queue, clear(u, q)
      PROVE  SafeTypeOK'
  <2>1. items' \in [Queue -> Seq(Item)]
    BY <1>4 DEF clear
  <2>2. cleared' \subseteq Item
    BY <1>4 DEF clear
  <2> QED BY <1>4, <2>1, <2>2 DEF clear
<1>5. ASSUME NEW u \in User, NEW q \in Queue, move_lock(u, q) \/ copy_lock(u, q)
      PROVE  SafeTypeOK'
  BY <1>5, ZenonT(40) DEF move_lock, copy_lock, Calls, Goes
<1>6. ASSUME NEW u \in User, push_notify(u)
      PROVE  SafeTypeOK'
  <2>1. waiting' \in [Queue -> SUBSET User]
    BY <1>6, NotifyWakes DEF push_notify
  <2> QED BY <1>6, <2>1 DEF push_notify, Returns, Goes
<1>7. ASSUME NEW u \in User, wait_for_item(u)
      PROVE  SafeTypeOK'
  BY <1>7 DEF wait_for_item, Wait
<1>8. ASSUME NEW u \in User, pop_item(u)
      PROVE  SafeTypeOK'
  <2>1. uq[u] \in Queue /\ items[uq[u]] \in Seq(Item) /\ items[uq[u]] # <<>>
    BY <1>8 DEF pop_item, Dequeue, empty
  <2>2. Head(items[uq[u]]) \in Item /\ Tail(items[uq[u]]) \in Seq(Item)
    BY <2>1
  <2>3. items' \in [Queue -> Seq(Item)] /\ popped' \in [Item -> Nat]
    BY <1>8, <2>1, <2>2 DEF pop_item, Dequeue, remove_front
  <2> QED BY <1>8, <2>3 DEF pop_item, Returns, Goes
<1>9. ASSUME NEW u \in User, front_item(u)
      PROVE  SafeTypeOK'
  BY <1>9 DEF front_item, Returns, Goes
<1>10. ASSUME NEW u \in User, NEW r \in Queue, move_assign(u, r)
      PROVE  SafeTypeOK'
  <2>1. uq[u] \in Queue
    BY <1>10 DEF move_assign
  <2>2. items' \in [Queue -> Seq(Item)] /\ cleared' \subseteq Item
    <3>1. items[r] \in Seq(Item) /\ <<>> \in Seq(Item) /\ items[uq[u]] \in Seq(Item)
      BY <2>1
    <3>2. items' \in [Queue -> Seq(Item)]
      BY <1>10, <2>1, <3>1 DEF move_assign
    <3>3. \A k \in DOMAIN items[uq[u]] : items[uq[u]][k] \in Item
      BY <3>1
    <3>4. cleared' = cleared \cup {items[uq[u]][k] : k \in DOMAIN items[uq[u]]}
      BY <1>10 DEF move_assign
    <3>5. cleared' \subseteq Item
      BY <3>3, <3>4
    <3> QED BY <3>2, <3>5
  <2> QED BY <1>10, <2>2 DEF move_assign, Returns, Goes
<1> QED BY <1>1, <1>2, <1>3, <1>4, <1>5, <1>6, <1>7, <1>8, <1>9, <1>10
        DEF SafeNext, UserCall, UserStep

LEMMA SleepersStay ==
  SafeTypeOK /\ SleepersInLoop /\ [SafeNext]_svars => SleepersInLoop'
<1> SUFFICES ASSUME SafeTypeOK, SleepersInLoop, [SafeNext]_svars,
                    NEW q \in Queue, NEW v \in waiting'[q]
             PROVE  uq'[v] = q /\ upc'[v] \in {"pop", "front"}
  BY DEF SleepersInLoop
<1>0. v \in User
  BY SafeTypes DEF SafeTypeOK
<1> USE DEF SafeTypeOK, SleepersInLoop, qvars, uvars
<1>1. CASE UNCHANGED svars
  BY <1>1 DEF svars
<1>2. ASSUME NEW u \in User, NEW r \in Queue,
             \/ \E x \in Item : push_back(u, r, x)
             \/ pop_front(u, r) \/ front(u, r) \/ clear(u, r)
             \/ move_lock(u, r) \/ copy_lock(u, r)
      PROVE  uq'[v] = q /\ upc'[v] \in {"pop", "front"}
  <2>1. waiting' = waiting
    BY <1>2 DEF push_back, pop_front, front, clear, move_lock, copy_lock
  <2>2. v # u \/ (uq' = uq /\ upc' = upc)
    BY <1>2, <2>1 DEF push_back, pop_front, front, clear, move_lock, copy_lock, Calls
  <2>3. v # u => uq'[v] = uq[v] /\ upc'[v] = upc[v]
    BY <1>0, <1>2 DEF push_back, pop_front, front, clear, move_lock, copy_lock, Calls, Goes
  <2> QED BY <2>1, <2>2, <2>3
<1>3. ASSUME NEW u \in User, push_notify(u)
      PROVE  uq'[v] = q /\ upc'[v] \in {"pop", "front"}
  <2>1. v \in waiting[q]
    <3>1. uq[u] \in Queue /\ notify_one(uq[u])
      BY <1>3 DEF push_notify
    <3>2. waiting \in [Queue -> SUBSET User]
      OBVIOUS
    <3> HIDE DEF SafeTypeOK, SleepersInLoop
    <3>3. /\ \A r \in Queue : r # uq[u] => waiting'[r] = waiting[r]
          /\ \/ waiting' = waiting
             \/ \E t \in waiting[uq[u]] : waiting'[uq[u]] = waiting[uq[u]] \ {t}
      BY <3>1, <3>2, NotifyWakes
    <3> QED BY <3>3
  <2>2. v # u
    BY <1>3, <2>1 DEF push_notify
  <2> QED BY <1>3, <2>1, <2>2 DEF push_notify, Returns, Goes
<1>4. ASSUME NEW u \in User, wait_for_item(u)
      PROVE  uq'[v] = q /\ upc'[v] \in {"pop", "front"}
  BY <1>4 DEF wait_for_item, Wait, Awake
<1>5. ASSUME NEW u \in User, pop_item(u) \/ front_item(u)
      PROVE  uq'[v] = q /\ upc'[v] \in {"pop", "front"}
  <2>1. waiting' = waiting /\ u \notin waiting[uq[u]]
    BY <1>5 DEF pop_item, front_item, Awake
  <2>2. v # u
    BY <2>1
  <2> QED BY <1>5, <2>1, <2>2 DEF pop_item, front_item, Returns, Goes
<1>6. ASSUME NEW u \in User, NEW r \in Queue, move_assign(u, r)
      PROVE  uq'[v] = q /\ upc'[v] \in {"pop", "front"}
  <2>1. v # u /\ waiting' = waiting
    BY <1>6 DEF move_assign
  <2> QED BY <1>6, <2>1 DEF move_assign, Returns, Goes
<1> QED BY <1>1, <1>2, <1>3, <1>4, <1>5, <1>6
        DEF SafeNext, UserCall, UserStep

---------------------------------------------------------------------------
(* threadsafe_queue: where the items are.                                  *)

LEMMA ItemsKept ==
  ASSUME UNCHANGED <<items, pushed, popped, cleared>>, Accounted, InOnePlace
  PROVE  Accounted' /\ InOnePlace'
BY DEF Accounted, InOnePlace

LEMMA ItemSteps ==
  SafeTypeOK /\ Accounted /\ InOnePlace /\ [SafeNext]_svars => Accounted' /\ InOnePlace'
<1> SUFFICES ASSUME SafeTypeOK, Accounted, InOnePlace, [SafeNext]_svars
             PROVE  Accounted' /\ InOnePlace'
  OBVIOUS
<1> USE DEF SafeTypeOK, qvars, uvars
<1>1. CASE UNCHANGED svars
  BY <1>1, ItemsKept DEF svars
<1>2. ASSUME NEW u \in User, NEW q \in Queue, NEW x \in Item, push_back(u, q, x)
      PROVE  Accounted' /\ InOnePlace'
  <2>1. /\ x \notin pushed /\ pushed' = pushed \cup {x}
        /\ popped' = popped /\ cleared' = cleared
        /\ items'[q] = Append(items[q], x) /\ items[q] \in Seq(Item)
        /\ \A r \in Queue : r # q => items'[r] = items[r]
    BY <1>2 DEF push_back, Enqueue
  <2>2. /\ Len(items'[q]) = Len(items[q]) + 1 /\ Len(items[q]) \in Nat
        /\ \A k \in 1..Len(items[q]) : items'[q][k] = items[q][k]
        /\ items'[q][Len(items[q]) + 1] = x
        /\ Elems(items'[q]) = Elems(items[q]) \cup {x}
    BY <2>1, AppendElems
  <2>3. \A r \in Queue : r # q => Elems(items'[r]) = Elems(items[r])
    BY <2>1
  <2>4. \A r \in Queue : x \notin Elems(items[r])
    BY <2>1 DEF Accounted
  <2>5. x \notin cleared /\ popped[x] = 0
    BY <2>1 DEF Accounted
  <2>6. Accounted'
    BY <2>1, <2>2, <2>3, <2>5 DEF Accounted
  <2>7. \A j, k \in 1..Len(items'[q]) : items'[q][j] = items'[q][k] => j = k
    <3>1. \A j \in 1..Len(items[q]) : items'[q][j] # x
      BY <2>2, <2>4 DEF Elems
    <3>2. \A j \in 1..Len(items'[q]) : j \in 1..Len(items[q]) \/ j = Len(items[q]) + 1
      BY <2>2
    <3> QED BY <2>2, <3>1, <3>2 DEF InOnePlace
  <2>8. \A r, s \in Queue : \A y \in Item :
          y \in Elems(items'[r]) /\ y \in Elems(items'[s]) => r = s
    <3> SUFFICES ASSUME NEW r \in Queue, NEW s \in Queue, NEW y \in Item,
                        y \in Elems(items'[r]), y \in Elems(items'[s]), r # s
                 PROVE  FALSE
      OBVIOUS
    <3>1. y # x
      BY <2>3, <2>4
    <3>2. y \in Elems(items[r]) /\ y \in Elems(items[s])
      BY <2>2, <2>3, <3>1
    <3> QED BY <3>2 DEF InOnePlace
  <2>9. \A r \in Queue : \A j, k \in 1..Len(items'[r]) : items'[r][j] = items'[r][k] => j = k
    BY <2>1, <2>7 DEF InOnePlace
  <2>10. InOnePlace'
    BY <2>8, <2>9 DEF InOnePlace
  <2> QED BY <2>6, <2>10
<1>3. ASSUME NEW u \in User, pop_item(u)
      PROVE  Accounted' /\ InOnePlace'
  <2> DEFINE q == uq[u]
  <2> DEFINE x == Head(items[q])
  <2>1. /\ q \in Queue /\ items[q] \in Seq(Item) /\ items[q] # <<>>
        /\ items'[q] = Tail(items[q]) /\ \A r \in Queue : r # q => items'[r] = items[r]
        /\ popped' = [popped EXCEPT ![x] = @ + 1] /\ pushed' = pushed /\ cleared' = cleared
    BY <1>3 DEF pop_item, Dequeue, remove_front, empty
  <2> HIDE DEF q
  <2>2. \A j, k \in 1..Len(items[q]) : items[q][j] = items[q][k] => j = k
    BY <2>1 DEF InOnePlace
  <2>3. /\ x = items[q][1] /\ x \in Item /\ Len(items'[q]) = Len(items[q]) - 1
        /\ Len(items[q]) \in Nat \ {0}
        /\ \A k \in 1..Len(items'[q]) : items'[q][k] = items[q][k + 1]
        /\ Elems(items'[q]) = Elems(items[q]) \ {x}
    BY <2>1, <2>2, TailElems
  <2> HIDE DEF x
  <2>4. \A r \in Queue : r # q => Elems(items'[r]) = Elems(items[r])
    BY <2>1 DEF Elems
  <2>5. x \in Elems(items[q])
    BY <2>3 DEF Elems
  <2>6. popped[x] = 0 /\ x \notin cleared /\ \A r \in Queue : r # q => x \notin Elems(items[r])
    BY <2>1, <2>3, <2>5 DEF Accounted, InOnePlace
  <2>7. popped'[x] = 1 /\ \A y \in Item : y # x => popped'[y] = popped[y]
    BY <2>1, <2>3, <2>6
  <2>8. x \in pushed
    BY <2>1, <2>3, <2>5 DEF Accounted
  <2>9. Accounted'
    <3> SUFFICES ASSUME NEW y \in Item
                 PROVE  /\ y \in pushed <=> (\E r \in Queue : y \in Elems(items'[r]))
                                            \/ popped'[y] = 1 \/ y \in cleared
                        /\ popped'[y] \in {0, 1} /\ ~ (popped'[y] = 1 /\ y \in cleared)
                        /\ \A r \in Queue : y \in Elems(items'[r]) => popped'[y] = 0 /\ y \notin cleared
      BY <2>1 DEF Accounted
    <3>1. CASE y = x
      BY <2>1, <2>3, <2>4, <2>6, <2>7, <2>8, <3>1
    <3>2. CASE y # x
      <4>1. \A r \in Queue : y \in Elems(items'[r]) <=> y \in Elems(items[r])
        BY <2>3, <2>4, <3>2
      <4> QED BY <2>7, <3>2, <4>1 DEF Accounted
    <3> QED BY <3>1, <3>2
  <2>10. \A j, k \in 1..Len(items'[q]) : items'[q][j] = items'[q][k] => j = k
    <3> SUFFICES ASSUME NEW j \in 1..Len(items'[q]), NEW k \in 1..Len(items'[q]),
                        items'[q][j] = items'[q][k]
                 PROVE  j = k
      OBVIOUS
    <3>1. j + 1 \in 1..Len(items[q]) /\ k + 1 \in 1..Len(items[q]) /\ items[q][j + 1] = items[q][k + 1]
      BY <2>3
    <3>2. j + 1 = k + 1
      BY <2>2, <3>1
    <3> QED BY <3>2
  <2>11. InOnePlace'
    BY <2>1, <2>3, <2>4, <2>10 DEF InOnePlace
  <2> QED BY <2>9, <2>11
<1>4. ASSUME NEW u \in User, NEW q \in Queue, clear(u, q)
      PROVE  Accounted' /\ InOnePlace'
  <2>1. /\ cleared' = cleared \cup Elems(items[q]) /\ items'[q] = <<>>
        /\ \A r \in Queue : r # q => items'[r] = items[r]
        /\ popped' = popped /\ pushed' = pushed
    BY <1>4 DEF clear, Elems
  <2>2. Elems(items'[q]) = {} /\ Len(items'[q]) = 0 /\ \A r \in Queue : r # q => Elems(items'[r]) = Elems(items[r])
    BY <2>1 DEF Elems
  <2>3. Accounted'
    <3> SUFFICES ASSUME NEW y \in Item
                 PROVE  /\ y \in pushed <=> (\E s \in Queue : y \in Elems(items'[s]))
                                            \/ popped[y] = 1 \/ y \in cleared'
                        /\ popped[y] \in {0, 1} /\ ~ (popped[y] = 1 /\ y \in cleared')
                        /\ \A s \in Queue : y \in Elems(items'[s]) => popped[y] = 0 /\ y \notin cleared'
      BY <2>1 DEF Accounted
    <3>1. CASE y \in Elems(items[q])
      <4>1. \A s \in Queue : y \notin Elems(items'[s])
        BY <2>2, <3>1 DEF InOnePlace
      <4> QED BY <2>1, <3>1, <4>1 DEF Accounted
    <3>2. CASE y \notin Elems(items[q])
      <4>1. \A s \in Queue : y \in Elems(items'[s]) <=> y \in Elems(items[s])
        BY <2>2, <3>2
      <4>2. y \in cleared' <=> y \in cleared
        BY <2>1, <3>2
      <4> QED BY <4>1, <4>2 DEF Accounted
    <3> QED BY <3>1, <3>2
  <2>4. InOnePlace'
    <3>1. \A r, s \in Queue : \A y \in Item :
            y \in Elems(items'[r]) /\ y \in Elems(items'[s]) => r = s
      BY <2>2 DEF InOnePlace
    <3>2. \A r \in Queue : \A j, k \in 1..Len(items'[r]) : items'[r][j] = items'[r][k] => j = k
      <4>1. \A j, k \in 1..Len(items'[q]) : items'[q][j] = items'[q][k] => j = k
        BY <2>2
      <4> QED BY <2>1, <4>1 DEF InOnePlace
    <3> QED BY <3>1, <3>2 DEF InOnePlace
  <2> QED BY <2>3, <2>4
<1>5. ASSUME NEW u \in User, NEW r \in Queue, move_assign(u, r)
      PROVE  Accounted' /\ InOnePlace'
  <2> DEFINE q == uq[u]
  <2>1. /\ q \in Queue /\ r # q /\ cleared' = cleared \cup Elems(items[q])
        /\ items'[q] = items[r] /\ items'[r] = <<>>
        /\ \A s \in Queue : s \notin {q, r} => items'[s] = items[s]
        /\ popped' = popped /\ pushed' = pushed
    BY <1>5 DEF move_assign, Elems
  <2> HIDE DEF q
  <2>2. /\ Elems(items'[q]) = Elems(items[r]) /\ Elems(items'[r]) = {} /\ Len(items'[r]) = 0
        /\ \A s \in Queue : s \notin {q, r} => Elems(items'[s]) = Elems(items[s])
    BY <2>1 DEF Elems
  <2>3. Accounted'
    <3> SUFFICES ASSUME NEW y \in Item
                 PROVE  /\ y \in pushed <=> (\E s \in Queue : y \in Elems(items'[s]))
                                            \/ popped[y] = 1 \/ y \in cleared'
                        /\ popped[y] \in {0, 1} /\ ~ (popped[y] = 1 /\ y \in cleared')
                        /\ \A s \in Queue : y \in Elems(items'[s]) => popped[y] = 0 /\ y \notin cleared'
      BY <2>1 DEF Accounted
    <3>1. CASE y \in Elems(items[q])
      <4>1. \A s \in Queue : y \notin Elems(items'[s])
        BY <2>1, <2>2, <3>1 DEF InOnePlace
      <4> QED BY <2>1, <3>1, <4>1 DEF Accounted
    <3>2. CASE y \notin Elems(items[q])
      <4>1. (\E s \in Queue : y \in Elems(items'[s])) <=> (\E s \in Queue : y \in Elems(items[s]))
        BY <2>1, <2>2, <3>2
      <4>2. y \in cleared' <=> y \in cleared
        BY <2>1, <3>2
      <4> QED BY <4>1, <4>2 DEF Accounted
    <3> QED BY <3>1, <3>2
  <2>4. InOnePlace'
    <3>1. \A s, t \in Queue : \A y \in Item : y \in Elems(items'[s]) /\ y \in Elems(items'[t]) => s = t
      BY <2>1, <2>2 DEF InOnePlace
    <3>2. \A s \in Queue : \A j, k \in 1..Len(items'[s]) : items'[s][j] = items'[s][k] => j = k
      <4> SUFFICES ASSUME NEW s \in Queue
                   PROVE  \A j, k \in 1..Len(items'[s]) : items'[s][j] = items'[s][k] => j = k
        OBVIOUS
      <4>1. CASE s = q
        <5>1. items'[s] = items[r]
          BY <2>1, <4>1
        <5>2. \A j, k \in 1..Len(items[r]) : items[r][j] = items[r][k] => j = k
          BY DEF InOnePlace
        <5> QED BY <5>1, <5>2
      <4>2. CASE s = r
        BY <2>2, <4>2
      <4>3. CASE s \notin {q, r}
        <5>1. items'[s] = items[s]
          BY <2>1, <4>3
        <5>2. \A j, k \in 1..Len(items[s]) : items[s][j] = items[s][k] => j = k
          BY DEF InOnePlace
        <5> QED BY <5>1, <5>2
      <4> QED BY <4>1, <4>2, <4>3
    <3> QED BY <3>1, <3>2 DEF InOnePlace
  <2> QED BY <2>3, <2>4
<1>6. ASSUME NEW u \in User,
             \/ push_notify(u) \/ wait_for_item(u) \/ front_item(u)
             \/ \E q \in Queue : pop_front(u, q) \/ front(u, q) \/ move_lock(u, q) \/ copy_lock(u, q)
      PROVE  Accounted' /\ InOnePlace'
  BY <1>6, ItemsKept DEF push_notify, wait_for_item, front_item, pop_front, front, move_lock, copy_lock
<1> QED BY <1>1, <1>2, <1>3, <1>4, <1>5, <1>6
        DEF SafeNext, UserCall, UserStep

LEMMA SafeBegins == SafeInit => SafeInv
<1> SUFFICES ASSUME SafeInit PROVE SafeInv
  OBVIOUS
<1> USE DEF SafeInit, QueueInit
<1>1. SafeTypeOK
  <2>1. items \in [Queue -> Seq(Item)] /\ waiting \in [Queue -> SUBSET User]
    OBVIOUS
  <2>2. upc \in [User -> {"idle", "notify", "pop", "front", "move", "copy"}]
        /\ uq \in [User -> Queue \cup {NoQueue}] /\ popped \in [Item -> Nat]
    OBVIOUS
  <2>3. program \in SUBSET {"push", "pop", "front", "clear", "move", "copy"}
    BY SafeAssumption
  <2>4. \A u \in User : upc[u] = "idle"
    OBVIOUS
  <2>5. pushed = {} /\ cleared = {}
    OBVIOUS
  <2> HIDE DEF SafeInit
  <2> QED BY <2>1, <2>2, <2>3, <2>4, <2>5 DEF SafeTypeOK
<1>2. \A q \in Queue : items[q] = <<>> /\ Elems(items[q]) = {} /\ waiting[q] = {}
  BY DEF Elems
<1>3. SleepersInLoop
  BY <1>2 DEF SleepersInLoop
<1>4. Accounted
  BY <1>2 DEF Accounted
<1>5. InOnePlace
  BY <1>2 DEF InOnePlace
<1> QED BY <1>1, <1>3, <1>4, <1>5 DEF SafeInv

LEMMA SafeIsInductive == SafeSpec => []SafeInv
<1>1. SafeInv /\ [SafeNext]_svars => SafeInv'
  BY SafeTypes, SleepersStay, ItemSteps DEF SafeInv
<1> QED BY SafeBegins, <1>1, PTL DEF SafeSpec

(* Whatever operations of threadsafe_queue any number of threads run side  *)
(* by side, on any number of queues, no item is lost or handed out twice.  *)
THEOREM ItemIsInOnePlace == SafeSpec => []ItemOnce
<1>1. SafeInv => ItemOnce
  <2> SUFFICES ASSUME SafeInv PROVE ItemOnce
    OBVIOUS
  <2>0. SafeTypeOK /\ Accounted /\ InOnePlace
    BY DEF SafeInv
  <2>1. \A q \in Queue : /\ DOMAIN items[q] = 1..Len(items[q])
                         /\ Elems(items[q]) \subseteq Item
    BY <2>0 DEF SafeTypeOK, Elems
  <2>2. \A x : x \in Held <=> \E q \in Queue : x \in Elems(items[q])
    BY <2>1 DEF Held, Elems
  <2>3. Held \subseteq Item
    BY <2>1, <2>2
  <2>4. \A x \in Item : x \in Popped <=> popped[x] = 1
    BY <2>0 DEF Popped, Accounted
  <2>5. Popped \subseteq Item
    BY DEF Popped
  <2>6. pushed = Held \cup Popped \cup cleared
    BY <2>0, <2>2, <2>3, <2>4, <2>5 DEF SafeTypeOK, Accounted
  <2>7. Held \cap Popped = {} /\ Held \cap cleared = {} /\ Popped \cap cleared = {}
    BY <2>0, <2>2, <2>3, <2>4, <2>5 DEF Accounted
  <2>8. \A x \in Item : popped[x] <= 1
    BY <2>0 DEF Accounted
  <2>9. ASSUME NEW q \in Queue, NEW r \in Queue,
               NEW j \in DOMAIN items[q], NEW k \in DOMAIN items[r], items[q][j] = items[r][k]
        PROVE  q = r /\ j = k
    <3>1. j \in 1..Len(items[q]) /\ k \in 1..Len(items[r])
      BY <2>1
    <3>2. items[q][j] \in Elems(items[q]) /\ items[q][j] \in Elems(items[r])
      BY <2>9, <3>1 DEF Elems
    <3>3. q = r
      BY <2>0, <2>1, <3>2 DEF InOnePlace
    <3> QED BY <2>0, <2>9, <3>1, <3>3 DEF InOnePlace
  <2> QED BY <2>6, <2>7, <2>8, <2>9 DEF ItemOnce
<1> QED BY SafeIsInductive, <1>1, PTL

---------------------------------------------------------------------------
(* threadsafe_queue: the wakeups.                                          *)

(* The threads that will look at queue q again or wake one that does. *)
Attending(q) == {u \in User : uq[u] = q /\ (upc[u] = "notify" \/ Awake(u))}

PlainProgram == program \subseteq {"push", "pop", "clear"}

Attended ==
  PlainProgram => \A q \in Queue : waiting[q] # {} => Len(items[q]) <= Cardinality(Attending(q))

LEMMA AttendingIsFinite ==
  ASSUME NEW q PROVE IsFiniteSet(Attending(q)) /\ Cardinality(Attending(q)) \in Nat
<1>1. Attending(q) \in SUBSET User
  BY DEF Attending
<1>2. IsFiniteSet(Attending(q))
  BY <1>1, SafeAssumption, FS_Subset
<1> QED BY <1>2, FS_CardinalityType

LEMMA AttendedSteps == SafeInv /\ Attended /\ [SafeNext]_svars => Attended'
<1> SUFFICES ASSUME SafeInv, Attended, [SafeNext]_svars, PlainProgram',
                    NEW q \in Queue, waiting'[q] # {}
             PROVE  Len(items'[q]) <= Cardinality(Attending(q)')
  BY DEF Attended
<1>0. /\ SafeTypeOK /\ SleepersInLoop /\ items[q] \in Seq(Item) /\ Len(items[q]) \in Nat
      /\ waiting \in [Queue -> SUBSET User]
  BY DEF SafeInv, SafeTypeOK
<1>a. program' = program
  BY DEF SafeNext, UserCall, UserStep, push_back, pop_front, front, clear, move_lock, copy_lock,
         push_notify, wait_for_item, pop_item, front_item, move_assign, svars, uvars
<1>b. PlainProgram /\ \A u \in User : upc[u] \notin {"front", "move"}
  BY <1>0, <1>a DEF PlainProgram, SafeTypeOK
<1>c. waiting[q] # {} => Len(items[q]) <= Cardinality(Attending(q))
  BY <1>b DEF Attended
<1>d. IsFiniteSet(Attending(q)) /\ Cardinality(Attending(q)) \in Nat
  BY AttendingIsFinite
<1> USE DEF qvars, uvars
<1>1. CASE UNCHANGED svars
  BY <1>1, <1>c DEF svars, Attending, Awake
<1>2. ASSUME NEW u \in User, NEW r \in Queue, NEW x \in Item, push_back(u, r, x)
      PROVE  Len(items'[q]) <= Cardinality(Attending(q)')
  <2>1. /\ waiting' = waiting /\ upc[u] = "idle"
        /\ upc' = [upc EXCEPT ![u] = "notify"] /\ uq' = [uq EXCEPT ![u] = r]
    BY <1>2 DEF push_back, Calls, Goes
  <2>2. u \notin Attending(q)
    BY <2>1 DEF Attending, Awake
  <2>3. CASE r = q
    <3>1. Attending(q)' = Attending(q) \cup {u}
      BY <1>0, <2>1, <2>3 DEF Attending, Awake, SafeTypeOK
    <3>2. Cardinality(Attending(q)') = Cardinality(Attending(q)) + 1
      BY <1>d, <2>2, <3>1, FS_AddElement
    <3>3. Len(items'[q]) = Len(items[q]) + 1
      BY <1>0, <1>2, <2>3 DEF push_back, Enqueue, SafeTypeOK
    <3> QED BY <1>0, <1>c, <1>d, <2>1, <3>2, <3>3
  <2>4. CASE r # q
    <3>1. Attending(q)' = Attending(q)
      BY <1>0, <2>1, <2>2, <2>4 DEF Attending, Awake, SafeTypeOK
    <3>2. items'[q] = items[q]
      BY <1>0, <1>2, <2>4 DEF push_back, Enqueue, SafeTypeOK
    <3> QED BY <1>c, <2>1, <3>1, <3>2
  <2> QED BY <2>3, <2>4
<1>3. ASSUME NEW u \in User, NEW r \in Queue, pop_front(u, r)
      PROVE  Len(items'[q]) <= Cardinality(Attending(q)')
  <2>1. /\ waiting' = waiting /\ items' = items /\ upc[u] = "idle"
        /\ upc' = [upc EXCEPT ![u] = "pop"] /\ uq' = [uq EXCEPT ![u] = r]
    BY <1>3 DEF pop_front, Calls, Goes
  <2>2. u \notin Attending(q) /\ u \notin waiting[r]
    BY <1>0, <2>1 DEF Attending, Awake, SleepersInLoop
  <2>3. CASE r = q
    <3>1. Attending(q)' = Attending(q) \cup {u}
      BY <1>0, <2>1, <2>2, <2>3 DEF Attending, Awake, SafeTypeOK
    <3>2. Cardinality(Attending(q)') = Cardinality(Attending(q)) + 1
      BY <1>d, <2>2, <3>1, FS_AddElement
    <3> QED BY <1>0, <1>c, <1>d, <2>1, <3>2
  <2>4. CASE r # q
    <3>1. Attending(q)' = Attending(q)
      BY <1>0, <2>1, <2>2, <2>4 DEF Attending, Awake, SafeTypeOK
    <3> QED BY <1>c, <2>1, <3>1
  <2> QED BY <2>3, <2>4
<1>4. ASSUME NEW u \in User, NEW r \in Queue, clear(u, r)
      PROVE  Len(items'[q]) <= Cardinality(Attending(q)')
  <2>1. Attending(q)' = Attending(q) /\ waiting' = waiting
    BY <1>4 DEF clear, Attending, Awake
  <2>2. items'[q] = items[q] \/ Len(items'[q]) = 0
    BY <1>0, <1>4 DEF clear, SafeTypeOK
  <2> QED BY <1>c, <1>d, <2>1, <2>2
<1>5. ASSUME NEW u \in User, push_notify(u)
      PROVE  Len(items'[q]) <= Cardinality(Attending(q)')
  <2> DEFINE r == uq[u]
  <2>1. /\ r \in Queue /\ notify_one(r) /\ items' = items /\ upc[u] = "notify"
        /\ upc' = [upc EXCEPT ![u] = "idle"] /\ uq' = [uq EXCEPT ![u] = NoQueue]
    BY <1>0, <1>5 DEF push_notify, Returns, Goes, SafeTypeOK
  <2>2. uq[u] = r
    OBVIOUS
  <2> HIDE DEF r
  <2>3. /\ \A s \in Queue : s # r => waiting'[s] = waiting[s]
        /\ \/ waiting[r] = {} /\ waiting' = waiting
           \/ \E t \in waiting[r] : waiting'[r] = waiting[r] \ {t}
    BY <1>0, <2>1, NotifyWakes
  <2>4. CASE q # r
    <3>1. waiting'[q] = waiting[q]
      BY <2>3, <2>4
    <3>2. Attending(q)' = Attending(q)
      BY <1>0, <2>1, <2>2, <2>4, <3>1 DEF Attending, Awake, SafeTypeOK
    <3> QED BY <1>c, <2>1, <3>1, <3>2
  <2>5. CASE q = r
    <3>1. PICK t \in waiting[r] : waiting'[r] = waiting[r] \ {t}
      BY <2>3, <2>5
    <3>2. t \in User /\ uq[t] = q /\ upc[t] = "pop" /\ t # u
      BY <1>0, <1>b, <2>1, <2>5, <3>1 DEF SleepersInLoop
    <3>3. t \notin Attending(q) /\ u \in Attending(q)
      BY <2>1, <2>2, <2>5, <3>1, <3>2 DEF Attending, Awake
    <3>4. Attending(q)' = (Attending(q) \cup {t}) \ {u}
      BY <1>0, <2>1, <2>2, <2>5, <3>1, <3>2 DEF Attending, Awake, SafeTypeOK
    <3>5. /\ IsFiniteSet(Attending(q) \cup {t})
          /\ Cardinality(Attending(q) \cup {t}) = Cardinality(Attending(q)) + 1
      BY <1>d, <3>3, FS_AddElement
    <3>6. Cardinality(Attending(q)') = Cardinality(Attending(q) \cup {t}) - 1
      BY <3>3, <3>4, <3>5, FS_RemoveElement
    <3> QED BY <1>c, <1>d, <2>1, <2>5, <3>1, <3>5, <3>6
  <2> QED BY <2>4, <2>5
<1>6. ASSUME NEW u \in User, wait_for_item(u)
      PROVE  Len(items'[q]) <= Cardinality(Attending(q)')
  <2> DEFINE r == uq[u]
  <2>1. /\ r \in Queue /\ items[r] = <<>> /\ items' = items /\ upc' = upc /\ uq' = uq
        /\ waiting' = [waiting EXCEPT ![r] = @ \cup {u}]
    BY <1>0, <1>6 DEF wait_for_item, Wait, empty, Awake, SafeTypeOK
  <2>2. CASE q = r
    <3>1. Cardinality(Attending(q)') \in Nat
      <4>1. Attending(q)' \in SUBSET User
        BY DEF Attending
      <4> QED BY <4>1, SafeAssumption, FS_Subset, FS_CardinalityType
    <3> QED BY <2>1, <2>2, <3>1
  <2>3. CASE q # r
    <3>1. waiting'[q] = waiting[q]
      BY <1>0, <2>1, <2>3
    <3>2. Attending(q)' = Attending(q)
      BY <2>1, <3>1 DEF Attending, Awake
    <3> QED BY <1>c, <2>1, <3>1, <3>2
  <2> QED BY <2>2, <2>3
<1>7. ASSUME NEW u \in User, pop_item(u)
      PROVE  Len(items'[q]) <= Cardinality(Attending(q)')
  <2> DEFINE r == uq[u]
  <2>1. /\ r \in Queue /\ items[r] # <<>> /\ items' = [items EXCEPT ![r] = Tail(@)]
        /\ waiting' = waiting /\ Awake(u)
        /\ upc' = [upc EXCEPT ![u] = "idle"] /\ uq' = [uq EXCEPT ![u] = NoQueue]
    BY <1>0, <1>7 DEF pop_item, Dequeue, remove_front, empty, Awake, Returns, Goes, SafeTypeOK
  <2>2. uq[u] = r
    OBVIOUS
  <2> HIDE DEF r
  <2>3. CASE q # r
    <3>1. Attending(q)' = Attending(q)
      BY <1>0, <2>1, <2>2, <2>3 DEF Attending, Awake, SafeTypeOK
    <3>2. items'[q] = items[q]
      BY <1>0, <2>1, <2>3 DEF SafeTypeOK
    <3> QED BY <1>c, <2>1, <3>1, <3>2
  <2>4. CASE q = r
    <3>1. u \in Attending(q) /\ Attending(q)' = Attending(q) \ {u}
      BY <1>0, <2>1, <2>2, <2>4 DEF Attending, Awake, SafeTypeOK
    <3>2. Cardinality(Attending(q)') = Cardinality(Attending(q)) - 1
      BY <1>d, <3>1, FS_RemoveElement
    <3>3. Len(items'[q]) = Len(items[q]) - 1
      BY <1>0, <2>1, <2>4 DEF SafeTypeOK
    <3> QED BY <1>0, <1>c, <1>d, <2>1, <3>2, <3>3
  <2> QED BY <2>3, <2>4
<1>8. ASSUME NEW u \in User,
             \/ front_item(u)
             \/ \E r \in Queue : \/ front(u, r) \/ move_lock(u, r) \/ copy_lock(u, r)
                                 \/ move_assign(u, r)
      PROVE  FALSE
  BY <1>8, <1>b DEF PlainProgram, front_item, front, move_lock, copy_lock, move_assign, Calls
<1> QED BY <1>1, <1>2, <1>3, <1>4, <1>5, <1>6, <1>7, <1>8
        DEF SafeNext, UserCall, UserStep

(* With any number of threads in push_back, pop_front and clear, no wakeup *)
(* is lost though push_back notifies after the unlock: while a thread      *)
(* sleeps on a queue, at least as many others attend to it as it has items.*)
THEOREM NoSleeperIsMissed == SafeSpec => []NoSleeperMissed
<1>1. SafeInit => Attended
  BY DEF SafeInit, QueueInit, Attended
<1>2. Attended => NoSleeperMissed
  BY DEF Attended, PlainProgram, Attending, NoSleeperMissed
<1> QED BY SafeIsInductive, AttendedSteps, <1>1, <1>2, PTL DEF SafeSpec

---------------------------------------------------------------------------
(* threadPool.                                                             *)

Task0 == Task \cup {Dummy}

(* The pool, its calls, its workers and the history have their types. *)
PoolTypeOK ==
  /\ items \in [Queue -> Seq(Task0)]
  /\ mtx \in BOOLEAN /\ endFlag \in BOOLEAN /\ threadNum \in 0..MaxThreads
  /\ readers \subseteq (Pusher \cup Queue) \X Queue \X Task0
  /\ wpc \in [Queue -> {"none", "loop", "pop", "drain", "run", "push", "exited"}]
  /\ cur \in [Queue -> Task0] /\ draining \in [Queue -> BOOLEAN]
  /\ call \in {"none", "start", "end"} /\ cpc \in {"idle", "loop", "notify", "join"}
  /\ n \in 0..MaxThreads /\ i \in 0..n
  /\ tasks \in [Queue -> Seq(Task)] /\ ran \in [Queue -> Seq(Task)]

(* _mtx excludes push() from start() and end(); the flag says what the     *)
(* call does.  A start() of a running pool does not get past worker 0.     *)
CallShape ==
  /\ mtx <=> call # "none"
  /\ cpc = "idle" <=> call = "none"
  /\ mtx => readers = {}
  /\ \A r \in readers : r[2] < threadNum
  /\ cpc \in {"notify", "join"} => i < n /\ Joinable(i)
  /\ call = "none" => (endFlag <=> threadNum = 0)
  /\ call = "start" => ~ endFlag /\ n > 0 /\ (threadNum > 0 => i = 0)
  /\ call = "end" => endFlag /\ threadNum = 0

(* Which threads there are, and that they stop only for end(). *)
ThreadsThere ==
  \A w \in Queue :
    /\ call = "none" => (Joinable(w) <=> w < threadNum)
    /\ call = "start" => (Joinable(w) <=> w < i \/ w < threadNum)
    /\ call = "end" => (Joinable(w) => i <= w /\ w < n)
    /\ wpc[w] \in {"drain", "exited"} => call = "end"
    /\ Joinable(w) /\ draining[w] => call = "end"

(* How many tasks have left the queue of a worker that has run rn, is at pc *)
(* and has task c.                                                         *)
Begun(rn, pc, c) == Len(rn) + (IF pc = "run" /\ c # Dummy THEN 1 ELSE 0)

(* A queue holds the tasks after the first b, in order; perhaps (a) an     *)
(* empty task before them that came too late for the end() of before, and  *)
(* perhaps (z) the one by which end() wakes the worker.                    *)
Shape(its, ts, b, a, z) ==
  /\ Len(its) = a + (Len(ts) - b) + z
  /\ \A k \in 1..Len(its) :
       its[k] = IF a < k /\ k <= a + (Len(ts) - b) THEN ts[b + k - a] ELSE Dummy

(* A worker's queue, its tasks, what it has run, where it is and the task  *)
(* it has fit together; woken says that an end() waits for it.             *)
Holds(its, ts, rn, pc, c, woken) ==
  /\ Begun(rn, pc, c) <= Len(ts)
  /\ \E a, z \in {0, 1} : Shape(its, ts, Begun(rn, pc, c), a, z) /\ (z = 1 => woken)
  /\ \A k \in 1..Len(rn) : rn[k] = ts[k]
  /\ pc = "run" /\ c # Dummy => c = ts[Len(rn) + 1]
  /\ pc \in {"none", "exited"} => Len(rn) = Len(ts)
  /\ pc = "exited" => Len(its) <= IF woken THEN 1 ELSE 0

Waking(w) == i = w /\ cpc \in {"notify", "join"}

WorkInOrder ==
  \A w \in Queue : Holds(items[w], tasks[w], ran[w], wpc[w], cur[w], Waking(w))

(* The tasks that the sequences of f hold. *)
Placed(f) == UNION {Elems(f[w]) : w \in Queue}

InReaders(t) == \E r \in readers : r[3] = t

(* A task is pushed once; a child only after its parent has run. *)
TaskOnce ==
  /\ \A v, w \in Queue : \A j \in 1..Len(tasks[v]), k \in 1..Len(tasks[w]) :
       tasks[v][j] = tasks[w][k] => v = w /\ j = k
  /\ \A r, s \in readers : r[3] = s[3] /\ r[3] # Dummy => r = s
  /\ \A r \in readers : r[3] \notin Placed(tasks)
  /\ \A w \in Queue : wpc[w] = "push" =>
       cur[w] \in DOMAIN Child /\ Len(ran[w]) > 0 /\ cur[w] = ran[w][Len(ran[w])]
  /\ \A t \in DOMAIN Child : Child[t] \in Placed(tasks) \/ InReaders(Child[t]) =>
       t \in Placed(ran) /\ \A w \in Queue : wpc[w] = "push" => cur[w] # t

PoolInv == PoolTypeOK /\ CallShape /\ ThreadsThere /\ WorkInOrder /\ TaskOnce

---------------------------------------------------------------------------
(* What each step of a worker does to its queue.                           *)

(* push(): the queue of a worker that runs, with no end() under way. *)
LEMMA HoldsPush ==
  ASSUME NEW its \in Seq(Task0), NEW ts \in Seq(Task), NEW rn \in Seq(Task), NEW c, NEW pc,
         NEW t \in Task, pc \notin {"none", "exited"}, Holds(its, ts, rn, pc, c, FALSE)
  PROVE  Holds(Append(its, t), Append(ts, t), rn, pc, c, FALSE)
<1> DEFINE b == Begun(rn, pc, c)
<1>1. PICK a \in {0, 1} : Shape(its, ts, b, a, 0)
  BY DEF Holds
<1>2. /\ b \in Nat /\ b <= Len(ts) /\ Len(its) \in Nat /\ Len(ts) \in Nat /\ Len(rn) \in Nat /\ Len(rn) <= b
      /\ (pc = "run" /\ c # Dummy) => b = Len(rn) + 1
  BY DEF Holds, Begun
<1> HIDE DEF b
<1>3. /\ Len(Append(its, t)) = Len(its) + 1 /\ Len(Append(ts, t)) = Len(ts) + 1
      /\ \A k \in 1..Len(its) : Append(its, t)[k] = its[k]
      /\ \A k \in 1..Len(ts) : Append(ts, t)[k] = ts[k]
      /\ Append(its, t)[Len(its) + 1] = t /\ Append(ts, t)[Len(ts) + 1] = t
  BY AppendElems DEF Task0
<1>4. Shape(Append(its, t), Append(ts, t), b, a, 0)
  <2>1. Len(its) = a + (Len(ts) - b)
    BY <1>1, <1>2 DEF Shape
  <2>2. ASSUME NEW k \in 1..(Len(its) + 1)
        PROVE  Append(its, t)[k] = IF a < k /\ k <= a + (Len(ts) + 1 - b)
                                   THEN Append(ts, t)[b + k - a] ELSE Dummy
    <3>1. CASE k = Len(its) + 1
      <4>1. a < k /\ k <= a + (Len(ts) + 1 - b) /\ b + k - a = Len(ts) + 1
        BY <1>2, <2>1, <3>1
      <4> QED BY <1>3, <3>1, <4>1
    <3>2. CASE k # Len(its) + 1
      <4>1. k \in 1..Len(its)
        BY <1>2, <3>2
      <4>2. its[k] = IF a < k /\ k <= a + (Len(ts) - b) THEN ts[b + k - a] ELSE Dummy
        BY <1>1, <4>1 DEF Shape
      <4>3. a < k => b + k - a \in 1..Len(ts) /\ k <= a + (Len(ts) - b) /\ k <= a + (Len(ts) + 1 - b)
        BY <1>2, <2>1, <4>1
      <4> QED BY <1>3, <4>1, <4>2, <4>3
    <3> QED BY <3>1, <3>2
  <2> DEFINE its2 == Append(its, t)
             ts2 == Append(ts, t)
  <2>3. Len(its2) = a + (Len(ts2) - b) + 0
    BY <1>2, <1>3, <2>1
  <2>4. /\ \A k \in 1..(Len(its) + 1) : its2[k] = IF a < k /\ k <= a + (Len(ts) + 1 - b)
                                                THEN ts2[b + k - a] ELSE Dummy
        /\ Len(its2) = Len(its) + 1 /\ Len(ts2) = Len(ts) + 1
    BY <1>3, <2>2
  <2> HIDE DEF its2, ts2
  <2>5. Shape(its2, ts2, b, a, 0)
    <3>1. ASSUME NEW k \in 1..Len(its2)
          PROVE  its2[k] = IF a < k /\ k <= a + (Len(ts2) - b) THEN ts2[b + k - a] ELSE Dummy
      <4>1. k \in 1..(Len(its) + 1)
        BY <2>4
      <4>2. its2[k] = IF a < k /\ k <= a + (Len(ts) + 1 - b) THEN ts2[b + k - a] ELSE Dummy
        BY <2>4, <4>1
      <4>3. a + (Len(ts) + 1 - b) = a + (Len(ts2) - b)
        BY <1>2, <2>4
      <4> QED BY <4>2, <4>3
    <3> QED BY <2>3, <3>1 DEF Shape
  <2> QED BY <2>5 DEF its2, ts2
<1>5. b <= Len(Append(ts, t)) /\ \A k \in 1..Len(rn) : rn[k] = Append(ts, t)[k]
  BY <1>2, <1>3 DEF Holds
<1>6. pc = "run" /\ c # Dummy => c = Append(ts, t)[Len(rn) + 1]
  BY <1>2, <1>3 DEF Holds
<1> QED BY <1>4, <1>5, <1>6 DEF Holds, b

(* worker::end: the empty task behind the others. *)
LEMMA HoldsWake ==
  ASSUME NEW its \in Seq(Task0), NEW ts \in Seq(Task), NEW rn \in Seq(Task), NEW c, NEW pc,
         Holds(its, ts, rn, pc, c, FALSE)
  PROVE  Holds(Append(its, Dummy), ts, rn, pc, c, TRUE)
<1> DEFINE b == Begun(rn, pc, c)
<1>1. PICK a \in {0, 1} : Shape(its, ts, b, a, 0)
  BY DEF Holds
<1>2. b \in Nat /\ b <= Len(ts) /\ Len(its) \in Nat /\ Len(ts) \in Nat
  BY DEF Holds, Begun
<1> HIDE DEF b
<1>3. /\ Len(Append(its, Dummy)) = Len(its) + 1
      /\ \A k \in 1..Len(its) : Append(its, Dummy)[k] = its[k]
      /\ Append(its, Dummy)[Len(its) + 1] = Dummy
  BY AppendElems DEF Task0
<1>4. Len(its) = a + (Len(ts) - b)
  BY <1>1, <1>2 DEF Shape
<1>5. ASSUME NEW k \in 1..(Len(its) + 1)
      PROVE  Append(its, Dummy)[k] = IF a < k /\ k <= a + (Len(ts) - b)
                                     THEN ts[b + k - a] ELSE Dummy
  <2>1. CASE k = Len(its) + 1
    BY <1>2, <1>3, <1>4, <2>1
  <2>2. CASE k \in 1..Len(its)
    BY <1>1, <1>3, <2>2 DEF Shape
  <2> QED BY <1>2, <2>1, <2>2
<1>6. Shape(Append(its, Dummy), ts, b, a, 1)
  BY <1>2, <1>3, <1>4, <1>5 DEF Shape
<1>7. pc = "exited" => Len(Append(its, Dummy)) <= 1
  BY <1>2, <1>3 DEF Holds
<1> QED BY <1>6, <1>7 DEF Holds, b

(* The join: the empty task may still be in the queue. *)
LEMMA HoldsJoined ==
  ASSUME NEW its \in Seq(Task0), NEW ts \in Seq(Task), NEW rn \in Seq(Task), NEW c,
         Holds(its, ts, rn, "exited", c, TRUE)
  PROVE  Holds(its, ts, rn, "none", c, FALSE)
<1>1. PICK a \in {0, 1}, z \in {0, 1} : Shape(its, ts, Len(rn), a, z)
  BY DEF Holds, Begun
<1> DEFINE l == Len(its)
<1>2. l <= 1 /\ l \in Nat /\ Len(rn) = Len(ts) /\ Len(rn) \in Nat
  BY DEF Holds
<1>3. l = a + (Len(ts) - Len(rn)) + z /\ \A k \in 1..l : its[k] = Dummy \/ (a < k /\ k <= a + (Len(ts) - Len(rn)))
  BY <1>1 DEF Shape
<1>4. Len(its) = l
  OBVIOUS
<1> HIDE DEF l
<1>5. \A k \in 1..l : its[k] = Dummy
  BY <1>2, <1>3
<1>6. l \in {0, 1} /\ l = l + (Len(ts) - Len(rn)) + 0
  BY <1>2
<1>7. Shape(its, ts, Len(rn), l, 0)
  BY <1>2, <1>4, <1>5, <1>6 DEF Shape
<1> QED BY <1>2, <1>6, <1>7 DEF Holds, Begun

(* pop_front of a worker: a task, or one of the empty tasks. *)
LEMMA HoldsPop ==
  ASSUME NEW its \in Seq(Task0), NEW ts \in Seq(Task), NEW rn \in Seq(Task), NEW c,
         NEW pc \in {"pop", "drain"}, NEW woken, its # <<>>, Holds(its, ts, rn, pc, c, woken)
  PROVE  Holds(Tail(its), ts, rn, "run", Head(its), woken)
<1>0. Dummy \notin Task
  BY PoolAssumption
<1>1. PICK a \in {0, 1}, z \in {0, 1} : Shape(its, ts, Len(rn), a, z) /\ (z = 1 => woken)
  BY DEF Holds, Begun
<1>2. /\ Len(its) \in Nat \ {0} /\ Len(ts) \in Nat /\ Len(rn) \in Nat /\ Len(rn) <= Len(ts)
      /\ Head(its) = its[1] /\ Len(Tail(its)) = Len(its) - 1
      /\ \A k \in 1..Len(Tail(its)) : Tail(its)[k] = its[k + 1]
  BY DEF Holds, Begun
<1>3. /\ Len(its) = a + (Len(ts) - Len(rn)) + z
      /\ \A k \in 1..Len(its) :
           its[k] = IF a < k /\ k <= a + (Len(ts) - Len(rn)) THEN ts[Len(rn) + k - a] ELSE Dummy
  BY <1>1 DEF Shape
<1>4. CASE a = 1
  <2>1. Head(its) = Dummy
    BY <1>2, <1>3, <1>4, SMTT(30)
  <2>2. Shape(Tail(its), ts, Len(rn), 0, z)
    <3>1. Len(Tail(its)) = 0 + (Len(ts) - Len(rn)) + z
      BY <1>2, <1>3, <1>4
    <3>2. ASSUME NEW k \in 1..Len(Tail(its))
          PROVE  Tail(its)[k] = IF 0 < k /\ k <= 0 + (Len(ts) - Len(rn)) THEN ts[Len(rn) + k - 0] ELSE Dummy
      <4>1. k + 1 \in 1..Len(its) /\ Tail(its)[k] = its[k + 1] /\ Len(rn) + (k + 1) - 1 = Len(rn) + k - 0
        BY <1>2
      <4> QED BY <1>2, <1>3, <1>4, <4>1
    <3> QED BY <3>1, <3>2 DEF Shape
  <2> QED BY <1>1, <2>1, <2>2 DEF Holds, Begun
<1>5. CASE a = 0 /\ Len(rn) < Len(ts)
  <2>1. Head(its) = ts[Len(rn) + 1] /\ Len(rn) + 1 \in 1..Len(ts)
    BY <1>2, <1>3, <1>5, SMTT(30)
  <2>2. Head(its) \in Task
    BY <2>1
  <2>3. Begun(rn, "run", Head(its)) = Len(rn) + 1
    BY <1>0, <2>2 DEF Begun
  <2>4. Shape(Tail(its), ts, Len(rn) + 1, 0, z)
    <3>1. Len(Tail(its)) = 0 + (Len(ts) - (Len(rn) + 1)) + z
      BY <1>2, <1>3, <1>5
    <3>2. ASSUME NEW k \in 1..Len(Tail(its))
          PROVE  Tail(its)[k] = IF 0 < k /\ k <= 0 + (Len(ts) - (Len(rn) + 1))
                                THEN ts[(Len(rn) + 1) + k - 0] ELSE Dummy
      <4>1. k + 1 \in 1..Len(its) /\ Tail(its)[k] = its[k + 1] /\ Len(rn) + (k + 1) - 0 = (Len(rn) + 1) + k - 0
        BY <1>2
      <4> QED BY <1>2, <1>3, <1>5, <4>1
    <3> QED BY <3>1, <3>2 DEF Shape
  <2> QED BY <1>1, <1>2, <2>1, <2>3, <2>4 DEF Holds
<1>6. CASE a = 0 /\ Len(rn) = Len(ts)
  <2>1. z = 1 /\ Len(its) = 1 /\ Head(its) = Dummy
    BY <1>2, <1>3, <1>6
  <2>2. Shape(Tail(its), ts, Len(rn), 0, 0)
    <3> DEFINE l == Len(Tail(its))
    <3>1. l = 0 /\ l = 0 + (Len(ts) - Len(rn)) + 0
      BY <1>2, <1>6, <2>1
    <3> HIDE DEF l
    <3>2. \A k \in 1..l : FALSE
      BY <3>1
    <3> USE DEF l
    <3> QED BY <3>1, <3>2 DEF Shape
  <2> QED BY <1>2, <2>1, <2>2 DEF Holds, Begun
<1> QED BY <1>2, <1>4, <1>5, <1>6

(* The task has run. *)
LEMMA HoldsRun ==
  ASSUME NEW its \in Seq(Task0), NEW ts \in Seq(Task), NEW rn \in Seq(Task), NEW c \in Task0,
         NEW pc \in {"push", "loop", "drain"}, NEW woken, Holds(its, ts, rn, "run", c, woken)
  PROVE  Holds(its, ts, IF c = Dummy THEN rn ELSE Append(rn, c), pc, c, woken)
<1>1. CASE c = Dummy
  BY <1>1 DEF Holds, Begun
<1>2. CASE c # Dummy
  <2>1. c \in Task
    BY <1>2 DEF Task0
  <2>2. /\ Len(Append(rn, c)) = Len(rn) + 1 /\ Len(rn) \in Nat
        /\ \A k \in 1..Len(rn) : Append(rn, c)[k] = rn[k]
        /\ Append(rn, c)[Len(rn) + 1] = c
    BY <2>1, AppendElems
  <2>3. Begun(Append(rn, c), pc, c) = Len(rn) + 1 /\ Begun(rn, "run", c) = Len(rn) + 1
    BY <1>2, <2>2 DEF Begun
  <2>4. \A k \in 1..Len(Append(rn, c)) : Append(rn, c)[k] = ts[k]
    <3>1. c = ts[Len(rn) + 1] /\ \A k \in 1..Len(rn) : rn[k] = ts[k]
      BY <1>2 DEF Holds
    <3> QED BY <2>2, <3>1
  <2> QED BY <1>2, <2>3, <2>4 DEF Holds
<1> QED BY <1>1, <1>2

(* A worker that goes on without taking or ending a task. *)
LEMMA HoldsGoes ==
  ASSUME NEW its, NEW ts, NEW rn, NEW c, NEW woken, NEW pc, NEW qc, Holds(its, ts, rn, pc, c, woken),
         pc # "run", qc \notin {"none", "exited", "run"}
  PROVE  Holds(its, ts, rn, qc, c, woken)
BY DEF Holds, Begun

(* The last loop has emptied the queue. *)
LEMMA HoldsExit ==
  ASSUME NEW ts \in Seq(Task), NEW rn \in Seq(Task), NEW c, NEW woken,
         Holds(<<>>, ts, rn, "drain", c, woken)
  PROVE  Holds(<<>>, ts, rn, "exited", c, woken)
<1>1. PICK a \in {0, 1}, z \in {0, 1} : Shape(<<>>, ts, Len(rn), a, z) /\ (z = 1 => woken)
  BY DEF Holds, Begun
<1>2. Len(rn) = Len(ts)
  BY <1>1 DEF Shape, Holds, Begun
<1> QED BY <1>1, <1>2 DEF Holds, Begun

---------------------------------------------------------------------------
(* threadPool: the types, the calls and the threads.                       *)

(* start() and end() work on a worker that there is. *)
LEMMA CallsWorker ==
  ASSUME PoolTypeOK, i < n PROVE i \in Queue
BY PoolAssumption DEF PoolTypeOK

LEMMA PoolTypes == PoolInv /\ [PoolNext]_pvars => PoolTypeOK'
<1> SUFFICES ASSUME PoolInv, [PoolNext]_pvars PROVE PoolTypeOK'
  OBVIOUS
<1>0. PoolTypeOK /\ CallShape /\ TaskOnce /\ MaxThreads \in Nat \ {0}
  BY PoolAssumption DEF PoolInv
<1> USE DEF PoolTypeOK, lockvars, workvars, callvars, histvars
<1>1. CASE UNCHANGED pvars
  BY <1>0, <1>1 DEF pvars
<1>2. CASE end \/ \E num \in 1..MaxThreads : start(num)
  <2>1. threadNum' \in 0..MaxThreads /\ n' \in 0..MaxThreads /\ i' \in 0..n'
    BY <1>0, <1>2 DEF end, start, Enter
  <2>2. mtx' \in BOOLEAN /\ endFlag' \in BOOLEAN
    BY <1>2 DEF end, start, Enter
  <2>3. call' \in {"none", "start", "end"} /\ cpc' \in {"idle", "loop", "notify", "join"}
    BY <1>2 DEF end, start, Enter
  <2>4. UNCHANGED <<items, readers, wpc, cur, draining, tasks, ran>>
    BY <1>2 DEF end, start, Enter
  <2> QED BY <1>0, <2>1, <2>2, <2>3, <2>4
<1>4. CASE worker_end
  <2>1. i \in Queue /\ items[i] \in Seq(Task0) /\ Dummy \in Task0
    BY <1>0, <1>4, CallsWorker DEF worker_end, Task0
  <2>2. Append(items[i], Dummy) \in Seq(Task0)
    BY <2>1
  <2>3. items' \in [Queue -> Seq(Task0)]
    BY <1>0, <1>4, <2>1, <2>2 DEF worker_end, empty_task, Enqueue
  <2> QED BY <1>0, <1>4, <2>3 DEF worker_end
<1>5. CASE end_notify
  BY <1>0, <1>5 DEF end_notify
<1>6. CASE join
  BY <1>0, <1>6 DEF join
<1>7. CASE next_worker
  <2>1. i + 1 \in 0..n /\ n' = n
    BY <1>0, <1>7 DEF next_worker
  <2>2. wpc' \in [Queue -> {"none", "loop", "pop", "drain", "run", "push", "exited"}]
    BY <1>0, <1>7 DEF next_worker
  <2>3. draining' \in [Queue -> BOOLEAN]
    BY <1>0, <1>7 DEF next_worker
  <2> QED BY <1>0, <1>7, <2>1, <2>2, <2>3 DEF next_worker
<1>8. CASE call_returns
  <2>1. threadNum' \in 0..MaxThreads /\ n' \in 0..MaxThreads /\ i' \in 0..n'
    BY <1>0, <1>8 DEF call_returns
  <2>2. mtx' \in BOOLEAN /\ endFlag' \in BOOLEAN
    BY <1>0, <1>8 DEF call_returns
  <2>3. call' \in {"none", "start", "end"} /\ cpc' \in {"idle", "loop", "notify", "join"}
    BY <1>8 DEF call_returns
  <2> QED BY <1>0, <1>8, <2>1, <2>2, <2>3 DEF call_returns
<1>9. ASSUME NEW p \in Pusher, NEW t \in Root, NEW w \in Queue, push(p, t, w)
      PROVE  PoolTypeOK'
  <2>1. t \in Task0
    BY DEF Root, Task0
  <2>2. readers' \subseteq (Pusher \cup Queue) \X Queue \X Task0
    BY <1>0, <1>9, <2>1 DEF push, push_lock
  <2> QED BY <1>0, <1>9, <2>2 DEF push, push_lock
<1>10. ASSUME NEW p \in Pusher \cup Queue, push_append(p)
       PROVE  PoolTypeOK'
  <2>1. PICK w \in Queue, t \in Task :
              /\ items' = [items EXCEPT ![w] = Append(@, t)]
              /\ tasks' = [tasks EXCEPT ![w] = Append(@, t)]
              /\ readers' = (readers \ {<<p, w, t>>}) \cup {<<p, w, Dummy>>}
    BY <1>10 DEF push_append, Enqueue
  <2>2. Append(items[w], t) \in Seq(Task0) /\ Append(tasks[w], t) \in Seq(Task)
    BY <1>0 DEF Task0
  <2>3. items' \in [Queue -> Seq(Task0)] /\ tasks' \in [Queue -> Seq(Task)]
    BY <1>0, <2>1, <2>2
  <2>4. <<p, w, Dummy>> \in (Pusher \cup Queue) \X Queue \X Task0
    BY DEF Task0
  <2>5. readers' \subseteq (Pusher \cup Queue) \X Queue \X Task0
    BY <1>0, <2>1, <2>4
  <2> QED BY <1>0, <1>10, <2>3, <2>5 DEF push_append
<1>11. ASSUME NEW p \in Pusher \cup Queue, push_done(p)
       PROVE  PoolTypeOK'
  BY <1>0, <1>11 DEF push_done
<1>12. ASSUME NEW w \in Queue, loop_test(w) \/ worker_wait(w) \/ worker_exits(w)
       PROVE  PoolTypeOK'
  <2>1. wpc' \in [Queue -> {"none", "loop", "pop", "drain", "run", "push", "exited"}]
    BY <1>0, <1>12 DEF loop_test, worker_wait, worker_exits
  <2>2. draining' \in [Queue -> BOOLEAN]
    BY <1>0, <1>12 DEF loop_test, worker_wait, worker_exits
  <2> QED BY <1>0, <1>12, <2>1, <2>2 DEF loop_test, worker_wait, worker_exits
<1>14. ASSUME NEW w \in Queue, worker_pop(w)
       PROVE  PoolTypeOK'
  <2>1. items[w] \in Seq(Task0) /\ items[w] # <<>>
    BY <1>0, <1>14 DEF worker_pop, Dequeue, empty
  <2>2. Head(items[w]) \in Task0 /\ Tail(items[w]) \in Seq(Task0)
    BY <2>1
  <2>3. items' \in [Queue -> Seq(Task0)] /\ cur' \in [Queue -> Task0]
    BY <1>0, <1>14, <2>2 DEF worker_pop, Dequeue, remove_front
  <2> QED BY <1>0, <1>14, <2>3 DEF worker_pop
<1>15. ASSUME NEW w \in Queue, run_task(w)
       PROVE  PoolTypeOK'
  <2>1. cur[w] # Dummy => Append(ran[w], cur[w]) \in Seq(Task)
    BY <1>0 DEF Task0
  <2>2. ran' \in [Queue -> Seq(Task)]
    BY <1>0, <1>15, <2>1 DEF run_task
  <2>3. wpc' \in [Queue -> {"none", "loop", "pop", "drain", "run", "push", "exited"}]
    BY <1>0, <1>15 DEF run_task, Back
  <2> QED BY <1>0, <1>15, <2>2, <2>3 DEF run_task
<1>16. ASSUME NEW w \in Queue, child_push(w)
       PROVE  PoolTypeOK'
  <2>1. PICK v \in Queue : push_lock(w, Child[cur[w]], v)
    BY <1>16 DEF child_push
  <2>2. Child[cur[w]] \in Task0
    BY <1>0, <1>16, PoolAssumption DEF child_push, TaskOnce, Task0
  <2>3. readers' \subseteq (Pusher \cup Queue) \X Queue \X Task0
    BY <1>0, <2>1, <2>2 DEF push_lock
  <2>4. wpc' \in [Queue -> {"none", "loop", "pop", "drain", "run", "push", "exited"}]
    BY <1>0, <1>16 DEF child_push, Back
  <2> QED BY <1>0, <1>16, <2>1, <2>3, <2>4 DEF child_push, push_lock
<1> QED BY <1>1, <1>2, <1>4, <1>5, <1>6, <1>7, <1>8, <1>9, <1>10, <1>11, <1>12, <1>14, <1>15, <1>16
        DEF PoolNext, CallStep, WorkerStep, PushStep

LEMMA PoolCalls == PoolInv /\ [PoolNext]_pvars => CallShape' /\ ThreadsThere'
<1> SUFFICES ASSUME PoolInv, [PoolNext]_pvars PROVE CallShape' /\ ThreadsThere'
  OBVIOUS
<1>0. PoolTypeOK /\ CallShape /\ ThreadsThere
  BY DEF PoolInv
<1>t. /\ wpc \in [Queue -> {"none", "loop", "pop", "drain", "run", "push", "exited"}]
      /\ draining \in [Queue -> BOOLEAN] /\ threadNum \in Nat /\ n \in Nat /\ i \in 0..n
      /\ call \in {"none", "start", "end"} /\ Queue \subseteq Nat
  BY <1>0, PoolAssumption DEF PoolTypeOK
<1> USE DEF Joinable, lockvars, workvars, callvars, histvars
<1>1. CASE UNCHANGED pvars
  BY <1>0, <1>1 DEF pvars, CallShape, ThreadsThere
<1>2. CASE end
  <2>1. call = "none" /\ readers = {} /\ ~ mtx
    BY <1>0, <1>2 DEF end, Enter, Alone, CallShape
  <2>2. CallShape'
    BY <1>t, <1>2, <2>1 DEF end, Enter, CallShape
  <2>3. ThreadsThere'
    BY <1>0, <1>t, <1>2, <2>1 DEF end, Enter, ThreadsThere
  <2> QED BY <2>2, <2>3
<1>3. ASSUME NEW num \in 1..MaxThreads, start(num)
      PROVE  CallShape' /\ ThreadsThere'
  <2>1. call = "none" /\ readers = {} /\ ~ mtx
    BY <1>0, <1>3 DEF start, Enter, Alone, CallShape
  <2>2. CallShape'
    BY <1>t, <1>3, <2>1 DEF start, Enter, CallShape
  <2>3. ThreadsThere'
    BY <1>0, <1>t, <1>3, <2>1 DEF start, Enter, ThreadsThere
  <2> QED BY <2>2, <2>3
<1>4. CASE worker_end \/ end_notify
  <2>1. /\ UNCHANGED <<lockvars, workvars, call, i, n>> /\ cpc \in {"loop", "notify"}
        /\ cpc' \in {"notify", "join"} /\ i < n /\ Joinable(i)
    BY <1>0, <1>4 DEF worker_end, end_notify, CallShape
  <2>2. CallShape'
    BY <1>0, <2>1 DEF CallShape
  <2>3. ThreadsThere'
    BY <1>0, <2>1 DEF ThreadsThere
  <2> QED BY <2>2, <2>3
<1>6. CASE join
  <2>1. /\ UNCHANGED <<lockvars, draining, call, i, n>> /\ i < n /\ cpc = "join" /\ cpc' = "loop"
        /\ wpc' = [wpc EXCEPT ![i] = "none"] /\ wpc[i] = "exited"
    BY <1>0, <1>6 DEF join, CallShape
  <2>2. i \in Queue /\ call = "end"
    BY <1>0, <2>1, CallsWorker DEF ThreadsThere
  <2>3. CallShape'
    BY <1>0, <2>1, <2>2 DEF CallShape
  <2>4. ThreadsThere'
    BY <1>0, <1>t, <2>1, <2>2 DEF ThreadsThere
  <2> QED BY <2>3, <2>4
<1>7. CASE next_worker
  <2>1. /\ UNCHANGED <<lockvars, call, cpc, n>> /\ i < n /\ cpc = "loop" /\ i' = i + 1
        /\ wpc[i] = "none"
        /\ \/ /\ call = "start" /\ wpc' = [wpc EXCEPT ![i] = "loop"]
              /\ draining' = [draining EXCEPT ![i] = FALSE]
           \/ call = "end" /\ wpc' = wpc /\ draining' = draining
    BY <1>7 DEF next_worker
  <2>2. i \in Queue
    BY <1>0, <2>1, CallsWorker
  <2>3. call = "start" => threadNum = 0
    BY <1>0, <1>t, <2>1, <2>2 DEF CallShape, ThreadsThere
  <2>4. CallShape'
    BY <1>0, <1>t, <2>1, <2>3 DEF CallShape
  <2>5. ThreadsThere'
    BY <1>0, <1>t, <2>1, <2>2, <2>3 DEF ThreadsThere
  <2> QED BY <2>4, <2>5
<1>8. CASE call_returns
  <2>1. /\ UNCHANGED <<readers, endFlag, workvars>> /\ cpc = "loop" /\ i = n
        /\ threadNum' = IF call = "start" THEN n ELSE threadNum
        /\ ~ mtx' /\ call' = "none" /\ cpc' = "idle" /\ call # "none"
    BY <1>0, <1>8 DEF call_returns, CallShape
  <2>2. readers = {}
    BY <1>0, <2>1 DEF CallShape
  <2>3. call = "start" => n > 0 /\ threadNum = 0
    BY <1>0, <1>t, <2>1 DEF CallShape
  <2>4. CallShape'
    BY <1>0, <1>t, <2>1, <2>2, <2>3 DEF CallShape
  <2>5. ThreadsThere'
    BY <1>0, <1>t, <2>1, <2>3 DEF CallShape, ThreadsThere
  <2> QED BY <2>4, <2>5
<1>9. ASSUME NEW p, NEW t, NEW w \in Queue, push_lock(p, t, w) /\ UNCHANGED workvars
      PROVE  CallShape' /\ ThreadsThere'
  <2>1. CallShape'
    BY <1>0, <1>9 DEF push_lock, CallShape
  <2>2. ThreadsThere'
    BY <1>0, <1>9 DEF push_lock, ThreadsThere
  <2> QED BY <2>1, <2>2
<1>10. ASSUME NEW p, push_append(p) \/ push_done(p)
       PROVE  CallShape' /\ ThreadsThere'
  <2>1. UNCHANGED <<mtx, endFlag, threadNum, workvars, callvars>> /\ readers # {}
    BY <1>10 DEF push_append, push_done
  <2>2. \A r \in readers' : \E s \in readers : r[2] = s[2]
    <3>1. PICK w \in Queue, t \in Task0 :
                <<p, w, t>> \in readers /\ readers' \subseteq readers \cup {<<p, w, Dummy>>}
      BY <1>10 DEF push_append, push_done, Task0
    <3> QED BY <3>1
  <2>3. CallShape'
    BY <1>0, <2>1, <2>2 DEF CallShape
  <2>4. ThreadsThere'
    BY <1>0, <2>1 DEF ThreadsThere
  <2> QED BY <2>3, <2>4
<1>12. ASSUME NEW w \in Queue, loop_test(w)
       PROVE  CallShape' /\ ThreadsThere'
  <2>1. wpc[w] = "loop" /\ UNCHANGED <<lockvars, callvars>> /\ wpc'[w] # "none"
        /\ \A v \in Queue : v # w => wpc'[v] = wpc[v] /\ draining'[v] = draining[v]
    BY <1>t, <1>12 DEF loop_test
  <2>2. endFlag => call = "end"
    BY <1>0, <1>t, <2>1 DEF CallShape, ThreadsThere
  <2>3. CallShape'
    BY <1>0, <1>t, <2>1, CallsWorker DEF CallShape
  <2>4. ThreadsThere'
    BY <1>0, <1>t, <1>12, <2>1, <2>2 DEF ThreadsThere, loop_test
  <2> QED BY <2>3, <2>4
<1>13. ASSUME NEW w \in Queue, worker_wait(w)
       PROVE  CallShape' /\ ThreadsThere'
  BY <1>0, <1>13 DEF worker_wait, CallShape, ThreadsThere
<1>14. ASSUME NEW w \in Queue, worker_pop(w) \/ run_task(w) \/ worker_exits(w)
       PROVE  CallShape' /\ ThreadsThere'
  <2>1. /\ UNCHANGED <<lockvars, callvars, draining>> /\ Joinable(w)
        /\ \A v \in Queue : v # w => wpc'[v] = wpc[v]
        /\ wpc'[w] # "none" /\ (wpc'[w] \in {"drain", "exited"} => call = "end")
    BY <1>0, <1>t, <1>14 DEF worker_pop, run_task, worker_exits, Back, ThreadsThere
  <2>2. CallShape'
    BY <1>0, <1>t, <2>1, CallsWorker DEF CallShape
  <2>3. ThreadsThere'
    BY <1>0, <1>t, <2>1 DEF ThreadsThere
  <2> QED BY <2>2, <2>3
<1>16. ASSUME NEW w \in Queue, child_push(w)
       PROVE  CallShape' /\ ThreadsThere'
  <2>1. PICK v \in Queue : push_lock(w, Child[cur[w]], v)
    BY <1>16 DEF child_push
  <2>2. /\ UNCHANGED <<mtx, endFlag, threadNum, callvars, draining>> /\ Joinable(w)
        /\ \A u \in Queue : u # w => wpc'[u] = wpc[u]
        /\ wpc'[w] # "none" /\ (wpc'[w] \in {"drain", "exited"} => call = "end")
    BY <1>0, <1>t, <1>16, <2>1 DEF child_push, push_lock, Back, ThreadsThere
  <2>3. CallShape'
    BY <1>0, <1>t, <2>1, <2>2 DEF CallShape, push_lock
  <2>4. ThreadsThere'
    BY <1>0, <1>t, <2>2 DEF ThreadsThere
  <2> QED BY <2>3, <2>4
<1> QED
  <2>1. ASSUME NEW p \in Pusher, NEW t \in Root, NEW w \in Queue, push(p, t, w)
        PROVE  CallShape' /\ ThreadsThere'
    BY <1>9, <2>1 DEF push
  <2> QED BY <1>1, <1>2, <1>3, <1>4, <1>6, <1>7, <1>8, <2>1, <1>10, <1>12, <1>13, <1>14, <1>16
             DEF PoolNext, CallStep, WorkerStep, PushStep

---------------------------------------------------------------------------
(* threadPool: what the queues hold.                                       *)

LEMMA HoldsMore ==
  ASSUME NEW its, NEW ts, NEW rn, NEW c, NEW pc, NEW woken, NEW woken2, woken => woken2,
         Holds(its, ts, rn, pc, c, woken), Len(its) \in Nat
  PROVE  Holds(its, ts, rn, pc, c, woken2)
<1>1. \E a, z \in {0, 1} : Shape(its, ts, Begun(rn, pc, c), a, z) /\ (z = 1 => woken2)
  BY DEF Holds
<1>2. pc = "exited" => Len(its) <= IF woken2 THEN 1 ELSE 0
  <2>1. CASE woken
    BY <2>1 DEF Holds
  <2>2. CASE ~ woken
    BY <2>2 DEF Holds
  <2> QED BY <2>1, <2>2
<1> QED BY <1>1, <1>2 DEF Holds

(* A step that concerns one worker only. *)
LEMMA WorkOfOne ==
  ASSUME PoolTypeOK, WorkInOrder, NEW w \in Queue,
         \A v \in Queue : v # w =>
           /\ items'[v] = items[v] /\ tasks'[v] = tasks[v] /\ ran'[v] = ran[v]
           /\ wpc'[v] = wpc[v] /\ cur'[v] = cur[v] /\ (Waking(v) => Waking(v)'),
         Holds(items'[w], tasks'[w], ran'[w], wpc'[w], cur'[w], Waking(w)')
  PROVE  WorkInOrder'
<1> SUFFICES ASSUME NEW v \in Queue
             PROVE  Holds(items'[v], tasks'[v], ran'[v], wpc'[v], cur'[v], Waking(v)')
  BY DEF WorkInOrder
<1>1. CASE v = w
  BY <1>1
<1>2. CASE v # w
  <2>1. Holds(items[v], tasks[v], ran[v], wpc[v], cur[v], Waking(v)) /\ Len(items[v]) \in Nat
    BY DEF WorkInOrder, PoolTypeOK
  <2>2. Holds(items[v], tasks[v], ran[v], wpc[v], cur[v], Waking(v)')
    BY <1>2, <2>1, HoldsMore
  <2> QED BY <1>2, <2>2
<1> QED BY <1>1, <1>2

LEMMA WorkSteps == PoolInv /\ [PoolNext]_pvars => WorkInOrder'
<1> SUFFICES ASSUME PoolInv, [PoolNext]_pvars PROVE WorkInOrder'
  OBVIOUS
<1>0. PoolTypeOK /\ CallShape /\ ThreadsThere /\ WorkInOrder /\ TaskOnce
  BY DEF PoolInv
<1>t. /\ items \in [Queue -> Seq(Task0)] /\ tasks \in [Queue -> Seq(Task)] /\ ran \in [Queue -> Seq(Task)]
      /\ wpc \in [Queue -> {"none", "loop", "pop", "drain", "run", "push", "exited"}]
      /\ cur \in [Queue -> Task0] /\ draining \in [Queue -> BOOLEAN]
  BY <1>0 DEF PoolTypeOK
<1>h. \A w \in Queue : Holds(items[w], tasks[w], ran[w], wpc[w], cur[w], Waking(w))
  BY <1>0 DEF WorkInOrder
<1>l. \A w \in Queue : Len(items[w]) \in Nat
  BY <1>t
<1> USE DEF lockvars, workvars, callvars, histvars
<1>1. CASE /\ UNCHANGED <<items, tasks, ran, wpc, cur>>
           /\ \A w \in Queue : Waking(w) => Waking(w)'
  <2> SUFFICES ASSUME NEW w \in Queue
               PROVE  Holds(items[w], tasks[w], ran[w], wpc[w], cur[w], Waking(w)')
    BY <1>1 DEF WorkInOrder
  <2>1. Len(items[w]) \in Nat
    BY <1>t
  <2> QED BY <1>h, <1>1, <2>1, HoldsMore
<1>2. CASE UNCHANGED pvars
  BY <1>1, <1>2 DEF pvars, Waking
<1>3. CASE end \/ \E num \in 1..MaxThreads : start(num)
  <2>1. cpc = "idle"
    BY <1>0, <1>3 DEF end, start, Enter, Alone, CallShape
  <2> QED BY <1>1, <1>3, <2>1 DEF end, start, Enter, Waking
<1>4. CASE worker_end
  <2>1. i \in Queue /\ ~ Waking(i) /\ Waking(i)'
    BY <1>0, <1>4, CallsWorker DEF worker_end, Waking
  <2>2. /\ items'[i] = Append(items[i], Dummy) /\ UNCHANGED <<tasks, ran, wpc, cur, i>>
        /\ \A v \in Queue : v # i => items'[v] = items[v] /\ ~ Waking(v)
    BY <1>t, <1>4, <2>1 DEF worker_end, empty_task, Enqueue, Waking
  <2>3. Holds(items[i], tasks[i], ran[i], wpc[i], cur[i], FALSE)
    <3>1. Holds(items[i], tasks[i], ran[i], wpc[i], cur[i], Waking(i)) /\ ~ Waking(i)
      BY <1>h, <2>1
    <3> QED BY <3>1 DEF Holds
  <2>4. Holds(Append(items[i], Dummy), tasks[i], ran[i], wpc[i], cur[i], TRUE)
    BY <1>t, <2>1, <2>3, HoldsWake
  <2>5. Len(Append(items[i], Dummy)) \in Nat
    BY <1>t, <2>1 DEF Task0
  <2>6. Holds(Append(items[i], Dummy), tasks[i], ran[i], wpc[i], cur[i], Waking(i)')
    BY <2>1, <2>4, <2>5, HoldsMore
  <2> QED BY <1>0, <2>1, <2>2, <2>6, WorkOfOne
<1>5. CASE end_notify
  BY <1>1, <1>5 DEF end_notify, Waking
<1>6. CASE join
  <2>1. i \in Queue /\ Waking(i) /\ wpc[i] = "exited"
    BY <1>0, <1>6, CallsWorker DEF join, Waking, CallShape
  <2>2. /\ wpc'[i] = "none" /\ UNCHANGED <<items, tasks, ran, cur, i>>
        /\ \A v \in Queue : v # i => wpc'[v] = wpc[v] /\ ~ Waking(v)
    BY <1>t, <1>6, <2>1 DEF join, Waking
  <2>3. Len(items[i]) \in Nat /\ items[i] \in Seq(Task0) /\ tasks[i] \in Seq(Task) /\ ran[i] \in Seq(Task)
    BY <1>t, <2>1
  <2>4. Holds(items[i], tasks[i], ran[i], "exited", cur[i], TRUE)
    BY <1>h, <2>1, <2>3, HoldsMore
  <2>5. Holds(items[i], tasks[i], ran[i], "none", cur[i], FALSE)
    BY <2>3, <2>4, HoldsJoined
  <2>6. Holds(items[i], tasks[i], ran[i], "none", cur[i], Waking(i)')
    BY <2>3, <2>5, HoldsMore
  <2> QED BY <1>0, <2>1, <2>2, <2>6, WorkOfOne
<1>7. CASE next_worker
  <2>1. PICK w \in Queue : w = i /\ wpc[w] = "none"
    BY <1>0, <1>7, CallsWorker DEF next_worker, Joinable
  <2>2. /\ UNCHANGED <<items, tasks, ran, cur>> /\ \A v \in Queue : ~ Waking(v)
        /\ \A v \in Queue : v # w => wpc'[v] = wpc[v]
        /\ wpc'[w] = "loop" \/ wpc' = wpc
    BY <1>t, <1>7, <2>1 DEF next_worker, Waking
  <2>3. Holds(items[w], tasks[w], ran[w], wpc'[w], cur[w], Waking(w))
    BY <1>h, <2>1, <2>2, HoldsGoes
  <2>4. Holds(items[w], tasks[w], ran[w], wpc'[w], cur[w], Waking(w)')
    BY <1>l, <2>2, <2>3, HoldsMore
  <2> QED BY <1>0, <2>2, <2>4, WorkOfOne
<1>8. CASE call_returns
  BY <1>1, <1>8 DEF call_returns, Waking
<1>9. ASSUME NEW p, NEW t, NEW w \in Queue, push(p, t, w)
      PROVE  WorkInOrder'
  BY <1>1, <1>9 DEF push, push_lock, Waking
<1>10. ASSUME NEW p, push_append(p)
       PROVE  WorkInOrder'
  <2>1. PICK w \in Queue, t \in Task :
             /\ <<p, w, t>> \in readers
             /\ items' = [items EXCEPT ![w] = Append(@, t)]
             /\ tasks' = [tasks EXCEPT ![w] = Append(@, t)]
    BY <1>10 DEF push_append, Enqueue
  <2>2. UNCHANGED <<ran, wpc, cur, i, cpc>>
    BY <1>10 DEF push_append
  <2>3. call = "none" /\ w < threadNum /\ \A v \in Queue : ~ Waking(v) /\ ~ Waking(v)'
    BY <1>0, <2>1, <2>2 DEF CallShape, Waking
  <2>4. wpc[w] \notin {"none", "exited"}
    BY <1>0, <2>3 DEF ThreadsThere, Joinable
  <2>5. Holds(items[w], tasks[w], ran[w], wpc[w], cur[w], FALSE)
    <3>1. Holds(items[w], tasks[w], ran[w], wpc[w], cur[w], Waking(w)) /\ ~ Waking(w)
      BY <1>h, <2>3
    <3> QED BY <3>1 DEF Holds
  <2>6. Holds(Append(items[w], t), Append(tasks[w], t), ran[w], wpc[w], cur[w], FALSE)
    BY <1>t, <2>4, <2>5, HoldsPush
  <2>7. Len(Append(items[w], t)) \in Nat
    BY <1>t DEF Task0
  <2>8. Holds(Append(items[w], t), Append(tasks[w], t), ran[w], wpc[w], cur[w], Waking(w)')
    BY <2>6, <2>7, HoldsMore
  <2>9. /\ items'[w] = Append(items[w], t) /\ tasks'[w] = Append(tasks[w], t)
        /\ \A v \in Queue : v # w => items'[v] = items[v] /\ tasks'[v] = tasks[v]
    BY <1>t, <2>1
  <2> QED BY <1>0, <2>2, <2>3, <2>8, <2>9, WorkOfOne
<1>11. ASSUME NEW p, push_done(p)
       PROVE  WorkInOrder'
  BY <1>1, <1>11 DEF push_done, Waking
<1>12. ASSUME NEW w \in Queue, loop_test(w)
       PROVE  WorkInOrder'
  <2>1. /\ wpc[w] = "loop" /\ wpc'[w] \in {"drain", "pop"} /\ UNCHANGED <<items, tasks, ran, cur, i, cpc>>
        /\ \A v \in Queue : v # w => wpc'[v] = wpc[v]
    BY <1>t, <1>12 DEF loop_test
  <2>2. Holds(items[w], tasks[w], ran[w], wpc'[w], cur[w], Waking(w))
    BY <1>h, <2>1, HoldsGoes
  <2>3. \A v \in Queue : Waking(v) <=> Waking(v)'
    BY <2>1 DEF Waking
  <2>4. Holds(items[w], tasks[w], ran[w], wpc'[w], cur[w], Waking(w)')
    BY <1>l, <2>2, <2>3, HoldsMore
  <2> QED BY <1>0, <2>1, <2>3, <2>4, WorkOfOne
<1>13. ASSUME NEW w \in Queue, worker_wait(w)
       PROVE  WorkInOrder'
  BY <1>1, <1>13 DEF worker_wait, Waking
<1>14. ASSUME NEW w \in Queue, worker_pop(w)
       PROVE  WorkInOrder'
  <2>1. /\ wpc[w] \in {"pop", "drain"} /\ wpc'[w] = "run" /\ cur'[w] = Head(items[w])
        /\ items[w] # <<>> /\ items'[w] = Tail(items[w]) /\ UNCHANGED <<tasks, ran, i, cpc>>
        /\ \A v \in Queue : v # w => wpc'[v] = wpc[v] /\ cur'[v] = cur[v] /\ items'[v] = items[v]
    BY <1>t, <1>14 DEF worker_pop, Dequeue, remove_front, empty
  <2>2. Holds(Tail(items[w]), tasks[w], ran[w], "run", Head(items[w]), Waking(w))
    BY <1>h, <1>t, <2>1, HoldsPop
  <2>3. \A v \in Queue : Waking(v) <=> Waking(v)'
    BY <2>1 DEF Waking
  <2>4. Len(Tail(items[w])) \in Nat
    BY <1>t, <2>1
  <2>5. Holds(Tail(items[w]), tasks[w], ran[w], "run", Head(items[w]), Waking(w)')
    BY <2>2, <2>3, <2>4, HoldsMore
  <2> QED BY <1>0, <2>1, <2>3, <2>5, WorkOfOne
<1>15. ASSUME NEW w \in Queue, run_task(w)
       PROVE  WorkInOrder'
  <2>1. /\ wpc[w] = "run" /\ wpc'[w] \in {"push", "loop", "drain"} /\ UNCHANGED <<items, tasks, cur, i, cpc>>
        /\ ran'[w] = IF cur[w] = Dummy THEN ran[w] ELSE Append(ran[w], cur[w])
        /\ \A v \in Queue : v # w => wpc'[v] = wpc[v] /\ ran'[v] = ran[v]
    BY <1>t, <1>15 DEF run_task, Back
  <2>2. Holds(items[w], tasks[w], ran'[w], wpc'[w], cur[w], Waking(w))
    BY <1>h, <1>t, <2>1, HoldsRun
  <2>3. \A v \in Queue : Waking(v) <=> Waking(v)'
    BY <2>1 DEF Waking
  <2>4. Holds(items[w], tasks[w], ran'[w], wpc'[w], cur[w], Waking(w)')
    BY <1>l, <2>2, <2>3, HoldsMore
  <2> QED BY <1>0, <2>1, <2>3, <2>4, WorkOfOne
<1>16. ASSUME NEW w \in Queue, child_push(w)
       PROVE  WorkInOrder'
  <2>1. /\ wpc[w] = "push" /\ wpc'[w] \in {"loop", "drain"}
        /\ UNCHANGED <<items, tasks, ran, cur, i, cpc>>
        /\ \A v \in Queue : v # w => wpc'[v] = wpc[v]
    BY <1>t, <1>16 DEF child_push, push_lock, Back
  <2>2. Holds(items[w], tasks[w], ran[w], wpc'[w], cur[w], Waking(w))
    BY <1>h, <2>1, HoldsGoes
  <2>3. \A v \in Queue : Waking(v) <=> Waking(v)'
    BY <2>1 DEF Waking
  <2>4. Holds(items[w], tasks[w], ran[w], wpc'[w], cur[w], Waking(w)')
    BY <1>l, <2>2, <2>3, HoldsMore
  <2> QED BY <1>0, <2>1, <2>3, <2>4, WorkOfOne
<1>17. ASSUME NEW w \in Queue, worker_exits(w)
       PROVE  WorkInOrder'
  <2>1. /\ wpc[w] = "drain" /\ wpc'[w] = "exited" /\ items[w] = <<>>
        /\ UNCHANGED <<items, tasks, ran, cur, i, cpc>>
        /\ \A v \in Queue : v # w => wpc'[v] = wpc[v]
    BY <1>t, <1>17 DEF worker_exits, drained, empty
  <2>2. Holds(<<>>, tasks[w], ran[w], "exited", cur[w], Waking(w))
    <3>1. Holds(<<>>, tasks[w], ran[w], "drain", cur[w], Waking(w))
      BY <1>h, <2>1
    <3> QED BY <1>t, <3>1, HoldsExit
  <2>3. \A v \in Queue : Waking(v) <=> Waking(v)'
    BY <2>1 DEF Waking
  <2>4. Holds(items[w], tasks[w], ran[w], wpc'[w], cur[w], Waking(w)')
    BY <1>l, <2>1, <2>2, <2>3, HoldsMore
  <2> QED BY <1>0, <2>1, <2>3, <2>4, WorkOfOne
<1> QED BY <1>2, <1>3, <1>4, <1>5, <1>6, <1>7, <1>8, <1>9, <1>10, <1>11, <1>12, <1>13, <1>14, <1>15,
           <1>16, <1>17 DEF PoolNext, CallStep, WorkerStep, PushStep

---------------------------------------------------------------------------
(* threadPool: where the tasks are.                                        *)

LEMMA PlacedIs ==
  ASSUME NEW f, NEW t
  PROVE  t \in Placed(f) <=> \E w \in Queue : \E k \in 1..Len(f[w]) : t = f[w][k]
BY DEF Placed, Elems

(* What a worker has run are its first tasks. *)
LEMMA RanIsTask ==
  ASSUME PoolTypeOK, WorkInOrder, NEW w \in Queue
  PROVE  /\ Len(ran[w]) \in Nat /\ Len(tasks[w]) \in Nat /\ Len(ran[w]) <= Len(tasks[w])
         /\ \A k \in 1..Len(ran[w]) : k \in 1..Len(tasks[w]) /\ ran[w][k] = tasks[w][k]
<1>1. Len(ran[w]) \in Nat /\ Len(tasks[w]) \in Nat
  BY DEF PoolTypeOK
<1>2. Holds(items[w], tasks[w], ran[w], wpc[w], cur[w], Waking(w))
  BY DEF WorkInOrder
<1>3. Begun(ran[w], wpc[w], cur[w]) <= Len(tasks[w]) /\ \A k \in 1..Len(ran[w]) : ran[w][k] = tasks[w][k]
  BY <1>2 DEF Holds
<1>4. Len(ran[w]) <= Len(tasks[w])
  <2> DEFINE l == Len(ran[w])
             b == Begun(ran[w], wpc[w], cur[w])
  <2>1. b = l \/ b = l + 1
    <3>1. CASE wpc[w] = "run" /\ cur[w] # Dummy
      BY <3>1 DEF Begun
    <3>2. CASE ~ (wpc[w] = "run" /\ cur[w] # Dummy)
      <4>1. b = l + 0
        BY <3>2 DEF Begun
      <4>2. l \in Nat
        BY <1>1
      <4> HIDE DEF b, l
      <4> QED BY <4>1, <4>2
    <3> QED BY <3>1, <3>2
  <2>2. b <= Len(tasks[w]) /\ l \in Nat
    BY <1>1, <1>3
  <2> HIDE DEF l, b
  <2>3. l <= Len(tasks[w])
    BY <1>1, <2>1, <2>2
  <2> QED BY <2>3 DEF l
<1> QED BY <1>1, <1>3, <1>4

(* No task has run that a worker is about to run. *)
LEMMA RunsOnce ==
  ASSUME PoolTypeOK, WorkInOrder, TaskOnce, NEW w \in Queue, wpc[w] = "run", cur[w] # Dummy
  PROVE  cur[w] \notin Placed(ran) /\ cur[w] \in Placed(tasks) /\ cur[w] \in Task
<1>1. Holds(items[w], tasks[w], ran[w], wpc[w], cur[w], Waking(w))
  BY DEF WorkInOrder
<1>2. /\ Len(ran[w]) \in Nat /\ Len(tasks[w]) \in Nat
      /\ Len(ran[w]) + 1 <= Len(tasks[w]) /\ cur[w] = tasks[w][Len(ran[w]) + 1]
  BY <1>1, RanIsTask DEF Holds, Begun
<1>3. cur[w] \in Placed(tasks)
  BY <1>2, PlacedIs
<1>4. ASSUME NEW v \in Queue, NEW k \in 1..Len(ran[v]), cur[w] = ran[v][k]
      PROVE  FALSE
  <2>1. k \in 1..Len(tasks[v]) /\ cur[w] = tasks[v][k]
    BY <1>4, RanIsTask
  <2>2. Len(ran[w]) + 1 \in 1..Len(tasks[w])
    BY <1>2
  <2>3. v = w /\ k = Len(ran[w]) + 1
    <3>1. tasks[v][k] = tasks[w][Len(ran[w]) + 1]
      BY <1>2, <2>1
    <3> QED BY <2>1, <2>2, <3>1 DEF TaskOnce
  <2> QED BY <1>2, <2>3
<1>5. cur[w] \in Task
  BY DEF PoolTypeOK, Task0
<1> QED BY <1>3, <1>4, <1>5, PlacedIs

(* A step that pushes and runs nothing. *)
LEMMA TasksKept ==
  ASSUME TaskOnce, UNCHANGED <<tasks, ran, readers>>,
         \A w \in Queue : wpc'[w] = "push" => wpc[w] = "push" /\ cur'[w] = cur[w]
  PROVE  TaskOnce'
BY DEF TaskOnce, InReaders

LEMMA TaskSteps == PoolInv /\ [PoolNext]_pvars => TaskOnce'
<1> SUFFICES ASSUME PoolInv, [PoolNext]_pvars PROVE TaskOnce'
  OBVIOUS
<1>0. PoolTypeOK /\ WorkInOrder /\ TaskOnce
  BY DEF PoolInv
<1>t. /\ tasks \in [Queue -> Seq(Task)] /\ ran \in [Queue -> Seq(Task)]
      /\ wpc \in [Queue -> {"none", "loop", "pop", "drain", "run", "push", "exited"}]
      /\ cur \in [Queue -> Task0] /\ DOMAIN Child \subseteq Task /\ Dummy \notin Task
      /\ \A t \in DOMAIN Child : Child[t] \in Task
  BY <1>0, PoolAssumption DEF PoolTypeOK
<1> USE DEF lockvars, workvars, callvars, histvars
<1>1. CASE UNCHANGED pvars \/ end \/ (\E num \in 1..MaxThreads : start(num))
           \/ worker_end \/ end_notify \/ call_returns
  BY <1>0, <1>1, TasksKept DEF pvars, end, start, Enter, worker_end, end_notify, call_returns
<1>2. CASE join \/ next_worker
  <2>1. \A w \in Queue : wpc'[w] = "push" => wpc[w] = "push"
    BY <1>t, <1>2 DEF join, next_worker
  <2> QED BY <1>0, <1>2, <2>1, TasksKept DEF join, next_worker
<1>3. ASSUME NEW w \in Queue, loop_test(w) \/ worker_wait(w) \/ worker_pop(w) \/ worker_exits(w)
      PROVE  TaskOnce'
  <2>1. \A v \in Queue : wpc'[v] = "push" => wpc[v] = "push" /\ cur'[v] = cur[v]
    BY <1>t, <1>3 DEF loop_test, worker_wait, worker_pop, worker_exits
  <2> QED BY <1>0, <1>3, <2>1, TasksKept DEF loop_test, worker_wait, worker_pop, worker_exits
<1>4. ASSUME NEW p, NEW t \in Task, NEW w, readers' = readers \cup {<<p, w, t>>},
             UNCHANGED <<tasks, ran, cur>>, t \notin Placed(tasks), ~ InReaders(t),
             \A v \in Queue : wpc'[v] = "push" => wpc[v] = "push",
             \A s \in DOMAIN Child : Child[s] = t =>
               s \in Placed(ran) /\ \A v \in Queue : wpc'[v] = "push" => cur[v] # s
      PROVE  TaskOnce'
  <2>1. \A s : InReaders(s)' <=> InReaders(s) \/ s = t
    <3>1. <<p, w, t>>[3] = t
      OBVIOUS
    <3>2. ASSUME NEW s PROVE (\E r \in readers' : r[3] = s) <=> (\E r \in readers : r[3] = s) \/ s = t
      BY <1>4, <3>1
    <3> QED BY <3>2 DEF InReaders
  <2>2. \A r, s \in readers' : r[3] = s[3] /\ r[3] # Dummy => r = s
    BY <1>0, <1>4 DEF TaskOnce, InReaders
  <2>3. \A r \in readers' : r[3] \notin Placed(tasks)
    BY <1>0, <1>4 DEF TaskOnce
  <2>4. \A v \in Queue : wpc'[v] = "push" =>
          cur[v] \in DOMAIN Child /\ Len(ran[v]) > 0 /\ cur[v] = ran[v][Len(ran[v])]
    BY <1>0, <1>4 DEF TaskOnce
  <2>5. \A s \in DOMAIN Child : Child[s] \in Placed(tasks) \/ InReaders(Child[s])' =>
          s \in Placed(ran) /\ \A v \in Queue : wpc'[v] = "push" => cur[v] # s
    BY <1>0, <1>4, <2>1 DEF TaskOnce
  <2> QED BY <1>0, <1>4, <2>2, <2>3, <2>4, <2>5 DEF TaskOnce
<1>5. ASSUME NEW p, NEW t \in Root, NEW w \in Queue, push(p, t, w)
      PROVE  TaskOnce'
  <2>1. t \notin Placed(tasks)
    <3>1. \A v \in Queue : DOMAIN tasks[v] = 1..Len(tasks[v])
      BY <1>t
    <3>2. t \notin Pushed
      BY <1>5 DEF push
    <3> QED BY <3>1, <3>2, PlacedIs DEF Pushed
  <2>2. t \in Task /\ ~ InReaders(t) /\ \A s \in DOMAIN Child : Child[s] # t
    BY <1>5 DEF push, InReaders, Root
  <2> QED BY <1>4, <1>5, <2>1, <2>2 DEF push, push_lock
<1>6. ASSUME NEW w \in Queue, child_push(w)
      PROVE  TaskOnce'
  <2>1. PICK u \in Queue : push_lock(w, Child[cur[w]], u)
    BY <1>6 DEF child_push
  <2>2. /\ wpc[w] = "push" /\ UNCHANGED <<tasks, ran, cur>> /\ wpc'[w] # "push"
        /\ \A v \in Queue : wpc'[v] = "push" => wpc[v] = "push"
    BY <1>t, <1>6, <2>1 DEF child_push, push_lock, Back
  <2>3. cur[w] \in DOMAIN Child /\ Len(ran[w]) > 0 /\ cur[w] = ran[w][Len(ran[w])] /\ Len(ran[w]) \in Nat
    BY <1>0, <2>2, RanIsTask DEF TaskOnce
  <2>4. PICK t \in Task : t = Child[cur[w]]
    BY <1>t, <2>3
  <2>5. t \notin Placed(tasks) /\ ~ InReaders(t)
    BY <1>0, <2>2, <2>3, <2>4 DEF TaskOnce
  <2>6. cur[w] \in Placed(ran)
    BY <2>3, PlacedIs
  <2>7. ASSUME NEW v \in Queue, wpc'[v] = "push"
        PROVE  cur[v] # cur[w]
    <3>1. v # w /\ wpc[v] = "push"
      BY <2>2, <2>7
    <3>2. Len(ran[v]) > 0 /\ cur[v] = ran[v][Len(ran[v])] /\ Len(ran[v]) \in Nat
      BY <1>0, <3>1, RanIsTask DEF TaskOnce
    <3>3. /\ Len(ran[v]) \in 1..Len(tasks[v]) /\ cur[v] = tasks[v][Len(ran[v])]
          /\ Len(ran[w]) \in 1..Len(tasks[w]) /\ cur[w] = tasks[w][Len(ran[w])]
      BY <1>0, <2>3, <3>2, RanIsTask, SMTT(30)
    <3> QED BY <1>0, <3>1, <3>3 DEF TaskOnce
  <2>8. \A s \in DOMAIN Child : Child[s] = t => s = cur[w]
    BY <2>3, <2>4, PoolAssumption
  <2>9. readers' = readers \cup {<<w, u, t>>}
    BY <2>1, <2>4 DEF push_lock
  <2> QED BY <1>4, <2>2, <2>5, <2>6, <2>7, <2>8, <2>9
<1>7. ASSUME NEW p, push_append(p)
      PROVE  TaskOnce'
  <2>1. PICK w \in Queue, t \in Task :
             /\ <<p, w, t>> \in readers
             /\ readers' = (readers \ {<<p, w, t>>}) \cup {<<p, w, Dummy>>}
             /\ tasks' = [tasks EXCEPT ![w] = Append(tasks[w], t)]
    BY <1>7 DEF push_append, Enqueue
  <2>2. UNCHANGED <<ran, wpc, cur>>
    BY <1>7 DEF push_append
  <2>3. t \notin Placed(tasks) /\ t # Dummy
    BY <1>0, <1>t, <2>1 DEF TaskOnce
  <2>4. Placed(tasks') = Placed(tasks) \cup {t}
    <3>1. tasks'[w] = Append(tasks[w], t) /\ \A v \in Queue : v # w => tasks'[v] = tasks[v]
      BY <1>t, <2>1
    <3>2. Elems(tasks'[w]) = Elems(tasks[w]) \cup {t}
      BY <1>t, <3>1, AppendElems
    <3>3. \A v \in Queue : v # w => Elems(tasks'[v]) = Elems(tasks[v])
      BY <3>1
    <3> QED BY <3>2, <3>3 DEF Placed
  <2>5. \A r \in readers' : (r \in readers /\ r[3] # t) \/ r[3] = Dummy
    BY <1>0, <2>1, <2>3 DEF TaskOnce
  <2>6. \A s \in Task : InReaders(s)' => InReaders(s) /\ s # t
    BY <1>t, <2>5 DEF InReaders
  <2>7. Dummy \notin Placed(tasks)
    <3>1. \A v \in Queue : \A k \in 1..Len(tasks[v]) : tasks[v][k] \in Task
      BY <1>t
    <3>2. \A v \in Queue : \A k \in 1..Len(tasks[v]) : Dummy # tasks[v][k]
      BY <1>t, <3>1
    <3>3. Dummy \in Placed(tasks) <=> \E v \in Queue : \E k \in 1..Len(tasks[v]) : Dummy = tasks[v][k]
      BY PlacedIs
    <3> QED BY <3>2, <3>3
  <2>8. \A u, v \in Queue : \A j \in 1..Len(tasks'[u]), k \in 1..Len(tasks'[v]) :
          tasks'[u][j] = tasks'[v][k] => u = v /\ j = k
    <3>1. /\ Len(tasks'[w]) = Len(tasks[w]) + 1 /\ Len(tasks[w]) \in Nat
          /\ \A k \in 1..Len(tasks[w]) : tasks'[w][k] = tasks[w][k]
          /\ tasks'[w][Len(tasks[w]) + 1] = t
          /\ \A v \in Queue : v # w => tasks'[v] = tasks[v]
      BY <1>t, <2>1, AppendElems
    <3>2. ASSUME NEW v \in Queue, NEW k \in 1..Len(tasks'[v])
          PROVE  \/ v = w /\ k = Len(tasks[w]) + 1 /\ tasks'[v][k] = t
                 \/ k \in 1..Len(tasks[v]) /\ tasks'[v][k] = tasks[v][k] /\ tasks'[v][k] # t
      <4>1. CASE v = w /\ k = Len(tasks[w]) + 1
        BY <3>1, <4>1
      <4>2. CASE k \in 1..Len(tasks[v])
        <5>1. tasks'[v][k] = tasks[v][k]
          BY <3>1, <4>2
        <5>2. tasks[v][k] \in Placed(tasks)
          <6>1. \E u \in Queue : \E j \in 1..Len(tasks[u]) : tasks[v][k] = tasks[u][j]
            BY <4>2
          <6> QED BY <6>1, PlacedIs
        <5> QED BY <2>3, <4>2, <5>1, <5>2
      <4> QED BY <3>1, <4>1, <4>2
    <3>3. \A u, v \in Queue : \A j \in 1..Len(tasks[u]), k \in 1..Len(tasks[v]) :
            tasks[u][j] = tasks[v][k] => u = v /\ j = k
      BY <1>0 DEF TaskOnce
    <3> QED BY <3>2, <3>3
  <2>9. \A r, s \in readers' : r[3] = s[3] /\ r[3] # Dummy => r = s
    BY <1>0, <2>5 DEF TaskOnce
  <2>10. \A r \in readers' : r[3] \notin Placed(tasks')
    BY <1>0, <2>3, <2>4, <2>5, <2>7 DEF TaskOnce
  <2>11. InReaders(t)
    BY <2>1 DEF InReaders
  <2>12. \A s \in DOMAIN Child : Child[s] \in Placed(tasks') \/ InReaders(Child[s])' =>
           s \in Placed(ran) /\ \A v \in Queue : wpc[v] = "push" => cur[v] # s
    BY <1>0, <1>t, <2>4, <2>6, <2>11 DEF TaskOnce
  <2> QED BY <1>0, <2>2, <2>8, <2>9, <2>10, <2>12 DEF TaskOnce
<1>8. ASSUME NEW p, push_done(p)
      PROVE  TaskOnce'
  <2>1. readers' \subseteq readers /\ UNCHANGED <<tasks, ran, wpc, cur>>
    BY <1>8 DEF push_done
  <2>2. \A s : InReaders(s)' => InReaders(s)
    BY <2>1 DEF InReaders
  <2> QED BY <1>0, <2>1, <2>2 DEF TaskOnce
<1>9. ASSUME NEW w \in Queue, run_task(w)
      PROVE  TaskOnce'
  <2>1. /\ wpc[w] = "run" /\ UNCHANGED <<tasks, cur, readers>>
        /\ \A v \in Queue : v # w => wpc'[v] = wpc[v] /\ ran'[v] = ran[v]
        /\ wpc'[w] = "push" => cur[w] \in DOMAIN Child
        /\ ran' = IF cur[w] = Dummy THEN ran ELSE [ran EXCEPT ![w] = Append(ran[w], cur[w])]
    BY <1>t, <1>9 DEF run_task, Back
  <2>2. CASE cur[w] = Dummy
    <3>1. wpc'[w] # "push"
      BY <1>t, <2>1, <2>2
    <3> QED BY <1>0, <2>1, <2>2, <3>1, TasksKept
  <2>3. CASE cur[w] # Dummy
    <3>1. cur[w] \notin Placed(ran) /\ cur[w] \in Task
      BY <1>0, <2>1, <2>3, RunsOnce
    <3>2. Placed(ran') = Placed(ran) \cup {cur[w]}
      <4>1. ran'[w] = Append(ran[w], cur[w])
        BY <1>t, <2>1, <2>3
      <4>2. Elems(ran'[w]) = Elems(ran[w]) \cup {cur[w]}
        BY <1>t, <3>1, <4>1, AppendElems
      <4>3. \A v \in Queue : v # w => Elems(ran'[v]) = Elems(ran[v])
        BY <2>1
      <4> QED BY <4>2, <4>3 DEF Placed
    <3>3. Len(ran'[w]) > 0 /\ cur[w] = ran'[w][Len(ran'[w])]
      <4>1. ran'[w] = Append(ran[w], cur[w]) /\ Len(ran[w]) \in Nat
        BY <1>t, <2>1, <2>3
      <4> QED BY <1>t, <3>1, <4>1
    <3>4. \A v \in Queue : wpc'[v] = "push" =>
            cur[v] \in DOMAIN Child /\ Len(ran'[v]) > 0 /\ cur[v] = ran'[v][Len(ran'[v])]
      BY <1>0, <2>1, <3>3 DEF TaskOnce
    <3>5. \A s \in DOMAIN Child : Child[s] \in Placed(tasks) \/ InReaders(Child[s]) =>
            s \in Placed(ran') /\ \A v \in Queue : wpc'[v] = "push" => cur[v] # s
      BY <1>0, <2>1, <3>1, <3>2 DEF TaskOnce
    <3>6. \A s : InReaders(s)' <=> InReaders(s)
      BY <2>1 DEF InReaders
    <3>7. /\ \A v, u \in Queue : \A j \in 1..Len(tasks[v]), k \in 1..Len(tasks[u]) :
               tasks[v][j] = tasks[u][k] => v = u /\ j = k
          /\ \A r, s \in readers : r[3] = s[3] /\ r[3] # Dummy => r = s
          /\ \A r \in readers : r[3] \notin Placed(tasks)
      BY <1>0 DEF TaskOnce
    <3>8. \A s \in DOMAIN Child : Child[s] \in Placed(tasks) \/ InReaders(Child[s])' =>
            s \in Placed(ran') /\ \A v \in Queue : wpc'[v] = "push" => cur[v] # s
      BY <3>5, <3>6
    <3>9. UNCHANGED <<tasks, cur, readers>>
      BY <2>1
    <3> QED BY <3>4, <3>7, <3>8, <3>9 DEF TaskOnce
  <2> QED BY <2>2, <2>3
<1> QED BY <1>1, <1>2, <1>3, <1>5, <1>6, <1>7, <1>8, <1>9
        DEF PoolNext, CallStep, WorkerStep, PushStep

---------------------------------------------------------------------------
(* threadPool: its invariant, and what it promises.                        *)

LEMMA PoolBegins == PoolInit => PoolInv
<1> SUFFICES ASSUME PoolInit PROVE PoolInv
  OBVIOUS
<1> USE DEF PoolInit, QueueInit
<1>1. PoolTypeOK
  <2>1. /\ items \in [Queue -> Seq(Task0)]
        /\ tasks \in [Queue -> Seq(Task)] /\ ran \in [Queue -> Seq(Task)]
    OBVIOUS
  <2>2. mtx \in BOOLEAN /\ endFlag \in BOOLEAN /\ draining \in [Queue -> BOOLEAN]
    OBVIOUS
  <2>3. threadNum \in 0..MaxThreads /\ n \in 0..MaxThreads /\ i \in 0..n
    BY PoolAssumption
  <2>4. cur \in [Queue -> Task0]
    BY DEF Task0
  <2>5. wpc \in [Queue -> {"none", "loop", "pop", "drain", "run", "push", "exited"}]
    OBVIOUS
  <2>6. readers = {} /\ call = "none" /\ cpc = "idle"
    OBVIOUS
  <2> HIDE DEF PoolInit
  <2> QED BY <2>1, <2>2, <2>3, <2>4, <2>5, <2>6 DEF PoolTypeOK
<1>2. CallShape
  BY DEF CallShape
<1>3. ThreadsThere
  BY PoolAssumption DEF ThreadsThere, Joinable
<1>4. \A w \in Queue : /\ items[w] = <<>> /\ tasks[w] = <<>> /\ ran[w] = <<>>
                       /\ wpc[w] = "none" /\ cur[w] = Dummy
  OBVIOUS
<1>5. WorkInOrder
  <2> SUFFICES ASSUME NEW w \in Queue
               PROVE  Holds(<<>>, <<>>, <<>>, "none", Dummy, Waking(w))
    BY <1>4 DEF WorkInOrder
  <2>1. Shape(<<>>, <<>>, 0, 0, 0) /\ Begun(<<>>, "none", Dummy) = 0
    BY DEF Shape, Begun
  <2> QED BY <2>1 DEF Holds
<1>6. TaskOnce
  <2>1. \A t : t \notin Placed(tasks)
    BY <1>4, PlacedIs
  <2> QED BY <1>4, <2>1 DEF TaskOnce, InReaders
<1> QED BY <1>1, <1>2, <1>3, <1>5, <1>6 DEF PoolInv

LEMMA PoolStep == PoolInv /\ [PoolNext]_pvars => PoolInv'
BY PoolTypes, PoolCalls, WorkSteps, TaskSteps DEF PoolInv

(* A worker without a thread has run all its tasks. *)
LEMMA StoppedHasRun ==
  ASSUME PoolTypeOK, WorkInOrder, NEW w \in Queue, wpc[w] \in {"none", "exited"}
  PROVE  ran[w] = tasks[w]
<1>1. Holds(items[w], tasks[w], ran[w], wpc[w], cur[w], Waking(w))
  BY DEF WorkInOrder
<1>2. Len(ran[w]) = Len(tasks[w]) /\ \A k \in 1..Len(ran[w]) : ran[w][k] = tasks[w][k]
  BY <1>1 DEF Holds
<1>3. ran[w] \in Seq(Task) /\ tasks[w] \in Seq(Task)
  BY DEF PoolTypeOK
<1> QED BY <1>2, <1>3, SeqEqual

(* For any number of threads, tasks, callers and restarts: outside start() *)
(* and end() exactly the first threadNum workers have a thread, each has   *)
(* run its tasks in the order they were pushed, and a stopped pool has run *)
(* them all.                                                               *)
THEOREM PoolSettles == PoolSpec => []PoolSettled
<1>1. PoolInv => PoolSettled
  <2> SUFFICES ASSUME PoolInv, ~ mtx, NEW w \in Queue
               PROVE  /\ Joinable(w) <=> w < threadNum
                      /\ ran[w] = SubSeq(tasks[w], 1, Len(ran[w]))
                      /\ threadNum = 0 => ran[w] = tasks[w]
    BY DEF PoolSettled
  <2>0. PoolTypeOK /\ CallShape /\ ThreadsThere /\ WorkInOrder
    BY DEF PoolInv
  <2>1. Joinable(w) <=> w < threadNum
    BY <2>0 DEF CallShape, ThreadsThere
  <2>2. ran[w] = SubSeq(tasks[w], 1, Len(ran[w]))
    <3>1. ran[w] \in Seq(Task) /\ tasks[w] \in Seq(Task) /\ Len(ran[w]) \in Nat
      BY <2>0 DEF PoolTypeOK
    <3>2. Len(ran[w]) <= Len(tasks[w]) /\ \A k \in 1..Len(ran[w]) : ran[w][k] = tasks[w][k]
      BY <2>0, RanIsTask
    <3> DEFINE s == SubSeq(tasks[w], 1, Len(ran[w]))
    <3>3. /\ s \in Seq(Task) /\ Len(s) = Len(ran[w])
          /\ \A k \in 1..Len(ran[w]) : s[k] = tasks[w][k]
      BY <3>1, <3>2
    <3> HIDE DEF s
    <3>4. ran[w] = s
      BY <3>1, <3>2, <3>3, SeqEqual
    <3> QED BY <3>4 DEF s
  <2>3. threadNum = 0 => ran[w] = tasks[w]
    <3>1. w >= 0
      BY PoolAssumption
    <3> QED BY <2>0, <2>1, <3>1, StoppedHasRun, PoolAssumption DEF Joinable
  <2> QED BY <2>1, <2>2, <2>3
<1> QED BY PoolBegins, PoolStep, <1>1, PTL DEF PoolSpec

PoolOpen == threadNum > 0 \/ (call = "end" /\ n > 0)

LEMMA PushedIs == PoolTypeOK => Pushed = Placed(tasks) /\ Ran = Placed(ran)
<1> SUFFICES ASSUME PoolTypeOK PROVE Pushed = Placed(tasks) /\ Ran = Placed(ran)
  OBVIOUS
<1>1. \A w \in Queue : DOMAIN tasks[w] = 1..Len(tasks[w]) /\ DOMAIN ran[w] = 1..Len(ran[w])
  BY DEF PoolTypeOK
<1>2. Pushed = Placed(tasks)
  BY <1>1 DEF Pushed, Placed, Elems
<1>3. Ran = Placed(ran)
  BY <1>1 DEF Ran, Placed, Elems
<1> QED BY <1>2, <1>3

(* Every step of the pool is one of a pool of tasks, or none. *)
LEMMA PoolStepIsPromised ==
  ASSUME PoolInv, [PoolNext]_pvars
  PROVE  \/ UNCHANGED <<PoolOpen, Placed(tasks), Placed(ran)>>
         \/ ~ PoolOpen /\ PoolOpen' /\ UNCHANGED <<Placed(tasks), Placed(ran)>>
         \/ /\ PoolOpen /\ ~ PoolOpen' /\ UNCHANGED <<Placed(tasks), Placed(ran)>>
            /\ Placed(ran) = Placed(tasks)
         \/ \E t \in Task :
              \/ /\ PoolOpen /\ t \notin Placed(tasks) /\ UNCHANGED <<PoolOpen, Placed(ran)>>
                 /\ Placed(tasks') = Placed(tasks) \cup {t}
              \/ /\ t \in Placed(tasks) \ Placed(ran) /\ UNCHANGED <<PoolOpen, Placed(tasks)>>
                 /\ Placed(ran') = Placed(ran) \cup {t}
<1> DEFINE Goal ==
         \/ UNCHANGED <<PoolOpen, Placed(tasks), Placed(ran)>>
         \/ ~ PoolOpen /\ PoolOpen' /\ UNCHANGED <<Placed(tasks), Placed(ran)>>
         \/ /\ PoolOpen /\ ~ PoolOpen' /\ UNCHANGED <<Placed(tasks), Placed(ran)>>
            /\ Placed(ran) = Placed(tasks)
         \/ \E t \in Task :
              \/ /\ PoolOpen /\ t \notin Placed(tasks) /\ UNCHANGED <<PoolOpen, Placed(ran)>>
                 /\ Placed(tasks') = Placed(tasks) \cup {t}
              \/ /\ t \in Placed(tasks) \ Placed(ran) /\ UNCHANGED <<PoolOpen, Placed(tasks)>>
                 /\ Placed(ran') = Placed(ran) \cup {t}
<1> SUFFICES Goal
  OBVIOUS
<1>0. PoolTypeOK /\ CallShape /\ ThreadsThere /\ WorkInOrder /\ TaskOnce
  BY DEF PoolInv
<1>t. /\ tasks \in [Queue -> Seq(Task)] /\ ran \in [Queue -> Seq(Task)] /\ Dummy \notin Task
      /\ threadNum \in Nat /\ n \in Nat /\ i \in 0..n /\ Queue \subseteq Nat
      /\ call \in {"none", "start", "end"} /\ cur \in [Queue -> Task0]
  BY <1>0, PoolAssumption DEF PoolTypeOK
<1> USE DEF lockvars, workvars, callvars, histvars
<1>1. CASE UNCHANGED <<tasks, ran, threadNum, call, n>>
  BY <1>1 DEF PoolOpen
<1>2. CASE end
  <2>1. UNCHANGED <<tasks, ran>> /\ (PoolOpen' <=> PoolOpen)
    BY <1>0, <1>t, <1>2 DEF end, Enter, Alone, PoolOpen, CallShape
  <2> QED BY <2>1
<1>3. CASE \E num \in 1..MaxThreads : start(num)
  <2>1. UNCHANGED <<tasks, ran>> /\ (PoolOpen' <=> PoolOpen)
    BY <1>0, <1>t, <1>3 DEF start, Enter, Alone, PoolOpen, CallShape
  <2> QED BY <2>1
<1>4. CASE call_returns
  <2>1. UNCHANGED <<tasks, ran, wpc>> /\ cpc = "loop" /\ i = n /\ call' = "none" /\ call # "none"
    BY <1>0, <1>4 DEF call_returns, CallShape
  <2>2. CASE call = "start"
    <3>1. threadNum = 0 /\ threadNum' = n /\ n > 0
      BY <1>0, <1>t, <1>4, <2>1, <2>2 DEF CallShape, call_returns
    <3>2. ~ PoolOpen /\ PoolOpen'
      BY <1>t, <2>2, <3>1 DEF PoolOpen
    <3> QED BY <2>1, <3>2
  <2>3. CASE call = "end"
    <3>1. threadNum = 0 /\ threadNum' = 0
      BY <1>0, <1>4, <2>3 DEF CallShape, call_returns
    <3>2. ~ PoolOpen' /\ (PoolOpen <=> n > 0)
      BY <1>t, <2>1, <2>3, <3>1 DEF PoolOpen
    <3>3. \A w \in Queue : wpc[w] = "none"
      BY <1>0, <1>t, <2>1, <2>3 DEF ThreadsThere, Joinable
    <3>4. \A w \in Queue : ran[w] = tasks[w]
      BY <1>0, <3>3, StoppedHasRun
    <3>5. Placed(ran) = Placed(tasks)
      BY <3>4 DEF Placed
    <3>6. CASE PoolOpen
      BY <2>1, <3>2, <3>5, <3>6
    <3>7. CASE ~ PoolOpen
      <4>1. PoolOpen' = PoolOpen
        BY <3>2, <3>7 DEF PoolOpen
      <4> QED BY <2>1, <4>1
    <3> QED BY <3>6, <3>7
  <2> QED BY <1>t, <2>1, <2>2, <2>3
<1>5. ASSUME NEW p, push_append(p)
      PROVE  Goal
  <2>1. PICK w \in Queue, t \in Task :
             /\ <<p, w, t>> \in readers
             /\ tasks' = [tasks EXCEPT ![w] = Append(tasks[w], t)]
    BY <1>5 DEF push_append, Enqueue
  <2>2. UNCHANGED <<ran, threadNum, call, n>>
    BY <1>5 DEF push_append
  <2>3. t \notin Placed(tasks) /\ w < threadNum
    BY <1>0, <2>1 DEF TaskOnce, CallShape
  <2>4. Placed(tasks') = Placed(tasks) \cup {t}
    <3>1. tasks'[w] = Append(tasks[w], t) /\ \A v \in Queue : v # w => tasks'[v] = tasks[v]
      BY <1>t, <2>1
    <3>2. Elems(tasks'[w]) = Elems(tasks[w]) \cup {t}
      BY <1>t, <3>1, AppendElems
    <3>3. \A v \in Queue : v # w => Elems(tasks'[v]) = Elems(tasks[v])
      BY <3>1
    <3> QED BY <3>2, <3>3 DEF Placed
  <2>5. PoolOpen /\ UNCHANGED PoolOpen
    BY <1>t, <2>2, <2>3 DEF PoolOpen
  <2> QED BY <2>2, <2>3, <2>4, <2>5
<1>6. ASSUME NEW w \in Queue, run_task(w), cur[w] # Dummy
      PROVE  Goal
  <2>1. cur[w] \in Task /\ cur[w] \in Placed(tasks) \ Placed(ran)
    BY <1>0, <1>6, RunsOnce DEF run_task
  <2>2. /\ UNCHANGED <<tasks, threadNum, call, n>> /\ ran'[w] = Append(ran[w], cur[w])
        /\ \A v \in Queue : v # w => ran'[v] = ran[v]
    BY <1>t, <1>6 DEF run_task
  <2>3. Placed(ran') = Placed(ran) \cup {cur[w]}
    <3>1. Elems(ran'[w]) = Elems(ran[w]) \cup {cur[w]}
      BY <1>t, <2>1, <2>2, AppendElems
    <3>2. \A v \in Queue : v # w => Elems(ran'[v]) = Elems(ran[v])
      BY <2>2
    <3> QED BY <3>1, <3>2 DEF Placed
  <2>4. UNCHANGED PoolOpen
    BY <2>2 DEF PoolOpen
  <2> QED BY <2>1, <2>2, <2>3, <2>4
<1>7. CASE UNCHANGED pvars \/ worker_end \/ end_notify \/ join \/ next_worker
  BY <1>1, <1>7 DEF pvars, worker_end, end_notify, join, next_worker
<1>8. ASSUME NEW p, push_done(p) \/ \E t \in Root, w \in Queue : push(p, t, w)
      PROVE  Goal
  BY <1>1, <1>8 DEF push_done, push, push_lock
<1>9. ASSUME NEW w \in Queue,
             \/ loop_test(w) \/ worker_wait(w) \/ worker_pop(w) \/ child_push(w) \/ worker_exits(w)
             \/ run_task(w) /\ cur[w] = Dummy
      PROVE  Goal
  BY <1>1, <1>9 DEF loop_test, worker_wait, worker_pop, child_push, push_lock, worker_exits, run_task
<1> HIDE DEF Goal
<1> QED BY <1>2, <1>3, <1>4, <1>5, <1>6, <1>7, <1>8, <1>9 DEF PoolNext, CallStep, WorkerStep, PushStep

(* threadPool implements a pool of tasks, for every number of threads,     *)
(* callers and tasks: push() takes a task only while the pool is open, a   *)
(* task runs once, and end() returns only when all that were pushed have   *)
(* run, the children that tasks pushed included.                           *)
THEOREM PoolKeepsPromise == PoolSpec => PoolPromise
<1>1. PoolInit => Promise!TaskInit
  <2> SUFFICES ASSUME PoolInit PROVE Promise!TaskInit
    OBVIOUS
  <2>1. PoolTypeOK
    BY PoolBegins DEF PoolInv
  <2>2. \A w \in Queue : tasks[w] = <<>> /\ ran[w] = <<>>
    BY DEF PoolInit
  <2>3. Placed(tasks) = {} /\ Placed(ran) = {}
    BY <2>2, PlacedIs
  <2>4. (threadNum > 0 \/ (call = "end" /\ n > 0)) = FALSE
    BY DEF PoolInit
  <2> QED BY <2>1, <2>3, <2>4, PushedIs DEF Promise!TaskInit
<1>2. PoolInv /\ [PoolNext]_pvars => [Promise!TaskNext]_(Promise!tpvars)
  <2> SUFFICES ASSUME PoolInv, [PoolNext]_pvars PROVE [Promise!TaskNext]_(Promise!tpvars)
    OBVIOUS
  <2>1. PoolTypeOK /\ PoolTypeOK'
    BY PoolTypes DEF PoolInv
  <2>2. Pushed = Placed(tasks) /\ Ran = Placed(ran)
    BY <2>1, PushedIs
  <2>3. Pushed' = Placed(tasks') /\ Ran' = Placed(ran')
    <3>1. \A w \in Queue : DOMAIN tasks'[w] = 1..Len(tasks'[w]) /\ DOMAIN ran'[w] = 1..Len(ran'[w])
      BY <2>1 DEF PoolTypeOK
    <3>2. Pushed' = Placed(tasks')
      BY <3>1 DEF Pushed, Placed, Elems
    <3>3. Ran' = Placed(ran')
      BY <3>1 DEF Ran, Placed, Elems
    <3> QED BY <3>2, <3>3
  <2>4. \/ UNCHANGED <<PoolOpen, Pushed, Ran>>
        \/ ~ PoolOpen /\ PoolOpen' /\ UNCHANGED <<Pushed, Ran>>
        \/ PoolOpen /\ ~ PoolOpen' /\ UNCHANGED <<Pushed, Ran>> /\ Ran = Pushed
        \/ \E t \in Task :
             \/ PoolOpen /\ t \notin Pushed /\ UNCHANGED <<PoolOpen, Ran>> /\ Pushed' = Pushed \cup {t}
             \/ t \in Pushed \ Ran /\ UNCHANGED <<PoolOpen, Pushed>> /\ Ran' = Ran \cup {t}
    BY <2>2, <2>3, PoolStepIsPromised
  <2> QED BY <2>4 DEF PoolOpen, Promise!TaskNext, Promise!tpvars, Promise!Open, Promise!Close,
                      Promise!Take, Promise!Run
<1> QED BY PoolBegins, PoolStep, <1>1, <1>2, PTL DEF PoolSpec, PoolPromise, Promise!TaskSpec
==============================================================================
