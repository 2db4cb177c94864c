------------------------------- MODULE MCPools -------------------------------
(***************************************************************************)
(* The C++ queue and pool and the work queue of the libev variant for TLC. *)
(* They do not interact, except that the pool is made of the queues:       *)
(* an execution is one of the queue, the pool or the work queue, so that   *)
(* the state spaces add up.                                                *)
(***************************************************************************)
EXTENDS ThreadPool, WorkQueue

CONSTANTS
  t1, t2, t3,   \* tasks
  j1            \* a job

VARIABLE part

vars == <<svars, pvars, wqvars, part>>

(* Which operations the users of a queue mix. *)
MCPrograms ==
  {{}, {"push", "pop", "clear"}, {"push", "pop", "front"},
   {"push", "pop", "move"}, {"push", "copy"}}

MCChild == [t \in {t1} |-> t3]

(* One client has a descriptor, the lowest there is, the others have none. *)
MCClientFd == [j \in Job |-> IF j = j1 THEN 0 ELSE -1]

Init ==
  /\ SafeInit /\ PoolInit /\ WorkInit
  /\ part \in {"queue", "pool", "work"}
  /\ part = "queue" <=> program # {}

poolonly == <<lockvars, workvars, callvars, histvars>>

Queues(A) == part = "queue" /\ A /\ UNCHANGED <<poolonly, wqvars, part>>
Pools(A)  == part = "pool" /\ A /\ UNCHANGED <<holder, uvars, wqvars, part>>
Works(A)  == part = "work" /\ A /\ UNCHANGED <<svars, poolonly, part>>

Next == Queues(SafeNext) \/ Pools(PoolNext) \/ Works(WorkNext)

(* A thread inside an operation runs on; nobody has to make a call, and a  *)
(* connection may last for ever.                                           *)
Fairness ==
  /\ \A u \in User : WF_vars(Queues(UserStep(u)))
  /\ WF_vars(Pools(CallStep)) /\ \A p \in Pusher : WF_vars(Pools(PushStep(p)))
  /\ \A w \in Queue : WF_vars(Pools(WorkerStep(w)))
  /\ WF_vars(Works(~ fault /\ MainStep))
  /\ WF_vars(Works(~ fault /\ ShutdownStep))
  /\ \A k \in Worker : WF_vars(Works(~ fault /\ worker_function(k)))

Spec == Init /\ [][Next]_vars /\ Fairness
==============================================================================
