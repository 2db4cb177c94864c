----------------------------- MODULE ThreadPool ------------------------------
(***************************************************************************)
(* threadPool of tpool.h: start() and end() under the exclusive lock of    *)
(* _mtx, push() under the shared one, and workers that empty a             *)
(* threadsafe_queue each (SafeQueue; worker w owns queue w).  Calls that   *)
(* throw (no threads asked for, too many, no workers) change nothing and   *)
(* are left out.                                                           *)
(***************************************************************************)
EXTENDS SafeQueue

CONSTANTS
  MaxThreads,  \* maxNumThreads; Queue is 0..(MaxThreads - 1)
  Pusher,      \* threads that call push()
  Task,        \* tasks, each pushed at most once
  Child,       \* the task that some tasks push when they run
  MaxCalls,    \* bound: calls of start() and end()
  Dummy        \* the empty task that end() pushes

ASSUME PoolAssumption ==
  /\ MaxThreads \in Nat \ {0} /\ Queue = 0..(MaxThreads - 1)
  /\ DOMAIN Child \subseteq Task /\ \A t \in DOMAIN Child : Child[t] \in Task
  /\ \A s, t \in DOMAIN Child : Child[s] = Child[t] => s = t
  /\ Dummy \notin Task /\ Pusher \cap Queue = {}

VARIABLES
  mtx, readers,         \* _mtx: held by start() or end(); who holds it shared
  endFlag, threadNum,   \* _end, _threadNum
  wpc, cur, draining,   \* worker: where it is, its task, is it in the 2nd loop
  call, cpc, i, n,      \* the call that holds _mtx, where it is, index, bound
  tasks, ran,           \* tasks pushed; tasks run, in order, with their worker
  ncalls

lockvars == <<mtx, readers, endFlag, threadNum>>
workvars == <<wpc, cur, draining>>
callvars == <<call, cpc, i, n, ncalls>>
histvars == <<tasks, ran>>
pvars == <<items, waiting, lockvars, workvars, callvars, histvars>>

PoolInit ==
  /\ QueueInit
  /\ mtx = FALSE /\ readers = {} /\ endFlag = TRUE /\ threadNum = 0
  /\ wpc = [w \in Queue |-> "none"]
  /\ cur = [w \in Queue |-> Dummy]
  /\ draining = [w \in Queue |-> FALSE]
  /\ call = "none" /\ cpc = "idle" /\ i = 0 /\ n = 0
  /\ tasks = [w \in Queue |-> <<>>] /\ ran = [w \in Queue |-> <<>>]
  /\ ncalls = 0

Pushed == UNION {{tasks[w][k] : k \in DOMAIN tasks[w]} : w \in Queue}
Ran == UNION {{ran[w][k] : k \in DOMAIN ran[w]} : w \in Queue}

(* Tasks that callers push; the others are pushed by tasks. *)
Root == Task \ {Child[t] : t \in DOMAIN Child}

---------------------------------------------------------------------------
(* push(): the shared lock, threadNum read once, any worker (hash % n),    *)
(* the queue's push_back.  readers holds who is in push(), the worker, and *)
(* the task still to put.  A waiting writer does not keep readers out, as  *)
(* with the read-write locks of glibc.                                     *)

push_lock(p, t, w) ==
  /\ ~ mtx /\ w < threadNum
  /\ readers' = readers \cup {<<p, w, t>>}
  /\ UNCHANGED <<items, waiting, mtx, endFlag, threadNum, callvars, histvars>>

push_append(p) ==
  /\ \E w \in Queue, t \in Task :
       /\ <<p, w, t>> \in readers /\ Enqueue(w, t)
       /\ readers' = (readers \ {<<p, w, t>>}) \cup {<<p, w, Dummy>>}
       /\ tasks' = [tasks EXCEPT ![w] = Append(@, t)]
  /\ UNCHANGED <<waiting, mtx, endFlag, threadNum, workvars, callvars, ran>>

(* After the unlock of the queue comes notify_one, then that of _mtx. *)
push_done(p) ==
  /\ \E w \in Queue :
       /\ <<p, w, Dummy>> \in readers /\ notify_one(w)
       /\ readers' = readers \ {<<p, w, Dummy>>}
  /\ UNCHANGED <<items, mtx, endFlag, threadNum, workvars, callvars, histvars>>

InPush(p) == \E r \in readers : r[1] = p

push(p, t, w) ==
  /\ ~ InPush(p) /\ t \notin Pushed /\ \A r \in readers : r[3] # t
  /\ push_lock(p, t, w) /\ UNCHANGED workvars

PushStep(p) == push_append(p) \/ push_done(p)

---------------------------------------------------------------------------
(* start() and end(), and worker::end() that both may call.  _mtx lets in  *)
(* one call at a time, so it is all the same which of the callers makes    *)
(* them.  They are not tasks: end() in a task would join its own thread,   *)
(* which throws and leaves the pool half ended; that is not followed.      *)

Alone_but_for_push == ~ mtx
Alone == ~ mtx /\ readers = {}

Enter(op) ==
  /\ Alone /\ ncalls < MaxCalls
  /\ mtx' = TRUE /\ ncalls' = ncalls + 1
  /\ call' = op /\ cpc' = "loop" /\ i' = 0
  /\ UNCHANGED <<items, waiting, readers, workvars, histvars>>

start(num) ==
  /\ Enter("start")
  /\ endFlag' = FALSE /\ n' = num /\ UNCHANGED threadNum

end ==
  /\ Enter("end")
  /\ n' = threadNum /\ threadNum' = 0 /\ endFlag' = TRUE

Joinable(w) == wpc[w] # "none"

no_task(w) == UNCHANGED items
empty_task(w) == Enqueue(w, Dummy)

(* worker::end of a thread that is there: wake it with an empty task. *)
worker_end ==
  /\ cpc = "loop" /\ i < n /\ Joinable(i)
  /\ empty_task(i) /\ cpc' = "notify"
  /\ UNCHANGED <<waiting, lockvars, workvars, call, i, n, ncalls, histvars>>

end_notify ==
  /\ cpc = "notify" /\ notify_one(i) /\ cpc' = "join"
  /\ UNCHANGED <<items, lockvars, workvars, call, i, n, ncalls, histvars>>

join ==
  /\ cpc = "join" /\ wpc[i] = "exited"
  /\ wpc' = [wpc EXCEPT ![i] = "none"] /\ cpc' = "loop"
  /\ UNCHANGED <<items, waiting, lockvars, cur, draining, call, i, n, ncalls, histvars>>

(* One turn of the loop: start() makes the thread, end() goes on. *)
next_worker ==
  /\ cpc = "loop" /\ i < n /\ ~ Joinable(i)
  /\ i' = i + 1
  /\ \/ /\ call = "start"
        /\ wpc' = [wpc EXCEPT ![i] = "loop"]
        /\ draining' = [draining EXCEPT ![i] = FALSE]
     \/ call = "end" /\ UNCHANGED <<wpc, draining>>
  /\ UNCHANGED <<items, waiting, lockvars, cur, call, cpc, n, ncalls, histvars>>

call_returns ==
  /\ cpc = "loop" /\ i = n
  /\ threadNum' = IF call = "start" THEN n ELSE threadNum
  /\ mtx' = FALSE
  /\ call' = "none" /\ cpc' = "idle" /\ i' = 0 /\ n' = 0
  /\ UNCHANGED <<items, waiting, readers, endFlag, workvars, ncalls, histvars>>

---------------------------------------------------------------------------
(* A worker: `while (!endFlag)' pop and run, then run what is left.        *)

loop_test(w) ==
  /\ wpc[w] = "loop"
  /\ \/ endFlag /\ wpc' = [wpc EXCEPT ![w] = "drain"]
                /\ draining' = [draining EXCEPT ![w] = TRUE]
     \/ ~ endFlag /\ wpc' = [wpc EXCEPT ![w] = "pop"] /\ UNCHANGED draining
  /\ UNCHANGED <<items, waiting, lockvars, cur, callvars, histvars>>

worker_wait(w) ==
  /\ wpc[w] = "pop" /\ w \notin waiting[w] /\ Wait(w, w)
  /\ UNCHANGED <<items, lockvars, workvars, callvars, histvars>>

worker_pop(w) ==
  /\ wpc[w] \in {"pop", "drain"} /\ w \notin waiting[w] /\ Dequeue(w)
  /\ cur' = [cur EXCEPT ![w] = Head(items[w])]
  /\ wpc' = [wpc EXCEPT ![w] = "run"]
  /\ UNCHANGED <<waiting, lockvars, draining, callvars, histvars>>

Back(w) == IF draining[w] THEN "drain" ELSE "loop"

(* task(): a task that has a child is not over before the push returns. *)
run_task(w) ==
  /\ wpc[w] = "run"
  /\ ran' = IF cur[w] = Dummy THEN ran ELSE [ran EXCEPT ![w] = Append(@, cur[w])]
  /\ wpc' = [wpc EXCEPT ![w] = IF cur[w] \in DOMAIN Child THEN "push" ELSE Back(w)]
  /\ UNCHANGED <<items, waiting, lockvars, cur, draining, callvars, tasks>>

child_push(w) ==
  /\ wpc[w] = "push" /\ \E v \in Queue : push_lock(w, Child[cur[w]], v)
  /\ wpc' = [wpc EXCEPT ![w] = Back(w)]
  /\ UNCHANGED <<cur, draining>>

drained_at_once(w) == TRUE
drained(w) == empty(w)

worker_exits(w) ==
  /\ wpc[w] = "drain" /\ drained(w)
  /\ wpc' = [wpc EXCEPT ![w] = "exited"]
  /\ UNCHANGED <<items, waiting, lockvars, cur, draining, callvars, histvars>>

WorkerStep(w) ==
  \/ PushStep(w)
  \/ /\ ~ InPush(w)
     /\ \/ loop_test(w) \/ worker_wait(w) \/ worker_pop(w) \/ run_task(w)
        \/ child_push(w) \/ worker_exits(w)

CallStep == worker_end \/ end_notify \/ join \/ next_worker \/ call_returns

PoolNext ==
  \/ end \/ (\E num \in 1..MaxThreads : start(num)) \/ CallStep
  \/ \E p \in Pusher, t \in Root, w \in Queue : push(p, t, w)
  \/ \E p \in Pusher : PushStep(p)
  \/ \E w \in Queue : WorkerStep(w)

PoolSpec == PoolInit /\ [][PoolNext]_pvars

---------------------------------------------------------------------------
(* The two calls that tpool.h lets deadlock.  start() of a running pool    *)
(* clears the flag and joins a worker that nothing will end; and a task    *)
(* that pushes while end() holds _mtx waits for end(), which waits for it. *)
StartsTwice == call = "start" /\ cpc \in {"notify", "join"}
PushesInEnd == \E w \in Queue : wpc[w] = "push" /\ mtx

(* While nobody is in start() or end(), the threads that run are those of  *)
(* the first threadNum workers, also after a restart with fewer threads;   *)
(* each worker has run its tasks in the order they were pushed, and a      *)
(* stopped pool has run them all.                                          *)
PoolSettled ==
  ~ mtx =>
    \A w \in Queue :
      /\ Joinable(w) <=> w < threadNum
      /\ ran[w] = SubSeq(tasks[w], 1, Len(ran[w]))
      /\ threadNum = 0 => ran[w] = tasks[w]

(* The pool is open from the end of start() to the end of end(). *)
Promise == INSTANCE TaskPool WITH
  open  <- threadNum > 0 \/ (call = "end" /\ n > 0),
  taken <- Pushed, done <- Ran

(* threadPool keeps the promise of a pool of tasks: push() takes a task    *)
(* only while the pool is open, a task runs once, and end() returns only   *)
(* when every task that was pushed has run, children included.             *)
PoolPromise == Promise!TaskSpec

(* start(), end() and push() return, except in the two deadlocks. *)
CallsReturn == mtx \/ readers # {} ~> (~ mtx /\ readers = {}) \/ StartsTwice \/ PushesInEnd

(* The tasks that were pushed run, whatever end() and start() do           *)
(* meanwhile; except in the two deadlocks.                                 *)
TasksRun == Pushed # Ran ~> Pushed = Ran \/ StartsTwice \/ PushesInEnd
==============================================================================
