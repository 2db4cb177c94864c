------------------------------ MODULE WorkQueue ------------------------------
(***************************************************************************)
(* The work queue of the libev variant: workev.c, and of its module.c the  *)
(* job and its client.  One thread sets the queue up and adds jobs, the    *)
(* workers take the job added last, and sighandler shuts the queue down on *)
(* whichever thread the signal interrupts: the first one, a worker or one  *)
(* that has nothing to do with the queue.  That thread stands still until  *)
(* the handler returns.  Reading a worker that has freed itself is a       *)
(* fault, after which nothing more is said.                                *)
(***************************************************************************)
EXTENDS Integers, Sequences

CONSTANTS
  NumWorkers, Job,
  ClientFd   \* client->fd of a job that is added: the code sets it nowhere

(* A worker without a job has a null pointer in its place, see None.       *)
ASSUME WorkAssumption == NumWorkers \in Nat /\ 0 \notin Job /\ ClientFd \in [Job -> Int]

VARIABLES
  jobs, workers, jmutex,   \* waiting_jobs and workers, first one first; who has jobs_mutex
  kpc, kjob, terminate,    \* per worker: where it is, its job, worker->terminate
  mpc, mi,                 \* the setting-up thread and its index
  spc, scur, son,          \* workqueue_shutdown, its worker, the thread it interrupts
  early,                   \* it began before workqueue_init was over
  jstate, fd, closes,      \* per job: its life, client->fd, calls of close() on it
  bevfrees,                \* per job: calls of bufferevent_free, each closes its socket
  fault

listvars == <<jobs, workers, jmutex>>
kvars == <<kpc, kjob, terminate>>
mvars == <<mpc, mi>>
shutvars == <<spc, scur, son, early, fault>>
jvars == <<jstate, fd, closes, bevfrees>>
wqvars == <<listvars, kvars, mvars, shutvars, jvars>>

(* workqueue_init starts at least one worker. *)
N == IF NumWorkers < 1 THEN 1 ELSE NumWorkers
Worker == 1..N
None == 0
Main == N + 1
Other == N + 2

WorkInit ==
  /\ jobs = <<>> /\ workers = <<>> /\ jmutex = None
  /\ kpc = [k \in Worker |-> "none"]
  /\ kjob = [k \in Worker |-> None]
  /\ terminate = [k \in Worker |-> FALSE]
  /\ mpc = "init" /\ mi = 1
  /\ spc = "none" /\ scur = None /\ son = None /\ early = FALSE
  /\ jstate = [j \in Job |-> "new"]
  /\ fd = ClientFd
  /\ closes = [j \in Job |-> 0] /\ bevfrees = [j \in Job |-> 0]
  /\ fault = FALSE

---------------------------------------------------------------------------
(* A thread does nothing else while it runs the signal handler. *)
Runs(t) == ~ (son = t /\ spc # "done")

(* The thread that calls workqueue_init and workqueue_add_job.             *)

create_worker ==
  /\ Runs(Main) /\ mpc = "init" /\ mi <= N
  /\ kpc' = [kpc EXCEPT ![mi] = "top"] /\ mpc' = "link"
  /\ UNCHANGED <<listvars, kjob, terminate, mi, shutvars, jvars>>

(* No memory or no thread: the workers there are so far stay. *)
init_fails ==
  /\ Runs(Main) /\ mpc = "init" /\ mi <= N /\ mpc' = "ready"
  /\ UNCHANGED <<listvars, kvars, mi, shutvars, jvars>>

link_worker ==
  /\ Runs(Main) /\ mpc = "link"
  /\ workers' = <<mi>> \o workers /\ mi' = mi + 1
  /\ mpc' = IF mi = N THEN "ready" ELSE "init"
  /\ UNCHANGED <<jobs, jmutex, kvars, shutvars, jvars>>

workqueue_add_job(j) ==
  /\ Runs(Main) /\ mpc = "ready" /\ jmutex = None /\ jstate[j] = "new"
  /\ jmutex' = Main /\ mpc' = "add"
  /\ jobs' = <<j>> \o jobs /\ jstate' = [jstate EXCEPT ![j] = "waiting"]
  /\ UNCHANGED <<workers, kvars, mi, shutvars, fd, closes, bevfrees>>

Sleeping == {k \in Worker : kpc[k] = "wait"}

signal_no_one == UNCHANGED kpc
signal ==
  \/ Sleeping = {} /\ UNCHANGED kpc
  \/ \E k \in Sleeping : kpc' = [kpc EXCEPT ![k] = "top"]

add_signal ==
  /\ Runs(Main) /\ mpc = "add" /\ signal
  /\ jmutex' = None /\ mpc' = "ready"
  /\ UNCHANGED <<jobs, workers, kjob, terminate, mi, shutvars, jvars>>

---------------------------------------------------------------------------
(* worker_function.  A worker that was woken takes the mutex again and     *)
(* tests what it tested before.                                            *)

worker_locks(k) ==
  /\ Runs(k) /\ kpc[k] = "top" /\ jmutex = None
  /\ jmutex' = k /\ kpc' = [kpc EXCEPT ![k] = "locked"]
  /\ UNCHANGED <<jobs, workers, kjob, terminate, mvars, shutvars, jvars>>

(* What it does next, it does holding the mutex, and gives it up. *)
Unlocks(k) == Runs(k) /\ kpc[k] = "locked" /\ jmutex' = None

worker_waits(k) ==
  /\ Unlocks(k) /\ jobs = <<>> /\ ~ terminate[k]
  /\ kpc' = [kpc EXCEPT ![k] = "wait"]
  /\ UNCHANGED <<jobs, workers, kjob, terminate, mvars, shutvars, jvars>>

worker_ends(k) ==
  /\ Unlocks(k) /\ terminate[k]
  /\ kpc' = [kpc EXCEPT ![k] = "freed"]
  /\ UNCHANGED <<jobs, workers, kjob, terminate, mvars, shutvars, jvars>>

Takes(k) ==
  /\ Unlocks(k) /\ jobs # <<>>
  /\ kjob' = [kjob EXCEPT ![k] = Head(jobs)]
  /\ jobs' = Tail(jobs)
  /\ jstate' = [jstate EXCEPT ![Head(jobs)] = "running"]
  /\ kpc' = [kpc EXCEPT ![k] = "run"]
  /\ UNCHANGED <<workers, terminate, mvars, shutvars, fd, closes, bevfrees>>

take_any_time(k) == Takes(k)
take_job(k) == Takes(k) /\ ~ terminate[k]

(* close() happens once: the descriptor is -1 afterwards. *)
close_again(j) ==
  /\ closes' = [closes EXCEPT ![j] = @ + 1]
  /\ UNCHANGED fd
closeClient(j) ==
  \/ fd[j] < 0 /\ UNCHANGED <<fd, closes>>
  \/ /\ fd[j] >= 0
     /\ closes' = [closes EXCEPT ![j] = @ + 1] /\ fd' = [fd EXCEPT ![j] = -1]

(* An error event, or a read whose echo cannot be written, in the middle   *)
(* of event_base_dispatch.                                                 *)
on_error(k) ==
  /\ Runs(k) /\ kpc[k] = "run" /\ fd[kjob[k]] >= 0 /\ closeClient(kjob[k])
  /\ UNCHANGED <<listvars, kvars, mvars, shutvars, jstate, bevfrees>>

(* The client's bufferevent was made with BEV_OPT_CLOSE_ON_FREE: freeing   *)
(* it closes its own socket.  The event base and the buffer go with it.    *)
closeAndFreeClient(j) ==
  /\ closeClient(j)
  /\ bevfrees' = [bevfrees EXCEPT ![j] = @ + 1]
  /\ jstate' = [jstate EXCEPT ![j] = "over"]

(* event_base_dispatch returns; closeAndFreeClient and free(job). *)
job_function_ends(k) ==
  /\ Runs(k) /\ kpc[k] = "run" /\ closeAndFreeClient(kjob[k])
  /\ kjob' = [kjob EXCEPT ![k] = None] /\ kpc' = [kpc EXCEPT ![k] = "top"]
  /\ UNCHANGED <<listvars, terminate, mvars, shutvars>>

---------------------------------------------------------------------------
(* sighandler and workqueue_shutdown.                                      *)

First(list) == IF list = <<>> THEN None ELSE Head(list)
Follower_itself(k) == k
Follower(k) ==
  LET p == CHOOSE p \in DOMAIN workers : workers[p] = k
  IN  IF p = Len(workers) THEN None ELSE workers[p + 1]

sighandler ==
  /\ spc = "none" /\ spc' = "mark" /\ scur' = First(workers)
  /\ son' \in {Main, Other} \cup {k \in Worker : kpc[k] # "none"}
  /\ early' = (mpc \in {"init", "link"})
  /\ UNCHANGED <<listvars, kvars, mvars, fault, jvars>>

(* Without jobs_mutex. *)
mark_terminate ==
  /\ spc = "mark" /\ scur # None
  /\ terminate' = [terminate EXCEPT ![scur] = TRUE]
  /\ spc' = "next"
  /\ UNCHANGED <<listvars, kpc, kjob, mvars, scur, son, early, fault, jvars>>

(* worker = worker->next: the worker just marked may be gone. *)
next_marked ==
  /\ spc = "next"
  /\ \/ kpc[scur] = "freed" /\ fault' = TRUE /\ UNCHANGED <<spc, scur>>
     \/ /\ kpc[scur] # "freed"
        /\ scur' = Follower(scur) /\ spc' = "mark"
        /\ UNCHANGED fault
  /\ UNCHANGED <<listvars, kvars, mvars, son, early, jvars>>

Sweep ==
  /\ spc = "mark" /\ scur = None /\ jmutex = None
  /\ workers' = <<>> /\ jobs' = <<>>
  /\ jstate' = [j \in Job |-> IF jstate[j] = "waiting" THEN "dropped" ELSE jstate[j]]
  /\ spc' = "done"
  /\ UNCHANGED <<jmutex, kjob, terminate, mvars, scur, son, early, fault, fd, closes, bevfrees>>

sweep_signal == Sweep /\ signal
sweep == Sweep /\ kpc' = [k \in Worker |-> IF kpc[k] = "wait" THEN "top" ELSE kpc[k]]

MainStep == create_worker \/ link_worker \/ add_signal
worker_function(k) == worker_locks(k) \/ worker_waits(k) \/ worker_ends(k) \/ take_job(k)
ShutdownStep == mark_terminate \/ next_marked \/ sweep

WorkNext ==
  /\ ~ fault
  /\ \/ MainStep \/ init_fails \/ (\E j \in Job : workqueue_add_job(j))
     \/ \E k \in Worker : worker_function(k) \/ on_error(k) \/ job_function_ends(k)
     \/ sighandler \/ ShutdownStep

WorkSpec == WorkInit /\ [][WorkNext]_wqvars

---------------------------------------------------------------------------
(* client->fd, when the caller has set it, is closed once, by an error     *)
(* callback or by closeAndFreeClient, and the bufferevent with its socket  *)
(* once, when the job is over; job_function runs a job on one worker.      *)
(* Nothing of a job that shutdown drops is ever closed.  The two are       *)
(* different descriptors: the code never stores the socket in client->fd.  *)
ClientClosedOnce ==
  \A j \in Job :
    /\ closes[j] <= IF ClientFd[j] >= 0 THEN 1 ELSE 0
    /\ jstate[j] = "over" => ClientFd[j] < 0 \/ closes[j] = 1
    /\ jstate[j] \in {"new", "waiting", "dropped"} => closes[j] = 0
    /\ bevfrees[j] = IF jstate[j] = "over" THEN 1 ELSE 0
    /\ \A k, l \in Worker : kjob[k] = j /\ kjob[l] = j => k = l

(* No job waits while a worker of worker_function could take it: the       *)
(* signal of workqueue_add_job is never lost.  Jobs run as long as their   *)
(* connections, so all workers may be busy for ever.                       *)
JobTaken ==
  jobs # <<>> ~>
    jobs = <<>> \/ spc # "none" \/ \A k \in Worker : kpc[k] \in {"none", "run"}

(* After a shutdown that did not race with workqueue_init every worker     *)
(* ends, or is still in a job: terminate is set without the mutex, but the *)
(* broadcast comes under it, later.                                        *)
WorkersEnd ==
  spc = "done" /\ ~ early ~> \A k \in Worker : kpc[k] \in {"none", "freed", "run"}

(* workqueue_shutdown is final: no worker takes a job after it, also not   *)
(* one that is added later.                                                *)
ShutdownIsFinal ==
  [][spc = "done" /\ ~ early =>
       \A k \in Worker : kpc'[k] = "run" => kpc[k] = "run"]_wqvars

(* workqueue_shutdown returns, unless it reads a worker that has freed     *)
(* itself, or the signal interrupts the very thread that holds jobs_mutex: *)
(* the first one in workqueue_add_job, or a worker between its lock and    *)
(* its unlock.                                                             *)
ShutdownReturns == spc # "none" ~> spc = "done" \/ fault \/ jmutex = son
==============================================================================
