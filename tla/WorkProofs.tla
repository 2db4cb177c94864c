------------------------------ MODULE WorkProofs -----------------------------
(***************************************************************************)
(* The work queue of the libev variant, for any number of workers and any  *)
(* set of jobs: what workev.c and module.c keep true of jobs, descriptors  *)
(* and workers, whichever thread the signal of the shutdown interrupts.    *)
(***************************************************************************)
EXTENDS WorkQueue, SequenceTheorems, TLAPS

(* The fields of the queue, of a worker and of a client, and the locals of *)
(* the two threads, have the values of their C types.                      *)
WorkTypeOK ==
  /\ jobs \in Seq(Job) /\ workers \in Seq(Worker) /\ jmutex \in 0..Main
  /\ kpc \in [Worker -> {"none", "top", "locked", "wait", "run", "freed"}]
  /\ kjob \in [Worker -> Job \cup {None}]
  /\ terminate \in [Worker -> BOOLEAN]
  /\ mpc \in {"init", "link", "ready", "add"} /\ mi \in 1..(N + 1)
  /\ mpc = "link" => mi <= N
  /\ spc \in {"none", "mark", "next", "done"}
  /\ son \in 0..Other /\ early \in BOOLEAN /\ fault \in BOOLEAN
  /\ jstate \in [Job -> {"new", "waiting", "running", "over", "dropped"}]
  /\ fd \in [Job -> Int] /\ closes \in [Job -> Nat] /\ bevfrees \in [Job -> Nat]

(* A job is in the list once and only while it waits; what a worker runs   *)
(* is running, and no other worker runs it.                                *)
JobInOnePlace ==
  /\ \A p \in 1..Len(jobs) : jstate[jobs[p]] = "waiting"
  /\ \A p, q \in 1..Len(jobs) : jobs[p] = jobs[q] => p = q
  /\ \A k \in Worker : kpc[k] = "run" <=> kjob[k] # None
  /\ \A k \in Worker : kjob[k] # None => jstate[kjob[k]] = "running"
  /\ \A k, l \in Worker : kjob[k] = kjob[l] /\ kjob[k] # None => k = l

(* client->fd is what it was, or was a descriptor, is closed and is -1;    *)
(* the bufferevent is freed exactly when the job is over.                  *)
ClosedWithJob ==
  \A j \in Job :
    /\ \/ closes[j] = 0 /\ fd[j] = ClientFd[j]
       \/ closes[j] = 1 /\ fd[j] = -1 /\ ClientFd[j] >= 0
    /\ jstate[j] = "over" => fd[j] < 0
    /\ jstate[j] \in {"new", "waiting", "dropped"} => closes[j] = 0
    /\ bevfrees[j] = IF jstate[j] = "over" THEN 1 ELSE 0

JobInv == WorkTypeOK /\ JobInOnePlace /\ ClosedWithJob

(* Until the shutdown clears it, the list holds the workers created so     *)
(* far, the last one first; a worker is created before it is linked.       *)
WorkersListed ==
  /\ \A k \in Worker : kpc[k] # "none" <=> k < mi \/ (k = mi /\ mpc = "link")
  /\ spc # "done" => /\ Len(workers) = mi - 1
                     /\ \A p \in 1..Len(workers) : workers[p] = mi - p
  /\ spc = "mark" => scur \in 0..(mi - 1)
  /\ spc = "next" => scur \in 1..(mi - 1)

(* The walk of workqueue_shutdown has marked the workers it has passed. *)
MarkedSoFar ==
  ~ early /\ spc # "none" =>
    /\ mpc \in {"ready", "add"}
    /\ \A k \in Worker : k < mi /\ (k > scur \/ spc = "done") => terminate[k]
    /\ spc = "next" => terminate[scur]

ShutInv == WorkTypeOK /\ WorkersListed /\ MarkedSoFar

---------------------------------------------------------------------------
LEMMA WorkerIsNat == N \in Nat \ {0} /\ Worker \subseteq Nat \ {0} /\ None \notin Worker
BY WorkAssumption DEF N, Worker, None

LEMMA ThreadNumbers ==
  /\ Worker \subseteq 0..Main /\ {None, Main} \subseteq 0..Main
  /\ {None, Main, Other} \cup Worker \subseteq 0..Other
BY WorkAssumption DEF N, Worker, None, Main, Other

(* pthread_cond_signal wakes one sleeper or none, pthread_cond_broadcast   *)
(* all: in both cases a worker that slept is at the top of its loop.       *)
Woken == kpc' \in [Worker -> {"none", "top", "locked", "wait", "run", "freed"}] /\
         \A k \in Worker : kpc'[k] = kpc[k] \/ (kpc[k] = "wait" /\ kpc'[k] = "top")

LEMMA SignalWakes == ASSUME WorkTypeOK, signal PROVE Woken
BY DEF WorkTypeOK, signal, Sleeping, Woken

LEMMA SweepWakes == ASSUME WorkTypeOK, sweep PROVE Woken
BY DEF WorkTypeOK, sweep, Woken

LEMMA CloseTypes ==
  ASSUME WorkTypeOK, NEW j, closeClient(j)
  PROVE  closes' \in [Job -> Nat] /\ fd' \in [Job -> Int]
<1>1. CASE j \in Job
  <2>1. closes[j] + 1 \in Nat
    BY <1>1 DEF WorkTypeOK
  <2>2. CASE fd[j] < 0 /\ UNCHANGED <<fd, closes>>
    BY <2>2 DEF WorkTypeOK
  <2>3. CASE closes' = [closes EXCEPT ![j] = @ + 1] /\ fd' = [fd EXCEPT ![j] = -1]
    BY <1>1, <2>1, <2>3 DEF WorkTypeOK
  <2> QED BY <2>2, <2>3 DEF closeClient
<1>2. CASE j \notin Job
  BY <1>2 DEF WorkTypeOK, closeClient
<1> QED BY <1>1, <1>2

(* After the worker at k in the list comes the one created before it. *)
LEMMA FollowerIsBelow ==
  ASSUME WorkTypeOK, WorkersListed, spc # "done", NEW k \in Worker, k < mi
  PROVE  Follower(k) = k - 1
<1> USE WorkerIsNat
<1>1. mi \in Nat /\ k \in Nat /\ mi - k \in 1..(mi - 1) /\ DOMAIN workers = 1..(mi - 1)
      /\ \A p \in 1..(mi - 1) : workers[p] = mi - p
  BY DEF WorkTypeOK, WorkersListed
<1>2. \A p \in DOMAIN workers : workers[p] = k <=> p = mi - k
  BY <1>1
<1>3. (CHOOSE p \in DOMAIN workers : workers[p] = k) = mi - k
  BY <1>1, <1>2
<1>4. Len(workers) = mi - 1
  BY DEF WorkersListed
<1>5. CASE k = 1
  BY <1>1, <1>3, <1>4, <1>5 DEF Follower, None
<1>6. CASE k # 1
  <2>1. mi - k # mi - 1 /\ mi - k + 1 \in 1..(mi - 1)
    BY <1>1, <1>6
  <2>2. Follower(k) = workers[mi - k + 1]
    BY <1>3, <1>4, <2>1 DEF Follower
  <2> QED BY <1>1, <2>1, <2>2
<1> QED BY <1>5, <1>6

---------------------------------------------------------------------------
(* Types.                                                                  *)

LEMMA WorkTypes == WorkTypeOK /\ [WorkNext]_wqvars => WorkTypeOK'
<1> SUFFICES ASSUME WorkTypeOK, [WorkNext]_wqvars PROVE WorkTypeOK'
  OBVIOUS
<1> USE WorkerIsNat, ThreadNumbers DEF WorkTypeOK, listvars, kvars, mvars, shutvars, jvars
<1>1. CASE UNCHANGED wqvars
  BY <1>1 DEF wqvars
<1>2. CASE create_worker
  BY <1>2 DEF create_worker
<1>3. CASE init_fails
  BY <1>3 DEF init_fails
<1>4. CASE link_worker
  <2>1. mi \in Worker /\ mi + 1 \in 1..(N + 1) /\ (mi # N => mi + 1 <= N)
    BY <1>4 DEF link_worker, Worker
  <2>2. workers' \in Seq(Worker)
    BY <1>4, <2>1 DEF link_worker
  <2> QED BY <1>4, <2>1, <2>2 DEF link_worker
<1>5. ASSUME NEW j \in Job, workqueue_add_job(j) PROVE WorkTypeOK'
  <2>1. jobs' \in Seq(Job)
    BY <1>5 DEF workqueue_add_job
  <2> QED BY <1>5, <2>1 DEF workqueue_add_job
<1>6. CASE add_signal
  <2>1. Woken
    BY <1>6, SignalWakes DEF add_signal
  <2> QED BY <1>6, <2>1 DEF add_signal, Woken
<1>7. ASSUME NEW k \in Worker, worker_locks(k) \/ worker_waits(k) \/ worker_ends(k)
      PROVE  WorkTypeOK'
  BY <1>7 DEF worker_locks, worker_waits, worker_ends, Unlocks
<1>8. ASSUME NEW k \in Worker, take_job(k) PROVE WorkTypeOK'
  <2>1. Head(jobs) \in Job /\ Tail(jobs) \in Seq(Job)
    BY <1>8 DEF take_job, Takes
  <2> QED BY <1>8, <2>1 DEF take_job, Takes, Unlocks
<1>9. ASSUME NEW k \in Worker, on_error(k) \/ job_function_ends(k) PROVE WorkTypeOK'
  <2>1. closeClient(kjob[k])
    BY <1>9 DEF on_error, job_function_ends, closeAndFreeClient
  <2>2. closes' \in [Job -> Nat] /\ fd' \in [Job -> Int]
    BY <2>1, CloseTypes
  <2>3. CASE on_error(k)
    BY <2>2, <2>3 DEF on_error
  <2>4. CASE job_function_ends(k)
    <3>1. bevfrees' = [bevfrees EXCEPT ![kjob[k]] = @ + 1]
      BY <2>4 DEF job_function_ends, closeAndFreeClient
    <3>2. kjob[k] \in Job => bevfrees[kjob[k]] + 1 \in Nat
      OBVIOUS
    <3>3. bevfrees' \in [Job -> Nat]
      BY <3>1, <3>2
    <3> QED BY <2>2, <2>4, <3>3 DEF job_function_ends, closeAndFreeClient
  <2> QED BY <1>9, <2>3, <2>4
<1>10. CASE sighandler
  <2>2. (mpc \in {"init", "link"}) \in BOOLEAN
    OBVIOUS
  <2> QED BY <1>10, <2>2 DEF sighandler
<1>11. CASE mark_terminate
  BY <1>11 DEF mark_terminate
<1>12. CASE next_marked
  BY <1>12 DEF next_marked
<1>13. CASE sweep
  <2>1. Woken
    BY <1>13, SweepWakes
  <2> QED BY <1>13, <2>1 DEF sweep, Sweep, Woken
<1> QED BY <1>1, <1>2, <1>3, <1>4, <1>5, <1>6, <1>7, <1>8, <1>9, <1>10, <1>11, <1>12, <1>13
        DEF WorkNext, MainStep, ShutdownStep, worker_function

---------------------------------------------------------------------------
(* The workers and the shutdown.                                           *)

(* The steps that leave the list, the walk and the marks as they are.      *)
LEMMA ShutKept ==
  ASSUME ShutInv, UNCHANGED <<workers, terminate, mpc, mi, spc, scur, early>>,
         \A k \in Worker : kpc'[k] = "none" <=> kpc[k] = "none"
  PROVE  WorkersListed' /\ MarkedSoFar'
<1>1. WorkersListed'
  BY DEF ShutInv, WorkersListed
<1>2. MarkedSoFar'
  BY DEF ShutInv, MarkedSoFar
<1> QED BY <1>1, <1>2

LEMMA WokenExist == ASSUME Woken PROVE \A k \in Worker : kpc'[k] = "none" <=> kpc[k] = "none"
BY DEF Woken

LEMMA ShutSteps == ShutInv /\ [WorkNext]_wqvars => ShutInv'
<1> SUFFICES ASSUME ShutInv, [WorkNext]_wqvars PROVE ShutInv'
  OBVIOUS
<1>0. WorkTypeOK /\ WorkTypeOK'
  BY WorkTypes DEF ShutInv
<1> USE WorkerIsNat DEF listvars, kvars, mvars, shutvars, jvars
<1> SUFFICES WorkersListed' /\ MarkedSoFar'
  BY <1>0 DEF ShutInv
<1>1. CASE UNCHANGED wqvars
  BY <1>1, ShutKept DEF wqvars
<1>2. CASE create_worker
  <2>1. WorkersListed'
    BY <1>0, <1>2 DEF ShutInv, WorkersListed, create_worker, WorkTypeOK, Worker
  <2>2. MarkedSoFar'
    BY <1>2 DEF ShutInv, MarkedSoFar, create_worker
  <2> QED BY <2>1, <2>2
<1>3. CASE init_fails
  <2>1. WorkersListed'
    BY <1>0, <1>3 DEF ShutInv, WorkersListed, init_fails, WorkTypeOK
  <2>2. MarkedSoFar'
    BY <1>3 DEF ShutInv, MarkedSoFar, init_fails
  <2> QED BY <2>1, <2>2
<1>4. CASE link_worker
  <2>1. MarkedSoFar'
    BY <1>4 DEF ShutInv, MarkedSoFar, link_worker
  <2>2. /\ mi \in Worker /\ mi \in Nat /\ mi' = mi + 1
        /\ kpc' = kpc /\ spc' = spc /\ scur' = scur /\ mpc' # "link"
    BY <1>0, <1>4 DEF link_worker, WorkTypeOK, Worker
  <2>3. \A k \in Worker : kpc'[k] # "none" <=> k < mi'
    BY <1>4, <2>2 DEF ShutInv, WorkersListed, link_worker, Worker
  <2>4. ASSUME spc # "done"
        PROVE  Len(workers') = mi /\ \A p \in 1..mi : workers'[p] = mi + 1 - p
    <3>1. Len(workers) = mi - 1 /\ \A p \in 1..(mi - 1) : workers[p] = mi - p
      BY <2>4 DEF ShutInv, WorkersListed
    <3>2. /\ Len(workers') = Len(<<mi>>) + Len(workers)
          /\ \A p \in 1..Len(workers') :
               workers'[p] = IF p <= 1 THEN <<mi>>[p] ELSE workers[p - 1]
      BY <1>0, <1>4, <2>2, ConcatProperties DEF link_worker, WorkTypeOK
    <3>3. Len(workers') = mi
      BY <2>2, <3>1, <3>2
    <3>5. workers'[1] = mi
      BY <2>2, <3>2, <3>3
    <3>6. ASSUME NEW p \in 2..mi PROVE workers'[p] = mi + 1 - p
      <4>1. workers'[p] = workers[p - 1] /\ p - 1 \in 1..(mi - 1)
        BY <2>2, <3>2, <3>3
      <4>2. workers[p - 1] = mi - (p - 1)
        BY <3>1, <4>1
      <4> QED BY <2>2, <4>1, <4>2
    <3> QED BY <2>2, <3>3, <3>5, <3>6
  <2>5. WorkersListed'
    BY <2>2, <2>3, <2>4 DEF ShutInv, WorkersListed
  <2> QED BY <2>1, <2>5
<1>5. ASSUME NEW j \in Job, workqueue_add_job(j) PROVE WorkersListed' /\ MarkedSoFar'
  <2>1. WorkersListed'
    BY <1>5 DEF ShutInv, WorkersListed, workqueue_add_job
  <2>2. MarkedSoFar'
    BY <1>5 DEF ShutInv, MarkedSoFar, workqueue_add_job
  <2> QED BY <2>1, <2>2
<1>6. CASE add_signal
  <2>1. \A k \in Worker : kpc'[k] = "none" <=> kpc[k] = "none"
    BY <1>0, <1>6, SignalWakes, WokenExist DEF add_signal
  <2>2. WorkersListed'
    BY <1>6, <2>1 DEF ShutInv, WorkersListed, add_signal
  <2>3. MarkedSoFar'
    BY <1>6 DEF ShutInv, MarkedSoFar, add_signal
  <2> QED BY <2>2, <2>3
<1>7. ASSUME NEW k \in Worker,
             \/ worker_locks(k) \/ worker_waits(k) \/ worker_ends(k) \/ take_job(k)
             \/ on_error(k) \/ job_function_ends(k)
      PROVE  WorkersListed' /\ MarkedSoFar'
  <2>1. UNCHANGED <<workers, terminate, mpc, mi, spc, scur, early>>
    BY <1>7 DEF worker_locks, worker_waits, worker_ends, take_job, Takes, on_error,
                job_function_ends
  <2>2. \A l \in Worker : kpc'[l] = "none" <=> kpc[l] = "none"
    BY <1>0, <1>7 DEF worker_locks, worker_waits, worker_ends, take_job, Takes, on_error,
                      job_function_ends, Unlocks, WorkTypeOK
  <2> QED BY <2>1, <2>2, ShutKept
<1>8. CASE sighandler
  <2>1. First(workers) = mi - 1
    <3>1. Len(workers) = mi - 1 /\ \A p \in 1..Len(workers) : workers[p] = mi - p
      BY <1>8 DEF ShutInv, WorkersListed, sighandler
    <3>2. CASE workers = <<>>
      BY <1>0, <3>1, <3>2 DEF First, None, WorkTypeOK
    <3>3. CASE workers # <<>>
      <4>1. Head(workers) = workers[1] /\ 1 \in 1..Len(workers)
        BY <1>0, <3>3 DEF WorkTypeOK
      <4> QED BY <3>1, <3>3, <4>1 DEF First
    <3> QED BY <3>2, <3>3
  <2>2. WorkersListed'
    BY <1>0, <1>8, <2>1 DEF ShutInv, WorkersListed, sighandler, WorkTypeOK
  <2>3. MarkedSoFar'
    <3>1. ~ early' => mpc \in {"ready", "add"}
      <4>1. mpc \in {"init", "link"} => early'
        BY <1>8 DEF sighandler
      <4> QED BY <1>0, <4>1 DEF WorkTypeOK
    <3>2. \A k \in Worker : ~ (k < mi /\ k > mi - 1)
      BY <1>0 DEF WorkTypeOK
    <3> QED BY <1>8, <2>1, <3>1, <3>2 DEF MarkedSoFar, sighandler
  <2> QED BY <2>2, <2>3
<1>9. CASE mark_terminate
  <2>1. scur \in 1..(mi - 1) /\ mi \in 1..(N + 1)
    BY <1>0, <1>9 DEF ShutInv, WorkersListed, mark_terminate, None, WorkTypeOK
  <2>2. terminate' = [terminate EXCEPT ![scur] = TRUE] /\ scur \in Worker
    BY <1>9, <2>1 DEF mark_terminate, Worker
  <2>3. WorkersListed'
    BY <1>9, <2>1 DEF ShutInv, WorkersListed, mark_terminate
  <2>4. MarkedSoFar'
    BY <1>0, <1>9, <2>2 DEF ShutInv, MarkedSoFar, mark_terminate, WorkTypeOK
  <2> QED BY <2>3, <2>4
<1>10. CASE next_marked
  <2>1. scur \in 1..(mi - 1) /\ mi \in 1..(N + 1)
    BY <1>0, <1>10 DEF ShutInv, WorkersListed, next_marked, WorkTypeOK
  <2>2. CASE scur' = scur /\ spc' = spc
    BY <1>10, <2>2, ShutKept DEF next_marked
  <2>3. CASE scur' = Follower(scur) /\ spc' = "mark"
    <3>1. scur \in Worker /\ scur' = scur - 1
      BY <1>0, <1>10, <2>1, <2>3, FollowerIsBelow DEF ShutInv, next_marked, Worker
    <3>2. WorkersListed'
      BY <1>10, <2>1, <2>3, <3>1 DEF ShutInv, WorkersListed, next_marked
    <3>3. MarkedSoFar'
      <4>1. \A k \in Worker : k > scur - 1 <=> k > scur \/ k = scur
        BY <3>1
      <4> QED BY <1>10, <2>3, <3>1, <4>1 DEF ShutInv, MarkedSoFar, next_marked
    <3> QED BY <3>2, <3>3
  <2> QED BY <1>10, <2>2, <2>3 DEF next_marked
<1>11. CASE sweep
  <2>1. \A k \in Worker : kpc'[k] = "none" <=> kpc[k] = "none"
    BY <1>0, <1>11, SweepWakes, WokenExist
  <2>2. WorkersListed'
    BY <1>11, <2>1 DEF ShutInv, WorkersListed, sweep, Sweep
  <2>3. MarkedSoFar'
    BY <1>11 DEF ShutInv, MarkedSoFar, sweep, Sweep, None
  <2> QED BY <2>2, <2>3
<1> QED BY <1>1, <1>2, <1>3, <1>4, <1>5, <1>6, <1>7, <1>8, <1>9, <1>10, <1>11
        DEF WorkNext, MainStep, ShutdownStep, worker_function

---------------------------------------------------------------------------
(* The jobs and their descriptors.                                         *)

LEMMA JobSteps == JobInv /\ ShutInv /\ [WorkNext]_wqvars => JobInv'
<1> SUFFICES ASSUME JobInv, ShutInv, [WorkNext]_wqvars PROVE JobInOnePlace' /\ ClosedWithJob'
  BY WorkTypes DEF JobInv
<1>0. WorkTypeOK /\ JobInOnePlace /\ ClosedWithJob
  BY DEF JobInv
<1>00. \A p \in 1..Len(jobs) : jobs[p] \in Job /\ jstate[jobs[p]] = "waiting"
  <2>1. jobs \in Seq(Job)
    BY <1>0 DEF WorkTypeOK
  <2>2. \A p \in 1..Len(jobs) : jobs[p] \in Job
    BY <2>1
  <2> QED BY <1>0, <2>2 DEF JobInOnePlace
<1> USE WorkerIsNat DEF listvars, kvars, mvars, shutvars, jvars
<1>1. CASE /\ UNCHANGED <<jobs, kjob, jvars>>
           /\ \A k \in Worker : kpc'[k] = "run" <=> kpc[k] = "run"
  BY <1>0, <1>1 DEF JobInOnePlace, ClosedWithJob
<1>2. CASE UNCHANGED wqvars \/ init_fails \/ link_worker \/ sighandler
           \/ mark_terminate \/ next_marked
  BY <1>1, <1>2 DEF wqvars, init_fails, link_worker, sighandler, mark_terminate, next_marked
<1>3. CASE create_worker
  <2>1. kpc[mi] = "none" /\ mi \in Worker
    BY <1>0, <1>3 DEF ShutInv, WorkersListed, create_worker, WorkTypeOK, Worker
  <2> QED BY <1>0, <1>1, <1>3, <2>1 DEF create_worker, WorkTypeOK
<1>4. CASE add_signal
  <2>1. Woken
    BY <1>0, <1>4, SignalWakes DEF add_signal
  <2> QED BY <1>1, <1>4, <2>1 DEF add_signal, Woken
<1>5. ASSUME NEW j \in Job, workqueue_add_job(j) PROVE JobInOnePlace' /\ ClosedWithJob'
  <2>1. /\ jobs' = <<j>> \o jobs /\ jstate[j] = "new"
        /\ jstate' = [jstate EXCEPT ![j] = "waiting"]
        /\ UNCHANGED <<kvars, fd, closes, bevfrees>>
    BY <1>5 DEF workqueue_add_job
  <2>2. /\ Len(jobs') = Len(jobs) + 1
        /\ jobs'[1] = j
        /\ \A p \in 2..Len(jobs') : jobs'[p] = jobs[p - 1] /\ p - 1 \in 1..Len(jobs)
    <3>1. /\ jobs \in Seq(Job) /\ <<j>> \in Seq(Job) /\ Len(<<j>>) = 1
          /\ Len(jobs) \in Nat
      BY <1>0 DEF WorkTypeOK
    <3>2. /\ Len(jobs') = Len(<<j>>) + Len(jobs)
          /\ \A p \in 1..Len(jobs') :
               jobs'[p] = IF p <= Len(<<j>>) THEN <<j>>[p] ELSE jobs[p - Len(<<j>>)]
      BY <2>1, <3>1, ConcatProperties
    <3> QED BY <3>1, <3>2
  <2>3. \A p \in 1..Len(jobs) : jobs[p] # j
    BY <1>0, <2>1 DEF JobInOnePlace
  <2>4. \A k \in Worker : kjob[k] # j
    BY <1>0, <2>1, WorkAssumption DEF JobInOnePlace, None
  <2>5. \A p \in 1..Len(jobs') : jstate'[jobs'[p]] = "waiting"
    <3> SUFFICES ASSUME NEW p \in 1..Len(jobs') PROVE jstate'[jobs'[p]] = "waiting"
      OBVIOUS
    <3>1. CASE p = 1
      BY <1>0, <2>1, <2>2, <3>1 DEF WorkTypeOK
    <3>2. CASE p \in 2..Len(jobs')
      <4>1. jobs'[p] = jobs[p - 1] /\ p - 1 \in 1..Len(jobs)
        BY <2>2, <3>2
      <4>2. jobs[p - 1] \in Job /\ jobs[p - 1] # j /\ jstate[jobs[p - 1]] = "waiting"
        BY <1>00, <2>3, <4>1
      <4> QED BY <2>1, <4>1, <4>2
    <3> QED BY <1>0, <2>2, <3>1, <3>2 DEF WorkTypeOK
  <2>6. ASSUME NEW p \in 1..Len(jobs'), NEW q \in 1..Len(jobs'), jobs'[p] = jobs'[q]
        PROVE  p = q
    <3>1. Len(jobs) \in Nat
      BY <1>0 DEF WorkTypeOK
    <3>2. CASE p = 1 /\ q \in 2..Len(jobs')
      BY <2>2, <2>3, <2>6, <3>2
    <3>3. CASE q = 1 /\ p \in 2..Len(jobs')
      BY <2>2, <2>3, <2>6, <3>3
    <3>4. CASE p \in 2..Len(jobs') /\ q \in 2..Len(jobs')
      <4>1. p - 1 = q - 1
        BY <1>0, <2>2, <2>6, <3>4 DEF JobInOnePlace
      <4> QED BY <4>1, <3>4, <3>1, <2>2
    <3> QED BY <3>1, <2>2, <3>2, <3>3, <3>4
  <2>7. \A k \in Worker : kjob'[k] # None => jstate'[kjob'[k]] = "running"
    BY <1>0, <2>1, <2>4 DEF WorkTypeOK, JobInOnePlace
  <2>8. JobInOnePlace'
    BY <1>0, <2>1, <2>5, <2>6, <2>7 DEF JobInOnePlace
  <2>9. ClosedWithJob'
    BY <1>0, <2>1 DEF ClosedWithJob, WorkTypeOK
  <2> QED BY <2>8, <2>9
<1>6. ASSUME NEW k \in Worker, worker_locks(k) \/ worker_waits(k) \/ worker_ends(k)
      PROVE  JobInOnePlace' /\ ClosedWithJob'
  BY <1>0, <1>1, <1>6 DEF worker_locks, worker_waits, worker_ends, Unlocks, WorkTypeOK
<1>7. ASSUME NEW k \in Worker, take_job(k) PROVE JobInOnePlace' /\ ClosedWithJob'
  <2> DEFINE j == Head(jobs)
  <2>1. /\ kpc[k] = "locked" /\ jobs # <<>> /\ jobs' = Tail(jobs)
        /\ kjob' = [kjob EXCEPT ![k] = j] /\ jstate' = [jstate EXCEPT ![j] = "running"]
        /\ kpc' = [kpc EXCEPT ![k] = "run"] /\ UNCHANGED <<fd, closes, bevfrees>>
    BY <1>7 DEF take_job, Takes, Unlocks
  <2>2. /\ j \in Job /\ j = jobs[1] /\ 1 \in 1..Len(jobs)
        /\ Len(jobs') = Len(jobs) - 1
        /\ \A p \in 1..Len(jobs') : jobs'[p] = jobs[p + 1] /\ p + 1 \in 1..Len(jobs)
    BY <1>0, <2>1 DEF WorkTypeOK
  <2> HIDE DEF j
  <2>3. jstate[j] = "waiting" /\ j # None
    BY <1>0, <2>2, WorkAssumption DEF JobInOnePlace, None
  <2>4. \A l \in Worker : kjob[l] # j
    BY <1>0, <2>3 DEF JobInOnePlace
  <2>5. \A p \in 1..Len(jobs') : jobs'[p] # j
    <3> SUFFICES ASSUME NEW p \in 1..Len(jobs'), jobs'[p] = j PROVE FALSE
      OBVIOUS
    <3>1. jobs[p + 1] = jobs[1] /\ p + 1 \in 1..Len(jobs)
      BY <2>2
    <3>2. p + 1 = 1
      BY <1>0, <2>2, <3>1 DEF JobInOnePlace
    <3> QED BY <3>2
  <2>6. \A p \in 1..Len(jobs') : jstate'[jobs'[p]] = "waiting"
    BY <1>0, <2>1, <2>2, <2>5 DEF JobInOnePlace, WorkTypeOK
  <2>7. \A p, q \in 1..Len(jobs') : jobs'[p] = jobs'[q] => p = q
    <3> SUFFICES ASSUME NEW p \in 1..Len(jobs'), NEW q \in 1..Len(jobs'), jobs'[p] = jobs'[q]
                 PROVE  p = q
      OBVIOUS
    <3>1. p + 1 = q + 1
      BY <1>0, <2>2 DEF JobInOnePlace
    <3> QED BY <3>1
  <2>8. \A l \in Worker : /\ kpc'[l] = "run" <=> kjob'[l] # None
                          /\ kjob'[l] # None => jstate'[kjob'[l]] = "running"
    BY <1>0, <2>1, <2>2, <2>3, <2>4, SMTT(30) DEF JobInOnePlace, WorkTypeOK
  <2>9. \A l, m \in Worker : kjob'[l] = kjob'[m] /\ kjob'[l] # None => l = m
    BY <1>0, <2>1, <2>4 DEF JobInOnePlace, WorkTypeOK
  <2>10. JobInOnePlace'
    BY <2>6, <2>7, <2>8, <2>9 DEF JobInOnePlace
  <2>11. ClosedWithJob'
    BY <1>0, <2>1, <2>2, <2>3 DEF ClosedWithJob, WorkTypeOK
  <2> QED BY <2>10, <2>11
<1>8. ASSUME NEW k \in Worker, on_error(k) \/ job_function_ends(k)
      PROVE  JobInOnePlace' /\ ClosedWithJob'
  <2> DEFINE j == kjob[k]
  <2>1. kpc[k] = "run" /\ closeClient(j) /\ jobs' = jobs
    BY <1>8 DEF on_error, job_function_ends, closeAndFreeClient
  <2>2. j \in Job /\ j # None /\ jstate[j] = "running" /\ kjob[k] = j
    BY <1>0, <2>1 DEF JobInOnePlace, WorkTypeOK
  <2> HIDE DEF j
  <2>3. /\ \/ fd'[j] = ClientFd[j] /\ closes'[j] = 0
           \/ fd'[j] = -1 /\ closes'[j] = 1 /\ ClientFd[j] >= 0
        /\ fd'[j] < 0
        /\ \A i \in Job : i # j => fd'[i] = fd[i] /\ closes'[i] = closes[i]
    BY <1>0, <2>1, <2>2 DEF closeClient, ClosedWithJob, WorkTypeOK
  <2>4. CASE on_error(k)
    <3>1. UNCHANGED <<kpc, kjob, jstate, bevfrees>>
      BY <2>4 DEF on_error
    <3> QED BY <1>0, <2>1, <2>2, <2>3, <3>1 DEF JobInOnePlace, ClosedWithJob
  <2>5. CASE job_function_ends(k)
    <3>1. /\ jstate' = [jstate EXCEPT ![j] = "over"] /\ kjob' = [kjob EXCEPT ![k] = None]
          /\ kpc' = [kpc EXCEPT ![k] = "top"]
          /\ bevfrees' = [bevfrees EXCEPT ![j] = @ + 1]
      BY <2>5 DEF job_function_ends, closeAndFreeClient, j
    <3>2. \A p \in 1..Len(jobs) : jobs[p] # j
      BY <1>0, <2>2 DEF JobInOnePlace
    <3>3. \A l \in Worker : l # k => kjob[l] # j
      BY <1>0, <2>2 DEF JobInOnePlace
    <3>4. \A p \in 1..Len(jobs') : jstate'[jobs'[p]] = "waiting"
      <4>1. \A i \in Job : i # j => jstate'[i] = jstate[i]
        BY <1>0, <3>1 DEF WorkTypeOK
      <4> QED BY <1>00, <2>1, <3>2, <4>1
    <3>5. \A l \in Worker : /\ kpc'[l] = "run" <=> kjob'[l] # None
                            /\ kjob'[l] # None => jstate'[kjob'[l]] = "running"
      BY <1>0, <2>2, <3>1, <3>3 DEF JobInOnePlace, WorkTypeOK
    <3>6. JobInOnePlace'
      BY <1>0, <2>1, <3>1, <3>4, <3>5 DEF JobInOnePlace, WorkTypeOK
    <3>7. ClosedWithJob'
      <4>0. bevfrees[j] = 0 /\ jstate \in [Job -> {"new", "waiting", "running", "over", "dropped"}]
            /\ bevfrees \in [Job -> Nat]
        BY <1>0, <2>2 DEF ClosedWithJob, WorkTypeOK
      <4>1. jstate'[j] = "over" /\ bevfrees'[j] = 1
        BY <2>2, <3>1, <4>0
      <4>2. \A i \in Job : i # j => jstate'[i] = jstate[i] /\ bevfrees'[i] = bevfrees[i]
        BY <1>0, <3>1 DEF WorkTypeOK
      <4> QED BY <1>0, <2>2, <2>3, <4>1, <4>2 DEF ClosedWithJob
    <3> QED BY <3>6, <3>7
  <2> QED BY <1>8, <2>4, <2>5
<1>9. CASE sweep
  <2>1. Woken
    BY <1>0, <1>9, SweepWakes
  <2>2. /\ jobs' = <<>> /\ UNCHANGED <<kjob, fd, closes, bevfrees>>
        /\ \A j \in Job : jstate'[j] = jstate[j] \/ (jstate[j] = "waiting" /\ jstate'[j] = "dropped")
    BY <1>9 DEF sweep, Sweep
  <2>3. JobInOnePlace'
    BY <1>0, <2>1, <2>2 DEF JobInOnePlace, Woken, WorkTypeOK
  <2>4. ClosedWithJob'
    BY <1>0, <2>2 DEF ClosedWithJob
  <2> QED BY <2>3, <2>4
<1> QED BY <1>2, <1>3, <1>4, <1>5, <1>6, <1>7, <1>8, <1>9
        DEF WorkNext, MainStep, ShutdownStep, worker_function

---------------------------------------------------------------------------
LEMMA WorkBegins == WorkInit => JobInv /\ ShutInv
<1> SUFFICES ASSUME WorkInit PROVE WorkTypeOK /\ JobInOnePlace /\ ClosedWithJob
                                   /\ WorkersListed /\ MarkedSoFar
  BY DEF JobInv, ShutInv
<1> USE WorkerIsNat, ThreadNumbers DEF WorkInit
<1>1. WorkTypeOK
  <2>1. /\ kpc \in [Worker -> {"none", "top", "locked", "wait", "run", "freed"}]
        /\ terminate \in [Worker -> BOOLEAN]
        /\ jstate \in [Job -> {"new", "waiting", "running", "over", "dropped"}]
    OBVIOUS
  <2>2. kjob \in [Worker -> Job \cup {None}] /\ fd \in [Job -> Int] /\ closes \in [Job -> Nat]
        /\ bevfrees \in [Job -> Nat]
    BY WorkAssumption
  <2>3. son \in 0..Other /\ early \in BOOLEAN /\ fault \in BOOLEAN
    OBVIOUS
  <2>4. mi \in 1..(N + 1) /\ mpc = "init" /\ spc = "none" /\ jmutex \in 0..Main
    OBVIOUS
  <2>5. jobs \in Seq(Job) /\ workers \in Seq(Worker)
    OBVIOUS
  <2> HIDE DEF WorkInit
  <2> QED BY <2>1, <2>2, <2>3, <2>4, <2>5 DEF WorkTypeOK
<1>2. JobInOnePlace /\ ClosedWithJob
  BY DEF JobInOnePlace, ClosedWithJob
<1>3. WorkersListed /\ MarkedSoFar
  BY DEF WorkersListed, MarkedSoFar, Worker
<1> QED BY <1>1, <1>2, <1>3

LEMMA WorkIsInductive == WorkSpec => [](JobInv /\ ShutInv)
BY WorkBegins, JobSteps, ShutSteps, PTL DEF WorkSpec

(* However many workers and jobs there are, and whatever the clients' fd   *)
(* fields hold, a client's descriptor and its bufferevent's socket are     *)
(* closed once each, and have been when the job is over; one worker runs   *)
(* it, and nothing is closed for a job that never ran.                     *)
THEOREM ClientIsClosedOnce == WorkSpec => []ClientClosedOnce
<1>1. JobInv => ClientClosedOnce
  <2> SUFFICES ASSUME JobInv, NEW j \in Job
               PROVE  /\ closes[j] <= IF ClientFd[j] >= 0 THEN 1 ELSE 0
                      /\ jstate[j] = "over" => ClientFd[j] < 0 \/ closes[j] = 1
                      /\ bevfrees[j] = IF jstate[j] = "over" THEN 1 ELSE 0
                      /\ jstate[j] \in {"new", "waiting", "dropped"} => closes[j] = 0
                      /\ \A k, l \in Worker : kjob[k] = j /\ kjob[l] = j => k = l
    BY DEF ClientClosedOnce
  <2>1. j # None /\ ClientFd[j] \in Int
    BY WorkAssumption DEF None
  <2> QED BY <2>1 DEF JobInv, JobInOnePlace, ClosedWithJob
<1> QED BY WorkIsInductive, <1>1, PTL

(* No worker takes a job after workqueue_shutdown has returned, unless the *)
(* shutdown began before workqueue_init was over: every worker there is    *)
(* has been marked by then, and a marked worker takes no job.              *)
THEOREM ShutdownStaysFinal == WorkSpec => ShutdownIsFinal
<1>1. ShutInv /\ [WorkNext]_wqvars =>
        [spc = "done" /\ ~ early =>
           \A k \in Worker : kpc'[k] = "run" => kpc[k] = "run"]_wqvars
  <2> SUFFICES ASSUME ShutInv, WorkNext, spc = "done", ~ early,
                      NEW k \in Worker, kpc'[k] = "run"
               PROVE  kpc[k] = "run"
    OBVIOUS
  <2>0. WorkTypeOK
    BY DEF ShutInv
  <2> USE WorkerIsNat DEF listvars, kvars, mvars, shutvars, jvars
  <2>1. terminate[k] \/ kpc[k] = "none"
    BY DEF ShutInv, WorkersListed, MarkedSoFar
  <2>2. CASE MainStep \/ init_fails \/ (\E j \in Job : workqueue_add_job(j))
    <3>1. add_signal => Woken
      BY <2>0, SignalWakes DEF add_signal
    <3> QED BY <2>0, <2>2, <3>1 DEF MainStep, init_fails, workqueue_add_job, create_worker,
                                    link_worker, Woken, add_signal, WorkTypeOK
  <2>3. CASE \E l \in Worker : worker_function(l) \/ on_error(l) \/ job_function_ends(l)
    BY <2>0, <2>1, <2>3 DEF worker_function, worker_locks, worker_waits, worker_ends,
                            take_job, Takes, Unlocks,
                            on_error, job_function_ends, WorkTypeOK
  <2>4. CASE sighandler \/ ShutdownStep
    BY <2>4 DEF sighandler, ShutdownStep, mark_terminate, next_marked, sweep, Sweep
  <2> QED BY <2>2, <2>3, <2>4 DEF WorkNext
<1> QED BY WorkIsInductive, <1>1, PTL DEF WorkSpec, ShutdownIsFinal
==============================================================================
