# clientSharedLib in TLA+

`mod_tcpclient` is a shared library that keeps TCP connections to a set of
peers, sends the requests of an application over them and hands what the peers
send to callbacks. This directory models it: its queues, its threads and their
locks, the connections and their loss; and the code beside it: startup, framing,
attributes, the configuration of the stub, the C++ queue and pool, the work
queue of the libev variant. TLC checks the models on small instances, TLAPS
proves most of their safety properties, and two refinements, for every instance.

## The system

| part | state | operations | where |
|---|---|---|---|
| id queue `gtsidq` | entries id, connection, times, expired flag, callback | present?, lookup, update, add, mark expired, remove | `task.c` 138-328 |
| message queue `gmsgq` | linked nodes, each for a connection | push (with the id queue), pop for a connection | `task.c` 330-409 |
| connection table `gconn_list` | per slot: descriptor, state, peer id; the round robin `glast_con_rr` | create all, recreate one | `task.c` 22-135 |
| application threads | - | `sl_send_buf` = push under `qtex`, then signal under `condition_mutex`; register the request callback | `module.c`, `work.c` 399-411, 554 |
| `send_worker_thread`, one per slot | node in hand | wait, reconnect, pop, write length, write body, free | `work.c` 246-296 |
| `recv_worker_thread`, one per slot | descriptor in use, `rc`, message, copy of an entry | reconnect, receive, dispatch, look up, call back, remove | `work.c` 38-244 |
| `qmanager_thread` | - | mark expired ids | `work.c` 526-540 |
| startup | - | `mod_init`, `manage`, `create_peers` | `module.c`, `work.c` 298-365 |
| framing | - | `send_to_fd`, `receive_from_fd` | `work.c` 448-524 |
| `parse_xml_attribute` | - | find the text between two keys | `task.c` 413-438 |
| stub application | table of peers, number of workers | read and check `tcp_clb.cfg`, call `mod_init` | `stub.c`, `utils.c` |
| `threadsafe_queue` (C++) | deque, mutex, condition variable | push, pop, front, clear, copy and move assignment | `safeqtempl.h` |
| `threadPool` (C++) | workers with a queue each, `_end`, `_threadNum`, `_mtx` | start, end, push | `tpool.h` |
| work queue (libev variant) | list of jobs, list of workers, `jobs_mutex` | init, add a job, worker loop, shut down, close a client | `withlibev/src` |
| monitor thread, pipe thread | - | never started | `work.c` 25, 367 |
| samples | - | demonstration programs | `fifo.c`, `cf.c`, `test.cpp`, `server.c` |

The threads share everything by memory. `qtex` protects the two queues,
`conntex` is held by `recreate_conn`, `condition_mutex` goes with the condition
variable the senders sleep on. Much is done outside the lock that would protect
it: the head of the message queue is read with the wrong mutex, the state and
the descriptor of a connection are read and written with none, the callback of
a response runs between a lookup and a removal. That, the loss and the
recreation of connections by two threads at once, and the liveness of the
wakeups are the hard parts. PROJECT.json lists them, line by line, as hazards.

What makes the parts correct: a popped message is unlinked and sent exactly
once, in order, whole, to the peer its id is pinned to; an id has one entry, and
its callback is called once, with a timeout only if there was one; every queued
message is written, every lost connection comes back, every scan and every
handled message comes to its end. For the rest: a frame arrives as it was sent
however the stream splits it; a value found in a message lies inside it and is
the right one; the table of connections is what the running library takes it
for; an item of a queue is taken once and no sleeper is forgotten; a task that
a pool took has run when the pool is closed; a client is closed once and a
shutdown comes to its end.

## The modules

* `IdQueue`, `MsgQueue`: the two linked lists of `task.c` as operators on
  sequences. The list is what is met from the head along `next`. A node of the
  message queue may be linked and freed at once, so `MsgQueue` also says which
  positions an operation dereferences (`PushReads`, `PopReads`).
* `LibState`: constants, assumptions and all variables, and what the two kinds
  of worker have in common: the table `create_peers` builds, the kernel's
  descriptors, and `recreate_conn` in three steps (new socket, `connect`, done).
* `SendPath`: application threads and senders. `RecvPath`: receivers, queue
  manager, registration of the callback and the environment.
* `ConnTable`: the table `create_peers` leaves, as a function of the slots it
  could not connect. `Startup` shows that it does, `LibState` starts from it.
* `ClientLib` composes them (`Init`, `Next`, `Spec`, `FairSpec`) and states the
  properties. `RequestLife` is what the library promises for a request, in one
  page; `ClientLife` maps the state of `ClientLib` to it. `MCClientLib` gives
  the constants values for TLC.
* `Startup`: `mod_init`, `create_peers`, `manage`, the registration of the
  callback. `Framing`: `send_to_fd` and `receive_from_fd` on a stream of bytes.
  `XmlAttribute`: `parse_xml_attribute`. `Config`: the stub's `main` and its
  checks. `MCInputs` puts the four side by side for TLC; an execution is one of
  one part.
* `SafeQueue`: `threadsafe_queue`. `ThreadPool`: `threadPool`, whose workers use
  the operators of `SafeQueue` on their queues; it implements `TaskPool`.
  `WorkQueue`: the work queue of the libev variant. `MCPools` puts them side by
  side.
* Theorems: `TypeProofs`, `IdProofs`, `SendProofs` and `LifeProofs` on
  `ClientLib`, each on the one before; `MessageProofs` on `XmlAttribute` and
  `Framing`; `StartProofs` on `Startup` and `Config`; `PoolProofs` on `SafeQueue` and `ThreadPool`; `WorkProofs`.

Operators named for a mistake (`rem_id_head`, `signal_missing`, `no_close`,
`whole_at_once`, ...) are variants, with that mistake, of the definition they
stand before; each property is checked to fail with one.

### State and code

`c_fd`, `c_state` are the fields of `gconn_list[i]`; `peer_id(i)` is the third,
which is constant after startup. `sock`, `owner` and `half` are the kernel's and
the peer's view of a descriptor: what became of the socket, which peer it is
connected to, and the request whose length was written and whose body was not.
`node[r]` follows the memory of a message: unused, with a client, queued, held
by a sender, freed. `cpc`, `spc`, `rpc` are the program counters of clients,
senders and receivers. `accepted`, `wire` and `calls` are histories: pushes,
writes, callbacks. `fault` names the memory error that ended the process (null
head, freed node, null callback); no step follows it.

A step is what a thread does between two points where another thread can
matter: acquiring a mutex, a blocking call, and each unprotected read or write
of something shared. A critical section that makes no such access is one step.
The scan of `add_entry_idq` reads the states of connections that other threads
write without a lock, so each iteration is a step, taken with `qtex`. The two
reads of `gmsgq->next` in `ready_to_send` are two steps.

The other modules name their variables after the locals and members they stand
for. In `Framing`, `outbuf` is what of `buf` is not sent yet, `stream` what the
kernel holds, `lenbuf`, `received` and `inbuf` (`read_buf`) are the receiver's.
In `Startup`, `tfd`, `tstate` and `tpid` are the fields of `gconn_list`. In
`ThreadPool`, `readers` holds who is inside `push()`; `mtx`, `call`, `cpc`, `i`
and `n` belong to the one call of `start()` or `end()` that holds `_mtx`. In
`WorkQueue`, `spc` and `scur` are the walk of `workqueue_shutdown`, `son` is the
thread the signal handler interrupts (the one that adds jobs, a worker, or one
that has nothing to do with the queue; it does nothing else meanwhile), and
`jmutex` says who holds `jobs_mutex`. A worker's lock is a step of its own, so
that the signal can find it between line 25 and line 43 of `workev.c`.

### Abstractions

* A message is a model value with an id, or with the empty id; a frame that
  arrives is a record of what the dispatcher looks at: is its length zero, are
  `<EVENT>` and `<SID>` there, `<TYPE>`, `<TID>`.
* In `ClientLib` a frame is received in one step, its length and its body are
  written in one step each, and a write that fails half way counts as failed.
  `Framing` opens these steps; its `FramesWhole` justifies them. A read that
  fails keeps what depends on where it fails: in the length, `rc` becomes 0; in a
  body, the next `recv` reports the end of the stream and `rc` stays stale
  (`rc_after_error`).
* A byte in `Framing` is a digit of a length or a named byte of a message. The
  four decimal digits are `HeaderLen` digits of `Base`. `EAGAIN` is a loop that
  changes nothing, hence no step; `errno` after a read that did not fail is any.
* A text in `XmlAttribute` is a sequence of keys and characters, for the keys of
  one call; the keys of the code begin with `<` and have no other, so a key
  that is entered at its second byte is only characters.
* A line in `Config` is what the checks can tell of it.
* The condition variables of `SafeQueue` and `WorkQueue` have no spurious
  wakeups: whoever wakes tests again and goes back to sleep. A waiting `end()`
  does not keep new `push()` calls out, as with glibc's read-write locks.
* Calls of the pool that throw are left out; they change nothing, but for
  `end()` in a task of the pool: it joins its own thread, which throws
  (`tpool.h` 102) and leaves the pool without a thread number and with threads
  to join. That misuse is not followed.
* One signal shuts the work queue down. A second one, and what `fprintf` and
  `strsignal` do in a handler, is not followed.
* In the libev variant no code stores a socket in `client->fd`; that of the
  bufferevent is closed by `bufferevent_free` (`BEV_OPT_CLOSE_ON_FREE`). The model
  takes `client->fd` to be no descriptor or one the bufferevent does not own
  (`ClientFd`) and counts the closes of the two apart. A caller that stored the
  bufferevent's socket there would have it closed twice.
* Descriptors are numbers, because `socket()` reuses the lowest closed one; the
  numbers at the start are those `Startup` shows `create_peers` to leave.
* Time is an instant counter; `EXPIRY` is in its unit. `sleep` is no step: a
  thread that sleeps may be delayed in any state anyway.
* The peers may send anything of `InMsg` at any time; the network may end
  (`eof`) or break (`reset`) a connection. A write on an ended connection may
  succeed or fail; after a failure it keeps failing.
* A fault stops the model: what a C program does after a use after free is not
  followed.

### Bounds

`MaxTime`, `MaxIn`, `MaxDrops`, `MaxFail` bound the clock, the frames received,
the connections lost and the reconnects refused; `MaxFd` the descriptors. Each
request is sent once. Two clients, two slots and three requests (two of one id)
are the least for which two pushes can meet, a node can be last without being
the head, and order within a connection differs from order in the queue. One
loss and two descriptors more than needed suffice for both threads of a slot to
recreate a connection. Two instants after `EXPIRY` 1 are enough for an entry to
be in time, at the limit and late.

In `inputs`, two binary digits make lengths 0 to 3 fit and 4 not, a stream of
three bytes is smaller than a frame, and three messages let a frame behind a
misread one be seen. Three peers and three descriptors let a slot take the
number of a refused one before it, and let `socket()` fail. Six tokens hold two
elements with values, or an empty one before one with a value. Files of two
lines hold a second GW line and every pair of a GW and a WT line. In `pools`,
three users and two queues are the least for two sleepers beside a pusher and
for two moves in opposite directions; three calls make start, end, start again
with another number of threads; three tasks make a parent, its child and a task
of another caller; two workers and three jobs leave a job waiting while both
work. `MaxMsgs`, `MaxSignals`, `MaxMoves`, `MaxCalls` name these bounds.

Runs say `CHECK_DEADLOCK FALSE`: when the application has nothing more to send
and the budgets are used, every thread waits, as in the program.

### Fairness

`FairSpec` gives weak fairness to each client that is inside a call, to each
sender, to each receiver and to the queue manager: they are threads that loop
for ever, and the scheduler runs them. Mutexes are acquired in one step with
the work they protect, so weak fairness does not let a thread that waits for a
mutex win against one that takes it again and again; no property relies on
that. In `MCInputs` and `MCPools` a thread that is inside an operation runs on
(weak fairness), and nobody has to begin one; jobs need not end, since a
connection may last. No fairness is given to the application (it need not call), to the peers,
to the clock, to losses of connections and to spurious wakeups.

## What TLC checks

| run | instance | shows |
|---|---|---|
| `dispatch` | 1 client, 1 peer, 3 requests (two of one id, one without), every kind of message | types; what is popped is unlinked; every queued request is written; every frame is handled to the end; the threads implement `RequestLife` (one call per callback among it) |
| `send_two` | 2 clients, 2 peers, 3 requests on 2 ids | order per connection, delivery to the pinned peer in whole frames, one entry per id, which names the last request of the id |
| `transactions` | 1 peer, 2 ids, 2 responses, 3 instants | requests stay answerable, no false timeout, overdue ids are marked |
| `connections` | 2 peers, the first unreachable at first, 2 losses, 2 refusals, nothing sent | the receivers alone bring the connections back for good |
| `reconnect` | 1 client, 1 peer, 1 loss | nothing is written twice; the scan for a connection ends; the threads implement `RequestLife` across the loss |
| `inputs` | `Config`, `Startup`, `Framing`, `XmlAttribute` side by side | the file is understood as meant; startup ends, with the table `ClientLib` assumes; frames arrive whole, in order, and a lost connection ends the receiver's loops; attributes are found |
| `pools` | `SafeQueue`, `ThreadPool`, `WorkQueue` side by side | items go to one thread and sleepers are woken; the pool implements `TaskPool`, its calls return and its tasks run; jobs are taken, clients closed once or, when dropped, never; shutdown on any thread is final and ends |

Five more runs, `v_*`, each check one property the code does not have; the
findings in PROJECT.json quote the line that says it should.

* `v_pop`, `QueueOpsSafe` with two peers: `pop_from_msgq` leaves a last node
  linked that is not the head; a later walk meets it freed.
* `v_peek`, `HeadIsThere`: `ready_to_send` reads the head without `qtex`, after
  the sender has emptied the queue.
* `v_wakeup`, `QueuedIsWritten` with two clients: both push, then both find a
  successor and neither signals.
* `v_expired`, `TimeoutIsLate` with an id used twice: `is_expired` survives the
  renewal of the id.
* `v_eof`, `ConnRecovers` when messages are received: at the end of the stream
  `rc` is that of the message before, and the receiver polls for ever.

### Where the passing properties stop

The passing runs say what holds within limits. TLC refutes the same properties
when the constants leave them, and each time the cause is in the code:

| property | fails when | because |
|---|---|---|
| `QueuedIsWritten` | `NumPeers = 2` | the one signal may wake the sender of the other peer (`work.c` 408) |
| `QueuedIsWritten` | `Unreachable = {1}` | the slot has peer id 0: it takes peer 0's message and writes it to descriptor 0 (`task.c` 58) |
| `Answerable` | two requests of one id | the second is queued between the callback of the first and `rem_id`, which removes its entry (`work.c` 145) |
| `ConnRecovers` | `Unreachable = {1}` | slot 1 has peer id 0, so its receiver recreates slot 0 for ever and slot 1 never comes up (`task.c` 58, `work.c` 60-64) |
| `ConnRecovers` | `MaxFail` near `MaxFd` | `recreate_conn` never closes the descriptor it replaces (`task.c` 123) |
| `ConnRecovers` | a client sends while a connection is lost | receiver and sender both recreate it; the receiver goes on reading the first of the two (`work.c` 264) |
| `ScanEnds` | a response is being handled when the connection is lost | the client scans with `qtex`, for which the receiver waits; the sender waits for a message (`task.c` 250) |
| `Framed` | a connection is lost | length and body are written to whatever descriptor the slot has at the time (`work.c` 286) |
| `WrittenToPinned` | a connection is lost, two peers | the receiver closes a number, the other slot's `socket()` reuses it, the sender writes to it (`work.c` 74) |

In `inputs` and `pools` the limits are part of the properties. Each disjunct or
hypothesis below was put in because TLC found the case:

| property | except when | because |
|---|---|---|
| `ConfigMeant` | a second GW line, an empty part, no GW line | the index is not reset and the table is counted by commas (`stub.c` 36, 49); `config` is never cleared (24) |
| `FramesWhole`, `FrameArrives` | a signal cuts a length short; a length too large | stale `errno` decides whether to read on (`work.c` 495); `%04d` writes five digits (279) |
| `FrameArrives` | a message of length 0 | its receiver takes it for the end of the connection (`work.c` 71) |
| `FindsFirstValue` | keys that do not alternate | the last start key before an end key counts, and an end key without one ends the search (`task.c` 425) |
| `NoSleeperMissed`, `OperationsEnd` | `front()` or a move beside a sleeper | `front()` takes a wakeup and leaves the item; a move gives items and no wakeup (`safeqtempl.h` 77, 67) |
| `OperationsEnd` | copy assignment; two opposite moves | one mutex is locked twice (54, 55); two in opposite orders (65, 66) |
| `CallsReturn`, `TasksRun` | `start()` of a running pool; a task that pushes during `end()` | a worker is joined that nothing ends (`tpool.h` 139); the push waits for `_mtx` (167) |
| `WorkersEnd`, `ShutdownIsFinal` | a shutdown during `workqueue_init` | a worker not linked yet is not marked (`workev.c` 79) |
| `ShutdownReturns` | a marked worker frees itself before its `next` is read | the list is walked without the mutex (89) |
| `ShutdownReturns` | the signal interrupts the thread that holds `jobs_mutex`: the first one inside `workqueue_add_job` (104-107), or a worker between lock and unlock (25-43) | the handler takes the mutex on that thread (95) |

In two cases the code goes wrong in a way that no run shows. `pop_from_msgq` can
meet a null `prev` between two nodes when two slots have the same peer id; the
model makes it a fault (`PopFaults`), but three nodes and two slots of peer id 0
are in no run. And a request from a peer before `register_req_cb` calls a null
pointer (`work.c` 116): the models end there (`null_req_cb`), and since the
guard of that step is the whole condition, no property repeats it.

Two deviations need no run: an event request of a known id is always reported
as a timeout (`work.c` 108, against `module.h` 53), and overdue ids are marked
and never removed, although `work.h` 31 says "Expunge expired elements".

## What is proved

The constants are as general as the code allows: any number of peers, clients,
requests, ids, descriptors, threads, tasks and jobs, files and texts of any
length, and every bound of the environment. The proofs use the assumptions the
modules name (`PeersAssumption`, `ReqAssumption`, `EnvAssumption`,
`ExpiryAssumption`, `StartAssumption`, `ConfigAssumption`, `TextAssumption`,
`FramingAssumption`, `SafeAssumption`, `PoolAssumption`, `WorkAssumption`): the
kinds of the constants, a descriptor at least for each peer, at least one digit
of a base of at least two, finitely many threads on a queue, and one parent for each child task. What a theorem needs on top stands in
its hypothesis and is given below.

### The running library

* `TypeCorrect`: `Spec => []TypeOK`. The types need to know what a thread has in
  hand: a client in a call has a request, one that scans has a request with an
  id, a sender that writes has a node (`ThreadsOK`). `TypeInv` is their
  conjunction; it is inductive, and all other proofs stand on it.
* `IdsAreUnique`: `Spec => []UniqueIds`. That the entry `add_entry_idq` appends
  has a new id rests on a test made before the scan. `ScanHoldsQtex` and
  `ScannedIsAbsent` carry the test over the scan: the scanning client holds
  `qtex`, and everyone who adds an id needs it.
* `EntriesMatchRequests`: `Spec => []EntryMatchesRequest`. A request on its way
  has one client and no entry yet (`InUse`, `SentByOne`, `NotYetEntered`), so
  setting its connection disturbs no other entry (`EntryNamesRequest`).
  `EntryIsLast` adds that no later request of the id has been accepted: each
  acceptance of an id writes its entry, and since an id has one entry
  (`UniqueInv`), none is left with an older callback.
* `TimeoutsAreLate` and `AcceptedIsAnswerable`: if no two requests share an id
  (`OwnIds`), `Spec => []TimeoutIsLate` and `Spec => []Answerable`. `OwnInv`
  follows a response from the lookup to the removal: an entry marked expired,
  and a copy of one, is older than `EXPIRY`; a copy is of the id the receiver
  will remove; and what is removed has been called. Both are false for an id in
  use twice (`v_expired`, and the table above).
* `NothingIsWrittenTwice`: if only slot 0 may have been unreachable at startup,
  `Spec => []WrittenOnce`. `NodeInv` follows a node from its client to its one
  sender: a held node has exactly one holder, the sender of its connection, so
  the node that `pop_from_msgq` leaves linked cannot be taken again while it is
  held, and once it is freed the walk over it is the fault. The hypothesis makes
  peer ids distinct; without it two senders serve peer 0.
* `SentInOrder`: under the same hypothesis, `Spec => []PerPeerOrder`. `OrderInv`
  hands the order of the pushes on: the nodes of a connection are linked in it,
  the one in the sender's hand comes before those linked, and what was written
  comes before the one in hand.
* `PinnedUntilLost` and `FramedUntilLost`: if every peer was reached and no frame
  of length 0 arrives (its receiver would take it for the end of the
  connection), then until a connection is lost each write goes to the peer its
  id is pinned to (`WrittenToPinned`), and each stream is a sequence of whole
  frames (`Framed`). `SteadyInv` says that a slot keeps its descriptor and that only
  its sender has half a frame on it. After a loss both fail, as the table above
  says.
* `OnePeerQueue`: with one peer, `Spec => [](OnlyQueuedLinked /\ QueueOpsSafe)`.
  All nodes are for the one connection (`LinkedForIt`), so the node popped is
  the head, the case `pop_from_msgq` gets right. `v_pop` shows that two peers
  are enough to break it.
* `OnePeerLivesAsPromised`: with one peer, `Spec => LivesAsPromised`; ids may be
  used again, connections lost, and the process may end with a fault. The steps
  of all threads are sorted by what they do to a request (`Stays`, `Enters`,
  `Leaves`, `Answered`), each is shown to be a step of `RequestLife` or none,
  and `AcceptInv` and `AnsInv` supply its guards: a request is accepted once,
  the node taken is the first that waits, and an entry whose callback was called
  is one the receiver is about to remove. With two peers the refinement fails:
  two receivers can copy an entry before either removes it, and its callback is
  called twice.

### The other parts

* `TableIsAsAssumed`: `StartSpec => []TableAsAssumed`. `StartInv` says, of the
  slots done so far, that they are as in `ConnTable` and that their descriptors
  leave no gap.
* `ConfigIsMeant`: `ConfigSpec => []ConfigMeant`. `ConfigInv` says what has been
  read so far: the number of workers is that of the last WT line, and the table
  holds the parts of the one GW line up to the current one.
* `XmlTypeCorrect`, `XmlValueInText`, `XmlFindsFirstValue`: `XmlSpec =>
  []XmlTypeOK`, `[]ValueInText` and `[]FindsFirstValue`. `XmlInv` says where the
  scan is: outside an element, with only empty elements behind it, or inside
  one, with only characters since its start key and that key at `xj`. The step
  over a start key is the hard one: it may jump over the end key of an empty
  element, and alternation of the keys then says that the next key is a start
  key again.
* `FrameTypeCorrect`, `FramesAreWhole`: `FrameSpec => []FrameTypeOK` and
  `[]FramesWhole`, for any number of digits, base, capacity and set of lengths.
  The proof has two halves.
  The first is arithmetic: `AtoiOfFormat` says that `atoi` reads back what
  `sprintf` wrote whenever it fits. After its first `i` digits of `n`, `atoi` has
  `n \div Pow[HeaderLen - i]`; that step is `DivDiv`, on quotients of quotients.
  The prover takes no induction scheme over a predicate, so `NatSetInduction`
  gives one over a set, from the least element of its complement, and
  `NatRecursion` says that `Pow` and the function in `atoi` satisfy the equations
  that define them.
  The second half is where the bytes are. Everything ever sent is numbered;
  `off[k]` is the number of the last byte before frame `k`, and the receiver has
  taken the first `c` bytes. `FrameInv` says that such an `off` and `c` exist for
  which each byte under way or about to be sent is the one of the frame its
  number falls into (`IsAt`), the sender stands behind the stream in the last
  frame (`OutPlace`), and the receiver in the frame after those it returned
  (`InAt`). A length that is whole is then the formatted one, and `c` comes to
  the end of a frame with the last byte of its body. `FrameInv` is weaker in one
  place: a length cut short by the end of the stream may be misread, which does
  no harm, because nothing follows.
* `ItemIsInOnePlace`: `SafeSpec => []ItemOnce`. `SafeInv` places each item that
  was pushed in one queue, in one thread's hand, or nowhere any more.
* `NoSleeperIsMissed`: `SafeSpec => []NoSleeperMissed`. While a thread sleeps on
  a queue and only push, pop and clear are used, at least as many threads
  attend to the queue (awake in `pop_front`, or about to notify) as it has
  items. A count is needed for the property to be inductive: that one thread
  attends says nothing once it has taken its item. What stops attending has
  taken an item, found none, or woken a sleeper that attends in its place.
* `PoolSettles` and `PoolKeepsPromise`: `PoolSpec => []PoolSettled` and
  `PoolSpec => PoolPromise`. `PoolInv` ties the four pieces of state that
  `start()` and `end()` change one at a time: how far the call has come
  (`CallShape`), which workers have a thread (`ThreadsThere`), what each queue
  still holds, empty tasks that end a worker included (`WorkInOrder`), and that a
  task is in one place (`TaskOnce`).
* `ClientIsClosedOnce`, `ShutdownStaysFinal`: `WorkSpec => []ClientClosedOnce`
  and `WorkSpec => ShutdownIsFinal`, for any `ClientFd`. `JobInv` gives a job one
  worker at most and ties its two counts of closes to its life;
  `ShutInv` says that every worker behind the walk of `workqueue_shutdown` is
  marked, and that none is missing from the list unless the shutdown came early.

### Only model-checked

* All liveness properties: the prover has neither fairness nor `ENABLED`.
* `LivesAsPromised`, `Answerable`, `TimeoutIsLate`, `Framed`, `WrittenToPinned`
  beyond the hypotheses above: there they are false, or not proved.

## What is not modelled

* The monitor and the pipe thread: `manage` has their creation commented out.
* `onConect` of the libev variant: it does not compile (a missing semicolon) and
  writes through a pointer it never set. What `buffered_on_read` copies is data.
* What is written behind a buffer that is too small: `msglen[5]` for a message
  of 10000 bytes, `sndbuf[5]` for a port of five digits, the 16 bytes of an
  address in the stub, a configuration line of more than 1023 characters. The
  model has no memory layout; the hazards name the lines.
* Copy and move constructors of `threadsafe_queue`: the new queue has no other
  user yet.
* The samples: stand-alone programs beside the library.
