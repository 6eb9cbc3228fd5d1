# TLA+ models of g1-jepa

The repository holds an experiment and the stack it is meant to run on:

* `src/exp`: a closed-loop pick-and-place experiment in simulation. An online
  detector (a video encoder, V-JEPA, whose latents are extrapolated and compared)
  decides when the scripted policy has to plan again after somebody moved the object;
* `src/unitree_sdk2_python`: the robot's SDK: remote calls, leases, channels and
  the clients of the robot's services, over DDS;
* `src/cyclonedds-core`: the DDS implementation below, vendored.

The models cover the experiment's loop, the SDK's call and lease protocols and, of
Cyclone DDS, the parts in which threads and hosts meet: the life of entities, the
writer's history, the reliable protocol and the garbage collector.

## 1. Inventory

| Component | State | Operations | Hard because |
|---|---|---|---|
| Episode loop (`exp/run_episode.py`) | step, condition, first reaction | one control step: perturb, decide, act, simulate | the order inside a step decides what a latency and a control group mean |
| Policy (`ScriptedPickPlace`) | phase, phase step, cached target, grasp counter | `act`, `replan` | retries and replans in any phase, stale target |
| Perturbation (`exp/task_env.py`) | delay left, fired | `maybe_fire` | counts the policy's phase, not frames |
| Trigger (`exp/jepa_trigger.py`) | frame and latent rings, streak, armed | `step`, `reset` | warm-up, buckets, hysteresis against a sliding clip |
| Recorder (`exp/collect_data.py`) | phase step it logs | one log entry per step | must agree with the online trigger |
| Lease server (`rpc/lease_server.py`) | current lease, its age | apply, renew, check a request | expiry races renewals, answers get lost |
| Lease client (`rpc/lease_client.py`) | lease id, thread | apply, renew, sleep | believes in a lease without hearing from the server |
| Calls (`rpc/client_*.py`, `utils/future.py`) | future table, futures | call, call without reply, response callback | timeout against a late answer, wake-ups |
| Server (`rpc/server_*.py`, `utils/bqueue.py`) | bounded queues, two threads | enqueue, serve, respond | overflow, two lanes |
| Channels (`core/channel.py`) | reader thread, queue | init, read, write, close | close against a waiting thread |
| DDS handles (`dds_handles.c`) | one word per handle: pins, references, flags | pin, unpin, reference, close, wait, delete | compare-and-swap by any thread |
| DDS entities (`dds_entity.c`, `dds_reader.c`, ...) | children, mutex, condition variable | create, use, delete recursively | everything may be deleted by everybody at the same time |
| DDS writer history (`dds_whc.c`) | samples, per-instance and transient-local indices, counts | write, acknowledge, borrow for a retransmission, expire | several ways for a sample to leave, one of them on a timer's thread |
| DDS reorder administration (`q_radmin.c`) | next number, intervals of samples and gaps | sample, gap, heartbeat | any order, duplicates, overflow |
| DDS reliable protocol (`q_receive.c`, `q_transmit.c`, `ddsi_acknack.c`) | acknowledged numbers, catching up, suppressed NACKs | heartbeat, acknowledge, retransmit | loss, reordering, late joiners with a second buffer |
| DDS garbage collector (`q_gc.c`, `q_thread.h`, `ddsi_endpoint.c`, `ddsi_participant.c`, `q_init.c`) | requests, virtual time per thread, references to the participant | look up, delete, linger, free, shut down | memory is given back without reference counts; the shutdown waits for what it has begun |
| DDS reader history, waitsets, discovery | caches, conditions, timers | store, trigger, match | callbacks of many threads |
| Offline analysis, figures, robot clients, message classes | none that outlives a call | batch statistics, formatting | - |

The loop calls the trigger, the scheduler and the policy in turn and in one thread.
A robot client calls through the rpc client; its lease client runs beside it and puts
the lease id into each request; the server checks the id before it calls a handler.
Requests and responses are samples of two DDS topics: a channel is a DDS reader or
writer with a queue and a thread of its own. What makes each component correct is
listed with its module below; what endangers it, line by line, is the list `hazards`
of `PROJECT.json`.

## 2. Modules

| Module | Models | Composed of |
|---|---|---|
| `JepaTrigger` | `JepaTrigger`, the encoder's clip sampling, `extrap_error` | |
| `ScriptedPolicy` | `ScriptedPickPlace` | |
| `PerturbationScheduler` | `PerturbationScheduler` | |
| `ClosedLoop` | `run_episode`, the recorder's order of events | the three above |
| `Lease` | lease server and clients, calls that carry a lease | |
| `BQueue` | `BQueue` | |
| `RpcCall` | calls, futures, queues, server threads | `BQueue` |
| `RemoteCall` | abstract specification of a remote call | |
| `Handles` | the word `cnt_flags` of a handle | |
| `EntityLifecycle` | creation, use and deletion of a participant's tree | `Handles` |
| `History` | the default writer history cache, as operators | |
| `WriterHistory` | a writer, its cache, its readers and the threads that wait | `History` |
| `Reorder` | the reorder administration, as operators | |
| `ReorderBuffer` | one administration under any traffic | `Reorder` |
| `ReliableStream` | a writer, a reader that joins late, the network between | `History`, `Reorder` |
| `InOrderDelivery` | abstract specification of reliable delivery | |
| `GarbageCollection` | deletion of DDSI writers, the collector, the shutdown of the domain | |
| `ClosedLoopProofs`, `LeaseProofs`, `GarbageCollectionProofs`, `RpcCallProofs` | theorems about these modules | |
| `WriterHistoryProofs` | theorems about `WriterHistory`: its figures, contents and sleepers; what it keeps | |
| `EntityLifecycleProofs` | theorems about `EntityLifecycle`, for every tree | |
| `ReorderBufferProofs` | theorems about `ReorderBuffer`, for every length of the buffer and every mode | |
| `ReliableStreamProofs` | theorems about `ReliableStream`, and that it refines `InOrderDelivery` | instance of `ReorderBufferProofs` |
| `MC...` | instances for TLC | |

`PROJECT.json` (`map`) names the lines behind every definition.

### The episode

A control step `t` is four actions in the order of the loop body: `MaybeFire`, `Decide`,
`PolicyAct`, `EnvStep`. Positions of the object are its successive placements (`Pos`);
a comparison of distances becomes "has the arm arrived", an external choice (`Physics`) that
may come at any step or never, and a grasp holds only where the object is. A frame has a
feature from `View(moved)`; `Encode` is a parameter. `Record` is what `collect_episode`
would have logged for the same frame, which is why the calibration is in the model: the
trigger looks statistics up by phase and bucket, and the recorder decided what is in them.

### Calls

A call gets its id (`SetHeader`) and a future (`SetFuture`), is sent or fails to be (`Write`,
`WriteError`), waits on the future's condition, and ends with the answer (`GetResult`, `Woken`) or a
timeout; a call without reply ends when it is sent.
The response reader looks the future up and makes it ready in two steps, with the caller's
timeout in between. The server's DDS callback puts a request into the plain or
the priority queue (`BQueue` drops its oldest element when full); two threads serve them.
Both topics may lose any message. As in the code, the future of a call that timed out is not
removed: `request_future.py:45` compares the builtin `id`.

`RemoteCall` says what a caller may rely on: a call is executed at most once, an answer
is the one given to this call, a send error means that it was not and will not be executed, and
every call returns. A call that timed out may still be executed later, as in the code.

### Leases

The clock is a number of ticks; a message is delivered within `MaxDelay` of them, or lost.
`asked` and `acked` are history variables: how long ago the call was sent that is under way,
and the one by which the client last obtained or renewed its lease. With them the guarantee
can be stated at all: the client itself never compares times, so it goes on using
a lease it no longer has; within `Term` of `acked` (`Secure`) it does have it. A lease id
is a time in microseconds: any id that is not in use.

### Entities

Each thread has a stack of frames, because `dds_delete` recurses into children, into topics
and into implicit parents; a step is what the code does between two points at which another
thread may come in (a lock it takes, a compare-and-swap, a wait). The number of an entity is its `m_iid`,
which is the order in which `delete_children` visits. A mutex held over several steps
is a variable; one that is taken and released within a step is a guard. `close_wait` is a
guard: the pin count is changed under the lock it sleeps on. A sleeper on an entity's `m_cond` is a
frame at `sleep`; `Broadcast` wakes it, whatever the broadcast was for.

The calls the application makes (which entities it deletes or uses, and which of them
are implicit) are chosen in the initial state from `Apps`.

### Histories and the reliable protocol

`History` is `dds_whc.c` as operators on one record: the nodes by sequence number, which
of them an instance or the transient-local index holds, and the counts that are kept beside them.
Payloads are left out; a node knows its instance, its kind and whether it is borrowed.
`WriterHistory` puts the writer around it. All entries into the cache hold `wr->e.lock` but one,
the expiry of a lifespan, which takes the cache's own lock and so may come between a retransmission's
`whc_borrow_sample` and `whc_return_sample`; that is why these are two actions.

`Reorder` is the interval tree of `q_radmin.c`, with the short cuts of the code (the sample that
continues the last interval, the gap that covers everything) as alternatives of
their own. `ReorderBuffer` feeds it anything; `ReliableStream` feeds two of them, the proxy
writer's and that of a reader that is still catching up, from a network that loses, duplicates
and reorders, with the writer's history at the other end. `InOrderDelivery` says what is left
when the network, the buffers, the heartbeats and the acknowledgements are forgotten: samples are
delivered from the first one owed on, in order and once, in the end all of them, and
none counts as acknowledged that was not delivered.

### The garbage collector

A thread that looks an entity up takes no reference; it is "awake", and its virtual time changes
when it moves on. `GarbageCollection` has every step at which this matters: the vtime of another thread
and its domain are loaded in two steps (`GatherVtime`, `GatherGv`); `ddsi_delete_writer`
unlocks before it schedules the linger event (`DeleteWriter`, `ScheduleDelete`); a throttled thread
is asleep with the writer in hand (`Throttle`); `gc_delete_writer` frees its request before the
memory (`GcCallback`, `GcUnref`, `GcFree`). A writer may be deleted by the application, by
the last acknowledgement (`AckNack`) or by the end of its linger time (`Linger`). Application threads
may be busy in another domain, whose threads a request does not wait for.

The shutdown is the work of one application thread, which goes through `main`. `Stop` may come as soon as the application has no
call under way and the receive and event threads have been stopped (`q_init.c:2076`-`2095`), whatever is left: writers that were
never deleted, writers that linger, whose events are then never handled, and requests that are queued, in the collector's hand or
waiting for a thread. It then deletes the proxies (`delete_ppt`), the writers (`ddsi_delete_writer_nolinger`) and the participant
(`ddsi_delete_participant`), moving its virtual time on between the loops (`NextLoop`), and goes to sleep (`LoopsEnd`). A request of a proxy writer
goes from the collector through the delivery queue and back (`GcDqueue`, `gcreq_requeue`). When the collector has given up the last
user's reference to the participant it deletes the built-in endpoints itself, from within the callback of a request
(`GcUnref`, `delete_builtin_endpoint`): new requests, while the other thread waits (`NoParticipants`) for the participant to go.
Only then comes `gcreq_queue_drain`, which may find proxies' requests still on their way, then `gcreq_queue_free` with its no-op, and `Join`.

Left out for size are kinds that take a way that is there already: our readers and topics (like writers, without lingering), proxy readers and
the proxy participant itself (like proxy writers, without the detour), and a participant that the application
deletes (it only begins earlier). `Builtins` stands for built-in writers and readers. Between the loops over proxies
and over writers the code goes to sleep and wakes up; `NextLoop` is both at once, which leaves the vtime as it would be.

## 3. Runs

Experiment (`MCClosedLoop`):

| Run | Shows | Bounds |
|---|---|---|
| `episodes` | `BlindNeverRecovers`, `LatencyOfAReaction`, `FreshGrasp`, `Refractory` | all conditions; 15 control steps and a grasp of 2: a failed attempt, a retreat, a second attempt and a success fit; clips of 2 frames, every second step encoded, any noise: firing, quiet, re-arming and firing again fit too |
| `bucket` | a violation, see below | the deployed constants (16 frames, k = 1, 60 steps) |

SDK (`MCLease`, `MCRpcCall`):

| Run | Shows | Bounds |
|---|---|---|
| `lease_lossy` | `SecureIsHonoured`, `AdmissionExclusive`, `HolderKeepsLease` (while nothing was lost), `FailOver` | 2 clients, a loss and a crash at any moment: after a lost renewal the next one comes when the lease has expired or is somebody else's |
| `rpc` | `NoLostWakeup`, `AnswerFindsFuture`, `ServedInOrder`, `ImplementsRemoteCall` (safety and return) | 2 calls, by one thread or by two, 2 answers; the readers' queues and the priority queue overflow, the plain queue holds both calls |

Behaviours of `Lease` are unbounded: ages stop at `Term + 1` and ids are reused once
nobody remembers them, so `MCIds` is as large as the number of places that can remember one.

DDS (`MCEntityLifecycle`); 1 is the participant, 2 and 6 topics, 3 the subscriber, 4 and 5 readers of topic 2:

| Run | Shows | Bounds |
|---|---|---|
| `dds_delete` | `DeletedClean`, `MemorySafe`, `OneDeleter`, `ImplicitIsNeeded` | 3 threads, one use; they delete 1, 3, 4, 5, or, with an implicit subscriber, both readers and their topic |
| `dds_create` | `DeletedDeep`, `RefsCounted`, `PinsCounted`, `CallsReturn` | 3 threads; the creation of an implicit subscriber with a reader, all its failures, deletions of 1 and 3 |
| `dds_siblings` | a violation, see below | the smallest tree in which it happens |

Three threads are the least with which one waits for a second while a third wakes it;
the tree has every kind of edge: parent and child, reader and topic, implicit parent.
`TypeOK` of `EntityLifecycle` and `RpcCall` is in no configuration, where the other invariants say more; it holds in
the same instances, and both are proved.
The passing runs leave out what the disagreements below need (a topic that is deleted explicitly with the
participant, or while a reader of it is created; an implicit subscriber whose reader and
whose participant are deleted at once): with it the properties fail.
`dds_delete` includes a race after which `dds_entity.c:122` asserts (below); the model goes on
as a build without assertions does, and `MemorySafe` leaves out the one read at `dds_entity.c:121`.

| Run | Shows | Bounds |
|---|---|---|
| `whc` | `CountsAgree`, `UnackedIsKept`, `TransientLocalIsKept`, `NothingElseIsKept`, `ContentsOwned`, `NoLostWakeup` | 4 samples of 2 instances, 2 readers; volatile and transient-local, KEEP_ALL and KEEP_LAST with a history as deep as, shallower and deeper than the durability service's; a throttled and a waiting thread. With four samples an instance is overwritten, unregistered and begun again |
| `reorder` | `TreeIsSound`, `InOrder`, `SkipsOnlyTheUnavailable`, `NacksAreWanted` | 7 numbers, room for 3 samples, both modes of reliable and best-effort readers: three separate intervals, gaps that touch or span them, and an overflow fit |
| `stream` | `AckedMeansDelivered`, `ImplementsDelivery` (safety and liveness) | 2 samples of which 0, 1 or 2 were written before the match, buffers of one sample, one loss or duplication at any moment, messages in any order |
| `stream_catchup` | a violation, see below | 5 samples, buffers of two, no loss |
| `gc` | `NoUseAfterFree`, `DeletedOnce`, `NothingLeft`, `DeletionCompletes`, `ShutdownCompletes` | one writer, one built-in endpoint, the participant and one proxy writer; 2 application threads, a receive thread and an event thread; a thread begins one operation of its own accord (`MaxVtime`) and then goes on as far as it gets: enough for a thread to hold the writer across the whole request, to sleep and come back, and to be elsewhere, and for the shutdown to begin with the writer alive, lingering, queued or in hand. It reaches the drain with the proxy's request queued, in the delivery queue and in hand. Virtual times are counted modulo 16, and are proved about for any width |

`CHECK_DEADLOCK FALSE` is set where the
system ends: when all calls are made, all entities deleted, all samples written, or the collector joined. That nobody is stuck is then
checked by `CallsReturn`, `DeletionCompletes`, `ShutdownCompletes` and by the liveness parts of `RemoteCall` and `InOrderDelivery`.

### Fairness

* `EntityLifecycle`: a thread inside a call goes on when it can (`WF` of `Continue`); no thread has
  to begin one. Weak fairness is enough for the mutexes because an instance has finitely many uses.
* `RpcCall`: callers inside a call, readers and queue threads go on; a wait on a future has
  a timeout. No message has to be delivered.
* `Lease`: the lease threads, the server and the clock go on; delivery within `MaxDelay`
  is a guard of the clock. Losses and crashes are bounded in number, not forced.
* `ReliableStream`: the writer transmits what was written, and the heartbeat and acknowledgement timers,
  which are set again and again, go off (`SF`, because a timer also waits while its message is on the way, the bound `MaxNet`). Of every
  kind of message that is sent again and again some arrive, since losses are bounded by
  `MaxFaults` (weak fairness per kind of message, with its `ENABLED` written out).
* `GarbageCollection`: a thread inside an operation goes on (a throttled one has `max_blocking_time`, a receive
  thread gets to the end of its packet), the collector looks every millisecond, the thread that stops the domain goes on (`WF` of each thread's own `Step`), and so does the delivery thread (`WF`); the
  event of the linger time is handled though the event thread has others (`SF`). Nobody has to acknowledge.
* `ClosedLoop`: no liveness: an episode has `MaxSteps`.

### Disagreements found

Experiment: between code and comments.

* `bucket`: the trigger looks up the statistics of one phase step earlier than the recorder
  stored (`run_episode.py:178` before `:190`), against `jepa_trigger.py:20`.

DDS: between code and its own assertions or comments.

* `dds_siblings`: `delete_children` waits once; the departure of another child ends the wait (`dds_entity.c:341`).
* `stream_catchup`: a transient-local reader that catches up under reordering may lose a sample and
  acknowledge it: `handle_regular` tests the number of the sample that came, not of the last one delivered
  (`q_receive.c:2498`), so that the reader is set in sync one delivery too late. With gaps and heartbeats
  in place of the last sample the same happens.

More were met on the way and have no run of their own. In the experiment and the entities:

* one perturbation is seen when it enters the clip and again when it leaves it, one clip length later, and may cause two
  replans (`jepa_trigger.py:164`), against `jepa_trigger.py:89`; no property forbids that, `Refractory` only bounds how soon the second may come;
* with the deployed constants the object may be moved at step 10, before the trigger has its
  first latent (16 frames), against the comment in `task_env.py:114`;
* a topic may be deleted between the pin and the reference of a new reader (`dds_reader.c:599`, `:686`), against
  the assertion in `dds_handles.c:203`;
* an implicit parent is pinned and closed in two steps (`dds_entity.c:526`): its last child and the deletion of
  the participant may both delete it;
* after the last reader of a topic has dropped its reference and before it deletes the topic, another
  thread's `dds_delete` may win; the reader's then fails, against the assertion in `dds_entity.c:122`
  (two threads delete 2 and 4: a state with a frame at `dropped` and `ret` not `ok`); if that `dds_delete`
  is quick, `dds_entity.c:121` reads the handle of a topic that has been freed;
* a reader leaves its parent before it drops its topic, so the deletion of the participant may find
  the topic already given up, with ALREADY_DELETED, against the assertion in `dds_entity.c:334`
  (three threads delete 1, 2 and 4: a frame at `recheck` and `ret` neither `ok` nor `bad_parameter`).

In the protocol, the histories and the collector:

* with gaps of other vendors (a gap for numbers that later arrive as samples) an evicted sample may be
  passed over, because the numbers of a stored gap follow it in its interval (`q_radmin.c:1891`);
  `ReorderBuffer` has Cyclone writers, whose gaps are final;
* a volatile KEEP_ALL writer with a lifespan that also disposes: a disposal does not expire, what was written before it does,
  and the interval that `dds_whc.c:925` drops has a hole; the assertion in `dds_whc.c:654` can then fail;
* a sample that is acknowledged at once is to drop "everything beyond T-L history" (`dds_whc.c:1324`) and looks at one
  place of the ring, `tldepth` behind the head (`:1333`), which an expiry may have emptied while an older one is taken: with a history of 3, a durability
  service of 1 and a lifespan, disposal 1 is acknowledged, sample 2 expires before it is, the reader leaves, sample 3 is written, and 1 is still
  there. TLC finds this with `TransientLocal({3}, {1})` and disposals; it came up as the step of the proof of `KeepsNoMore` that does not hold;
* expiry frees room in the history without waking a throttled writer, which sleeps on until the next
  acknowledgement or `max_blocking_time`;
* the comment above `throttle_writer` (`q_transmit.c:1017`) says that the thread sleeps "without updating the thread's
  vtime: the garbage collector won't free the writer", and that readers that do not respond are no longer
  resent to; the code calls `thread_state_asleep` (`:1095`), so that only the dds layer's pin protects the
  writer, and nothing marks a reader as not responding;
* `dds_delete` means to wake blocked threads (`dds_entity.c:447`), but the interrupt takes `m_mutex`, which a
  throttled `dds_write` holds: it waits for `max_blocking_time` with it (`Interrupt` needs `Free(w, HasMutex)`). For
  the same reason the throttle-wait path of `gc_delete_writer`, which would requeue a request without
  noting the virtual times again, cannot be reached through the dds API;
* a callback such as `gc_delete_writer` frees its request before the entity, so that `gcreq_queue_drain` may return while the collector is
  still freeing the last one (`q_init.c:2197` takes it to be quiescent); the memory is all given back only when `gcreq_queue_free` has joined
  the thread. `NothingLeft` says so in two parts.

Read and not modelled, because no interleaving is needed to see them: the name
`request_binary` in `rpc/client_base.py:87` is not defined, `rpc/server.py:52` calls `add` on a
dictionary, `utils/thread.py:79` uses attributes under another class's mangled name.

## 4. Proofs

| Theorem | Module | States |
|---|---|---|
| `TypeCorrect` | `ClosedLoopProofs` | `[]TypeOK` |
| `GraspIsFresh` | `ClosedLoopProofs` | `[]FreshGrasp`, per attempt, not per target |
| `LatencyIsOfAReaction` | `ClosedLoopProofs` | `[]LatencyOfAReaction` |
| `BlindIsBlind` | `ClosedLoopProofs` | `[]BlindNeverRecovers` |
| `HysteresisIsRefractory` | `ClosedLoopProofs` | `[]Refractory` |
| `LeaseTypeCorrect` | `LeaseProofs` | `[]TypeOK` |
| `LeaseGuarantee` | `LeaseProofs` | `[]SecureIsHonoured` |
| `AdmissionIsExclusive` | `LeaseProofs` | `AdmissionExclusive` |
| `HolderKeeps` | `LeaseProofs` | `Timely => HolderKeepsLease` |
| `RpcTypeCorrect` | `RpcCallProofs` | `[]TypeOK` |
| `SleepsOverNoAnswer` | `RpcCallProofs` | `[]NoLostWakeup` |
| `FutureIsFound` | `RpcCallProofs` | `[]AnswerFindsFuture` |
| `ServesInOrder` | `RpcCallProofs` | `ServedInOrder` |
| `ImplementsSafety` | `RpcCallProofs` | the safety part of `RemoteCall` |
| `ContentsAreOwned` | `WriterHistoryProofs` | `[]ContentsOwned` |
| `CountsAreRight` | `WriterHistoryProofs` | `[](NoHoles => CountsAgree)` |
| `WriterSleepsOverNothing` | `WriterHistoryProofs` | `[]NoLostWakeup`; of a throttled writer without lifespan only |
| `UnackedStays` | `WriterHistoryProofs` | `[](NoHoles => UnackedIsKept)` |
| `LateJoinersAreServed` | `WriterHistoryProofs` | `[]TransientLocalIsKept` |
| `KeepsNoMore` | `WriterHistoryProofs` | `[](~lifespan => NothingElseIsKept)` |
| `AckedWasDelivered` | `ReliableStreamProofs` | `[]((Roomy \/ rd.in_sync = "OUT_OF_SYNC") => AckedMeansDelivered)` |
| `StreamInOrder` | `ReliableStreamProofs` | `[](... => DeliveredInOrder)`, under the same condition |
| `StreamNothingDropped` | `ReliableStreamProofs` | `[](... => NothingDropped)`, under the same condition |
| `StreamRefinesDelivery` | `ReliableStreamProofs` | `Roomy =>` the safety part of `InOrderDelivery` |
| `StreamIsSound` | `ReliableStreamProofs` | `[]StreamSound` |
| `TypesStay` | `ReorderBufferProofs` | `[]TypeOK` |
| `TreeStaysSound` | `ReorderBufferProofs` | `[]TreeIsSound` |
| `DeliveredInOrder` | `ReorderBufferProofs` | `[]InOrder` |
| `OnlyTheUnavailableSkipped` | `ReorderBufferProofs` | `[]SkipsOnlyTheUnavailable` |
| `WantedIsNacked` | `ReorderBufferProofs` | `[]NacksAreWanted` |
| `EntityTypeCorrect` | `EntityLifecycleProofs` | `[]TypeOK` |
| `RefsAreCounted` | `EntityLifecycleProofs` | `[]RefsCounted` |
| `PinsAreCounted` | `EntityLifecycleProofs` | `[]PinsCounted` |
| `PinnedNotFreed` | `EntityLifecycleProofs` | `[]PinnedIsKept`, the part of `MemorySafe` about pins |
| `HandleLeavesAlone` | `EntityLifecycleProofs` | `[]ClosedAndAlone`, the part of `DeletedClean` that holds in every tree |
| `ExplicitHasOneDeleter` | `EntityLifecycleProofs` | `[]OneDeleterOfExplicit` |
| `OneThreadDeletes` | `EntityLifecycleProofs` | `[](Implicit = {} => OneDeleter)` |
| `ImplicitAreNeeded` | `EntityLifecycleProofs` | `[]ImplicitIsNeeded` |
| `ClosedAreBeingDeleted` | `EntityLifecycleProofs` | `[]ClosedIsDeleted`: a closed handle in the table has a call deleting its entity |
| `TopicsOutliveTheirReaders` | `EntityLifecycleProofs` | `Unborn = {} => []TopicsOutliveReaders`, the part of `MemorySafe` about topics |
| `HandlesLeaveClean` | `EntityLifecycleProofs` | `FewLeave => []DeletedClean` |
| `NothingUsedIsFreed` | `EntityLifecycleProofs` | `FewLeave => []MemorySafe`; not of the read at `dds_entity.c:121`, which `MemorySafe` leaves out |
| `DeletionIsDeep` | `EntityLifecycleProofs` | `FewLeave => []DeletedDeep` |
| `OneCallDeletes` | `EntityLifecycleProofs` | `FewLeave => []OneDeleter`, implicit subscribers included |
| `GCTypeCorrect` | `GarbageCollectionProofs` | `[]TypeOK` |
| `SafeReclamation` | `GarbageCollectionProofs` | `[]NoUseAfterFree` |
| `HandedOverOnce` | `GarbageCollectionProofs` | `[]DeletedOnce` |
| `StopsEmpty` | `GarbageCollectionProofs` | `[]NothingLeft` |

They hold for every value of the constants that satisfies the named assumptions of the modules (`TriggerAssumption`,
`EncodeAssumption`, `CalibAssumption`, `PolicyAssumption`, `SchedulerAssumption`, `LoopAssumption`, `LeaseAssumption`, those of `RpcCall`,
`HistoryAssumption`, `ReorderAssumption`, `StreamAssumption`, `LifecycleAssumption`, `TreeAssumption`, `GCAssumption`): any encoder, clip length, thresholds and calibration; any number of clients, any term, delays
longer than it, any number of losses and crashes; any number of calls, threads and answers and any lengths of the queues;
any keys, readers, depths and watermarks; any length of the stream and of the reorder buffer, also 0, and any of its modes; any finite tree of entities, finitely many threads deleting, using and creating them; any number of threads and writers and any width of the virtual time.

### Episode

`FreshGrasp` (zero before GRASP, `GraspSteps` from LIFT on) needs `CounterOK`: in phase GRASP the counter has not reached `GraspSteps`, so that
it has exactly that value when the phase is left, by the only way there is to lift. It counts per attempt: a replan within GRASP changes the
target and neither the phase nor the count (`run_episode.py:73`), so that the fingers may close where the object was. The types of the trigger need that a ring never
holds more than its length (`PushType`) and that a clip is only taken from a full one (`ClipType`).

* `LatencyOfAReaction` needs to know when the perturbation was (`FireTime`) and that the oracle reacts in the same step (`OracleReacts`).
* `BlindNeverRecovers` is about success, which is decided many steps after the object was moved. `BInv` follows the plan: a
  blind policy's target is where the object was when it was last planned (`FollowsPlan`), which is no longer where it is (`PlanIsStale`),
  the hand that closes there is empty (`OpenHand`), and an episode that succeeds is over (`SuccessEnds`).
* `Refractory` compares times; `RInv` bounds by the time that has passed what they depend on: the latents since the start
  (`LatentsTakeTime`), the streak since the last reaction (`HighsTakeTime`), and the re-arming in between (`RearmingTakesTime`).

### Leases

`SecureIsHonoured` is not inductive: an answer under way will make a client secure when
it arrives. `LInv` says what is known of it:

* `Fresh`: a secure client's lease is the server's, and the server's age of it is at most
  the client's. This is the guarantee in the form that survives a tick.
* `MessagesOK`: an awaited message belongs to the call its client's thread is in (`CurrentOK`); an awaited
  grant or renewal no older than the term names the server's lease, and the server's age of it is at most
  `asked` (`NewsOK`); a renewal, a grant and its confirmation name a lease, and nobody but the message's client
  has it (`NamedOK`, `OwnedOK`).
* `OneCall`: a client has at most one awaited message of its lease thread.
* `IdsApart`, `CtxApart`: no two clients know the same id, in a message or in their context; so
  a server that renews or checks an id deals with one client.

Every action keeps `LInv` by a lemma of its own; those that only remove messages share `FewerMessages`,
those that abandon a call `AbandonL`, the three of the server `AnswerL` and `CacheStepL`.
`AdmissionExclusive` follows from `Fresh` before the step: a request is admitted with the
server's id, or when there is none or it has expired, and then nobody else is secure.

`HolderKeepsLease` is a question of time, and false when messages take too long. It is proved under
`Timely`, `RenewWait + 2 * MaxDelay <= Term` and `2 * MaxDelay < Timeout`: with the code's term of 1 s, sleep of 0.3 of
it (`lease_client.py:104`) and timeout of 1 s (`:46`), for messages that take up to 0.35 s; the constants of
`lease_lossy` meet the first with equality, and with a term of 2 instead of 3 TLC finds a lease lost. `KInv` says, while nothing was lost (`OnTime`): a client that rests has the server's lease, no
older than the answer's delay and what it has slept (`Rests`); a call under way has its message (`UnderWay`), which is not
a refusal, will arrive before the timeout, and renews a lease that is still young then (`Knows`); a client that applies
has no lease (`AppliesWithout`). So no call times out (`NoTimeout`), and the server finds nothing expired that
somebody has (`Held`).

### Calls

One invariant, `IInv`, carries the five theorems of `RpcCall`:

* `Flow` follows the requests. Only written requests are anywhere (`OnlyWritten`), each lane's in its own queue (`LanesApart`);
  within a stage (topic, reader's queue, server's queue) the requests of a thread are in the order of its calls (`InStages`),
  and those in a later stage precede those in an earlier one (`BetweenStages`). `ServedInOrder` is a
  property of steps that follows from the last stage, and "at most once" from the same order, because it is strict.
* `CallerOK` says what each caller's program counter means for its call, its future and the table, and `NotYetMade` that nothing is known of later calls;
* `AnswersOK`: an answer on its way, with the reader or in a future is the one the server gave;
* `FutureThere` and `NoLostWakeup` are the properties themselves, with the reader's step between lookup and `Ready`.

`ImplementsSafety` maps every step to one of `RemoteCall` or to a stutter. Its liveness half, that every call returns, is checked by TLC only.

### The writer's history

* `ContentsOwned` needs `OnlyLentBorrowed`: the mark on the node and the handler's hold on the sample agree, even if the sample
  expires while it is lent.
* `CountsAgree` needs `Book`: the indices point at stored samples (`Indexed`), the counts count (`Counted`, `MaxKnown`), what is unacked is beyond the
  number the cache was told to drop, and without index the samples are one run (`OneRun`), whose length the code subtracts. This
  is where the hypothesis `NoHoles` comes from: a volatile KEEP_ALL writer with a lifespan can have two runs, as described above, and the property then fails.
* `NoLostWakeup` is inductive together with `Book`: the condition of the throttled thread reads the count of unacked bytes. It leaves the
  throttled thread out where samples have a lifespan, because it fails there (section 3); the thread that waits for acknowledgements is in it always.
* What the cache keeps rests on `Ringed`: an instance's circular array holds each of its samples as many places behind
  the head as there are younger samples of the instance, and every stored sample that is young enough has its place. With that the
  places the code prunes and `whcn_in_tlidx` can be read as ages. `NoneMissing` then says that a written
  sample is stored, has expired, or may be missing (`Excused`): acknowledged by all or replaced by `hdepth` others, and not of the transient-local history. `Excused`
  is stable, `Dropped`, what one operation may drop, is not; one implies the other. `UnackedIsKept` and `TransientLocalIsKept` follow.
* `NothingElseIsKept` needs `AckedInTl`: a sample that is acknowledged and stored is in its ring, acknowledged by all, and beyond `tldepth` only
  while the youngest sample of its instance is not acknowledged (`LastUnacked`). An acknowledgement prunes all that is beyond (`Trimmed`), a new
  sample that is acknowledged at once one place only (`Squeezed`), which is enough when no place is empty: hence the hypothesis `~lifespan`.

`History` has no recursion: its operators take sets of samples at once where the code has loops, and this is why these proofs need no induction over data. Each
operator has one lemma per invariant (`...Shape`, `...Book`, `...Ring`, `...Keeps`); the lemmas about a step only put them together.

### The reorder administration

`Reorder` has recursive functions: the chain of the samples in the tree and the joining of
intervals go from the first interval to the last. The library's induction theorems take the property as an operator, which the provers cannot instantiate;
`SubsetInduction` takes it as a set, and is proved from the well-founded order of the subsets of a finite
set. With it the lemmas on trees (`ChainOfIs`, `ChainFits`, `TotalParts`) say for trees of any size what the recursion yields.

`IInv` is inductive; none of the four properties is, without the rest of it:

* `Tree`: the intervals are disjoint and not consecutive, and every element of a chain, also the one
  that stands for a gap, has a number of its own in its interval (`Fits`).
* `Explains`: every number of an interval is in its chain or unavailable, and so is every number below `next_seq` in what was delivered. This
  is `SkipsOnlyTheUnavailable` for the numbers that will be passed later.
* `GapsBegin`: a gap that does not go on from another one begins within `max_samples` of `next_seq`, because a Cyclone
  writer sends a gap for a number it was asked for. A full buffer evicts its last sample and cuts the last number off its
  interval, which are the same number unless gaps follow the sample; `NothingBehind` shows that the sample then is unavailable itself, because
  the chain elements before it fill the window, and `DeletedLast` that nothing is left unexplained. With the gaps of other vendors this is
  what fails (section 3).
* `DeliveredOK`: what was delivered rises and is below `next_seq`, so that what is to come continues it.

Each operation of `Reorder` returns a `Good` result (`SampleGood`, `GapGood`): an administration that satisfies `ROK`, and a chain
that begins at the old `next_seq` and ends before the new one. `Applied` turns this into `IInv` of the next state. TLC checked
`IInv` for buffers of 0 to 5 samples in all three modes before it was proved.

### The reliable protocol

`Roomy` is `Depths \subseteq {0} /\ MaxSeq <= MaxSamples + 1`: the writer keeps everything, and the reorder administrations have room for
the stream. It is a hypothesis because the code needs one: with less room `stream_catchup` loses a sample. With a limited history depth a gap does the
same: a reader in TLCATCHUP does not give gaps to its own administration any more (`handle_one_gap`), so
samples that this administration stores beyond a gap are never delivered, or once more by the proxy writer's. What holds without `Roomy`
holds until the reader has caught up with the proxy writer (`OUT_OF_SYNC`), the longest part of a late joiner's history, with any buffer and history
depth, full buffers and overwritten samples included. `stream` meets `Roomy`.

One invariant, `StreamInv`, carries the theorems. That what was acknowledged was delivered is not inductive, because it says
nothing of what will be delivered from a buffer or by a message under way. It says of

* the reader (`Reads`): both administrations are `Sound`, that is, satisfy the invariant of `ReorderBufferProofs`; the one the reader is
  served from has passed only what is gone, and explains what it will pass (`Served`): gone is what was delivered, given up by the history, or not owed (`Gone`). With `Roomy` nothing is
  ever evicted, so both hold the same numbers from the first heartbeat on (`Together`), and changing from one to the other neither
  repeats nor skips a number (`Switched`); this is what fails otherwise;
* the messages (`MessageOK`): a gap is only for what is gone, a heartbeat's first number has nothing owed before it, an AckNack acknowledges only what
  is gone, and while the reader is out of sync asks for nothing beyond the window of its administration. As what is gone stays gone
  and the reader does not fall back (`Onward`), messages stay true however late and often they come (`MessageStays`);
* the writer (`WriterOK`, `Kept`): it has in its history every sample that is not gone. With this its heartbeats (`BeatSent`) and gaps (`GapSent`) are true; `AckNackHandled`
  needs the AckNack to be true in turn.

`GapArrives` and `SampleArrives` restate the lemmas on `Reorder` for both administrations, with what is gone in the place of `unavailable`. `handle_Gap` goes through a
bitmap with a recursive function, `HistoryOf` writes sample by sample: `IntervalInduction`, on sets of numbers, stands in for induction. TLC
checked `StreamInv` before it was proved, in instances that meet `Roomy`, to the end, and for millions of states in others.

`StreamRefinesDelivery` follows from it: with `Roomy` only what comes before `first` is gone without being delivered, so what is delivered is
an interval from `first` on (`InOrder`); a handler of the reader extends it or stutters (`RefinedReader`), an AckNack moves `acked` within it (`RefinedAckNack`).

### Entities

`LifecycleAssumption` says that threads and entities are finitely many, or their pins could not be counted. `TreeAssumption` is what the creating functions
make sure of: `dds_create_topic` and `dds_create_subscriber` take a participant, `dds_create_reader` a subscriber, or a participant for which it creates
the subscriber, and then a topic; nothing else is created implicitly here. An implicit subscriber that is there at the start has a reader, for which it was created.

Calls of dds functions nest, and those of several threads have to be counted per entity. The proof gives each call a position, its thread and its place counted from the
bottom of the stack (`Pos`), which it keeps while calls are made from it; `call` gives its frame, and the counts are cardinalities of sets of positions.
One invariant, `IInv`, carries the theorems, the last seven together with `Needed`, `Settled` and `Orderly`. The two counts are not inductive without the rest:

* `RefsOK`, `PinsOK`: the properties, for any position and, of references, also for handles that are no longer in the table.
* `FramesOK`: what a call knows of the entities it has pinned, closed or unlinked. That a pinned entity is not freed is part of it, and kept
  because of `Alone`: a call that `dds_handle_close_wait` has let go on is the only one with the entity pinned, because `PinsOK` makes the pin
  that is left its own and a closing handle cannot be pinned.
* `TreeOK`: children are those of the tree and a live entity is among its parent's, so that leaving the parent takes exactly one reference away.
* `Single`: two calls do not delete the same entity, unless it is implicit. A last child pins and closes its implicit parent
  in two steps (`dds_entity.c:526`), and a `dds_delete` of the parent may come in between; `Alone` still holds then.
* `Sole`: no two calls are creating the same entity; a creation that fails half-way undoes only what it did.
* `DepthOK`: a deletion goes down the tree, so that the stack is no deeper than there are kinds of entities (`MaxDepth`, which the property counts up to), and
  only a call at the bottom goes up to an implicit parent.

The lemmas follow the steps by what they do to a stack: the top frame moves on (`MoveStep`, `PinStep`), a call is made (`PushStep`, `BeginStep`),
a call returns (`PopStep`), sleepers are woken (`BroadcastMoves`). `ControlStep` puts together what every step owes for its frames, `QuietStep` what is left of it when
no handle changes. Each action then has one lemma, `...I`.

`ImplicitIsNeeded` speaks of the moment when all calls have returned; `Needed` says who is to see to it before:

* `ClosedIsDeleted`: every closed handle in the table has a call responsible for it, one that deletes the entity, or a last child that has closed it and deletes it next.
* `ChildlessIsSaved`: an implicit subscriber that is open and has no child is about to be closed, by a `dds_delete` that is to pin it or by the child that left last, or it
  is still to get its reader, from a `dds_create_reader` that deletes it if that fails.
* `FramesNeed`, `OnlyTopics`: a deletion that comes from the parent has a closed one; only the deletion of a topic is put off.

The step that matters is the last child's leaving. `RefsOK` makes an implicit subscriber's references those of its children (its creation gives it
none of its own), so that the child that empties `children` is also the one that `dds_handle_drop_childref_and_pin` gives the parent to; a child that is
not given it finds it closed, or was deleted from it, which is closed then: and what is closed has, by `ClosedIsDeleted`, its deleter.

`TopicsOutliveReaders` rests on `Settled`: a closed topic has no references, because `dds_handle_pin_for_delete` puts a deletion off while there is one, and nobody takes a
reference to a closed one. Only `dds_create_reader` would, between its pin of the topic and its reference to it (`dds_reader.c:599`): with a reader being
created TLC finds the property violated, which is why the theorem has `Unborn = {}`. The theorems so far are proved without it.

That a parent goes after its children is not true of every tree. `delete_children` deletes the children in order, waits once for one that another thread is
deleting, and is woken by the departure of any child. A third child's departure makes it pass over the one it waited for; it meets this one again in its second round,
which includes the topics, but there is no third. `FewLeave` says how much this bears: of the children of an entity that may be deleted at most two leave on their own
account, by an application's `dds_delete` or, a topic, with the last of its readers (`Leavers`); at most one is a topic; and an implicit subscriber is not deleted except by its
last reader. Any number of other children, trees, threads and uses is allowed; both applications of `dds_delete` are such ones, the two topics of `dds_siblings` are not. The invariant is
`Whole`, `IInv`, `Needed` and `Settled` with `Orderly`:

* `CursorsOK`: a child that the first round has passed over is a leaver, and the only one left; in the second there is at most one child, still to come; none when
  the handle is deleted. A departure keeps this (`WokenCursor`) because who leaves while a parent sleeps is one leaver (`OthersLeave`) and whom the parent waits for is the other (`Waits`).
* `Linked`: the stack of a deletion mirrors the tree: a call from `delete_children` is for the child its caller is at, so that a parent sleeps only when no call is above it.
* `Emptied`: what has left the table has no children, and what is to be freed is no child any more. `DeletedDeep` and the part of `MemorySafe` about parents follow with `TreeOK`.
* `OneConcern`: one call at most closes and deletes an implicit subscriber, after its last child has gone; `LastChild` shows that the last reference is the last child's.

TLC checked `Orderly` first, in the instance of `dds_delete` and in one with two subscribers.

### The garbage collector

The four theorems of the collector rest on one invariant, `IInv`. None of the properties is inductive: whether a free is safe
was decided when the request looked at the threads, many steps before.

* `Stages`: who may be where, by the state of the writer. A pinned writer is not being deleted, and
  the deleter comes to `ddsi_delete_writer` only after the pins are gone: this is what protects a throttled
  thread, which is asleep. It also says that there is one deleter and one thread making the request.
* `Covered`: a thread with a pointer got from the index is awake and in this domain, and once the entity is out of the
  index a request has still to look at the thread, has just loaded its vtime, or waits for it with the vtime it
  has now. Since a time is not later than itself (`NotLater`), whatever its width, the collector does not strike it off.
* `OneRequest`: a request that has been handed over is complete, is in one place (the queue, the delivery queue, the
  collector's hand) and its entity is not freed. `Underway`: nor is it lost on its way.
* `AllCounted`: `count` is the number of requests queued, in the delivery queue and in hand, and the no-op's, so that zero means none.
* `Collecting`, `Referenced`: what the collector's thread does, and that a participant has the references of those that have not been called
  back, so that it cannot be freed under one of them, and that the collector begins requests of its own only before that.
* `Phases`: what is over in each phase of the shutdown. When the count is waited for the participant has been freed, so that
  the collector begins no more requests, and nobody else is left who could: with `Underway` and `AllCounted` a count of zero
  then means that every entity has been called back, which is `StopsEmpty`.

Every action keeps `IInv` by a lemma of its own; steps that only move a thread, that leave the queues alone, or that delete a
writer for good share theirs.

### Only model-checked

* Liveness (`FailOver`, `CallsReturn`, `DeletionCompletes`, `ShutdownCompletes`, the return of a call, complete delivery): out of the prover's reach, and with
  them the refinement of `InOrderDelivery` and `RemoteCall` as a whole.
* `EntityLifecycle`: `DeletedClean`, `DeletedDeep`, `MemorySafe` and `OneDeleter` beyond `FewLeave`. In some such trees they fail (`dds_siblings`: a handle leaves the table with a child, which then finds its
  parent's memory freed; TLC finds both, and a live child of a freed parent, in the tree of `dds_siblings`). With readers being created `DeletedDeep` is checked by `dds_create`.
  What holds in every tree is proved (`PinnedNotFreed`, `HandleLeavesAlone`, `ExplicitHasOneDeleter`).
* `ReliableStream`: that delivery is complete in the end, with the fairness of `Spec`; the theorems are about any behaviour.

## 5. Not modelled

* The physics, the renderer and the network of the encoder: outside the repository.
* Offline statistics and figures: no state, floating point.
* Robot clients, message classes, crc, joystick: one call or one conversion each.
* Channels beyond what rpc uses: `Close` and a second `Init` (`core/channel.py:107`, `:114`).
* Cyclone DDS is some 240,000 lines of vendored code, most of it a compiler for IDL, serialisation, parameter lists,
  security plug-ins, a portability layer, tools and tests; the models cover the small part of it in which
  threads and hosts race. A model of the rest would have no interleavings to look at.
* Within that part: the reader history cache, waitsets, conditions and listeners, discovery and the leases of remote
  participants, publishers and the dds layer of writers (they mirror subscribers and readers), domains.
* Within the protocol: fragments (`nn_defrag`), asynchronous delivery queues, several writers or readers at a time, content
  filters, the counts of heartbeats and AckNacks (after 500 ms any is accepted); of `handle_AckNack` the accelerated retransmission to a reader
  that is catching up (`q_receive.c:963`), the limit and the merging of retransmissions (`:1007`, `:1023`; what is put off is asked for again), the
  answer to a reader that was taken to be unresponsive (`:905`, a state nothing sets) and the heartbeat in reply to an AckNack that was
  given none (`:1127`; the timer's comes anyway); heartbeats that ride on a packet of samples (`issync`, `q_transmit.c:434`), directed
  heartbeats, and the ack delay after which alone an AckNack without progress goes out (`ddsi_acknack.c:340`). Within the histories: deadlines,
  `ddsi_writer_wait_for_acks` for one reader (`ddsi_endpoint.c:1215`), and `whc_default_downgrade_to_volatile`, which nothing calls.
* The trigger's `rel` metric (`jepa_trigger.py:151`): every calibration in the repository is `abs`.
* Clock steps (`lease_server.py:151`), two hosts whose clocks give the same request id (`client_base.py:125`), and a handler that
  still runs when the lease it was admitted under has ended (`server.py:106`): the code does nothing about them, and its
  docs promise nothing. `request_future.py:45` tests the builtin `id`, so futures of calls that timed out stay in the table; the model
  keeps them too.

## 6. Plan

1. Channels: the reader thread, its queue and `Close` (`core/channel.py:114`), on `BQueue`.
2. Waitsets and listeners: attach, trigger and detach against deletion.
3. The reader history cache, with the stream's delivery as its input.
4. Proofs: `DeletedDeep` while readers are being created.
