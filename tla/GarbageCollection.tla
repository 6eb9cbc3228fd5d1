------------------------- MODULE GarbageCollection -------------------------
(***************************************************************************)
(* Cyclone DDS, q_gc.c: the memory of DDSI entities is given back by a     *)
(* garbage collector thread.  Threads find an entity in the entity index   *)
(* while they are "awake" and take no reference to it; who deletes one     *)
(* takes it out of the index, notes the virtual time of every thread that  *)
(* is awake, and the collector frees it when all of these have moved on.   *)
(* Around it are the users: application threads that write and delete      *)
(* (dds_write.c, dds_writer.c, ddsi_endpoint.c), receive threads that      *)
(* handle acknowledgements, timed events, and the shutdown of the domain,  *)
(* which deletes what there still is, participants last (q_init.c); a      *)
(* participant goes with the last of its endpoints (ddsi_participant.c).   *)
(* Of the proxies there are the writers, whose requests make a detour.     *)
(*                                                                         *)
(* A request is named after its entity: DeletedOnce says there is but one. *)
(***************************************************************************)
EXTENDS Integers, Sequences, FiniteSets

CONSTANTS
    Apps, Receivers, Timers,    \* application, receive and event threads
    Gc,                         \* the collector's thread
    Local, Writers, Builtins,   \* our participant; its writers that the
                                \* application uses; its other endpoints
    Proxies,                    \* proxy writers
    None, NoOp,         \* no entity; the request of gcreq_queue_free
    W,                  \* virtual times are counted modulo W: 2^28
    MaxVtime            \* bound on the operations a thread begins

Users == Writers \cup {Local}
Ours == Users \cup Builtins
Entities == Ours \cup Proxies

ASSUME GCAssumption ==
    /\ W \in Nat /\ W >= 3 /\ MaxVtime \in Nat
    /\ None \notin Entities /\ NoOp \notin Entities /\ None # NoOp
    /\ Apps \cap (Receivers \cup Timers) = {}
    /\ Gc \notin Apps \cup Receivers \cup Timers

ASSUME EntityAssumption ==
    /\ Local \notin Writers \cup Builtins \cup Proxies
    /\ Writers \cap Builtins = {} /\ Ours \cap Proxies = {}

Threads == Apps \cup Receivers \cup Timers \cup {Gc}
Times == 0..(W - 1)

VARIABLES
    thr,        \* per thread: where it is, its entity, awake, vtime and domain
    wr,         \* per writer
    life,       \* per entity, how far it is on its way out of the entity index
    req,        \* per entity, its request: the threads still to be looked at,
                \* the vtime just loaded, and the <<thread, vtime>> to wait for
    refs, dying,        \* who has a reference to Local; whether it is in
                        \* state DELETING_BUILTINS
    queue, cur, count, terminate,   \* struct gcreq_queue; the request in hand
    dqueue,     \* the requests in the delivery queue
    main        \* rtps_stop and rtps_fini

ents == <<wr, life, req>>
gcq == <<refs, dying, queue, cur, count, terminate, dqueue, main>>
vars == <<thr, ents, gcq>>

Init ==
    /\ thr = [t \in Threads |-> [at |-> "idle", w |-> None, awake |-> FALSE,
                                 vtime |-> 0, gv |-> "here"]]
    /\ wr = [w \in Writers |-> [state |-> "OPERATIONAL", unacked |-> FALSE,
                                timer |-> FALSE, closing |-> FALSE]]
    /\ life = [e \in Entities |-> "indexed"]
    /\ req = [e \in Entities |-> [todo |-> {}, loaded |-> {}, ivs |-> {}]]
    /\ refs = Ours /\ dying = FALSE
    /\ queue = <<>> /\ cur = None /\ count = 0 /\ terminate = FALSE
    /\ dqueue = <<>> /\ main = "running"

\* The entities that can be looked up, ...
index == {e \in Entities : life[e] = "indexed"}

\* ... those whose gc_delete function has been called, or has given back the
\* memory.
CalledBack(e) == life[e] \in {"gone", "freed"}
Freed(e) == life[e] = "freed"

----------------------------------------------------------------------------
(* Virtual time (q_thread.h).                                               *)

\* Mutant: equal is later.
vtime_ge(a, b) == (a - b) % W \in 0..((W - 1) \div 2)

\* As signed integers of 28 bits.
vtime_gt(a, b) == (a - b) % W \in 1..((W - 1) \div 2)

Fresh(t) == thr[t].vtime < MaxVtime

\* Thread t is at a place, with an entity in hand.
Becomes(t, at, w, awake, vtime, gv) ==
    thr' = [thr EXCEPT ![t] = [at |-> at, w |-> w, awake |-> awake,
                               vtime |-> vtime, gv |-> gv]]

thread_state_awake(t, at, w, gv) == Becomes(t, at, w, TRUE, thr[t].vtime, gv)

thread_state_asleep(t, at, w) ==
    Becomes(t, at, w, FALSE, (thr[t].vtime + 1) % W, thr[t].gv)

\* Leaves everything behind without going to sleep.
thread_state_awake_to_awake(t) ==
    Becomes(t, "awake", None, thr[t].awake, (thr[t].vtime + 1) % W, thr[t].gv)

GotoWith(t, at, w) == Becomes(t, at, w, thr[t].awake, thr[t].vtime, thr[t].gv)
Goto(t, at) == GotoWith(t, at, thr[t].w)

----------------------------------------------------------------------------
(* A request, and the deletion of a DDSI writer under wr->e.lock.           *)

\* gcreq_new begins to look who is awake.
gcreq_new(t, e) ==
    /\ life' = [life EXCEPT ![e] = "deleting"]
    /\ req' = [req EXCEPT ![e] = [todo |-> Threads, loaded |-> {}, ivs |-> {}]]
    /\ GotoWith(t, "gather", e)

Unlocked(w) == \A t \in Threads : ~(thr[t].w = w /\ thr[t].at = "gather")

\* Mutant: the second deletion is not noticed.
NeverDeleting(w) == FALSE
AlreadyDeleting(w) == wr[w].state = "DELETING"

\* delete_writer_nolinger_locked up to gcreq_writer.
delete_writer_nolinger_locked(t, w, done) ==
    \/ /\ AlreadyDeleting(w)
       /\ Goto(t, done) /\ UNCHANGED ents
    \/ /\ ~AlreadyDeleting(w)
       /\ wr' = [wr EXCEPT ![w].state = "DELETING"]
       /\ gcreq_new(t, w)

\* The next one of thread_states, an array.
NextSlot(todo) == CHOOSE u \in todo : TRUE

\* threads_vtime_gather_for_wait loads a thread's vtime, and skips sleepers; ...
GatherVtime(t) ==
    LET w == thr[t].w
        u == NextSlot(req[w].todo)
    IN  /\ thr[t].at = "gather" /\ req[w].todo # {} /\ req[w].loaded = {}
        /\ \/ /\ thr[u].awake
              /\ req' = [req EXCEPT ![w].loaded = {<<u, thr[u].vtime>>}]
           \/ /\ ~thr[u].awake
              /\ req' = [req EXCEPT ![w].todo = @ \ {u}]
        /\ UNCHANGED <<thr, wr, life, gcq>>

\* ... then its domain, by when it may have moved on.
GatherGv(t) ==
    LET w == thr[t].w
        u == NextSlot(req[w].todo)
    IN  /\ thr[t].at = "gather" /\ req[w].todo # {} /\ req[w].loaded # {}
        /\ req' = [req EXCEPT ![w] =
              [todo |-> req[w].todo \ {u}, loaded |-> {},
               ivs |-> IF thr[u].gv = "here" THEN req[w].ivs \cup req[w].loaded
                       ELSE req[w].ivs]]
        /\ UNCHANGED <<thr, wr, life, gcq>>

\* Where a thread goes on after a request.
Resume(t) ==
    \/ t = Gc /\ GotoWith(t, "builtins", None)
    \/ t \in Apps /\ main = "running" /\ Goto(t, "closed")
    \/ t \in Apps /\ main # "running" /\ GotoWith(t, "stopping", None)
    \/ t \in Receivers \cup Timers /\ Goto(t, "handled")

\* gcreq_new counts the request, gcreq_enqueue appends it; unlock.
gcreq_enqueue(t) ==
    LET e == thr[t].w
    IN  /\ thr[t].at = "gather" /\ req[e].todo = {}
        /\ queue' = Append(queue, e) /\ count' = count + 1
        /\ Resume(t)
        /\ UNCHANGED <<ents, refs, dying, cur, terminate, dqueue, main>>

----------------------------------------------------------------------------
(* Receive and event threads.                                               *)

Awake(t) ==
    /\ t \in Receivers /\ thr[t].at = "idle" /\ Fresh(t)
    /\ thread_state_awake(t, "awake", None, "here")
    /\ UNCHANGED <<ents, gcq>>

\* entidx_lookup_writer_guid
Lookup(t, w) ==
    /\ t \in Receivers /\ thr[t].at = "awake" /\ w \in index
    /\ GotoWith(t, "found", w)
    /\ UNCHANGED <<ents, gcq>>

\* handle_AckNack: an acknowledgement leaves nothing unacknowledged, or not;
\* ddsi_remove_acked_messages then deletes a writer that lingers.
AckNack(t) ==
    LET w == thr[t].w
    IN  /\ thr[t].at = "found" /\ Unlocked(w)
        /\ \/ Goto(t, "handled") /\ UNCHANGED ents
           \/ /\ wr[w].state = "LINGERING"
              /\ delete_writer_nolinger_locked(t, w, "handled")
           \/ /\ wr[w].state # "LINGERING"
              /\ wr' = [wr EXCEPT ![w].unacked = FALSE]
              /\ Goto(t, "handled") /\ UNCHANGED <<life, req>>
        /\ UNCHANGED gcq

\* handle_xevk_delete_writer: the linger time is over.  The event has the
\* GUID only, so that the writer may be gone.
Linger(t, w) ==
    /\ main = "running" /\ t \in Timers /\ thr[t].at = "idle" /\ wr[w].timer
    /\ wr' = [wr EXCEPT ![w].timer = FALSE]
    /\ thread_state_awake(t, IF w \in index THEN "expired" ELSE "handled",
                          IF w \in index THEN w ELSE None, "here")
    /\ UNCHANGED <<life, req, gcq>>

LingerDelete(t) ==
    /\ thr[t].at = "expired" /\ Unlocked(thr[t].w)
    /\ delete_writer_nolinger_locked(t, thr[t].w, "handled")
    /\ UNCHANGED gcq

\* Between two packets or events a thread moves on or goes to sleep.
MoveOn(t) ==
    /\ t \in Receivers \cup Timers /\ thr[t].at \in {"awake", "handled"}
    /\ \/ thread_state_asleep(t, "idle", None)
       \/ Fresh(t) /\ thread_state_awake_to_awake(t)
    /\ UNCHANGED <<ents, gcq>>

----------------------------------------------------------------------------
(* Application threads.  A dds_writer is pinned, then its m_mutex locked.   *)

HasMutex == {"writing", "throttled", "storing"}
HasPin == {"pinned"} \cup HasMutex
Free(w, places) == \A t \in Threads : ~(thr[t].w = w /\ thr[t].at \in places)

WritePin(t, w) ==
    /\ t \in Apps /\ thr[t].at = "idle" /\ Fresh(t) /\ ~wr[w].closing
    /\ GotoWith(t, "pinned", w)
    /\ UNCHANGED <<ents, gcq>>

WriteLock(t) ==
    /\ thr[t].at = "pinned" /\ Free(thr[t].w, HasMutex)
    /\ thread_state_awake(t, "writing", thr[t].w, "here")
    /\ UNCHANGED <<ents, gcq>>

\* throttle_writer goes to sleep with the writer in hand ...
Throttle(t) ==
    /\ thr[t].at = "writing" /\ Unlocked(thr[t].w)
    /\ wr[thr[t].w].state = "OPERATIONAL" /\ wr[thr[t].w].unacked
    /\ thread_state_asleep(t, "throttled", thr[t].w)
    /\ UNCHANGED <<ents, gcq>>

\* ... until there is room or max_blocking_time has passed.
Unthrottle(t) ==
    /\ thr[t].at = "throttled" /\ Unlocked(thr[t].w)
    /\ thread_state_awake(t, "storing", thr[t].w, "here")
    /\ UNCHANGED <<ents, gcq>>

\* write_sample_eot stores the sample, if there is a reader, or gives up.
Write(t) ==
    LET w == thr[t].w
    IN  /\ thr[t].at \in {"writing", "storing"} /\ Unlocked(w)
        /\ \/ UNCHANGED wr
           \/ /\ wr[w].state = "OPERATIONAL"
              /\ wr' = [wr EXCEPT ![w].unacked = TRUE]
        /\ thread_state_asleep(t, "idle", None)
        /\ UNCHANGED <<life, req, gcq>>

\* Mutant: the pins are not waited for.
CloseAtOnce(w) == TRUE
CloseWait(w) == Free(w, HasPin)

\* dds_delete: dds_entity_pin_for_delete, dds_writer_interrupt under m_mutex.
DeletePin(t, w) ==
    /\ t \in Apps /\ thr[t].at = "idle" /\ ~wr[w].closing
    /\ wr' = [wr EXCEPT ![w].closing = TRUE]
    /\ GotoWith(t, "interrupt", w)
    /\ UNCHANGED <<life, req, gcq>>

\* ddsi_unblock_throttled_writer
Interrupt(t) ==
    LET w == thr[t].w
    IN  /\ thr[t].at = "interrupt" /\ Free(w, HasMutex) /\ Unlocked(w)
        /\ wr' = [wr EXCEPT ![w].state = "INTERRUPT"]
        /\ thread_state_asleep(t, "closewait", w)
        /\ UNCHANGED <<life, req, gcq>>

\* dds_writer_close after dds_handle_close_wait.
Close(t) ==
    /\ thr[t].at = "closewait" /\ CloseWait(thr[t].w)
    /\ thread_state_awake(t, "close", thr[t].w, "here")
    /\ UNCHANGED <<ents, gcq>>

\* ddsi_delete_writer
DeleteWriter(t) ==
    LET w == thr[t].w
    IN  /\ thr[t].at = "close" /\ Unlocked(w)
        /\ \/ ~wr[w].unacked /\ delete_writer_nolinger_locked(t, w, "closed")
           \/ /\ wr[w].unacked
              /\ wr' = [wr EXCEPT ![w].state = "LINGERING"]
              /\ Goto(t, "linger") /\ UNCHANGED <<life, req>>
        /\ UNCHANGED gcq

\* Mutant: the event is forgotten.
NoEvent(w) == UNCHANGED wr
qxev_delete_writer(w) == wr' = [wr EXCEPT ![w].timer = TRUE]

\* The event is scheduled after the unlock, with what wr points to.
ScheduleDelete(t) ==
    /\ thr[t].at = "linger"
    /\ qxev_delete_writer(thr[t].w) /\ Goto(t, "closed")
    /\ UNCHANGED <<life, req, gcq>>

\* dds_writer_close waits for the collector.
Closed(t) ==
    /\ thr[t].at = "closed"
    /\ thread_state_asleep(t, "waitgone", thr[t].w)
    /\ UNCHANGED <<ents, gcq>>

\* status_cb has cleared m_wr: dds_writer_close returns.
Gone(t) ==
    /\ thr[t].at = "waitgone" /\ CalledBack(thr[t].w)
    /\ GotoWith(t, "idle", None)
    /\ UNCHANGED <<ents, gcq>>

\* An application thread is busy in another domain.
Elsewhere(t) ==
    /\ t \in Apps
    /\ \/ /\ main = "running" /\ thr[t].at = "idle" /\ Fresh(t)
          /\ thread_state_awake(t, "elsewhere", None, "elsewhere")
       \/ thr[t].at = "elsewhere" /\ thread_state_asleep(t, "idle", None)
    /\ UNCHANGED <<ents, gcq>>

----------------------------------------------------------------------------
(* gcreq_queue_thread.                                                      *)

GcTake ==
    /\ cur = None /\ queue # <<>>
    /\ cur' = Head(queue) /\ queue' = Tail(queue)
    /\ UNCHANGED <<thr, ents, refs, dying, count, terminate, dqueue, main>>

Waiting == IF cur \in Entities THEN req[cur].ivs ELSE {}

\* threads_vtime_check
GcCheck ==
    \E iv \in Waiting :
        /\ vtime_gt(thr[iv[1]].vtime, iv[2]) \/ thr[iv[1]].gv # "here"
        /\ req' = [req EXCEPT ![cur].ivs = @ \ {iv}]
        /\ UNCHANGED <<thr, wr, life, gcq>>

Ready == cur \in Entities /\ Waiting = {} /\ thr[Gc].at = "idle"

\* gc_delete_proxy_writer_dqueue sends the request through the delivery queue,
\* behind the samples; ...
Delivering == cur \in Proxies /\ life[cur] = "deleting"

GcDqueue ==
    /\ Ready /\ Delivering
    /\ life' = [life EXCEPT ![cur] = "bubble"]
    /\ dqueue' = Append(dqueue, cur) /\ cur' = None
    /\ UNCHANGED <<thr, wr, req, refs, dying, queue, count, terminate, main>>

\* ... the delivery thread puts it back, for gc_delete_proxy_writer.
gcreq_requeue ==
    /\ dqueue # <<>>
    /\ queue' = Append(queue, Head(dqueue)) /\ dqueue' = Tail(dqueue)
    /\ UNCHANGED <<thr, ents, refs, dying, cur, count, terminate, main>>

\* Mutant: the request is counted out twice.
FreedTwice == count' = count - 2
gcreq_free == count' = count - 1

\* gc_delete_writer and the others free the request first, tell the
\* dds_writer, ...
GcCallback ==
    /\ Ready /\ ~Delivering
    /\ gcreq_free
    /\ life' = [life EXCEPT ![cur] = "gone"]
    /\ thread_state_awake(Gc, "callback", None, "here")
    /\ UNCHANGED <<wr, req, refs, dying, queue, cur, terminate, dqueue, main>>

\* ... give up their reference to the participant ...

\* (once)
DeletesBuiltins(left) == left \cap Users = {} /\ Builtins # {} /\ ~dying

GcUnref ==
    LET left == refs \ {cur}
        last == cur \in Ours /\ DeletesBuiltins(left)
    IN  /\ thr[Gc].at = "callback"
        /\ refs' = left
        /\ \/ /\ last
              /\ dying' = TRUE
              /\ GotoWith(Gc, "builtins", None) /\ UNCHANGED life
           \/ /\ ~last
              /\ life' = IF left = {} THEN [life EXCEPT ![Local] = "freed"] ELSE life
              /\ GotoWith(Gc, "done", None) /\ UNCHANGED dying
        /\ UNCHANGED <<wr, req, queue, cur, count, terminate, dqueue, main>>

\* (the last user's deletes the built-in endpoints: requests of the collector)
delete_builtin_endpoint(b) ==
    /\ thr[Gc].at = "builtins" /\ b \in index
    /\ gcreq_new(Gc, b)
    /\ UNCHANGED <<wr, gcq>>

\* ... and give back the memory last.
GcFree ==
    /\ \/ thr[Gc].at = "done"
       \/ thr[Gc].at = "builtins" /\ Builtins \cap index = {}
    /\ life' = IF cur = Local THEN life ELSE [life EXCEPT ![cur] = "freed"]
    /\ cur' = None
    /\ thread_state_asleep(Gc, "idle", None)
    /\ UNCHANGED <<wr, req, refs, dying, queue, count, terminate, dqueue, main>>

GcNoOp ==
    /\ cur = NoOp
    /\ gcreq_free
    /\ cur' = None
    /\ UNCHANGED <<thr, ents, refs, dying, queue, terminate, dqueue, main>>

----------------------------------------------------------------------------
(* rtps_stop and rtps_fini.  The thread that does them deletes entities,    *)
(* awake, and must not be when it waits for the collector.                  *)

\* The application is done with the domain; the receive and event threads have
\* been stopped.
Stop(t) ==
    /\ t \in Apps /\ thr[t].at = "idle" /\ main = "running"
    /\ \A u \in Apps : thr[u].at \in {"idle", "elsewhere"}
    /\ \A u \in Receivers \cup Timers : thr[u].at = "idle"
    /\ main' = "proxies"
    /\ wr' = [w \in Writers |-> [wr[w] EXCEPT !.timer = FALSE]]
    /\ thread_state_awake(t, "stopping", None, "here")
    /\ UNCHANGED <<life, req, refs, dying, queue, cur, count, terminate, dqueue>>

Stopping(t, phase) == thr[t].at = "stopping" /\ main = phase

\* ddsi_delete_proxy_participant_by_guid, of one endpoint after the other.
delete_ppt(t, e) ==
    /\ Stopping(t, "proxies") /\ e \in index
    /\ gcreq_new(t, e)
    /\ UNCHANGED <<wr, gcq>>

\* The writers that have not been deleted.
ddsi_delete_writer_nolinger(t, w) ==
    /\ Stopping(t, "writers") /\ w \in index /\ Unlocked(w)
    /\ delete_writer_nolinger_locked(t, w, "stopping")
    /\ UNCHANGED gcq

\* Between two loops the thread leaves everything behind.
NextLoop(t) ==
    /\ \/ Stopping(t, "proxies") /\ Proxies \cap index = {} /\ main' = "writers"
       \/ Stopping(t, "writers") /\ Writers \cap index = {} /\ main' = "participants"
    /\ Becomes(t, "stopping", None, TRUE, (thr[t].vtime + 1) % W, "here")
    /\ UNCHANGED <<ents, refs, dying, queue, cur, count, terminate, dqueue>>

\* Participants come last.
ddsi_delete_participant(t) ==
    /\ Stopping(t, "participants") /\ Local \in index
    /\ gcreq_new(t, Local)
    /\ UNCHANGED <<wr, gcq>>

\* Mutant: it stays awake.
StaysAwake(t) == Goto(t, "stopped")
Asleep(t) == thread_state_asleep(t, "stopped", None)

LoopsEnd(t) ==
    /\ Stopping(t, "participants") /\ Local \notin index
    /\ Asleep(t) /\ main' = "waiting"
    /\ UNCHANGED <<ents, refs, dying, queue, cur, count, terminate, dqueue>>

\* The thread that stops the domain waits, asleep; it goes on.
Waits(t, phase) == thr[t].at = "stopped" /\ main = phase
Becalmed == UNCHANGED <<thr, ents, refs, dying, queue, cur, count, terminate, dqueue>>

\* The last participant lowers nparticipants to 0 as it is freed.
NoParticipants(t) ==
    /\ Waits(t, "waiting") /\ Freed(Local)
    /\ main' = "draining"
    /\ Becalmed

\* Mutant: nothing to be taken is taken for nothing to be done.
NothingQueued == queue = <<>>
Quiet == count = 0

gcreq_queue_drain(t) ==
    /\ Waits(t, "draining") /\ Quiet
    /\ main' = "drained"
    /\ Becalmed

\* A request that waits for no thread ends the collector.
gcreq_queue_free(t) ==
    \/ /\ Waits(t, "drained")
       /\ main' = "freeing" /\ terminate' = TRUE /\ count' = count + 1
       /\ UNCHANGED <<thr, ents, refs, dying, queue, cur, dqueue>>
    \/ /\ Waits(t, "freeing") /\ count = 1
       /\ main' = "joining" /\ queue' = Append(queue, NoOp)
       /\ UNCHANGED <<thr, ents, refs, dying, cur, count, terminate, dqueue>>

LoopEnds == terminate /\ count = 0

\* The collector's loop ends, join_thread returns.
Join(t) ==
    /\ Waits(t, "joining") /\ LoopEnds /\ cur = None
    /\ main' = "joined"
    /\ Becalmed

----------------------------------------------------------------------------
\* What a thread begins by itself.
Begin(t) ==
    /\ main = "running"
    /\ \/ Awake(t) \/ Stop(t)
       \/ \E w \in Writers : Lookup(t, w) \/ WritePin(t, w) \/ DeletePin(t, w)

\* What it goes on with.
Continue(t) ==
    \/ AckNack(t) \/ LingerDelete(t) \/ MoveOn(t)
    \/ GatherVtime(t) \/ GatherGv(t) \/ gcreq_enqueue(t)
    \/ WriteLock(t) \/ Throttle(t) \/ Unthrottle(t) \/ Write(t)
    \/ Interrupt(t) \/ Close(t) \/ DeleteWriter(t) \/ ScheduleDelete(t)
    \/ Closed(t) \/ Gone(t)

Shutdown(t) ==
    \/ NextLoop(t) \/ LoopsEnd(t) \/ \E e \in Proxies : delete_ppt(t, e)
    \/ \E w \in Writers : ddsi_delete_writer_nolinger(t, w)
    \/ ddsi_delete_participant(t)
    \/ NoParticipants(t) \/ gcreq_queue_drain(t) \/ gcreq_queue_free(t) \/ Join(t)

Collector ==
    \/ GcTake \/ GcCheck \/ GcDqueue \/ GcCallback \/ GcUnref \/ GcFree \/ GcNoOp
    \/ \E b \in Builtins : delete_builtin_endpoint(b)

\* A thread's own steps.
Step(t) == Continue(t) \/ Shutdown(t) \/ (t = Gc /\ Collector)

Next ==
    /\ main # "joined"
    /\ \/ \E t \in Threads : Begin(t) \/ Elsewhere(t) \/ Step(t)
       \/ \E t \in Threads, w \in Writers : Linger(t, w)
       \/ gcreq_requeue

\* Threads go on, timed events are handled, the delivery thread gets to its
\* queue's end, and the collector, which looks every millisecond, looks again.
Fairness ==
    /\ \A t \in Threads : WF_vars(Step(t))
    /\ \A w \in Writers : SF_vars(\E t \in Threads : Linger(t, w))
    /\ WF_vars(gcreq_requeue)

Spec == Init /\ [][Next]_vars /\ Fairness

----------------------------------------------------------------------------
InternalPlaces == {"awake", "found", "expired", "gather", "handled"}
AppPlaces == HasPin \cup {"interrupt", "closewait", "close", "gather", "linger",
                         "closed", "waitgone", "elsewhere", "stopping", "stopped"}
GcPlaces == {"callback", "gather", "builtins", "done"}
Places == {"idle"} \cup InternalPlaces \cup AppPlaces \cup GcPlaces

ThreadState == [at : Places, w : Entities \cup {None}, awake : BOOLEAN, vtime : Times,
                gv : {"here", "elsewhere"}]
WriterState == [state : {"OPERATIONAL", "INTERRUPT", "LINGERING", "DELETING"},
                unacked : BOOLEAN, timer : BOOLEAN, closing : BOOLEAN]
Request == [todo : SUBSET Threads, loaded : SUBSET (Threads \X Times),
            ivs : SUBSET (Threads \X Times)]

\* Threads, entities and requests have their types, and the count of requests
\* does not go below zero.
TypeOK ==
    /\ thr \in [Threads -> ThreadState] /\ wr \in [Writers -> WriterState]
    /\ life \in [Entities -> {"indexed", "deleting", "bubble", "gone", "freed"}]
    /\ req \in [Entities -> Request]
    /\ refs \in SUBSET Ours /\ dying \in BOOLEAN
    /\ queue \in Seq(Entities \cup {NoOp}) /\ cur \in Entities \cup {None, NoOp}
    /\ dqueue \in Seq(Proxies) /\ count \in Nat /\ terminate \in BOOLEAN
    /\ main \in {"running", "proxies", "writers", "participants", "waiting", "draining",
                 "drained", "freeing", "joining", "joined"}

\* Where a thread has a pointer to its entity that it may still follow.
Holding == HasPin \cup {"found", "expired", "gather", "handled", "close", "linger",
                       "closed"}
Holds(t, e) == thr[t].w = e /\ thr[t].at \in Holding

\* No thread is left with a pointer to an entity that has been freed: not the
\* one that looked it up just before it left the index, not the one that
\* deletes it, not one that is throttled, whatever it does while the request
\* is being made and whichever domain it visits.  Nor does the collector find
\* the participant of what it deletes freed.
NoUseAfterFree ==
    /\ \A t \in Threads, e \in Entities : Holds(t, e) => ~Freed(e)
    /\ thr[Gc].at = "callback" /\ cur \in Ours => ~Freed(Local)

Requests(e) ==
    {i \in DOMAIN queue : queue[i] = e} \cup {i \in DOMAIN dqueue : dqueue[i] = e}

\* The application, the last acknowledgement, the end of the linger time and
\* the shutdown race to delete an entity: it is handed to the collector once.
DeletedOnce ==
    \A e \in Entities :
        /\ \A i, j \in DOMAIN queue : queue[i] = e /\ queue[j] = e => i = j
        /\ \A i, j \in DOMAIN dqueue : dqueue[i] = e /\ dqueue[j] = e => i = j
        /\ \A i \in DOMAIN queue, j \in DOMAIN dqueue : queue[i] = e => dqueue[j] # e
        /\ CalledBack(e) \/ cur = e => Requests(e) = {}
        /\ Requests(e) # {} \/ cur = e =>
              \A t \in Threads : ~(thr[t].w = e /\ thr[t].at = "gather")

\* When rtps_stop returns, no participant and no request is left, neither
\* queued nor in the delivery queue nor being made ("the stack is quiescent");
\* when join_thread does, "assert (q->first == NULL)", and all memory has been
\* given back.
NothingLeft ==
    /\ main \in {"drained", "freeing", "joining", "joined"} =>
          /\ \A e \in Entities : CalledBack(e)
          /\ Freed(Local)
    /\ main = "joined" => queue = <<>> /\ \A e \in Entities : Freed(e)

\* A writer that is deleted is freed in the end, acknowledged or not.
DeletionCompletes == \A w \in Writers : wr[w].closing ~> Freed(w)

\* The shutdown of the domain completes.
ShutdownCompletes == main = "proxies" ~> main = "joined"
============================================================================
