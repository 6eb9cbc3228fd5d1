---------------------------- MODULE WriterHistory ----------------------------
(***************************************************************************)
(* A reliable writer and its history cache: the application writes and may *)
(* be throttled (write_sample_eot, throttle_writer), matched readers       *)
(* acknowledge and ask for retransmission (handle_AckNack), come and go    *)
(* (writer_add_connection, writer_drop_connection), samples reach the end  *)
(* of their lifespan, and a thread waits for acknowledgements.             *)
(***************************************************************************)
EXTENDS History

CONSTANTS
    Keys, Readers,
    Kinds,          \* kinds of sample the application writes
    Settings,       \* history settings, and whether samples have a lifespan
    MaxSeq,         \* bound on the samples written
    whc_high, whc_low

ASSUME HistoryAssumption ==
    /\ MaxSeq \in Nat /\ whc_low \in Nat /\ whc_high \in Nat /\ whc_low <= whc_high
    /\ Kinds \subseteq {"write", "dispose", "unregister"}
    /\ \A c \in Settings : \E tl \in BOOLEAN, h, d \in 0..MaxSeq :
          c.wrinfo = whc_make_wrinfo(tl, h, d)

VARIABLES
    lifespan,       \* whether the writer's samples have a lifespan
    whc,
    written,        \* per sequence number, the instance and the kind of sample
    expired,        \* samples whose lifespan has passed
    rn,             \* per matched reliable reader, the number it acknowledged up to
    retransmitting,
    throttling,     \* a thread is in throttle_writer
    waiter,         \* number wait_for_acks waits for, or 0
    signalled,      \* threads a broadcast of throttle_cond has woken
    lent,           \* sample the AckNack handler has borrowed, holding wr->e.lock; or 0
    live            \* samples whose contents have not been freed
vars == <<lifespan, whc, written, expired, rn, retransmitting, throttling, waiter, signalled, lent, live>>

Samples == [key : Keys, kind : Kinds]
wrseq == Len(written)
Matched == DOMAIN rn

\* Mutant: the furthest reader decides.
MaxDropSeqOfFurthest(readers, seq) ==
    IF DOMAIN readers = {} THEN seq ELSE Max({readers[r] : r \in DOMAIN readers})

\* The readers tree keeps the minimum at its root (augment_wr_prd_match).
MaxDropSeq(readers, seq) ==
    IF DOMAIN readers = {} THEN seq ELSE Min({readers[r] : r \in DOMAIN readers})

Init ==
    /\ \E c \in Settings : lifespan = c.lifespan /\ whc = whc_new(c.wrinfo)
    /\ written = <<>> /\ expired = {} /\ rn = <<>> /\ retransmitting = FALSE
    /\ throttling = FALSE /\ waiter = 0 /\ signalled = {} /\ lent = 0 /\ live = {}

\* Mutant: the contents are freed though they are borrowed.
StoreFreeingAll(new) ==
    /\ whc' = new
    /\ live' = (live \cup DOMAIN new.node) \ (DOMAIN whc.node \ DOMAIN new.node)

\* Contents of what leaves the cache are freed unless they are borrowed.
Store(new) ==
    /\ whc' = new
    /\ live' = (live \cup DOMAIN new.node)
                  \ {s \in DOMAIN whc.node \ DOMAIN new.node : ~whc.node[s].borrowed}

\* Without readers only a transient-local writer stores anything.
Insert(w) ==
    LET seq == wrseq + 1
        max_drop_seq == MaxDropSeq(rn, seq)
    IN /\ written' = Append(written, w)
       /\ IF Matched # {} \/ whc.wrinfo.is_transient_local
          THEN Store(whc_insert(whc, max_drop_seq, seq, w.key, w.kind = "unregister"))
          ELSE UNCHANGED <<whc, live>>

Unlocked == lent = 0

Write(w) ==
    /\ Unlocked /\ ~throttling /\ wrseq < MaxSeq
    /\ IF whc_state(whc).unacked_bytes > whc_high
       THEN throttling' = TRUE /\ UNCHANGED <<written, whc, live>>
       ELSE Insert(w) /\ UNCHANGED throttling
    /\ UNCHANGED <<lifespan, expired, rn, retransmitting, waiter, signalled, lent>>

writer_may_continue == whc_state(whc).unacked_bytes <= whc_low /\ ~retransmitting

\* The loop of throttle_writer: woken, it looks again.
Throttled(w) ==
    /\ Unlocked /\ throttling
    /\ "writer" \in signalled
    /\ signalled' = signalled \ {"writer"}
    /\ IF writer_may_continue THEN Insert(w) /\ throttling' = FALSE
       ELSE UNCHANGED <<written, whc, live, throttling>>
    /\ UNCHANGED <<lifespan, expired, rn, retransmitting, waiter, lent>>

\* max_blocking_time has passed: the write returns TIMEOUT.
ThrottleTimeout ==
    /\ Unlocked /\ throttling
    /\ throttling' = FALSE /\ signalled' = signalled \ {"writer"}
    /\ UNCHANGED <<lifespan, whc, written, expired, rn, retransmitting, waiter, lent, live>>

\* ddsi_writer_wait_for_acks for all readers (not the wait for one, rdguid).
WaitForAcks ==
    /\ Unlocked /\ waiter = 0 /\ wrseq > MaxDropSeq(rn, wrseq)
    /\ waiter' = wrseq
    /\ UNCHANGED <<lifespan, whc, written, expired, rn, retransmitting, throttling, signalled, lent, live>>

\* Its loop: woken, it looks again, or abstimeout has passed.
WaiterWakes ==
    /\ Unlocked /\ waiter # 0
    /\ \/ /\ "waiter" \in signalled
          /\ waiter' = IF waiter > MaxDropSeq(rn, wrseq) THEN waiter ELSE 0
       \/ waiter' = 0
    /\ signalled' = signalled \ {"waiter"}
    /\ UNCHANGED <<lifespan, whc, written, expired, rn, retransmitting, throttling, lent, live>>

\* Mutant: one sleeper is woken instead of all.
remove_acked_messages_signal(readers) ==
    LET new == whc_remove_acked_messages(whc, MaxDropSeq(readers, wrseq))
    IN /\ Store(new)
       /\ signalled' = signalled \cup IF throttling THEN {"writer"} ELSE IF waiter # 0 THEN {"waiter"} ELSE {}
       /\ retransmitting' = (retransmitting /\ whc_state(new).unacked_bytes # 0)

\* ddsi_remove_acked_messages, with the readers as they are now.
remove_acked_messages(readers) ==
    LET new == whc_remove_acked_messages(whc, MaxDropSeq(readers, wrseq))
    IN /\ Store(new)
       /\ signalled' = signalled \cup (IF throttling THEN {"writer"} ELSE {})
                                 \cup (IF waiter # 0 THEN {"waiter"} ELSE {})
       /\ retransmitting' = (retransmitting /\ whc_state(new).unacked_bytes # 0)

\* The acknowledging part of an AckNack; a reader cannot acknowledge the future.
Ack(r, base) ==
    /\ Unlocked /\ r \in Matched /\ base - 1 > rn[r]
    /\ rn' = [rn EXCEPT ![r] = Min({base - 1, wrseq})]
    /\ remove_acked_messages(rn')
    /\ UNCHANGED <<lifespan, written, expired, throttling, waiter, lent>>

\* Its retransmitting part, for one sample: whc_borrow_sample ...
Borrow(seq) ==
    /\ Unlocked /\ Matched # {} /\ seq \in DOMAIN whc.node
    /\ whc' = [whc EXCEPT !.node[seq].borrowed = TRUE]
    /\ lent' = seq
    /\ retransmitting' = (retransmitting \/ whc.node[seq].unacked)
    /\ UNCHANGED <<lifespan, written, expired, rn, throttling, waiter, signalled, live>>

\* ... and whc_return_sample, which destroys what the cache has dropped.
Return ==
    /\ lent # 0
    /\ IF lent \in DOMAIN whc.node
       THEN whc' = [whc EXCEPT !.node[lent].borrowed = FALSE] /\ UNCHANGED live
       ELSE live' = live \ {lent} /\ UNCHANGED whc
    /\ lent' = 0
    /\ UNCHANGED <<lifespan, written, expired, rn, retransmitting, throttling, waiter, signalled>>

\* whc_sample_expired_cb takes only the cache's lock.
Expirable == {s \in DOMAIN whc.node : written[s].kind = "write"}
Expire ==
    /\ lifespan /\ Expirable # {}
    /\ Store(WithMaxSeq(whc_delete(whc, {Min(Expirable)})))
    /\ expired' = expired \cup {Min(Expirable)}
    /\ UNCHANGED <<lifespan, written, rn, retransmitting, throttling, waiter, signalled, lent>>

Match(r) ==
    /\ Unlocked /\ r \notin Matched
    /\ rn' = Bind(rn, r, wrseq)
    /\ UNCHANGED <<lifespan, whc, written, expired, retransmitting, throttling, waiter, signalled, lent, live>>

Unmatch(r) ==
    /\ Unlocked /\ r \in Matched
    /\ rn' = Restrict(rn, Matched \ {r})
    /\ remove_acked_messages(rn')
    /\ UNCHANGED <<lifespan, written, expired, throttling, waiter, lent>>

Next ==
    \/ \E w \in Samples : Write(w) \/ Throttled(w)
    \/ ThrottleTimeout \/ WaitForAcks \/ WaiterWakes
    \/ \E r \in Readers, base \in 1..(MaxSeq + 1) : Ack(r, base)
    \/ \E seq \in 1..MaxSeq : Borrow(seq)
    \/ Return \/ Expire
    \/ \E r \in Readers : Match(r) \/ Unmatch(r)

Spec == Init /\ [][Next]_vars
----------------------------------------------------------------------------
Stored == DOMAIN whc.node
LaterOf(s) == {t \in (s + 1)..wrseq : written[t].key = written[s].key}
Unregisters(s) == {t \in LaterOf(s) : written[t].kind = "unregister"}

\* The figures throttling and heartbeats rely on: what the cache keeps count
\* of agrees with what it holds after any mixture of overwriting, pruning,
\* unregistering, acknowledging and expiring.
CountsAgree ==
    /\ whc.maxseq_node = FindMaxSeq(whc.node)
    /\ whc.unacked_bytes = Cardinality({s \in Stored : whc.node[s].unacked})
    /\ Matched # {} => \A s \in Stored : whc.node[s].unacked => s > whc.max_drop_seq

\* A sample a matched reader has yet to acknowledge leaves the cache only at
\* the end of its lifespan or when hdepth later samples of its instance, none
\* of them across an unregister, have replaced it.
UnackedIsKept ==
    \A s \in 1..wrseq : (\E r \in Matched : rn[r] < s) /\ s \notin Stored =>
        \/ s \in expired
        \/ /\ whc.wrinfo.hdepth > 0
           /\ Cardinality({t \in LaterOf(s) : \A u \in Unregisters(s) : t < u}) >= whc.wrinfo.hdepth

\* A late joiner gets what transient-local durability promises: of every
\* registered instance the last tldepth samples, all of them if 0.
TransientLocalIsKept ==
    whc.wrinfo.is_transient_local => \A s \in 1..wrseq :
        \/ s \in Stored \cup expired \/ written[s].kind = "unregister" \/ Unregisters(s) # {}
        \/ whc.wrinfo.tldepth > 0 /\ Cardinality(LaterOf(s)) >= whc.wrinfo.tldepth

\* And nothing more: once all is acknowledged only that history remains.
NothingElseIsKept ==
    whc.unacked_bytes = 0 /\ ~(whc.wrinfo.is_transient_local /\ whc.wrinfo.tldepth = 0)
        => \A s \in Stored : whc.wrinfo.tldepth > 0
              /\ Cardinality({t \in Stored : t > s /\ whc.node[t].key = whc.node[s].key}) < whc.wrinfo.tldepth

\* The contents of a sample live exactly as long as the cache or a
\* retransmission that borrowed it needs them, though it may expire meanwhile.
ContentsOwned == live = Stored \cup ({lent} \ {0})

\* A thread asleep on throttle_cond whose condition has come true has been
\* woken; of the throttled one only where samples have no lifespan.  Expiry
\* makes room and wakes nobody: there max_blocking_time ends the wait.
NoLostWakeup ==
    /\ throttling /\ writer_may_continue /\ ~lifespan => "writer" \in signalled
    /\ waiter # 0 /\ waiter <= MaxDropSeq(rn, wrseq) => "waiter" \in signalled
=============================================================================
