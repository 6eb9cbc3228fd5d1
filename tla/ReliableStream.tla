--------------------------- MODULE ReliableStream ---------------------------
(***************************************************************************)
(* The reliable protocol between a Cyclone writer and a matched Cyclone    *)
(* reader, over a network that loses, duplicates and reorders: the writer  *)
(* with its history (History), heartbeats, retransmissions and gaps        *)
(* (handle_AckNack), the reader with the reorder administration of the     *)
(* proxy writer and the reader's own one with which it catches up          *)
(* (Reorder; handle_regular, handle_Gap, handle_Heartbeat, ddsi_acknack.c).*)
(* Samples of one instance that fit a message; synchronous delivery, the   *)
(* default.  The counts of heartbeats and AckNacks are left out: 500 ms    *)
(* after the last one any count is accepted, so an old one may act or be   *)
(* ignored, and being ignored is being lost.  Delays are left out: an      *)
(* event that comes too early does nothing.                                *)
(***************************************************************************)
EXTENDS History, Reorder

CONSTANTS
    MaxSeq,         \* bound on the samples written
    Before,         \* numbers of samples written before the match
    Depths,         \* history depths, 0 for KEEP_ALL
    MaxSamples,     \* max_samples of both reorder administrations
    Answers,        \* whether a timer's heartbeat may ask for an answer or not
    MaxFaults,      \* bound on lost and duplicated messages
    MaxNet          \* a timer waits while so many of its messages are on their way

ASSUME StreamAssumption ==
    /\ MaxSeq \in Nat /\ Before \subseteq 0..MaxSeq /\ Depths \subseteq Nat
    /\ TRUE \in Answers /\ Answers \subseteq BOOLEAN
    /\ MaxSamples \in Nat \ {0} /\ MaxFaults \in Nat /\ MaxNet \in Nat \ {0}

MAX_SEQ_NUMBER == MaxSeq + 1

VARIABLES
    wr,         \* the writer: whc, seq, seq_xmit, and of its match with the reader
                \* the acknowledged number and has_replied_to_hb
    rd,         \* the reader: proxy writer and match
    net,        \* messages on their way
    faults,
    first,      \* first sample owed to the reader
    delivered,
    replaced    \* samples the history gave up for later ones
vars == <<wr, rd, net, faults, first, delivered, replaced>>

Data(seq) == [type |-> "DATA", seq |-> seq]
Gap(start, end, bits) == [type |-> "GAP", start |-> start, end |-> end, bits |-> bits]
Heartbeat(min, max, ans) == [type |-> "HEARTBEAT", first |-> min, last |-> max, ans |-> ans]
AckNack(base, numbits, bits, pre) ==
    [type |-> "ACKNACK", base |-> base, numbits |-> numbits, bits |-> bits, preemptive |-> pre]

\* A history in which n samples were written without readers.
HistoryOf(info, n) ==
    LET f[i \in 0..n] == IF i = 0 \/ ~info.is_transient_local THEN whc_new(info)
                         ELSE whc_insert(f[i - 1], i, i, "k", FALSE)
    IN f[n]

Init ==
    /\ \E n \in Before, tlwr \in BOOLEAN, tlrd \in BOOLEAN, depth \in Depths :
          /\ tlrd => tlwr
          /\ wr = [whc |-> HistoryOf(whc_make_wrinfo(tlwr, depth, depth), n), seq |-> n,
                   seq_xmit |-> n, acked |-> n, has_replied_to_hb |-> FALSE, volatile |-> ~tlrd]
          /\ first = IF tlrd THEN 1 ELSE n + 1
          /\ replaced = (1..n) \ DOMAIN wr.whc.node
    /\ rd = [have_seen_heartbeat |-> FALSE, last_seq |-> 0,
             reorder |-> nn_reorder_new("NORMAL", MaxSamples),
             own |-> nn_reorder_new("NORMAL", MaxSamples),
             in_sync |-> "OUT_OF_SYNC", end_of_tl_seq |-> MAX_SEQ_NUMBER,
             heartbeat_since_ack |-> FALSE, ack_requested |-> FALSE,
             scheduled |-> TRUE, last_nack_end |-> 0]
    /\ net = {} /\ faults = 0 /\ delivered = <<>>

----------------------------------------------------------------------------
\* The writer.  A heartbeat of its own, not one in a packet of samples (issync,
\* which counts what is in that packet as transmitted).
add_Heartbeat(w, ans) ==
    LET st == whc_state(w.whc)
        max == IF w.seq_xmit < w.seq /\ ~w.whc.wrinfo.is_transient_local
               THEN Max({w.seq_xmit, st.min_seq - 1}) ELSE w.seq
    IN IF WHCST_ISEMPTY(st) THEN Heartbeat(w.seq + 1, w.seq, ans)
       ELSE Heartbeat(st.min_seq, max, ans)

Write ==
    /\ wr.seq < MaxSeq
    /\ LET seq == wr.seq + 1
           whc == whc_insert(wr.whc, wr.acked, seq, "k", FALSE)
       IN /\ wr' = [wr EXCEPT !.seq = seq, !.whc = whc]
          /\ replaced' = replaced \cup (DOMAIN wr.whc.node \ DOMAIN whc.node)
    /\ UNCHANGED <<rd, net, faults, first, delivered>>

\* The packet with the next sample goes out: nn_xpack_send.
Transmit ==
    /\ wr.seq_xmit < wr.seq
    /\ wr' = [wr EXCEPT !.seq_xmit = @ + 1]
    /\ net' = net \cup {Data(wr.seq_xmit + 1)}
    /\ UNCHANGED <<rd, faults, first, delivered, replaced>>

Room(type) == Cardinality({m \in net : m.type = type}) < MaxNet

must_have_hb_scheduled ==
    ~wr.has_replied_to_hb \/ wr.acked < whc_state(wr.whc).max_seq

\* By the timer, or with a sample, when it need not ask for an answer.
SendHeartbeat(ans) ==
    /\ must_have_hb_scheduled /\ Room("HEARTBEAT")
    /\ net' = net \cup {add_Heartbeat(wr, ans)}
    /\ UNCHANGED <<wr, rd, faults, first, delivered, replaced>>

grow_gap_to_next_seq(w, seq) ==
    LET next == whc_next_seq(w.whc, seq - 1)
    IN IF next = 0 THEN w.seq_xmit + 1 ELSE Min({next, w.seq_xmit})

\* The numbers that cannot be sent: a range, and a bitmap beyond it.
GapFor(w, m, lost) ==
    LET start == Min(lost)
        end == CHOOSE e \in (start + 1)..(Max(lost) + 1) : e \notin lost /\ start..(e - 1) \subseteq lost
    IN Gap(start, IF end = m.base + m.numbits THEN grow_gap_to_next_seq(w, end) ELSE end,
           {s \in lost : s > end})

\* Acknowledged numbers are dropped, what is asked for is sent again.  A
\* volatile reader gets no history, though the writer may still have it.  What
\* is sent beyond what is asked for is left out, and so are the limits on what
\* is sent: a retransmission that is put off or merged is asked for again.
handle_AckNack(m) ==
    LET acks == m.base - 1 > wr.acked
        acked == IF acks THEN Min({m.base - 1, wr.seq}) ELSE wr.acked
        w == [wr EXCEPT
                !.acked = acked,
                !.whc = IF acks THEN whc_remove_acked_messages(@, acked) ELSE @,
                !.has_replied_to_hb = @ \/ (m.bits = {} /\ m.base - 1 >= wr.acked)]
        min_seq_to_rexmit == IF w.volatile /\ m.base <= acked THEN acked + 1 ELSE 0
        asked == {s \in m.bits : s <= w.seq_xmit}
        found == {s \in asked : s >= min_seq_to_rexmit /\ s \in DOMAIN w.whc.node}
        gap == IF asked = found THEN {} ELSE {GapFor(w, m, asked \ found)}
        hb == IF m.preemptive \/ asked # {} THEN {add_Heartbeat(w, TRUE)} ELSE {}
    IN [wr |-> w, replies |-> {Data(s) : s \in found} \cup gap \cup hb]

----------------------------------------------------------------------------
\* The reader.  Each handler yields the reader's state and what is delivered.
Samples(sc) ==
    LET f[i \in 0..Len(sc)] == IF i = 0 THEN <<>>
                               ELSE IF sc[i] = 0 THEN f[i - 1] ELSE Append(f[i - 1], sc[i])
    IN f[Len(sc)]
Out(r, sc) == [rd |-> r, sc |-> Samples(sc)]

maybe_set_reader_in_sync(r, last_deliv_seq) ==
    LET catchup == \/ r.in_sync = "TLCATCHUP"
                   \/ /\ r.in_sync = "OUT_OF_SYNC" /\ r.have_seen_heartbeat
                      /\ r.own.next_seq = r.reorder.next_seq
    IN IF ~catchup THEN r
       ELSE [r EXCEPT !.in_sync = IF last_deliv_seq >= r.end_of_tl_seq THEN "SYNC" ELSE "TLCATCHUP"]

handle_regular(r, seq) ==
    LET all == nn_reorder_rsample(r.reorder, seq, FALSE)
        one == nn_reorder_rsample(r.own, seq, FALSE)
        r1 == [r EXCEPT !.last_seq = Max({@, seq}), !.reorder = all.reorder]
        r2 == [r1 EXCEPT !.own = one.reorder]
    IN CASE ~r.have_seen_heartbeat -> Out(r, <<>>)
         [] r.have_seen_heartbeat /\ r.in_sync = "SYNC" -> Out(r1, all.sc)
         [] OTHER -> Out(IF one.res = "DELIVER" THEN maybe_set_reader_in_sync(r2, seq) ELSE r2, one.sc)

handle_one_gap(r, a, b) ==
    LET all == nn_reorder_gap(r.reorder, a, b)
        one == nn_reorder_gap(r.own, a, b)
        r1 == [r EXCEPT !.reorder = all.reorder]
    IN CASE r.in_sync = "SYNC" -> Out(r1, all.sc)
         [] r.in_sync = "TLCATCHUP" -> Out(maybe_set_reader_in_sync(r1, b - 1), <<>>)
         [] OTHER -> Out(maybe_set_reader_in_sync([r1 EXCEPT !.own = one.reorder], b - 1), one.sc)

\* The range, then each run of consecutive numbers in the bitmap.
RunEnd(bits, a) == CHOOSE b \in {s + 1 : s \in bits} : a < b /\ a..(b - 1) \subseteq bits /\ b \notin bits
handle_Gap(r, m) ==
    LET Step(o, a, b) == LET p == handle_one_gap(o.rd, a, b) IN [rd |-> p.rd, sc |-> o.sc \o p.sc]
        none == Out(r, <<>>)
        last == Max({m.end - 1} \cup m.bits)
        f[s \in (m.end - 1)..last] ==
            IF s = m.end - 1 THEN IF m.start < m.end THEN Step(none, m.start, m.end) ELSE none
            ELSE IF s \in m.bits /\ s - 1 \notin m.bits THEN Step(f[s - 1], s, RunEnd(m.bits, s))
            ELSE f[s - 1]
    IN IF ~r.have_seen_heartbeat THEN none
       ELSE [f[last] EXCEPT !.rd.last_seq = Max({@, last})]

\* What is still missing: asked of the reader's own administration until it
\* has caught up with the proxy writer's.
add_AckNack_makebitmaps(r) ==
    LET reorder == IF r.in_sync = "OUT_OF_SYNC" THEN r.own ELSE r.reorder
    IN nn_reorder_nackmap(reorder, reorder.next_seq, r.last_seq, 256, FALSE)

\* Mutant: what was asked for is not asked for again.
get_AckNack_info_once(r) ==
    LET map == add_AckNack_makebitmaps(r)
        asked == r.heartbeat_since_ack /\ r.ack_requested
    IN IF map.numbits = 0 THEN IF asked THEN {"ACK"} ELSE {"SUPPRESSED_ACK"}
       ELSE IF map.base >= r.last_nack_end THEN {"NACK"}
       ELSE IF asked THEN {"SUPPRESSED_NACK"} ELSE {"SUPPRESSED_ACK"}

\* Until NackDelay has passed, what was asked for is not asked for again.  That
\* an AckNack without progress waits for the ack delay is left out.
get_AckNack_info(r) ==
    LET map == add_AckNack_makebitmaps(r)
        asked == r.heartbeat_since_ack /\ r.ack_requested
    IN IF map.numbits = 0 THEN IF asked THEN {"ACK"} ELSE {"SUPPRESSED_ACK"}
       ELSE {"NACK"} \cup IF asked /\ map.base < r.last_nack_end THEN {"SUPPRESSED_NACK"} ELSE {}

\* Mutant: starts the reader's own administration after the last number, too.
handle_Heartbeat_fastforward(r, m) ==
    LET end == IF r.have_seen_heartbeat THEN m.first ELSE m.last + 1
        all == nn_reorder_gap(r.reorder, 1, end)
        one == nn_reorder_gap(r.own, 1, end)
        r1 == [r EXCEPT !.have_seen_heartbeat = TRUE, !.last_seq = Max({@, m.last}),
                        !.reorder = all.reorder, !.own = one.reorder, !.end_of_tl_seq = m.last,
                        !.heartbeat_since_ack = TRUE, !.ack_requested = @ \/ m.ans]
    IN IF r.in_sync = "SYNC" THEN Out(r1, all.sc)
       ELSE Out(maybe_set_reader_in_sync(r1, all.reorder.next_seq - 1), one.sc)

\* The first heartbeat starts the proxy writer after its last number, and the
\* reader's own administration at its first.
handle_Heartbeat(r, m) ==
    LET all == nn_reorder_gap(r.reorder, 1, IF r.have_seen_heartbeat THEN m.first ELSE m.last + 1)
        one == nn_reorder_gap(r.own, 1, m.first)
        r1 == [r EXCEPT !.have_seen_heartbeat = TRUE, !.last_seq = Max({@, m.last}),
                        !.reorder = all.reorder,
                        !.end_of_tl_seq = IF r.in_sync # "SYNC" /\ @ = MAX_SEQ_NUMBER THEN m.last ELSE @,
                        !.heartbeat_since_ack = TRUE, !.ack_requested = @ \/ m.ans]
        o == CASE r.in_sync = "SYNC" -> Out(r1, all.sc)
               [] r.in_sync = "TLCATCHUP" ->
                    Out(maybe_set_reader_in_sync(r1, all.reorder.next_seq - 1), <<>>)
               [] OTHER ->
                    Out(maybe_set_reader_in_sync([r1 EXCEPT !.own = one.reorder], one.reorder.next_seq - 1), one.sc)
    IN [o EXCEPT !.rd.scheduled = @ \/ get_AckNack_info(o.rd) # {"SUPPRESSED_ACK"}]

\* handle_xevk_acknack: pre-emptive ones until the first heartbeat; a NACK
\* schedules the next, an ACK does not.
SendAckNack(result) ==
    LET map == add_AckNack_makebitmaps(rd)
        sends == result # "SUPPRESSED_ACK"
        bits == IF result = "NACK" THEN map.bits ELSE {}
        numbits == IF result = "NACK" THEN map.numbits ELSE 0
    IN /\ rd.scheduled /\ rd.have_seen_heartbeat /\ Room("ACKNACK")
       /\ result \in get_AckNack_info(rd)
       /\ rd' = [rd EXCEPT !.scheduled = result \in {"NACK", "SUPPRESSED_NACK"},
                           !.heartbeat_since_ack = @ /\ ~sends, !.ack_requested = @ /\ ~sends,
                           !.last_nack_end = IF result = "NACK" THEN map.base + map.numbits ELSE @]
       /\ net' = net \cup IF sends THEN {AckNack(map.base, numbits, bits, FALSE)} ELSE {}
       /\ UNCHANGED <<wr, faults, first, delivered, replaced>>

SendPreemptive ==
    /\ rd.scheduled /\ ~rd.have_seen_heartbeat /\ Room("ACKNACK")
    /\ net' = net \cup {AckNack(1, 0, {}, TRUE)}
    /\ UNCHANGED <<wr, rd, faults, first, delivered, replaced>>

----------------------------------------------------------------------------
Deliver(o) == rd' = o.rd /\ delivered' = delivered \o o.sc

\* A message arrives; kept, it will arrive again.
Receive(m, kept) ==
    /\ m \in net
    /\ kept => faults < MaxFaults
    /\ faults' = IF kept THEN faults + 1 ELSE faults
    /\ LET rest == IF kept THEN net ELSE net \ {m}
       IN IF m.type = "ACKNACK"
          THEN LET o == handle_AckNack(m)
               IN wr' = o.wr /\ net' = rest \cup o.replies /\ UNCHANGED <<rd, delivered>>
          ELSE /\ net' = rest /\ UNCHANGED wr
               /\ Deliver(CASE m.type = "DATA" -> handle_regular(rd, m.seq)
                            [] m.type = "GAP" -> handle_Gap(rd, m)
                            [] m.type = "HEARTBEAT" -> handle_Heartbeat(rd, m))
    /\ UNCHANGED <<first, replaced>>

Lose(m) ==
    /\ m \in net /\ faults < MaxFaults
    /\ net' = net \ {m} /\ faults' = faults + 1
    /\ UNCHANGED <<wr, rd, first, delivered, replaced>>

Next ==
    \/ Write \/ Transmit \/ SendPreemptive
    \/ \E ans \in Answers : SendHeartbeat(ans)
    \/ \E result \in {"ACK", "SUPPRESSED_ACK", "NACK", "SUPPRESSED_NACK"} : SendAckNack(result)
    \/ \E m \in net : Lose(m) \/ \E kept \in BOOLEAN : Receive(m, kept)

\* Timers go off, the one for a suppressed NACK when NackDelay has passed, and
\* messages arrive, but for the lost ones (weak fairness, its ENABLED written out).
Reply == SendPreemptive \/ SendAckNack("ACK") \/ SendAckNack("NACK")
ReceiveKind(type) == \E m \in net : m.type = type /\ Receive(m, FALSE)
Fairness ==
    /\ WF_vars(Transmit) /\ SF_vars(SendHeartbeat(TRUE)) /\ SF_vars(Reply)
    /\ \A type \in {"DATA", "GAP", "HEARTBEAT", "ACKNACK"} :
          []<>(\A m \in net : m.type # type) \/ []<><<ReceiveKind(type)>>_vars

Spec == Init /\ [][Next]_vars /\ Fairness
----------------------------------------------------------------------------
\* Whatever the network does, the reader is served as by a direct connection:
\* everything from the first sample owed to it on, in order, once, and in the
\* end; and nothing counts as acknowledged that was not delivered.
Stream == INSTANCE InOrderDelivery WITH
            first <- first, written <- wr.seq, delivered <- delivered, acked <- wr.acked
ImplementsDelivery == Stream!Spec

\* What the reader acknowledges it has delivered, or a later sample had taken
\* its place: "so that we can acknowledge what we have actually delivered"
\* (add_AckNack_getsource).
AckedMeansDelivered ==
    first..(add_AckNack_makebitmaps(rd).base - 1) \subseteq Range(delivered) \cup replaced
=============================================================================
