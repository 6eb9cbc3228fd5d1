------------------------------- MODULE Reorder -------------------------------
(***************************************************************************)
(* The reorder administration of a DDSI reader (nn_reorder, q_radmin.c):   *)
(* which sequence numbers of a writer may be delivered, are waiting, or    *)
(* have to be asked for again.  Pure operators on a record; ReorderBuffer  *)
(* feeds them everything the wire may bring, ReliableStream what a Cyclone *)
(* writer sends.                                                           *)
(***************************************************************************)
EXTENDS Integers, FiniteSets, Sequences, FiniteSetsExt

\* What nn_reorder_rsample and nn_reorder_gap return; DELIVER stands for the
\* positive results, the length of the chain to deliver.
Results == {"REJECT", "TOO_OLD", "ACCEPT", "DELIVER"}

\* An interval [min, maxp1) of the tree and the chain of samples in it.  A
\* chain element is a sequence number, or 0 for the element of a stored gap
\* (no sampleinfo); n_samples of the interval is the chain's length.
Interval(min, maxp1, sc) == [min |-> min, maxp1 |-> maxp1, sc |-> sc]
NoInterval == Interval(0, 0, <<>>)

nn_reorder_new(mode, max_samples) ==
    [mode |-> mode, max_samples |-> max_samples, next_seq |-> 1,
     ivs |-> {}, max_sampleiv |-> NoInterval, n_samples |-> 0]

\* The tree: least, greatest, at or before a sequence number, starting at one.
FindMin(ivs) == IF ivs = {} THEN NoInterval ELSE CHOOSE v \in ivs : \A w \in ivs : v.min <= w.min
FindMax(ivs) == IF ivs = {} THEN NoInterval ELSE CHOOSE v \in ivs : \A w \in ivs : v.min >= w.min
LookupPredEq(ivs, seq) == FindMax({v \in ivs : v.min <= seq})
Lookup(ivs, seq) == FindMax({v \in ivs : v.min = seq})

append_rsample_interval(a, b) == Interval(a.min, b.maxp1, a.sc \o b.sc)

Result(r, res, sc) == [reorder |-> r, res |-> res, sc |-> sc]
Refuse(r, res) == Result(r, res, <<>>)
Accept(r) == Result(r, "ACCEPT", <<>>)

\* The chain's last element goes, and with it one sequence number of the
\* interval; the count is not adjusted.
delete_last_sample(r) ==
    LET last == r.max_sampleiv
        rest == r.ivs \ {last}
        cut == Interval(last.min, last.maxp1 - 1, SubSeq(last.sc, 1, Len(last.sc) - 1))
    IN IF Len(last.sc) = 1
       THEN [r EXCEPT !.ivs = rest, !.max_sampleiv = FindMax(rest)]
       ELSE [r EXCEPT !.ivs = rest \cup {cut}, !.max_sampleiv = cut]

\* Mutant: counts although the last one is deleted.
CountAndDeleteLast(r) ==
    IF r.n_samples < r.max_samples THEN [r EXCEPT !.n_samples = @ + 1]
    ELSE [delete_last_sample(r) EXCEPT !.n_samples = @ + 1]

\* No more than max_samples, the lowest ones preferred.
CountOrDeleteLast(r) ==
    IF r.n_samples < r.max_samples THEN [r EXCEPT !.n_samples = @ + 1]
    ELSE delete_last_sample(r)

\* s is deliverable, and with it the first interval if s joins it.
DeliverSample(r, s) ==
    LET first == FindMin(r.ivs)
        joins == r.ivs # {} /\ s.maxp1 >= first.min
        got == IF joins THEN append_rsample_interval(s, first) ELSE s
    IN Result([r EXCEPT !.ivs = IF joins THEN @ \ {first} ELSE @,
                        !.max_sampleiv = IF joins /\ first = @ THEN NoInterval ELSE @,
                        !.next_seq = got.maxp1,
                        !.n_samples = @ - (Len(got.sc) - 1)],
              "DELIVER", got.sc)

AddAtEnd(r, iv, replaced) ==
    [r EXCEPT !.ivs = (@ \ {replaced}) \cup {iv}, !.max_sampleiv = iv, !.n_samples = @ + 1]

\* Mutant: what is there already is not refused.
InsertSampleAgain(r, s) ==
    LET predeq == LookupPredEq(r.ivs, s.min)
        grows == predeq # NoInterval /\ predeq.maxp1 >= s.min
        new == IF grows THEN append_rsample_interval(predeq, s) ELSE s
    IN Accept(CountOrDeleteLast(
              [r EXCEPT !.ivs = (@ \ {v \in {predeq} : grows}) \cup {new},
                        !.max_sampleiv = IF grows /\ @ = predeq THEN new ELSE @]))

\* Between next_seq and the end of the last interval.
InsertSample(r, s) ==
    LET predeq == LookupPredEq(r.ivs, s.min)
        immsucc == Lookup(r.ivs, s.maxp1)
        grows == predeq # NoInterval /\ predeq.maxp1 = s.min
        head == IF grows THEN append_rsample_interval(predeq, s) ELSE s
        new == IF immsucc # NoInterval THEN append_rsample_interval(head, immsucc) ELSE head
        used == {v \in {predeq, immsucc} : v = immsucc \/ grows}
    IN IF s.min < predeq.maxp1 THEN Refuse(r, "REJECT")
       ELSE Accept(CountOrDeleteLast(
              [r EXCEPT !.ivs = (@ \ used) \cup {new},
                        !.max_sampleiv = IF @ \in used THEN new ELSE @]))

\* delivery_queue_full is passed for per-reader administrations only;
\* late_ack_mode has its default, off.
nn_reorder_rsample(r, seq, delivery_queue_full) ==
    LET s == Interval(seq, seq + 1, <<seq>>)
        end == r.max_sampleiv.maxp1
        room == ~delivery_queue_full /\ r.n_samples < r.max_samples
    IN CASE \/ seq = r.next_seq \/ r.mode = "ALWAYS_DELIVER"
            \/ r.mode = "MONOTONICALLY_INCREASING" /\ seq > r.next_seq ->
              IF delivery_queue_full THEN Refuse(r, "REJECT") ELSE DeliverSample(r, s)
         [] r.mode # "ALWAYS_DELIVER" /\ seq < r.next_seq -> Refuse(r, "TOO_OLD")
         [] OTHER ->
              IF r.ivs = {} THEN IF r.max_samples = 0 THEN Refuse(r, "REJECT")
                                 ELSE Accept(AddAtEnd(r, s, NoInterval))
              ELSE IF seq < end THEN InsertSample(r, s)
              ELSE IF ~room THEN Refuse(r, "REJECT")
              ELSE IF seq = end
                   THEN Accept(AddAtEnd(r, append_rsample_interval(r.max_sampleiv, s), r.max_sampleiv))
                   ELSE Accept(AddAtEnd(r, s, NoInterval))

\* Mutant: also those a number away.
TouchingNearly(ivs, min, maxp1) == {v \in ivs : v.maxp1 + 1 >= min /\ v.min <= maxp1 + 1}

\* The intervals that overlap or touch [min, maxp1), as one interval.
Touching(ivs, min, maxp1) == {v \in ivs : v.maxp1 >= min /\ v.min <= maxp1}
ChainOf(ivs) ==
    LET f[vs \in SUBSET ivs] ==
          IF vs = {} THEN <<>> ELSE LET v == FindMin(vs) IN v.sc \o f[vs \ {v}]
    IN f[ivs]
coalesce_intervals_touching_range(ivs, min, maxp1) ==
    LET ts == Touching(ivs, min, maxp1)
    IN Interval(Min({min} \cup {v.min : v \in ts}), Max({maxp1} \cup {v.maxp1 : v \in ts}), ChainOf(ts))

\* The sequence numbers in [min, maxp1) are unavailable.
nn_reorder_gap(r, min, maxp1) ==
    LET ts == Touching(r.ivs, min, maxp1)
        new == coalesce_intervals_touching_range(r.ivs, min, maxp1)
        rest == r.ivs \ ts
        gap == Interval(min, maxp1, <<0>>)
        WithMax(q) == [q EXCEPT !.max_sampleiv = FindMax(q.ivs)]
    IN CASE maxp1 <= r.next_seq -> Refuse(r, "TOO_OLD")
         [] maxp1 > r.next_seq /\ r.mode # "NORMAL" -> Refuse(r, "REJECT")
         [] OTHER ->
              IF ts = {} THEN
                   IF min <= r.next_seq THEN Accept([r EXCEPT !.next_seq = maxp1])
                   ELSE IF /\ r.n_samples = r.max_samples
                           /\ r.max_sampleiv = NoInterval \/ min > r.max_sampleiv.maxp1
                        THEN Refuse(r, "REJECT")
                        ELSE Accept(WithMax(CountOrDeleteLast([r EXCEPT !.ivs = @ \cup {gap}])))
              ELSE IF new.min <= r.next_seq
                   THEN Result(WithMax([r EXCEPT !.ivs = rest, !.next_seq = new.maxp1,
                                                 !.n_samples = @ - Len(new.sc)]),
                               "DELIVER", new.sc)
                   ELSE Result(WithMax([r EXCEPT !.ivs = rest \cup {new}]),
                               IF ts = {new} THEN "REJECT" ELSE "ACCEPT", <<>>)

nn_reorder_wantsample(r, seq) ==
    seq >= r.next_seq /\ LookupPredEq(r.ivs, seq).maxp1 <= seq

\* Mutant: the stored intervals are not left out.
nackmap_of_all(r, from, maxseq, maxsz, notail) ==
    LET base == Min({from, r.next_seq})
        numbits == Min({maxsz, r.max_samples, Max({0, maxseq + 1 - base})})
    IN [base |-> base, numbits |-> numbits, bits |-> base .. (base + numbits - 1)]

\* What an AckNack asks for from base on: numbits sequence numbers, the ones
\* in bits missing.  maxsz is the protocol's bound, 256; notail stops at the
\* end of the last interval.
nn_reorder_nackmap(r, from, maxseq, maxsz, notail) ==
    LET base == Min({from, r.next_seq})
        numbits == Min({maxsz, r.max_samples, Max({0, maxseq + 1 - base})})
        known == UNION {v.min .. (v.maxp1 - 1) : v \in r.ivs}
        end == IF notail THEN Min({base + numbits, Max({base} \cup {v.maxp1 : v \in r.ivs})})
               ELSE base + numbits
    IN [base |-> base, numbits |-> end - base, bits |-> (base .. (end - 1)) \ known]
=============================================================================
