------------------------------- MODULE History -------------------------------
(***************************************************************************)
(* The default writer history cache of Cyclone DDS (whc_impl, dds_whc.c)   *)
(* as operators on a record: the samples a writer keeps for readers that   *)
(* have not acknowledged them, and for late joiners.  Samples have unit    *)
(* size.  The interval tree and the hash over sequence numbers are indices *)
(* on DOMAIN node and are left out; the per-instance index is a circular   *)
(* array as in the code, 0 for a null entry.  Writers without deadline.    *)
(***************************************************************************)
EXTENDS Integers, FiniteSets, Sequences, FiniteSetsExt, Functions

\* A map with an entry added.
Bind(f, x, v) == [y \in DOMAIN f \cup {x} |-> IF y = x THEN v ELSE f[y]]

\* hdepth, sdepth: history depth of the writer and of its durability service,
\* 0 for KEEP_ALL.
whc_make_wrinfo(is_transient_local, hdepth, sdepth) ==
    LET tldepth == IF is_transient_local THEN sdepth ELSE 0
    IN [is_transient_local |-> is_transient_local, hdepth |-> hdepth,
        tldepth |-> tldepth, idxdepth |-> Max({hdepth, tldepth})]

whc_new(wrinfo) ==
    [wrinfo |-> wrinfo, node |-> <<>>, idx |-> <<>>,
     max_drop_seq |-> 0, maxseq_node |-> 0, unacked_bytes |-> 0]

FindMaxSeq(node) == Max({0} \cup DOMAIN node)

\* get_state_locked
whc_state(whc) ==
    IF DOMAIN whc.node = {} THEN [min_seq |-> 0, max_seq |-> 0, unacked_bytes |-> 0]
    ELSE [min_seq |-> Min(DOMAIN whc.node), max_seq |-> whc.maxseq_node,
          unacked_bytes |-> whc.unacked_bytes]
WHCST_ISEMPTY(st) == st.max_seq = 0

\* The first stored sample after seq; 0 stands for MAX_SEQ_NUMBER, none.
whc_next_seq(whc, seq) ==
    LET later == {s \in DOMAIN whc.node : s > seq}
    IN IF later = {} THEN 0 ELSE Min(later)

----------------------------------------------------------------------------
\* delete_one_sample_from_idx, for each sample of a set.
delete_from_idx(idxn, seqs) ==
    [idxn EXCEPT !.hist = [p \in DOMAIN @ |-> IF @[p] \in seqs THEN 0 ELSE @[p]]]

\* Mutant: unacked_bytes is not adjusted.
whc_delete_uncounted(whc, seqs) ==
    [whc EXCEPT
        !.node = Restrict(@, DOMAIN @ \ seqs),
        !.idx = [k \in DOMAIN @ |-> delete_from_idx(@[k], seqs)]]

\* whc_delete_one and whc_delete_one_intv, for each sample of a set.
whc_delete(whc, seqs) ==
    [whc EXCEPT
        !.node = Restrict(@, DOMAIN @ \ seqs),
        !.idx = [k \in DOMAIN @ |-> delete_from_idx(@[k], seqs)],
        !.unacked_bytes = @ - Cardinality({s \in seqs : whc.node[s].unacked})]

WithMaxSeq(whc) == [whc EXCEPT !.maxseq_node = FindMaxSeq(whc.node)]

ClearUnacked(whc, seqs) ==
    [whc EXCEPT
        !.node = [s \in DOMAIN @ |-> IF s \in seqs THEN [@[s] EXCEPT !.unacked = FALSE] ELSE @[s]],
        !.unacked_bytes = @ - Cardinality({s \in seqs : whc.node[s].unacked})]

\* Mutant: one sample short.
whcn_in_tlidx_short(whc, seq) ==
    LET k == whc.node[seq].key
    IN /\ k \in DOMAIN whc.idx
       /\ \E p \in DOMAIN whc.idx[k].hist :
             /\ whc.idx[k].hist[p] = seq
             /\ (whc.idx[k].headidx - p) % whc.wrinfo.idxdepth < whc.wrinfo.tldepth - 1

\* Among the tldepth most recent entries of its instance.
whcn_in_tlidx(whc, seq) ==
    LET k == whc.node[seq].key
        idxdepth == whc.wrinfo.idxdepth
    IN /\ k \in DOMAIN whc.idx
       /\ \E p \in DOMAIN whc.idx[k].hist :
             /\ whc.idx[k].hist[p] = seq
             /\ (whc.idx[k].headidx - p) % idxdepth < whc.wrinfo.tldepth

\* The entries of an instance older than the transient-local history.
BeyondTl(whc, k) ==
    {whc.idx[k].hist[(whc.idx[k].headidx + i) % whc.wrinfo.idxdepth] :
        i \in 1..(whc.wrinfo.idxdepth - whc.wrinfo.tldepth)} \ {0}

\* open_intv: the last of the runs of consecutive numbers in the cache.
OpenMin(node) == Min({s \in DOMAIN node : s..FindMaxSeq(node) \subseteq DOMAIN node})

\* Without index there is taken to be that run only, all of it unacked.
whc_remove_acked_messages_noidx(whc, max_drop_seq) ==
    LET first == OpenMin(whc.node)
        last == IF max_drop_seq \in DOMAIN whc.node THEN max_drop_seq ELSE whc.maxseq_node
        rest == Restrict(whc.node, DOMAIN whc.node \ first..last)
        Moved(w) == [w EXCEPT !.max_drop_seq = Max({@, max_drop_seq})]
    IN IF \/ max_drop_seq <= whc.max_drop_seq \/ whc.maxseq_node = 0
          \/ max_drop_seq < first
       THEN Moved(whc)
       ELSE Moved([whc EXCEPT !.node = rest,
                              !.maxseq_node = IF last = @ THEN 0 ELSE @,
                              !.unacked_bytes = @ - (last - first + 1)])

whc_remove_acked_messages_full(whc, max_drop_seq) ==
    LET acked == {s \in DOMAIN whc.node : whc.max_drop_seq < s /\ s <= max_drop_seq}
        keep == {s \in acked : whcn_in_tlidx(whc, s)}
        kept == whc_delete(ClearUnacked(whc, keep), acked \ keep)
        prune == IF whc.wrinfo.tldepth > 0 /\ whc.wrinfo.idxdepth > whc.wrinfo.tldepth
                 THEN UNION {BeyondTl(kept, whc.node[s].key) : s \in keep} ELSE {}
        keepall == whc.wrinfo.is_transient_local /\ whc.wrinfo.tldepth = 0
    IN [(IF keepall THEN ClearUnacked(whc, acked) ELSE WithMaxSeq(whc_delete(kept, prune)))
          EXCEPT !.max_drop_seq = max_drop_seq]

whc_remove_acked_messages(whc, max_drop_seq) ==
    IF whc.wrinfo.idxdepth = 0 /\ ~whc.wrinfo.is_transient_local
    THEN whc_remove_acked_messages_noidx(whc, max_drop_seq)
    ELSE whc_remove_acked_messages_full(whc, max_drop_seq)

----------------------------------------------------------------------------
whc_insert_seq(whc, max_drop_seq, seq, key) ==
    LET unacked == seq > max_drop_seq
    IN [whc EXCEPT !.node = Bind(@, seq, [key |-> key, unacked |-> unacked, borrowed |-> FALSE]),
                   !.maxseq_node = seq,
                   !.unacked_bytes = @ + IF unacked THEN 1 ELSE 0]

\* An unregister that nobody has to be told of is not kept.
DropNew(whc, max_drop_seq, seq) ==
    IF seq <= max_drop_seq THEN WithMaxSeq(whc_delete(whc, {seq})) ELSE whc

\* The instance's entries leave the index, those acknowledged also the cache.
delete_one_instance_from_idx(whc, max_drop_seq, key) ==
    LET entries == {whc.idx[key].hist[p] : p \in DOMAIN whc.idx[key].hist} \ {0}
    IN whc_delete([whc EXCEPT !.idx = Restrict(@, DOMAIN @ \ {key})],
                  {s \in entries : s <= max_drop_seq})

\* Mutant: no pruning when the new sample is acknowledged at once.
AddWithoutPruning(whc, max_drop_seq, seq, key) ==
    LET info == whc.wrinfo
        head == (whc.idx[key].headidx + 1) % info.idxdepth
        oldn == whc.idx[key].hist[head]
        added == [whc EXCEPT !.idx[key] = [headidx |-> head, hist |-> [@.hist EXCEPT ![head] = seq]]]
    IN IF oldn # 0 /\ (info.hdepth > 0 \/ oldn <= max_drop_seq) /\ (~info.is_transient_local \/ info.tldepth > 0)
       THEN whc_delete(added, {oldn}) ELSE added

\* A further sample of a registered instance takes the place of its oldest.
AddToInstance(whc, max_drop_seq, seq, key) ==
    LET info == whc.wrinfo
        head == (whc.idx[key].headidx + 1) % info.idxdepth
        oldn == whc.idx[key].hist[head]
        added == [whc EXCEPT !.idx[key] = [headidx |-> head, hist |-> [@.hist EXCEPT ![head] = seq]]]
        overwrite == /\ oldn # 0
                     /\ info.hdepth > 0 \/ oldn <= max_drop_seq
                     /\ ~info.is_transient_local \/ info.tldepth > 0
        whc1 == IF overwrite THEN whc_delete(added, {oldn}) ELSE added
        tail == whc1.idx[key].hist[(head + info.idxdepth - info.tldepth) % info.idxdepth]
    IN IF /\ seq <= max_drop_seq /\ info.tldepth > 0 /\ info.idxdepth > info.tldepth
          /\ tail # 0
       THEN whc_delete(whc1, {tail}) ELSE whc1

whc_insert(whc, max_drop_seq, seq, key, unregister) ==
    LET new == whc_insert_seq(whc, max_drop_seq, seq, key)
        depth == whc.wrinfo.idxdepth
        entry == [headidx |-> 0, hist |-> [p \in 0..(depth - 1) |-> IF p = 0 THEN seq ELSE 0]]
    IN IF unregister
       THEN DropNew(IF key \in DOMAIN whc.idx
                    THEN delete_one_instance_from_idx(new, max_drop_seq, key) ELSE new,
                    max_drop_seq, seq)
       ELSE IF key \notin DOMAIN whc.idx THEN [new EXCEPT !.idx = Bind(@, key, entry)]
       ELSE IF depth > 0 THEN AddToInstance(new, max_drop_seq, seq, key)
       ELSE new
=============================================================================
