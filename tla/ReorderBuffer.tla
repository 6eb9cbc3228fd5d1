---------------------------- MODULE ReorderBuffer ----------------------------
(***************************************************************************)
(* One reorder administration under everything the wire may bring it:      *)
(* samples in any order, any number of times, gaps and heartbeats, as the  *)
(* receive threads pass them on under the proxy writer's lock              *)
(* (handle_regular, handle_one_gap, handle_Heartbeat).                     *)
(***************************************************************************)
EXTENDS Reorder

CONSTANTS
    MaxSeq,             \* bound on the sequence numbers
    MaxSamples,         \* max_samples of the administration
    Modes               \* the modes it may be created in

ASSUME ReorderAssumption ==
    /\ MaxSeq \in Nat \ {0} /\ MaxSamples \in Nat
    /\ Modes \subseteq {"NORMAL", "MONOTONICALLY_INCREASING", "ALWAYS_DELIVER"}

VARIABLES
    reorder,
    last_seq,       \* highest sequence number known to exist
    unavailable,    \* numbers a gap or a heartbeat has declared unavailable
    delivered       \* what was handed to the readers so far, 0 for a gap
vars == <<reorder, last_seq, unavailable, delivered>>

Seqs == 1..MaxSeq

Init ==
    /\ \E mode \in Modes : reorder = nn_reorder_new(mode, MaxSamples)
    /\ last_seq = 0 /\ unavailable = {} /\ delivered = <<>>

\* The chain is handed to the readers, who skip the element of a gap, 0.
Apply(result) ==
    /\ reorder' = result.reorder
    /\ delivered' = delivered \o result.sc

Sample(seq) ==
    /\ \E full \in BOOLEAN : Apply(nn_reorder_rsample(reorder, seq, full))
    /\ last_seq' = Max({last_seq, seq})
    /\ UNCHANGED unavailable

Window == reorder.next_seq .. (reorder.next_seq + MaxSamples - 1)

\* A Cyclone writer's gaps begin at a number that was asked for.
Gap(min, maxp1) ==
    /\ min \in Window
    /\ Apply(nn_reorder_gap(reorder, min, maxp1))
    /\ last_seq' = Max({last_seq, maxp1 - 1})
    /\ unavailable' = unavailable \cup min..(maxp1 - 1)

Heartbeat(first, last) ==
    /\ Apply(nn_reorder_gap(reorder, 1, first))
    /\ last_seq' = Max({last_seq, last})
    /\ unavailable' = unavailable \cup 1..(first - 1)

Next ==
    \/ \E seq \in Seqs : Sample(seq)
    \/ \E min \in Seqs, maxp1 \in 2..(MaxSeq + 1) : min < maxp1 /\ Gap(min, maxp1)
    \/ \E first \in Seqs, last \in 0..MaxSeq : first <= last + 1 /\ Heartbeat(first, last)

Spec == Init /\ [][Next]_vars

----------------------------------------------------------------------------
Stored == (UNION {{v.sc[i] : i \in 1..Len(v.sc)} : v \in reorder.ivs}) \ {0}
Normal == reorder.mode = "NORMAL"

\* What nn_reorder_rsample asserts on entry and the tree's intervals promise:
\* they are disjoint, not consecutive and beyond next_seq, max_sampleiv is the
\* last of them, and the count is that of the chains and within max_samples,
\* whatever mixture of joins, gaps and evictions led here.
TreeIsSound ==
    /\ reorder.max_sampleiv = FindMax(reorder.ivs)
    /\ \A v \in reorder.ivs :
          /\ reorder.next_seq < v.min
          /\ v.min + Len(v.sc) <= v.maxp1
          /\ \A w \in reorder.ivs : v.min < w.min => v.maxp1 < w.min
    /\ reorder.n_samples = Len(ChainOf(reorder.ivs))
    /\ reorder.n_samples <= reorder.max_samples

\* Readers get a writer's samples in order and none of them twice, however
\* often and in whatever order they arrive.
InOrder ==
    reorder.mode # "ALWAYS_DELIVER" =>
        \A i, j \in DOMAIN delivered :
            i < j /\ delivered[i] # 0 /\ delivered[j] # 0 => delivered[i] < delivered[j]

\* A number is passed over only if it was declared unavailable: a gap, a join
\* or an eviction of the last sample never moves next_seq across a sample the
\* writer still offers, for "all known missing ones are nack'd" instead
\* (add_AckNack_makebitmaps).
SkipsOnlyTheUnavailable ==
    Normal => \A seq \in 1..(reorder.next_seq - 1) :
        seq \in unavailable \/ \E i \in DOMAIN delivered : delivered[i] = seq

\* A NACK asks for nothing that is already here or already known to be
\* unavailable and still stored as such.
NacksAreWanted ==
    LET map == nn_reorder_nackmap(reorder, reorder.next_seq, last_seq, 256, FALSE)
    IN \A seq \in map.bits : seq \notin Stored /\ nn_reorder_wantsample(reorder, seq)
=============================================================================
