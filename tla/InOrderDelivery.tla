--------------------------- MODULE InOrderDelivery ---------------------------
(***************************************************************************)
(* What a reader may rely on that is matched with a reliable KEEP_ALL      *)
(* writer: from the sample on that is owed to it first it gets everything, *)
(* in order and once, and the writer takes a sample for acknowledged only  *)
(* when the reader has it.                                                 *)
(***************************************************************************)
EXTENDS Integers, Sequences

CONSTANT MaxSeq             \* bound on the samples written

VARIABLES
    first,      \* number of the first sample owed to the reader
    written,    \* samples written so far
    delivered,  \* numbers delivered, in order of delivery
    acked       \* number up to which the writer takes them for acknowledged
vars == <<first, written, delivered, acked>>

has == first + Len(delivered) - 1       \* the last number the reader has

\* The writer takes what was written before the match for acknowledged.
Init ==
    /\ written \in 0..MaxSeq /\ acked = written
    /\ first \in {1, written + 1} /\ delivered = <<>>

Write ==
    /\ written < MaxSeq /\ written' = written + 1
    /\ UNCHANGED <<first, delivered, acked>>

Deliver(n) ==
    /\ n \in 1..(written - has)
    /\ delivered' = delivered \o [i \in 1..n |-> has + i]
    /\ UNCHANGED <<first, written, acked>>

Acknowledge(seq) ==
    /\ acked < seq /\ seq <= has
    /\ acked' = seq
    /\ UNCHANGED <<first, written, delivered>>

DeliverSome == \E n \in 1..MaxSeq : Deliver(n)
AcknowledgeSome == \E seq \in 1..MaxSeq : Acknowledge(seq)
Next == Write \/ DeliverSome \/ AcknowledgeSome

Spec == Init /\ [][Next]_vars /\ WF_vars(DeliverSome) /\ WF_vars(AcknowledgeSome)
=============================================================================
