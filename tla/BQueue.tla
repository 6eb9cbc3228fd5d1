------------------------------- MODULE BQueue -------------------------------
(***************************************************************************)
(* The SDK's bounded queue (utils/bqueue.py) as operators on sequences.    *)
(* Every method runs under the queue's one lock, so each is one step; the  *)
(* field __curLen is the length of the sequence.                           *)
(***************************************************************************)
EXTENDS Integers, Sequences

\* Put: a full queue refuses x, or makes room by dropping its oldest entry.
Put(q, x, replace, maxLen) ==
    IF Len(q) < maxLen THEN Append(q, x)
    ELSE IF replace THEN Append(Tail(q), x)
    ELSE q

\* Get: the entry at the front; a reader waits while there is none.
GetNewest(q) == [item |-> q[Len(q)], rest |-> SubSeq(q, 1, Len(q) - 1)]
Get(q) == [item |-> Head(q), rest |-> Tail(q)]
=============================================================================
