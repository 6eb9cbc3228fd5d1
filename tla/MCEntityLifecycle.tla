------------------------- MODULE MCEntityLifecycle -------------------------
(* Trees of entities: 1 is the participant, 2 and 6 are its topics, 3 is a  *)
(* subscriber and 4 and 5 are its readers, both of topic 2.                 *)
EXTENDS EntityLifecycle, TLC

CONSTANT Present

MCKind == [e \in Present |->
    <<"participant", "topic", "subscriber", "reader", "reader", "topic">>[e]]
MCParent == [e \in Present |-> <<0, 1, 1, 3, 3, 1>>[e]]
MCTopicOf == [e \in Present \cap {4, 5} |-> 2]

\* Two readers with a subscriber of their own or with an implicit one.
Readers2 == {
    [implicit |-> {}, deletable |-> {1, 3, 4, 5}, usable |-> {1, 3, 4}],
    [implicit |-> {3}, deletable |-> {2, 4, 5}, usable |-> {2, 3, 4}]}

\* A reader is created with an implicit subscriber.
NewReader == {[implicit |-> {3}, deletable |-> {1, 3}, usable |-> {}]}

\* A participant and its topics are deleted.
Siblings == {[implicit |-> {}, deletable |-> Present, usable |-> {}]}

ThreadSymmetry == Permutations(Threads)
============================================================================
