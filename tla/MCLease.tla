------------------------------ MODULE MCLease ------------------------------
(* Instances of Lease: two clients, a call timeout as long as the term and  *)
(* a sleep of about a third of it, as in the SDK (1.0 s, 1.0 s and 0.3 s).  *)
EXTENDS Lease

MCIds == 1..7
============================================================================
