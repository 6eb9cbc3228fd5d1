----------------------------- MODULE RemoteCall -----------------------------
(***************************************************************************)
(* What the SDK's rpc layer promises its callers, with nothing of futures, *)
(* queues, threads or topics left: a call is served at most once; it       *)
(* reports the server's answer only after the server gave it, reports a    *)
(* send error only if the server never gets the request, and in any case   *)
(* returns.  A call that timed out may still be served afterwards.         *)
(***************************************************************************)
EXTENDS Sequences

CONSTANTS Calls, Answers

VARIABLES
    outcome,   \* per call: not made, open, or what it returned
    served     \* per call: the answers the server has given to it

vars == <<outcome, served>>

Unanswered == {"send_error", "timeout", "sent"}

Init ==
    /\ outcome = [r \in Calls |-> "none"]
    /\ served = [r \in Calls |-> <<>>]

Issue(r) ==
    /\ outcome[r] = "none"
    /\ outcome' = [outcome EXCEPT ![r] = "open"]
    /\ UNCHANGED served

Serve(r) ==
    /\ outcome[r] \notin {"none", "send_error"}
    /\ served[r] = <<>>
    /\ \E a \in Answers : served' = [served EXCEPT ![r] = <<a>>]
    /\ UNCHANGED outcome

Return(r) ==
    /\ outcome[r] = "open"
    /\ \E a \in Answers \cup Unanswered :
          /\ a \in Answers => served[r] = <<a>>
          /\ a = "send_error" => served[r] = <<>>
          /\ outcome' = [outcome EXCEPT ![r] = a]
    /\ UNCHANGED served

Next == \E r \in Calls : Issue(r) \/ Serve(r) \/ Return(r)

Safety == Init /\ [][Next]_vars
Spec == Safety /\ \A r \in Calls : WF_vars(Return(r))
=============================================================================
