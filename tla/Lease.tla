------------------------------- MODULE Lease -------------------------------
(***************************************************************************)
(* The lease of the Unitree SDK's rpc layer: LeaseServer                   *)
(* (rpc/lease_server.py) grants one client the right to call the           *)
(* lease-checked APIs of a Server, LeaseClient (rpc/lease_client.py)       *)
(* applies for it and renews it from a thread of its own, and Client       *)
(* (rpc/client.py) stamps the id it last obtained on every request.        *)
(*                                                                         *)
(* Time is discrete.  Instead of the wall clock each deadline is an age or *)
(* a countdown that Tick advances, so that behaviours of any length have   *)
(* finitely many states; ages stop at Term + 1, where a lease has expired. *)
(* A lease id is the server's clock in microseconds: here, an id that      *)
(* nobody remembers any more.                                              *)
(***************************************************************************)
EXTENDS Integers, FiniteSets

CONSTANTS
    Clients,
    Ids,         \* lease ids; 0 is "no lease"
    Term,        \* lease term
    RenewWait,   \* what the lease thread sleeps: 0.3 of the term
    Timeout,     \* of a call of the lease client
    MaxDelay,    \* longest time a message is under way
    MaxLoss,     \* messages that may be lost
    MaxCrash     \* clients that may stop

ASSUME LeaseAssumption ==
    /\ Term \in Nat \ {0} /\ RenewWait \in Nat /\ Timeout \in Nat \ {0}
    /\ MaxDelay \in Nat /\ MaxLoss \in Nat /\ MaxCrash \in Nat
    /\ Ids \subseteq Nat \ {0}

VARIABLES
    cache,    \* LeaseCache: the id, and the age of lastModified
    ctx,      \* per client, the id in its LeaseContext
    pc,       \* per client, where its lease thread is
    timer,    \* per client, what is left of its sleep or its call's timeout
    net,      \* messages under way
    exec,     \* clients whose request passed the check and is being handled
    asked,    \* per client, age of the lease thread's current call
    acked,    \* per client, age of its last call that succeeded
    lost      \* messages lost so far

vars == <<cache, ctx, pc, timer, net, exec, asked, acked, lost>>

Expired == Term + 1
Older(a) == IF a < Expired THEN a + 1 ELSE a

Requests == {"apply", "renewal", "call"}
Answers == {"granted", "exist", "renewed", "not_exist"}
Messages == [type : Requests \cup Answers, client : Clients, id : Ids \cup {0},
             ttl : 0..MaxDelay, awaited : BOOLEAN]

Msg(type, c, id, awaited) ==
    [type |-> type, client |-> c, id |-> id, ttl |-> MaxDelay, awaited |-> awaited]

Init ==
    /\ cache = [id |-> 0, age |-> Expired]
    /\ ctx = [c \in Clients |-> 0]
    /\ pc = [c \in Clients |-> "loop"]
    /\ timer = [c \in Clients |-> 0]
    /\ net = {}
    /\ exec = {}
    /\ asked = [c \in Clients |-> Expired]
    /\ acked = [c \in Clients |-> Expired]
    /\ lost = 0

----------------------------------------------------------------------------
(* LeaseClient's thread.                                                    *)

\* __ThreadFunc: renew a lease it has, otherwise apply for one.
ThreadFunc(c) ==
    LET type == IF ctx[c] # 0 THEN "renewal" ELSE "apply"
    IN  /\ pc[c] = "loop"
        /\ pc' = [pc EXCEPT ![c] = type]
        /\ timer' = [timer EXCEPT ![c] = Timeout]
        /\ asked' = [asked EXCEPT ![c] = 0]
        /\ net' = net \cup {Msg(type, c, ctx[c], TRUE)}
        /\ UNCHANGED <<cache, ctx, exec, acked, lost>>

\* time.sleep(__GetWaitSec()) after either call, whatever came of it.
SleepWholeTerm(c) ==
    /\ pc' = [pc EXCEPT ![c] = "sleep"]
    /\ timer' = [timer EXCEPT ![c] = Term]
Sleep(c) ==
    /\ pc' = [pc EXCEPT ![c] = "sleep"]
    /\ timer' = [timer EXCEPT ![c] = RenewWait]

Wake(c) ==
    /\ pc[c] = "sleep" /\ timer[c] = 0
    /\ pc' = [pc EXCEPT ![c] = "loop"]
    /\ UNCHANGED <<cache, ctx, timer, net, exec, asked, acked, lost>>

\* __Apply and __Renewal after _CallBase returned with the server's answer.
\* Only "not_exist" makes the client forget its lease.
KeptLeaseMinusOne(c, m) ==
    IF m.type = "granted" THEN m.id
    ELSE IF m.type = "not_exist" THEN -1
    ELSE ctx[c]
KeptLease(c, m) ==
    IF m.type = "granted" THEN m.id
    ELSE IF m.type = "not_exist" THEN 0
    ELSE ctx[c]

CallAnswered(c) ==
    /\ pc[c] \in {"apply", "renewal"}
    /\ \E m \in net :
          /\ m.client = c /\ m.awaited
          /\ m.type \in Answers
          /\ net' = net \ {m}
          /\ ctx' = [ctx EXCEPT ![c] = KeptLease(c, m)]
          /\ acked' = [acked EXCEPT ![c] =
                IF m.type \in {"granted", "renewed"} THEN asked[c] ELSE @]
    /\ Sleep(c)
    /\ UNCHANGED <<cache, exec, asked, lost>>

\* The call timed out: its future is abandoned, a later answer finds nobody.
NotAwaited(c) ==
    {IF m.client = c /\ m.type # "call" THEN [m EXCEPT !.awaited = FALSE] ELSE m :
        m \in net}

CallTimedOut(c) ==
    /\ pc[c] \in {"apply", "renewal"} /\ timer[c] = 0
    /\ net' = NotAwaited(c)
    /\ Sleep(c)
    /\ UNCHANGED <<cache, ctx, exec, asked, acked, lost>>

LateAnswer(c) ==
    /\ \E m \in net :
          /\ m.client = c /\ ~m.awaited /\ m.type \in Answers
          /\ net' = net \ {m}
    /\ UNCHANGED <<cache, ctx, pc, timer, exec, asked, acked, lost>>

\* The client's process ends; the server is not told.
Crash(c) ==
    /\ pc[c] # "crashed"
    /\ Cardinality({d \in Clients : pc[d] = "crashed"}) < MaxCrash
    /\ pc' = [pc EXCEPT ![c] = "crashed"]
    /\ timer' = [timer EXCEPT ![c] = 0]
    /\ ctx' = [ctx EXCEPT ![c] = 0]
    /\ net' = NotAwaited(c)
    /\ UNCHANGED <<cache, exec, asked, acked, lost>>

----------------------------------------------------------------------------
(* LeaseServer: one thread takes the requests of its queue.                 *)

LeaseExpired == cache.age > Term

Remembered == {cache.id} \cup {ctx[c] : c \in Clients} \cup {m.id : m \in net}
FreshId == CHOOSE i \in Ids : i \notin Remembered

Answer(m, type, id) == net' = (net \ {m}) \cup {Msg(type, m.client, id, m.awaited)}

\* __Apply: a free or expired lease is granted, any other one refused; the
\* name of the applicant is stored and never compared.
ApplyFree(i) == cache' = [id |-> i, age |-> 0]

GrantableAlways == TRUE
GrantableOnlyFree == cache.id = 0
Grantable == cache.id = 0 \/ LeaseExpired

ServerApply(c) ==
    \E m \in net :
        /\ m.type = "apply" /\ m.client = c
        /\ \/ /\ Grantable
              /\ FreshId \in Ids \ Remembered
              /\ ApplyFree(FreshId)
              /\ Answer(m, "granted", FreshId)
           \/ /\ ~Grantable
              /\ Answer(m, "exist", 0)
              /\ UNCHANGED cache
        /\ UNCHANGED <<ctx, pc, timer, exec, asked, acked, lost>>

Cleared == [id |-> 0, age |-> Expired]

\* __Renewal.
ServerRenewal(c) ==
    \E m \in net :
        /\ m.type = "renewal" /\ m.client = c
        /\ \/ /\ cache.id # m.id
              /\ Answer(m, "not_exist", m.id)
              /\ UNCHANGED cache
           \/ /\ cache.id = m.id /\ LeaseExpired
              /\ cache' = Cleared
              /\ Answer(m, "not_exist", m.id)
           \/ /\ cache.id = m.id /\ ~LeaseExpired
              /\ cache' = [cache EXCEPT !.age = 0]
              /\ Answer(m, "renewed", m.id)
        /\ UNCHANGED <<ctx, pc, timer, exec, asked, acked, lost>>

----------------------------------------------------------------------------
(* The application calls a lease-checked API; Server handles it.            *)

\* _Call: __CheckApi reads the lease id, then the request is sent with it;
\* what the caller makes of the answer does not matter here.
Call(c) ==
    /\ pc[c] # "crashed" /\ c \notin exec
    /\ \A m \in net : m.type = "call" => m.client # c
    /\ net' = net \cup {Msg("call", c, ctx[c], TRUE)}
    /\ UNCHANGED <<cache, ctx, pc, timer, exec, asked, acked, lost>>

\* CheckRequestLeaseDenied: no lease admits requests without one; an expired
\* lease is cleared and admits the request that found it, whoever sent it.
DeniedUnlessLeased(id) == cache.id = 0 /\ id # 0
Denied(id) ==
    /\ cache.id # id
    /\ cache.id = 0 \/ ~LeaseExpired

CacheAfterCheck == IF cache.id # 0 /\ LeaseExpired THEN Cleared ELSE cache

ServerCheck(c) ==
    \E m \in net :
        /\ m.type = "call" /\ m.client = c
        /\ net' = net \ {m}
        /\ cache' = CacheAfterCheck
        /\ exec' = IF Denied(m.id) THEN exec ELSE exec \cup {m.client}
        /\ UNCHANGED <<ctx, pc, timer, asked, acked, lost>>

\* The handler, which runs outside the lock of the check, returns.
ServerHandled(c) ==
    /\ c \in exec
    /\ exec' = exec \ {c}
    /\ UNCHANGED <<cache, ctx, pc, timer, net, asked, acked, lost>>

----------------------------------------------------------------------------
(* The network and time.                                                    *)

Lose ==
    /\ lost < MaxLoss
    /\ \E m \in net :
          /\ m.type # "call"
          /\ net' = net \ {m}
    /\ lost' = lost + 1
    /\ UNCHANGED <<cache, ctx, pc, timer, exec, asked, acked>>

\* Time passes once nothing is overdue: no message at the end of its delay,
\* no thread whose timer has run out.
Tick ==
    /\ \A m \in net : m.ttl > 0
    /\ \A c \in Clients :
          pc[c] # "crashed" => pc[c] # "loop" /\ timer[c] > 0
    /\ net' = {[m EXCEPT !.ttl = @ - 1] : m \in net}
    /\ timer' = [c \in Clients |-> IF timer[c] > 0 THEN timer[c] - 1 ELSE 0]
    /\ cache' = [cache EXCEPT !.age = Older(@)]
    /\ asked' = [c \in Clients |-> Older(asked[c])]
    /\ acked' = [c \in Clients |-> Older(acked[c])]
    /\ UNCHANGED <<ctx, pc, exec, lost>>

LeaseThread(c) == ThreadFunc(c) \/ Wake(c) \/ CallAnswered(c) \/ CallTimedOut(c)

Server(c) ==
    \/ ServerApply(c) \/ ServerRenewal(c) \/ ServerCheck(c) \/ ServerHandled(c)

Next ==
    \/ \E c \in Clients : LeaseThread(c) \/ LateAnswer(c) \/ Call(c) \/ Crash(c)
    \/ \E c \in Clients : Server(c)
    \/ Lose
    \/ Tick

\* The threads of a live client, the queue threads of the server, which take
\* requests in order, and time go on; nobody has to call, crash or lose.
Fairness ==
    /\ \A c \in Clients :
          /\ WF_vars(LeaseThread(c)) /\ WF_vars(LateAnswer(c))
          /\ WF_vars(ServerApply(c)) /\ WF_vars(ServerRenewal(c))
          /\ WF_vars(ServerCheck(c)) /\ WF_vars(ServerHandled(c))
    /\ WF_vars(Tick)

Spec == Init /\ [][Next]_vars /\ Fairness

----------------------------------------------------------------------------
\* Ids, ages, timers and messages have their types; ages stop at Expired.
TypeOK ==
    /\ cache \in [id : Ids \cup {0}, age : 0..Expired]
    /\ ctx \in [Clients -> Ids \cup {0}]
    /\ pc \in [Clients -> {"loop", "apply", "renewal", "sleep", "crashed"}]
    /\ timer \in [Clients -> Nat]
    /\ net \subseteq Messages
    /\ exec \subseteq Clients
    /\ asked \in [Clients -> 0..Expired]
    /\ acked \in [Clients -> 0..Expired]
    /\ lost \in 0..MaxLoss

\* What a client may rely on: it has a lease, and the call that obtained or
\* renewed it was sent at most a term ago.
Secure(c) == ctx[c] # 0 /\ acked[c] <= Term

\* The lease guarantee: the server still honours the lease of a secure client.
SecureIsHonoured ==
    \A c \in Clients : Secure(c) => cache.id = ctx[c] /\ ~LeaseExpired

\* A request starts to be handled only if no other client is secure.
AdmissionExclusive ==
    [][\A c \in exec' \ exec : \A d \in Clients \ {c} : ~Secure(d)]_vars

\* As long as no message was lost, nobody who has the lease is ever refused or
\* robbed: renewing after 0.3 of the term is early enough, with messages that
\* are short under way, for every interleaving of renewals and calls.
HolderKeepsLease ==
    [][lost = 0 =>
        \A c \in Clients : ctx[c] # 0 /\ pc'[c] # "crashed" => ctx'[c] = ctx[c]]_vars

\* A lease nobody can use any more does not block the others for ever: once
\* every other client has crashed, the one that is left gets the lease.
FailOver ==
    \A c \in Clients :
        (\A d \in Clients \ {c} : pc[d] = "crashed") ~>
            (pc[c] = "crashed" \/ ctx[c] # 0)
============================================================================
