---------------------------- MODULE LeaseProofs ----------------------------
(***************************************************************************)
(* The lease guarantee, for any number of clients, any term, timeout, delay*)
(* and any number of lost messages and crashes; and that a client keeps its*)
(* lease while no message is lost, for delays the sleep leaves room for.   *)
(***************************************************************************)
EXTENDS Lease, TLAPS

\* A message of the lease client's current call.
Current(m) == m.type # "call" /\ m.awaited

ApplyTypes == {"apply", "granted", "exist"}

\* The call a message belongs to is still waited for, and a renewal carries
\* the id the client has.
CurrentOK(m) ==
    Current(m) =>
        /\ pc[m.client] = IF m.type \in ApplyTypes THEN "apply" ELSE "renewal"
        /\ m.type \notin ApplyTypes => m.id = ctx[m.client]

\* Good news that is still fresh on arrival is still true on the server.
NewsOK(m) ==
    Current(m) /\ m.type \in {"granted", "renewed"} /\ asked[m.client] <= Term =>
        cache.id = m.id /\ cache.age <= asked[m.client]

NamedOK(m) == m.type \in {"renewal", "granted", "renewed"} => m.id # 0

\* A lease id is known to one client only.
OwnedOK(m) == m.id # 0 => \A d \in Clients : ctx[d] = m.id => d = m.client

OneCall == \A m, n \in net : Current(m) /\ Current(n) /\ m.client = n.client => m = n
IdsApart == \A m, n \in net : m.id = n.id /\ m.id # 0 => m.client = n.client
CtxApart == \A c, d \in Clients : ctx[c] = ctx[d] /\ ctx[c] # 0 => c = d

\* A secure client's lease is at most as old on the server as its last
\* successful call is for the client.
Fresh == \A c \in Clients : Secure(c) => cache.id = ctx[c] /\ cache.age <= acked[c]

MessagesOK ==
    \A m \in net : CurrentOK(m) /\ NewsOK(m) /\ NamedOK(m) /\ OwnedOK(m)

LInv == TypeOK /\ MessagesOK /\ OneCall /\ IdsApart /\ CtxApart /\ Fresh

----------------------------------------------------------------------------
LEMMA MsgType ==
    ASSUME NEW y \in Requests \cup Answers, NEW c \in Clients,
           NEW i \in Ids \cup {0}, NEW w \in BOOLEAN
    PROVE  Msg(y, c, i, w) \in Messages
  BY LeaseAssumption DEF Msg, Messages

LEMMA OlderType ==
    ASSUME NEW a \in 0..Expired
    PROVE  /\ Older(a) \in 0..Expired
           /\ a <= Older(a)
           /\ Older(a) <= Term => Older(a) = a + 1
           /\ \A b \in 0..Expired : b <= a => Older(b) <= Older(a)
  BY LeaseAssumption DEF Older, Expired

LEMMA InitL == Init => LInv
  <1> SUFFICES ASSUME Init PROVE LInv
    OBVIOUS
  <1>1. TypeOK
    BY LeaseAssumption DEF Init, TypeOK, Expired
  <1>2. MessagesOK /\ OneCall /\ IdsApart /\ CtxApart /\ Fresh
    BY DEF Init, MessagesOK, OneCall, IdsApart, CtxApart, Fresh, Secure
  <1> QED
    BY <1>1, <1>2 DEF LInv

\* While somebody relies on the lease, or is about to, it cannot be granted
\* to anybody else and is not cleared.
LEMMA ReliedOn ==
    ASSUME LInv, Grantable \/ LeaseExpired
    PROVE  /\ \A c \in Clients : ~Secure(c)
           /\ \A m \in net : Current(m) /\ m.type \in {"granted", "renewed"} =>
                                 ~(asked[m.client] <= Term)
  <1>1. cache.age \in Int /\ Term \in Int /\ acked \in [Clients -> Int]
        /\ asked \in [Clients -> Int]
    BY LeaseAssumption DEF LInv, TypeOK, Expired
  <1>2. ASSUME NEW c \in Clients, Secure(c) PROVE FALSE
    <2>1. cache.id = ctx[c] /\ cache.age <= acked[c] /\ ctx[c] # 0 /\ acked[c] <= Term
      BY <1>2 DEF LInv, Fresh, Secure
    <2> QED
      BY <1>1, <2>1 DEF Grantable, LeaseExpired
  <1>3. ASSUME NEW m \in net, Current(m), m.type \in {"granted", "renewed"},
               asked[m.client] <= Term
        PROVE  FALSE
    <2>1. cache.id = m.id /\ cache.age <= asked[m.client] /\ m.id # 0
      BY <1>3 DEF LInv, MessagesOK, NewsOK, NamedOK
    <2>2. m.client \in Clients
      BY DEF LInv, TypeOK, Messages
    <2> QED
      BY <1>1, <1>3, <2>1, <2>2 DEF Grantable, LeaseExpired
  <1> QED
    BY <1>2, <1>3

----------------------------------------------------------------------------
LEMMA ThreadFuncL ==
    ASSUME LInv, NEW c \in Clients, ThreadFunc(c)
    PROVE  LInv'
  <1> DEFINE y == IF ctx[c] # 0 THEN "renewal" ELSE "apply"
             new == Msg(y, c, ctx[c], TRUE)
  <1>1. new \in Messages
    BY MsgType DEF LInv, TypeOK, Requests
  <1>2. TypeOK'
    <2>1. y \in {"renewal", "apply"} /\ net' \subseteq Messages
      BY <1>1 DEF LInv, TypeOK, ThreadFunc
    <2>2. 0 \in 0..Expired /\ Timeout \in Nat
      BY LeaseAssumption DEF Expired
    <2>3. pc' = [pc EXCEPT ![c] = y]
      BY DEF ThreadFunc
    <2> QED
      BY <2>1, <2>2, <2>3 DEF LInv, TypeOK, ThreadFunc
  <1>3. \A m \in net : Current(m) => m.client # c
    BY DEF LInv, MessagesOK, CurrentOK, ThreadFunc, ApplyTypes
  <1>4. /\ new.type = y /\ new.client = c /\ new.id = ctx[c] /\ new.awaited = TRUE
        /\ net' = net \cup {new}
    BY DEF Msg, ThreadFunc
  <1>5. \A m \in net : m.client \in Clients
    BY DEF LInv, TypeOK, Messages
  <1>6. MessagesOK'
    <2> SUFFICES ASSUME NEW m \in net'
                 PROVE  (CurrentOK(m) /\ NewsOK(m) /\ NamedOK(m) /\ OwnedOK(m))'
      BY DEF MessagesOK
    <2>1. CASE m \in net
      BY <2>1, <1>3, <1>5 DEF LInv, TypeOK, MessagesOK, CurrentOK, NewsOK, NamedOK, OwnedOK, Current,
                         ThreadFunc
    <2>2. CASE m = new
      <3>1. CurrentOK(m)' /\ NewsOK(m)'
        BY <2>2, <1>4 DEF LInv, TypeOK, CurrentOK, NewsOK, Current, ThreadFunc, ApplyTypes
      <3>2. NamedOK(m)' /\ OwnedOK(m)'
        BY <2>2, <1>4 DEF LInv, TypeOK, NamedOK, OwnedOK, ThreadFunc, CtxApart
      <3> QED
        BY <3>1, <3>2
    <2> QED
      BY <1>4, <2>1, <2>2
  <1>7. OneCall'
    <2> SUFFICES ASSUME NEW m \in net', NEW n \in net',
                        Current(m), Current(n), m.client = n.client
                 PROVE  m = n
      BY DEF OneCall, Current
    <2> QED
      BY <1>3, <1>4 DEF LInv, OneCall
  <1>8. IdsApart'
    <2> SUFFICES ASSUME NEW m \in net', NEW n \in net', m.id = n.id, m.id # 0
                 PROVE  m.client = n.client
      BY DEF IdsApart
    <2> QED
      BY <1>4 DEF LInv, IdsApart, MessagesOK, OwnedOK
  <1>9. CtxApart' /\ Fresh'
    BY DEF LInv, CtxApart, Fresh, Secure, ThreadFunc
  <1> QED
    BY <1>2, <1>6, <1>7, <1>8, <1>9 DEF LInv

\* Steps that only remove messages or move a client that waits for none.
LEMMA FewerMessages ==
    ASSUME LInv, TypeOK', net' \subseteq net, UNCHANGED <<cache, ctx, asked, acked>>,
           \A m \in net' : Current(m) => pc'[m.client] = pc[m.client]
    PROVE  LInv'
  <1>1. MessagesOK'
    BY DEF LInv, MessagesOK, CurrentOK, NewsOK, NamedOK, OwnedOK, Current
  <1>2. OneCall' /\ IdsApart' /\ CtxApart' /\ Fresh'
    BY DEF LInv, OneCall, IdsApart, CtxApart, Fresh, Secure, Current
  <1> QED
    BY <1>1, <1>2 DEF LInv

LEMMA WakeL ==
    ASSUME LInv, NEW c \in Clients, Wake(c)
    PROVE  LInv'
  <1>1. TypeOK'
    BY DEF LInv, TypeOK, Wake
  <1>2. \A m \in net : Current(m) => pc'[m.client] = pc[m.client]
    BY DEF LInv, TypeOK, MessagesOK, CurrentOK, Wake, ApplyTypes, Messages
  <1> QED
    BY <1>1, <1>2, FewerMessages DEF Wake

LEMMA CallAnsweredL ==
    ASSUME LInv, NEW c \in Clients, CallAnswered(c)
    PROVE  LInv'
  <1>1. PICK m \in net :
           /\ m.client = c /\ m.awaited
           /\ m.type \in Answers
           /\ net' = net \ {m}
           /\ ctx' = [ctx EXCEPT ![c] = KeptLease(c, m)]
           /\ acked' = [acked EXCEPT ![c] =
                 IF m.type \in {"granted", "renewed"} THEN asked[c] ELSE @]
    BY DEF CallAnswered
  <1>2. m \in Messages /\ Current(m) /\ KeptLease(c, m) \in Ids \cup {0}
    BY <1>1 DEF LInv, TypeOK, Current, Answers, KeptLease, Messages
  <1>3. TypeOK'
    BY <1>1, <1>2, LeaseAssumption DEF LInv, TypeOK, CallAnswered, Sleep
  <1>4. \A n \in net' : Current(n) => n.client # c
    BY <1>1, <1>2 DEF LInv, OneCall
  <1>5. \A n \in net : n.client \in Clients
    BY DEF LInv, TypeOK, Messages
  <1>6. KeptLease(c, m) # 0 => KeptLease(c, m) = m.id \/ KeptLease(c, m) = ctx[c]
    BY DEF KeptLease
  <1>7. CtxApart'
    BY <1>1, <1>6 DEF LInv, TypeOK, CtxApart, MessagesOK, OwnedOK
  <1>8. MessagesOK'
    <2> SUFFICES ASSUME NEW n \in net'
                 PROVE  (CurrentOK(n) /\ NewsOK(n) /\ NamedOK(n) /\ OwnedOK(n))'
      BY DEF MessagesOK
    <2>1. n \in net /\ (Current(n) => n.client # c) /\ n.client \in Clients
      BY <1>1, <1>4, <1>5
    <2>2. CurrentOK(n)' /\ NewsOK(n)' /\ NamedOK(n)'
      BY <1>1, <2>1 DEF LInv, TypeOK, MessagesOK, CurrentOK, NewsOK, NamedOK, Current,
                        CallAnswered, Sleep
    <2>3. OwnedOK(n)'
      BY <1>1, <1>6, <2>1 DEF LInv, TypeOK, MessagesOK, OwnedOK, IdsApart
    <2> QED
      BY <2>2, <2>3
  <1>9. OneCall' /\ IdsApart'
    BY <1>1 DEF LInv, OneCall, IdsApart, Current
  <1>10. Fresh'
    <2> SUFFICES ASSUME NEW d \in Clients, Secure(d)'
                 PROVE  cache.id = ctx'[d] /\ cache.age <= acked'[d]
      BY DEF Fresh, CallAnswered
    <2>1. CASE d # c
      BY <1>1, <2>1 DEF LInv, TypeOK, Fresh, Secure
    <2>2. CASE d = c /\ m.type \in {"granted", "renewed"}
      <3>1. acked'[c] = asked[c] /\ asked[c] <= Term
        BY <1>1, <2>2 DEF Secure, LInv, TypeOK
      <3>2. cache.id = m.id /\ cache.age <= asked[c]
        BY <1>1, <1>2, <2>2, <3>1 DEF LInv, MessagesOK, NewsOK
      <3>3. ctx'[c] = m.id
        BY <1>1, <1>2, <2>2
           DEF LInv, TypeOK, KeptLease, MessagesOK, CurrentOK, ApplyTypes
      <3> QED
        BY <2>2, <3>1, <3>2, <3>3
    <2>3. CASE d = c /\ m.type = "not_exist"
      BY <1>1, <2>3 DEF Secure, KeptLease, LInv, TypeOK
    <2>4. CASE d = c /\ m.type = "exist"
      BY <1>1, <2>4 DEF LInv, TypeOK, Fresh, Secure, KeptLease
    <2> QED
      BY <1>1, <2>1, <2>2, <2>3, <2>4 DEF Answers
  <1> QED
    BY <1>3, <1>7, <1>8, <1>9, <1>10 DEF LInv

\* Abandoning a call changes nothing in its messages but that nobody waits.
LEMMA Abandoned ==
    ASSUME LInv, NEW c \in Clients, NEW n \in NotAwaited(c)
    PROVE  /\ n \in Messages
           /\ Current(n) => n \in net /\ n.client # c
           /\ \E m \in net : n.type = m.type /\ n.client = m.client /\ n.id = m.id
  <1>1. PICK m \in net :
           n = IF m.client = c /\ m.type # "call" THEN [m EXCEPT !.awaited = FALSE] ELSE m
    BY DEF NotAwaited
  <1>2. m \in Messages
    BY DEF LInv, TypeOK
  <1>3. CASE m.client = c /\ m.type # "call"
    BY <1>1, <1>2, <1>3 DEF Messages, Current
  <1>4. CASE ~(m.client = c /\ m.type # "call")
    BY <1>1, <1>2, <1>4 DEF Current
  <1> QED
    BY <1>3, <1>4

\* A call is abandoned and its thread moves on, with its lease or without.
LEMMA AbandonL ==
    ASSUME LInv, NEW c \in Clients, TypeOK', net' = NotAwaited(c),
           ctx' = ctx \/ ctx' = [ctx EXCEPT ![c] = 0],
           \A d \in Clients : d # c => pc'[d] = pc[d],
           UNCHANGED <<cache, asked, acked>>
    PROVE  LInv'
  <1>1. \A d \in Clients : ctx'[d] # 0 => ctx'[d] = ctx[d]
    BY DEF LInv, TypeOK
  <1>2. \A d \in Clients : d # c => ctx'[d] = ctx[d]
    BY DEF LInv, TypeOK
  <1>3. MessagesOK'
    <2> SUFFICES ASSUME NEW n \in net'
                 PROVE  (CurrentOK(n) /\ NewsOK(n) /\ NamedOK(n) /\ OwnedOK(n))'
      BY DEF MessagesOK
    <2>1. PICK m \in net : n.type = m.type /\ n.client = m.client /\ n.id = m.id
      BY Abandoned
    <2>2. Current(n) => n \in net /\ n.client # c
      BY Abandoned
    <2>3. n.client \in Clients
      BY Abandoned DEF Messages
    <2>4. CurrentOK(n)' /\ NewsOK(n)'
      BY <1>2, <2>2, <2>3 DEF LInv, MessagesOK, CurrentOK, NewsOK, Current
    <2>5. NamedOK(n)' /\ OwnedOK(n)'
      BY <1>1, <2>1 DEF LInv, MessagesOK, NamedOK, OwnedOK
    <2> QED
      BY <2>4, <2>5
  <1>4. OneCall'
    <2> SUFFICES ASSUME NEW m \in net', NEW n \in net',
                        Current(m), Current(n), m.client = n.client
                 PROVE  m = n
      BY DEF OneCall, Current
    <2>1. m \in net /\ n \in net
      BY Abandoned
    <2> QED
      BY <2>1 DEF LInv, OneCall
  <1>5. IdsApart'
    <2> SUFFICES ASSUME NEW m \in net', NEW n \in net', m.id = n.id, m.id # 0
                 PROVE  m.client = n.client
      BY DEF IdsApart
    <2>1. PICK mm \in net : m.client = mm.client /\ m.id = mm.id
      BY Abandoned
    <2>2. PICK nn \in net : n.client = nn.client /\ n.id = nn.id
      BY Abandoned
    <2> QED
      BY <2>1, <2>2 DEF LInv, IdsApart
  <1>6. CtxApart' /\ Fresh'
    BY <1>1 DEF LInv, CtxApart, Fresh, Secure
  <1> QED
    BY <1>3, <1>4, <1>5, <1>6 DEF LInv

LEMMA CallTimedOutL ==
    ASSUME LInv, NEW c \in Clients, CallTimedOut(c)
    PROVE  LInv'
  <1>1. NotAwaited(c) \subseteq Messages
    BY Abandoned
  <1>2. TypeOK'
    BY <1>1, LeaseAssumption DEF LInv, TypeOK, CallTimedOut, Sleep
  <1> QED
    BY <1>2, AbandonL DEF CallTimedOut, Sleep, LInv, TypeOK

LEMMA CrashL ==
    ASSUME LInv, NEW c \in Clients, Crash(c)
    PROVE  LInv'
  <1>1. NotAwaited(c) \subseteq Messages
    BY Abandoned
  <1>2. TypeOK'
    BY <1>1, LeaseAssumption DEF LInv, TypeOK, Crash
  <1> QED
    BY <1>2, AbandonL DEF Crash, LInv, TypeOK

LEMMA LateAnswerL ==
    ASSUME LInv, NEW c \in Clients, LateAnswer(c)
    PROVE  LInv'
  <1>1. TypeOK'
    BY DEF LInv, TypeOK, LateAnswer
  <1> QED
    BY <1>1, FewerMessages DEF LateAnswer

LEMMA LoseL ==
    ASSUME LInv, Lose
    PROVE  LInv'
  <1>1. TypeOK'
    BY LeaseAssumption DEF LInv, TypeOK, Lose
  <1> QED
    BY <1>1, FewerMessages DEF Lose

LEMMA HandledL ==
    ASSUME LInv, NEW c \in Clients, ServerHandled(c)
    PROVE  LInv'
  <1>1. TypeOK'
    BY DEF LInv, TypeOK, ServerHandled
  <1> QED
    BY <1>1, FewerMessages DEF ServerHandled

LEMMA CallL ==
    ASSUME LInv, NEW c \in Clients, Call(c)
    PROVE  LInv'
  <1> DEFINE new == Msg("call", c, ctx[c], TRUE)
  <1>1. new \in Messages
    BY MsgType DEF LInv, TypeOK, Requests
  <1>2. TypeOK'
    BY <1>1 DEF LInv, TypeOK, Call
  <1>3. /\ new.type = "call" /\ new.client = c /\ new.id = ctx[c]
        /\ net' = net \cup {new}
    BY DEF Msg, Call
  <1>4. MessagesOK'
    <2> SUFFICES ASSUME NEW m \in net'
                 PROVE  (CurrentOK(m) /\ NewsOK(m) /\ NamedOK(m) /\ OwnedOK(m))'
      BY DEF MessagesOK
    <2>1. CASE m \in net
      BY <2>1 DEF LInv, MessagesOK, CurrentOK, NewsOK, NamedOK, OwnedOK, Current, Call
    <2>2. CASE m = new
      BY <2>2, <1>3 DEF LInv, CurrentOK, NewsOK, NamedOK, OwnedOK, Current, Call, CtxApart
    <2> QED
      BY <1>3, <2>1, <2>2
  <1>5. OneCall'
    <2> SUFFICES ASSUME NEW m \in net', NEW n \in net',
                        Current(m), Current(n), m.client = n.client
                 PROVE  m = n
      BY DEF OneCall, Current
    <2>1. m \in net /\ n \in net
      BY <1>3 DEF Current
    <2> QED
      BY <2>1 DEF LInv, OneCall
  <1>6. IdsApart'
    <2> SUFFICES ASSUME NEW m \in net', NEW n \in net', m.id = n.id, m.id # 0
                 PROVE  m.client = n.client
      BY DEF IdsApart
    <2> QED
      BY <1>3 DEF LInv, IdsApart, MessagesOK, OwnedOK
  <1>7. CtxApart' /\ Fresh'
    BY DEF LInv, CtxApart, Fresh, Secure, Call
  <1> QED
    BY <1>2, <1>4, <1>5, <1>6, <1>7 DEF LInv

\* What a step may do to the cache without breaking anybody's reliance on it.
CacheStep ==
    \/ cache' = cache
    \/ Grantable \/ LeaseExpired
    \/ cache'.id = cache.id /\ cache'.age = 0

LEMMA CacheStepL ==
    ASSUME LInv, TypeOK', CacheStep, UNCHANGED <<ctx, acked, asked>>
    PROVE  /\ Fresh'
           /\ \A m \in net : NewsOK(m)'
  <1>1. \A c \in Clients : asked[c] \in Nat /\ acked[c] \in Nat
    BY LeaseAssumption DEF LInv, TypeOK, Expired
  <1>2. \A m \in net : m.client \in Clients
    BY DEF LInv, TypeOK, Messages
  <1>3. CASE cache' = cache
    BY <1>3 DEF LInv, Fresh, Secure, MessagesOK, NewsOK, Current
  <1>4. CASE Grantable \/ LeaseExpired
    BY <1>4, ReliedOn DEF Fresh, Secure, NewsOK, Current
  <1>5. CASE cache'.id = cache.id /\ cache'.age = 0
    BY <1>1, <1>2, <1>5 DEF LInv, Fresh, Secure, MessagesOK, NewsOK, Current
  <1> QED
    BY <1>3, <1>4, <1>5 DEF CacheStep

\* The lease server takes a request and answers it.
LEMMA AnswerL ==
    ASSUME LInv, TypeOK', CacheStep, UNCHANGED <<ctx, pc, asked, acked>>,
           NEW m \in net, m.type \in {"apply", "renewal"},
           NEW y \in Answers, y \in ApplyTypes <=> m.type \in ApplyTypes,
           NEW i \in Ids \cup {0}, Answer(m, y, i),
           i # 0 => i = m.id \/ i \notin Remembered,
           y \notin ApplyTypes => i = m.id,
           y \in {"granted", "renewed"} => i # 0 /\ cache'.id = i /\ cache'.age = 0
    PROVE  LInv'
  <1> DEFINE new == Msg(y, m.client, i, m.awaited)
  <1>1. /\ new.type = y /\ new.client = m.client /\ new.id = i
        /\ new.awaited = m.awaited
        /\ net' = (net \ {m}) \cup {new}
    BY DEF Msg, Answer
  <1>2. m.client \in Clients /\ asked[m.client] \in Nat /\ m.type # "call" /\ y # "call"
    BY LeaseAssumption DEF LInv, TypeOK, Messages, Expired, Answers
  <1>3. Current(new) <=> Current(m)
    BY <1>1, <1>2 DEF Current
  <1>4. i # 0 => /\ \A d \in Clients : ctx[d] = i => d = m.client
                 /\ \A n \in net : n.id = i => n.client = m.client
    BY DEF Remembered, LInv, MessagesOK, OwnedOK, IdsApart
  <1>5. MessagesOK'
    <2> SUFFICES ASSUME NEW n \in net'
                 PROVE  (CurrentOK(n) /\ NewsOK(n) /\ NamedOK(n) /\ OwnedOK(n))'
      BY DEF MessagesOK
    <2>1. CASE n \in net
      BY <2>1, CacheStepL
         DEF LInv, MessagesOK, CurrentOK, NamedOK, OwnedOK, Current
    <2>2. CASE n = new
      <3>1. CurrentOK(n)'
        BY <1>1, <1>2, <1>3, <2>2 DEF LInv, MessagesOK, CurrentOK, Current
      <3>2. NewsOK(n)'
        BY <1>1, <1>2, <2>2 DEF NewsOK
      <3>3. NamedOK(n)'
        BY <1>1, <2>2 DEF NamedOK, Answers
      <3>4. OwnedOK(n)'
        BY <1>1, <1>4, <2>2 DEF OwnedOK
      <3> QED
        BY <3>1, <3>2, <3>3, <3>4
    <2> QED
      BY <1>1, <2>1, <2>2
  <1>6. OneCall'
    <2> SUFFICES ASSUME NEW p \in net', NEW n \in net',
                        Current(p), Current(n), p.client = n.client
                 PROVE  p = n
      BY DEF OneCall, Current
    <2> QED
      BY <1>1, <1>3 DEF LInv, OneCall
  <1>7. IdsApart'
    <2> SUFFICES ASSUME NEW p \in net', NEW n \in net', p.id = n.id, p.id # 0
                 PROVE  p.client = n.client
      BY DEF IdsApart
    <2> QED
      BY <1>1, <1>4 DEF LInv, IdsApart
  <1>8. CtxApart' /\ Fresh'
    BY CacheStepL DEF LInv, CtxApart
  <1> QED
    BY <1>5, <1>6, <1>7, <1>8 DEF LInv

LEMMA AnswerType ==
    ASSUME LInv, NEW m \in net, NEW y \in Answers, NEW i \in Ids \cup {0}, Answer(m, y, i)
    PROVE  net' \subseteq Messages
  <1>1. m.client \in Clients /\ m.awaited \in BOOLEAN
    BY DEF LInv, TypeOK, Messages
  <1>2. Msg(y, m.client, i, m.awaited) \in Messages
    BY <1>1, MsgType
  <1> QED
    BY <1>2 DEF Answer, LInv, TypeOK

LEMMA ServerApplyL ==
    ASSUME LInv, NEW c \in Clients, ServerApply(c)
    PROVE  LInv'
  <1>1. PICK m \in net :
           /\ m.type = "apply" /\ m.client = c
           /\ \/ /\ Grantable
                 /\ FreshId \in Ids \ Remembered
                 /\ ApplyFree(FreshId)
                 /\ Answer(m, "granted", FreshId)
              \/ /\ ~Grantable
                 /\ Answer(m, "exist", 0)
                 /\ UNCHANGED cache
           /\ UNCHANGED <<ctx, pc, timer, exec, asked, acked, lost>>
    BY DEF ServerApply
  <1>2. CASE Grantable
    <2>1. /\ FreshId \in Ids /\ FreshId \notin Remembered /\ FreshId # 0
          /\ Answer(m, "granted", FreshId)
          /\ cache' = [id |-> FreshId, age |-> 0]
      BY <1>1, <1>2, LeaseAssumption DEF ApplyFree
    <2>2. cache' \in [id : Ids \cup {0}, age : 0..Expired]
      BY <2>1, LeaseAssumption DEF Expired
    <2>3. net' \subseteq Messages
      BY <2>1, AnswerType DEF Answers
    <2>4. TypeOK'
      BY <1>1, <2>2, <2>3 DEF LInv, TypeOK
    <2> QED
      BY <1>1, <1>2, <2>1, <2>4, AnswerL DEF CacheStep, Answers, ApplyTypes
  <1>3. CASE ~Grantable
    <2>1. net' \subseteq Messages
      BY <1>1, <1>3, AnswerType DEF Answers
    <2>2. TypeOK'
      BY <1>1, <1>3, <2>1 DEF LInv, TypeOK
    <2> QED
      BY <1>1, <1>3, <2>2, AnswerL DEF CacheStep, Answers, ApplyTypes
  <1> QED
    BY <1>2, <1>3

LEMMA ServerRenewalL ==
    ASSUME LInv, NEW c \in Clients, ServerRenewal(c)
    PROVE  LInv'
  <1>1. PICK m \in net :
           /\ m.type = "renewal" /\ m.client = c
           /\ \/ /\ cache.id # m.id
                 /\ Answer(m, "not_exist", m.id)
                 /\ UNCHANGED cache
              \/ /\ cache.id = m.id /\ LeaseExpired
                 /\ cache' = Cleared
                 /\ Answer(m, "not_exist", m.id)
              \/ /\ cache.id = m.id /\ ~LeaseExpired
                 /\ cache' = [cache EXCEPT !.age = 0]
                 /\ Answer(m, "renewed", m.id)
           /\ UNCHANGED <<ctx, pc, timer, exec, asked, acked, lost>>
    BY DEF ServerRenewal
  <1>2. m.id \in Ids \cup {0} /\ m.id # 0
    BY <1>1 DEF LInv, TypeOK, Messages, MessagesOK, NamedOK
  <1>3. cache' \in [id : Ids \cup {0}, age : 0..Expired]
    BY <1>1, LeaseAssumption DEF LInv, TypeOK, Cleared, Expired
  <1>4. net' \subseteq Messages
    BY <1>1, <1>2, AnswerType DEF Answers
  <1>5. TypeOK'
    BY <1>1, <1>3, <1>4 DEF LInv, TypeOK
  <1>6. CASE Answer(m, "not_exist", m.id) /\ (UNCHANGED cache \/ LeaseExpired)
    BY <1>1, <1>2, <1>5, <1>6, AnswerL DEF CacheStep, Answers, ApplyTypes
  <1>7. CASE cache.id = m.id /\ cache' = [cache EXCEPT !.age = 0]
             /\ Answer(m, "renewed", m.id)
    <2>1. cache'.id = m.id /\ cache'.age = 0
      BY <1>7 DEF LInv, TypeOK
    <2> QED
      BY <1>1, <1>2, <1>5, <1>7, <2>1, AnswerL DEF CacheStep, Answers, ApplyTypes
  <1> QED
    BY <1>1, <1>6, <1>7

LEMMA ServerCheckL ==
    ASSUME LInv, NEW c \in Clients, ServerCheck(c)
    PROVE  LInv'
  <1>1. PICK m \in net :
           /\ m.type = "call" /\ m.client = c
           /\ net' = net \ {m}
           /\ cache' = CacheAfterCheck
           /\ exec' = IF Denied(m.id) THEN exec ELSE exec \cup {m.client}
           /\ UNCHANGED <<ctx, pc, timer, asked, acked, lost>>
    BY DEF ServerCheck
  <1>2. cache' \in [id : Ids \cup {0}, age : 0..Expired] /\ CacheStep
    BY <1>1, LeaseAssumption DEF LInv, TypeOK, CacheAfterCheck, Cleared, Expired, CacheStep
  <1>3. TypeOK'
    BY <1>1, <1>2 DEF LInv, TypeOK
  <1>4. MessagesOK'
    BY <1>1, <1>2, <1>3, CacheStepL
       DEF LInv, MessagesOK, CurrentOK, NamedOK, OwnedOK, Current
  <1>5. OneCall' /\ IdsApart' /\ CtxApart'
    BY <1>1 DEF LInv, OneCall, IdsApart, CtxApart, Current
  <1> QED
    BY <1>1, <1>2, <1>3, <1>4, <1>5, CacheStepL DEF LInv

LEMMA TickL ==
    ASSUME LInv, Tick
    PROVE  LInv'
  <1>1. \A n \in net' : \E m \in net :
           /\ n = [m EXCEPT !.ttl = @ - 1] /\ n \in Messages
           /\ n.type = m.type /\ n.client = m.client /\ n.id = m.id
           /\ n.awaited = m.awaited /\ n.client \in Clients
    <2> SUFFICES ASSUME NEW n \in net'
                 PROVE  \E m \in net :
                           /\ n = [m EXCEPT !.ttl = @ - 1] /\ n \in Messages
                           /\ n.type = m.type /\ n.client = m.client /\ n.id = m.id
                           /\ n.awaited = m.awaited /\ n.client \in Clients
      OBVIOUS
    <2>1. PICK m \in net : n = [m EXCEPT !.ttl = @ - 1]
      BY Zenon DEF Tick
    <2>2. m \in Messages /\ m.ttl - 1 \in 0..MaxDelay
      BY LeaseAssumption DEF LInv, TypeOK, Tick, Messages
    <2>3. /\ n \in Messages
          /\ n.type = m.type /\ n.client = m.client /\ n.id = m.id
          /\ n.awaited = m.awaited /\ n.client \in Clients
      BY <2>1, <2>2 DEF Messages
    <2> QED
      BY <2>1, <2>3
  <1>2. cache.age \in 0..Expired /\ cache'.id = cache.id /\ cache'.age = Older(cache.age)
    BY DEF LInv, TypeOK, Tick
  <1>3. \A c \in Clients :
           /\ asked[c] \in 0..Expired /\ asked'[c] = Older(asked[c])
           /\ acked[c] \in 0..Expired /\ acked'[c] = Older(acked[c])
    BY DEF LInv, TypeOK, Tick
  <1>4. TypeOK'
    <2>1. net' \subseteq Messages
      BY <1>1
    <2>2. cache' \in [id : Ids \cup {0}, age : 0..Expired]
      BY <1>2, OlderType DEF LInv, TypeOK, Tick
    <2>3. asked' \in [Clients -> 0..Expired] /\ acked' \in [Clients -> 0..Expired]
      BY <1>3, OlderType DEF Tick
    <2>4. timer' \in [Clients -> Nat]
      BY DEF Tick, LInv, TypeOK
    <2> QED
      BY <2>1, <2>2, <2>3, <2>4 DEF LInv, TypeOK, Tick
  <1>5. \A a \in 0..Expired : Older(a) <= Term =>
           a <= Term /\ (cache.age <= a => cache'.age <= Older(a))
    <2> SUFFICES ASSUME NEW a \in 0..Expired, Older(a) <= Term
                 PROVE  a <= Term /\ (cache.age <= a => cache'.age <= Older(a))
      OBVIOUS
    <2>1. a <= Older(a) /\ Older(a) \in 0..Expired
          /\ (cache.age <= a => Older(cache.age) <= Older(a))
      BY <1>2, OlderType
    <2>2. Term \in Int /\ Expired \in Int
      BY LeaseAssumption DEF Expired
    <2>3. a <= Term
      BY <2>1, <2>2
    <2> QED
      BY <1>2, <2>1, <2>3
  <1>6. MessagesOK'
    <2> SUFFICES ASSUME NEW n \in net'
                 PROVE  (CurrentOK(n) /\ NewsOK(n) /\ NamedOK(n) /\ OwnedOK(n))'
      BY DEF MessagesOK
    <2>1. PICK m \in net :
             /\ n.type = m.type /\ n.client = m.client /\ n.id = m.id
             /\ n.awaited = m.awaited /\ n.client \in Clients
      BY <1>1
    <2>2. CurrentOK(n)' /\ NamedOK(n)' /\ OwnedOK(n)'
      BY <2>1 DEF LInv, MessagesOK, CurrentOK, NamedOK, OwnedOK, Current, Tick
    <2>3. NewsOK(n)'
      <3> SUFFICES ASSUME Current(n), n.type \in {"granted", "renewed"},
                          asked'[n.client] <= Term
                   PROVE  cache'.id = n.id /\ cache'.age <= asked'[n.client]
        BY DEF NewsOK, Current
      <3>1. asked[n.client] <= Term
        BY <1>3, <1>5, <2>1
      <3>2. cache.id = m.id /\ cache.age <= asked[m.client]
        BY <2>1, <3>1 DEF LInv, MessagesOK, NewsOK, Current
      <3> QED
        BY <1>2, <1>3, <1>5, <2>1, <3>2
    <2> QED
      BY <2>2, <2>3
  <1>7. OneCall'
    <2> SUFFICES ASSUME NEW p \in net', NEW n \in net',
                        Current(p), Current(n), p.client = n.client
                 PROVE  p = n
      BY DEF OneCall, Current
    <2>1. PICK pp \in net : p = [pp EXCEPT !.ttl = @ - 1] /\ p.client = pp.client
                            /\ p.type = pp.type /\ p.awaited = pp.awaited
      BY <1>1
    <2>2. PICK nn \in net : n = [nn EXCEPT !.ttl = @ - 1] /\ n.client = nn.client
                            /\ n.type = nn.type /\ n.awaited = nn.awaited
      BY <1>1
    <2>3. pp = nn
      BY <2>1, <2>2 DEF LInv, OneCall, Current
    <2> QED
      BY <2>1, <2>2, <2>3
  <1>8. IdsApart'
    <2> SUFFICES ASSUME NEW p \in net', NEW n \in net', p.id = n.id, p.id # 0
                 PROVE  p.client = n.client
      BY DEF IdsApart
    <2> QED
      BY <1>1 DEF LInv, IdsApart
  <1>9. CtxApart' /\ Fresh'
    <2>1. CtxApart'
      BY DEF LInv, CtxApart, Tick
    <2>2. Fresh'
      <3> SUFFICES ASSUME NEW c \in Clients, ctx[c] # 0, acked'[c] <= Term
                   PROVE  cache'.id = ctx[c] /\ cache'.age <= acked'[c]
        BY DEF Fresh, Secure, Tick
      <3>1. acked[c] <= Term
        BY <1>3, <1>5
      <3>2. cache.id = ctx[c] /\ cache.age <= acked[c]
        BY <3>1 DEF LInv, Fresh, Secure
      <3> QED
        BY <1>2, <1>3, <1>5, <3>2
    <2> QED
      BY <2>1, <2>2
  <1> QED
    BY <1>4, <1>6, <1>7, <1>8, <1>9 DEF LInv

LEMMA StutterL ==
    ASSUME LInv, UNCHANGED vars
    PROVE  LInv'
  <1>1. TypeOK'
    BY DEF LInv, TypeOK, vars
  <1> QED
    BY <1>1, FewerMessages DEF vars

LEMMA NextL ==
    ASSUME LInv, [Next]_vars
    PROVE  LInv'
  <1>1. ASSUME NEW c \in Clients, LeaseThread(c) \/ LateAnswer(c) \/ Call(c) \/ Crash(c)
        PROVE  LInv'
    BY <1>1, ThreadFuncL, WakeL, CallAnsweredL, CallTimedOutL, LateAnswerL, CallL, CrashL
       DEF LeaseThread
  <1>2. ASSUME NEW c \in Clients, Server(c)
        PROVE  LInv'
    BY <1>2, ServerApplyL, ServerRenewalL, ServerCheckL, HandledL DEF Server
  <1> QED
    BY <1>1, <1>2, LoseL, TickL, StutterL DEF Next

----------------------------------------------------------------------------
\* The lease protocol keeps its state in its types.
THEOREM LeaseTypeCorrect == Spec => []TypeOK
  <1>1. LInv => TypeOK
    BY DEF LInv
  <1> QED
    BY <1>1, InitL, NextL, PTL DEF Spec

LEMMA FreshIsHonoured == LInv => SecureIsHonoured
  <1> SUFFICES ASSUME LInv, NEW c \in Clients, Secure(c)
               PROVE  cache.id = ctx[c] /\ ~LeaseExpired
    BY DEF SecureIsHonoured
  <1>1. cache.id = ctx[c] /\ cache.age <= acked[c] /\ acked[c] <= Term
    BY DEF LInv, Fresh, Secure
  <1>2. cache.age \in Int /\ acked[c] \in Int /\ Term \in Int
    BY LeaseAssumption DEF LInv, TypeOK, Expired
  <1> QED
    BY <1>1, <1>2 DEF LeaseExpired

\* LeaseServer honours the lease of every client that applied or renewed at
\* most a term ago, whatever is delayed, lost or abandoned.
THEOREM LeaseGuarantee == Spec => []SecureIsHonoured
  BY FreshIsHonoured, InitL, NextL, PTL DEF Spec

LEMMA AdmitL ==
    ASSUME LInv, [Next]_vars, NEW c \in exec' \ exec, NEW d \in Clients \ {c}
    PROVE  ~Secure(d)
  <1>1. PICK m \in net : m.type = "call" /\ m.client = c /\ ~Denied(m.id)
    <2>1. \E e \in Clients : ServerCheck(e)
      BY DEF Next, LeaseThread, ThreadFunc, Wake, CallAnswered, CallTimedOut, Sleep,
             LateAnswer, Call, Crash, Server, ServerApply, ServerRenewal, ServerHandled,
             Lose, Tick, vars
    <2> QED
      BY <2>1 DEF ServerCheck
  <1> SUFFICES ASSUME Secure(d) PROVE FALSE
    OBVIOUS
  <1>2. cache.id = ctx[d] /\ ~LeaseExpired /\ ctx[d] # 0
    BY FreshIsHonoured DEF SecureIsHonoured, Secure
  <1>3. m.id = ctx[d]
    BY <1>1, <1>2 DEF Denied
  <1> QED
    BY <1>1, <1>2, <1>3 DEF LInv, MessagesOK, OwnedOK

\* CheckRequestLeaseDenied lets no request through while another client holds
\* a lease it may rely on.
THEOREM AdmissionIsExclusive == Spec => AdmissionExclusive
  <1>1. LInv /\ [Next]_vars =>
           [\A c \in exec' \ exec : \A d \in Clients \ {c} : ~Secure(d)]_vars
    BY AdmitL
  <1> QED
    BY <1>1, InitL, NextL, PTL DEF Spec, AdmissionExclusive
----------------------------------------------------------------------------
(* No lease is lost while no message is: a question of time.                *)

\* A renewal reaches the server within its term, counted from the moment at
\* which the server answered the last one: that answer's delay, the sleep and
\* the renewal's delay.  An answer comes before the call times out.
Timely == RenewWait + 2 * MaxDelay <= Term /\ 2 * MaxDelay < Timeout

\* A call that is under way is not out of time and is not refused; what it
\* renews is the server's lease and still young when it arrives.
Slack(m) == IF m.type \in Requests THEN MaxDelay ELSE 2 * MaxDelay
Knows(m) ==
    /\ m.type # "not_exist"
    /\ timer[m.client] + Slack(m) >= Timeout + m.ttl
    /\ m.type = "renewal" => cache.id = m.id /\ cache.age + m.ttl <= RenewWait + 2 * MaxDelay
    /\ m.type \in {"granted", "renewed"} => cache.id = m.id /\ cache.age + m.ttl <= MaxDelay

\* Between two calls the lease is as old as the answer's delay and the sleep.
Rests(c) ==
    ctx[c] # 0 /\ pc[c] \in {"loop", "sleep"} =>
        cache.id = ctx[c] /\ cache.age + timer[c] <= MaxDelay + RenewWait

UnderWay(c) == pc[c] \in {"apply", "renewal"} => \E m \in net : Current(m) /\ m.client = c
AppliesWithout(c) == pc[c] = "apply" => ctx[c] = 0

OnTime ==
    /\ \A m \in net : Current(m) => Knows(m)
    /\ \A c \in Clients : Rests(c) /\ UnderWay(c) /\ AppliesWithout(c)

KInv == lost = 0 => OnTime

LEMMA Numbers ==
    ASSUME LInv
    PROVE  /\ Term \in Nat /\ RenewWait \in Nat /\ Timeout \in Nat /\ MaxDelay \in Nat
           /\ cache.age \in Nat /\ timer \in [Clients -> Nat]
           /\ \A m \in net : m.ttl \in 0..MaxDelay /\ m.client \in Clients
           /\ \A m : Slack(m) \in {MaxDelay, 2 * MaxDelay}
  BY LeaseAssumption DEF LInv, TypeOK, Expired, Messages, Slack

\* While somebody has the lease, or asks for it in time, it is nobody else's.
LEMMA Held ==
    ASSUME Timely, LInv, OnTime, Grantable \/ LeaseExpired
    PROVE  /\ \A m \in net : Current(m) => m.type \in {"apply", "exist"}
           /\ \A c \in Clients : ~(ctx[c] # 0 /\ pc[c] \in {"loop", "sleep"})
  <1>1. cache.id = 0 \/ cache.age > Term
    BY DEF Grantable, LeaseExpired
  <1>2. ASSUME NEW m \in net, Current(m) PROVE m.type \in {"apply", "exist"}
    <2>1. Knows(m) /\ NamedOK(m) /\ m.type \in Requests \cup Answers /\ m.type # "call"
      BY <1>2 DEF OnTime, LInv, MessagesOK, TypeOK, Messages, Current
    <2>2. m.type \notin {"renewal", "granted", "renewed"}
      BY <1>1, <2>1, Numbers DEF Knows, NamedOK, Timely
    <2> QED
      BY <2>1, <2>2 DEF Knows, Requests, Answers
  <1>3. ASSUME NEW c \in Clients, ctx[c] # 0, pc[c] \in {"loop", "sleep"} PROVE FALSE
    <2>1. cache.id # 0 /\ cache.age + timer[c] <= MaxDelay + RenewWait
      BY <1>3 DEF OnTime, Rests
    <2> QED
      BY <1>1, <2>1, Numbers DEF Timely
  <1> QED
    BY <1>2, <1>3

\* Nothing the server does to its cache makes a call in time come too late.
LEMMA CacheK ==
    ASSUME Timely, LInv, OnTime, CacheStep, UNCHANGED <<ctx, pc, timer>>
    PROVE  /\ \A m \in net : Current(m) => Knows(m)'
           /\ \A c \in Clients : Rests(c)'
  <1>1. CASE cache' = cache
    BY <1>1 DEF OnTime, Knows, Rests
  <1>2. CASE Grantable \/ LeaseExpired
    <2>1. \A m \in net : Current(m) => m.type \in {"apply", "exist"}
      BY <1>2, Held
    <2>2. \A c \in Clients : ~(ctx[c] # 0 /\ pc[c] \in {"loop", "sleep"})
      BY <1>2, Held
    <2>3. \A m \in net : Current(m) => Knows(m)'
      BY <2>1 DEF OnTime, Knows
    <2> QED
      BY <2>2, <2>3 DEF Rests
  <1>3. CASE cache'.id = cache.id /\ cache'.age = 0
    <2>1. ASSUME NEW m \in net, Current(m) PROVE Knows(m)'
      <3>1. Knows(m)
        BY <2>1 DEF OnTime
      <3>2. cache'.age <= cache.age /\ cache'.age \in Nat
        BY <1>3, Numbers
      <3> QED
        BY <1>3, <3>1, <3>2, Numbers DEF Knows
    <2>2. ASSUME NEW c \in Clients PROVE Rests(c)'
      <3>1. Rests(c)
        BY DEF OnTime
      <3> QED
        BY <1>3, <3>1, Numbers DEF Rests
    <2> QED
      BY <2>1, <2>2
  <1> QED
    BY <1>1, <1>2, <1>3 DEF CacheStep

LEMMA AnswerK ==
    ASSUME Timely, LInv, OnTime, CacheStep, UNCHANGED <<ctx, pc, timer>>,
           NEW m \in net, m.type \in {"apply", "renewal"},
           NEW y \in Answers, NEW i \in Ids \cup {0}, Answer(m, y, i),
           m.awaited => y # "not_exist",
           y \in {"granted", "renewed"} => cache'.id = i /\ cache'.age = 0
    PROVE  OnTime'
  <1> DEFINE new == Msg(y, m.client, i, m.awaited)
  <1>1. /\ new.type = y /\ new.client = m.client /\ new.id = i /\ new.ttl = MaxDelay
        /\ (new.awaited <=> m.awaited)
        /\ net' = (net \ {m}) \cup {new}
    BY DEF Msg, Answer
  <1> HIDE DEF new
  <1>2. Current(new) => Knows(new)'
    <2> SUFFICES ASSUME Current(new) PROVE Knows(new)'
      OBVIOUS
    <2>1. Current(m) /\ y # "not_exist"
      BY <1>1 DEF Current
    <2>2. timer[m.client] + MaxDelay >= Timeout + m.ttl
      BY <2>1 DEF OnTime, Knows, Slack, Requests
    <2>3. Slack(new) = 2 * MaxDelay
      BY <1>1 DEF Slack, Requests, Answers
    <2>4. timer'[new.client] + Slack(new) >= Timeout + new.ttl
      BY <1>1, <2>2, <2>3, Numbers
    <2>5. y # "renewal"
      BY DEF Answers
    <2> QED
      BY <1>1, <2>1, <2>3, <2>4, <2>5, Numbers DEF Knows
  <1>3. Current(m) => Current(new)
    BY <1>1 DEF Current, Answers
  <1>4. \A c \in Clients : UnderWay(c)'
    BY <1>1, <1>3 DEF OnTime, UnderWay
  <1>5. \A n \in net' : Current(n) => Knows(n)'
    BY <1>1, <1>2, CacheK
  <1>6. \A c \in Clients : Rests(c)'
    BY CacheK
  <1>7. \A c \in Clients : AppliesWithout(c)'
    BY DEF OnTime, AppliesWithout
  <1> QED
    BY <1>4, <1>5, <1>6, <1>7 DEF OnTime, Current

LEMMA ServerApplyK ==
    ASSUME Timely, LInv, OnTime, NEW c \in Clients, ServerApply(c)
    PROVE  OnTime'
  <1>1. PICK m \in net :
           /\ m.type = "apply"
           /\ \/ /\ Grantable
                 /\ FreshId \in Ids \ Remembered
                 /\ ApplyFree(FreshId)
                 /\ Answer(m, "granted", FreshId)
              \/ /\ ~Grantable
                 /\ Answer(m, "exist", 0)
                 /\ UNCHANGED cache
           /\ UNCHANGED <<ctx, pc, timer, exec, asked, acked, lost>>
    BY DEF ServerApply
  <1>2. CASE Grantable
    <2>1. /\ FreshId \in Ids /\ Answer(m, "granted", FreshId)
          /\ cache'.id = FreshId /\ cache'.age = 0
      BY <1>1, <1>2 DEF ApplyFree
    <2> QED
      BY <1>1, <1>2, <2>1, AnswerK DEF CacheStep, Answers
  <1>3. CASE ~Grantable
    BY <1>1, <1>3, AnswerK DEF CacheStep, Answers
  <1> QED
    BY <1>2, <1>3

\* A renewal that is awaited is of the server's lease, and in time.
LEMMA ServerRenewalK ==
    ASSUME Timely, LInv, OnTime, NEW c \in Clients, ServerRenewal(c)
    PROVE  OnTime'
  <1>1. PICK m \in net :
           /\ m.type = "renewal"
           /\ \/ /\ cache.id # m.id
                 /\ Answer(m, "not_exist", m.id)
                 /\ UNCHANGED cache
              \/ /\ cache.id = m.id /\ LeaseExpired
                 /\ cache' = Cleared
                 /\ Answer(m, "not_exist", m.id)
              \/ /\ cache.id = m.id /\ ~LeaseExpired
                 /\ cache' = [cache EXCEPT !.age = 0]
                 /\ Answer(m, "renewed", m.id)
           /\ UNCHANGED <<ctx, pc, timer, exec, asked, acked, lost>>
    BY DEF ServerRenewal
  <1>2. m.id \in Ids \cup {0}
    BY DEF LInv, TypeOK, Messages
  <1>3. m.awaited => cache.id = m.id /\ ~LeaseExpired
    <2> SUFFICES ASSUME m.awaited PROVE cache.id = m.id /\ ~LeaseExpired
      OBVIOUS
    <2>1. cache.id = m.id /\ cache.age + m.ttl <= RenewWait + 2 * MaxDelay
      BY <1>1 DEF OnTime, Current, Knows
    <2> QED
      BY <2>1, Numbers DEF LeaseExpired, Timely
  <1>4. CASE Answer(m, "not_exist", m.id) /\ (cache.id # m.id \/ LeaseExpired)
             /\ (UNCHANGED cache \/ LeaseExpired)
    BY <1>1, <1>2, <1>3, <1>4, AnswerK DEF CacheStep, Answers
  <1>5. CASE cache.id = m.id /\ cache' = [cache EXCEPT !.age = 0] /\ Answer(m, "renewed", m.id)
    <2>1. cache'.id = m.id /\ cache'.age = 0
      BY <1>5 DEF LInv, TypeOK
    <2> QED
      BY <1>1, <1>2, <1>5, <2>1, AnswerK DEF CacheStep, Answers
  <1> QED
    BY <1>1, <1>4, <1>5

LEMMA ServerCheckK ==
    ASSUME Timely, LInv, OnTime, NEW c \in Clients, ServerCheck(c)
    PROVE  OnTime'
  <1>1. PICK m \in net : m.type = "call" /\ net' = net \ {m}
    BY DEF ServerCheck
  <1>2. CacheStep /\ UNCHANGED <<ctx, pc, timer>>
    BY DEF ServerCheck, CacheAfterCheck, CacheStep
  <1>3. \A n \in net' : Current(n) => Knows(n)'
    BY <1>1, <1>2, CacheK
  <1>4. \A d \in Clients : UnderWay(d)' /\ AppliesWithout(d)'
    BY <1>1, <1>2 DEF OnTime, UnderWay, AppliesWithout, Current
  <1> QED
    BY <1>2, <1>3, <1>4, CacheK DEF OnTime, Current

\* A call begins with a lease at most as old as the answer's delay and the sleep.
LEMMA ThreadFuncK ==
    ASSUME LInv, OnTime, NEW c \in Clients, ThreadFunc(c)
    PROVE  OnTime'
  <1>0. PICK y : y = IF ctx[c] # 0 THEN "renewal" ELSE "apply"
    OBVIOUS
  <1>1. PICK new :
           /\ new.type = y /\ new.client = c /\ new.id = ctx[c] /\ new.awaited /\ new.ttl = MaxDelay
           /\ net' = net \cup {new}
    <2> DEFINE n == Msg(y, c, ctx[c], TRUE)
    <2>1. n.type = y /\ n.client = c /\ n.id = ctx[c] /\ n.awaited /\ n.ttl = MaxDelay
      BY DEF Msg
    <2>2. net' = net \cup {n}
      BY <1>0 DEF ThreadFunc
    <2> QED
      BY <2>1, <2>2, Zenon
  <1>1a. /\ pc[c] = "loop" /\ UNCHANGED <<cache, ctx>>
        /\ pc' = [pc EXCEPT ![c] = y] /\ timer' = [timer EXCEPT ![c] = Timeout]
    BY <1>0 DEF ThreadFunc
  <1>2. \A m \in net : Current(m) => m.client # c
    BY <1>1a DEF LInv, MessagesOK, CurrentOK, ApplyTypes
  <1>3. pc \in [Clients -> {"loop", "apply", "renewal", "sleep", "crashed"}]
    BY DEF LInv, TypeOK
  <1>4. \A d \in Clients : d # c => pc'[d] = pc[d] /\ timer'[d] = timer[d]
    BY <1>1, <1>1a, <1>3, Numbers
  <1>5. pc'[c] = y /\ timer'[c] = Timeout
    BY <1>1, <1>1a, <1>3, Numbers
  <1>6. Knows(new)'
    <2>1. ctx[c] # 0 => cache.id = ctx[c] /\ cache.age + timer[c] <= MaxDelay + RenewWait
      BY <1>1a DEF OnTime, Rests
    <2>2. Slack(new) = MaxDelay
      BY <1>0, <1>1 DEF Slack, Requests
    <2>3. timer'[new.client] + Slack(new) >= Timeout + new.ttl
      BY <1>1, <1>1a, <1>5, <2>2, Numbers
    <2>4. new.type = "renewal" => cache'.id = new.id /\ cache'.age + new.ttl <= RenewWait + 2 * MaxDelay
      BY <1>0, <1>1, <1>1a, <2>1, Numbers
    <2>5. new.type \in {"renewal", "apply"}
      BY <1>0, <1>1
    <2> QED
      BY <2>3, <2>4, <2>5 DEF Knows
  <1>7. \A m \in net : Current(m) => Knows(m)'
    BY <1>1, <1>1a, <1>2, <1>4, Numbers DEF OnTime, Knows
  <1>8. \A d \in Clients : Rests(d)' /\ AppliesWithout(d)'
    BY <1>0, <1>1, <1>1a, <1>4, <1>5 DEF OnTime, Rests, AppliesWithout
  <1>9. \A d \in Clients : UnderWay(d)'
    BY <1>0, <1>1, <1>1a, <1>4 DEF OnTime, UnderWay, Current
  <1>10. \A m \in net' : Current(m) => Knows(m)'
    BY <1>1, <1>1a, <1>6, <1>7
  <1> QED
    BY <1>8, <1>9, <1>10 DEF OnTime, Current

\* The answer leaves a lease at most as old as its own delay, and the sleep ahead.
LEMMA CallAnsweredK ==
    ASSUME LInv, OnTime, NEW c \in Clients, CallAnswered(c)
    PROVE  OnTime' /\ (ctx[c] # 0 => ctx'[c] = ctx[c])
  <1>1. PICK m \in net :
           /\ m.client = c /\ m.awaited /\ m.type \in Answers
           /\ net' = net \ {m} /\ ctx' = [ctx EXCEPT ![c] = KeptLease(c, m)]
    BY DEF CallAnswered
  <1>2. /\ pc' = [pc EXCEPT ![c] = "sleep"] /\ timer' = [timer EXCEPT ![c] = RenewWait]
        /\ cache' = cache
    BY DEF CallAnswered, Sleep
  <1>3. Current(m) /\ Knows(m) /\ CurrentOK(m)
    BY <1>1 DEF Current, Answers, OnTime, LInv, MessagesOK
  <1>4. ctx \in [Clients -> Ids \cup {0}] /\ pc \in [Clients -> {"loop", "apply", "renewal", "sleep", "crashed"}]
    BY DEF LInv, TypeOK
  <1>5. \A d \in Clients : d # c => pc'[d] = pc[d] /\ timer'[d] = timer[d] /\ ctx'[d] = ctx[d]
    BY <1>1, <1>2, <1>4, Numbers
  <1>6. pc'[c] = "sleep" /\ timer'[c] = RenewWait /\ ctx'[c] = KeptLease(c, m)
    BY <1>1, <1>2, <1>4, Numbers
  <1>7. \A n \in net' : Current(n) => n.client # c
    BY <1>1, <1>3 DEF LInv, OneCall
  <1>8. \A n \in net' : Current(n) => Knows(n)'
    BY <1>1, <1>2, <1>5, <1>7, Numbers DEF OnTime, Knows
  <1>9. m.type \in {"granted", "exist"} => ctx[c] = 0
    BY <1>1, <1>3 DEF CurrentOK, ApplyTypes, OnTime, AppliesWithout
  <1>10. ctx[c] # 0 => ctx'[c] = ctx[c]
    BY <1>3, <1>6, <1>9 DEF KeptLease, Knows
  <1>11. Rests(c)'
    <2> SUFFICES ASSUME ctx'[c] # 0
                 PROVE  cache.id = ctx'[c] /\ cache.age + RenewWait <= MaxDelay + RenewWait
      BY <1>2, <1>6 DEF Rests
    <2>1. m.type \in {"granted", "renewed"}
      BY <1>1, <1>3, <1>6, <1>9 DEF KeptLease, Knows, Answers
    <2>2. cache.id = m.id /\ cache.age + m.ttl <= MaxDelay
      BY <1>3, <2>1 DEF Knows
    <2>3. ctx'[c] = m.id
      BY <1>1, <1>3, <1>6, <2>1 DEF KeptLease, CurrentOK, ApplyTypes
    <2> QED
      BY <2>2, <2>3, Numbers
  <1>12. \A d \in Clients : Rests(d)'
    BY <1>2, <1>5, <1>11 DEF OnTime, Rests
  <1>13. \A d \in Clients : UnderWay(d)' /\ AppliesWithout(d)'
    BY <1>1, <1>5, <1>6 DEF OnTime, UnderWay, AppliesWithout
  <1> QED
    BY <1>8, <1>10, <1>12, <1>13 DEF OnTime, Current

\* The call of a client does not time out: it is under way, and in time.
LEMMA NoTimeout ==
    ASSUME Timely, LInv, OnTime, NEW c \in Clients
    PROVE  ~CallTimedOut(c)
  <1> SUFFICES ASSUME pc[c] \in {"apply", "renewal"}, timer[c] = 0 PROVE FALSE
    BY DEF CallTimedOut
  <1>1. PICK m \in net : Current(m) /\ m.client = c
    BY DEF OnTime, UnderWay
  <1>2. timer[c] + Slack(m) >= Timeout + m.ttl
    BY <1>1 DEF OnTime, Knows
  <1> QED
    BY <1>2, Numbers DEF Timely

\* Steps that move no awaited message and no thread out of place.
LEMMA QuietK ==
    ASSUME OnTime, UNCHANGED <<cache, ctx, timer>>,
           \A m \in net' : Current(m) => m \in net,
           \A m \in net : Current(m) => m \in net',
           \A c \in Clients : pc'[c] = pc[c] \/ (pc[c] = "sleep" /\ pc'[c] = "loop")
    PROVE  OnTime'
  <1>1. \A m \in net' : Current(m) => Knows(m)'
    BY DEF OnTime, Knows
  <1>2. \A c \in Clients : Rests(c)' /\ AppliesWithout(c)'
    BY DEF OnTime, Rests, AppliesWithout
  <1>3. \A c \in Clients : UnderWay(c)'
    BY DEF OnTime, UnderWay
  <1> QED
    BY <1>1, <1>2, <1>3 DEF OnTime, Current

LEMMA CrashK ==
    ASSUME LInv, OnTime, NEW c \in Clients, Crash(c)
    PROVE  OnTime'
  <1>1. /\ net' = NotAwaited(c) /\ cache' = cache
        /\ pc'[c] = "crashed"
        /\ \A d \in Clients : d # c => pc'[d] = pc[d] /\ timer'[d] = timer[d] /\ ctx'[d] = ctx[d]
    BY Numbers DEF Crash, LInv, TypeOK
  <1>2. \A n \in net' : Current(n) => n \in net /\ n.client # c
    BY <1>1, Abandoned
  <1>3. \A n \in net' : Current(n) => Knows(n)'
    BY <1>1, <1>2, Numbers DEF OnTime, Knows
  <1>4. \A d \in Clients : Rests(d)' /\ AppliesWithout(d)'
    BY <1>1 DEF OnTime, Rests, AppliesWithout
  <1>5. \A m \in net : m.client # c => m \in net'
    BY <1>1, Zenon DEF NotAwaited
  <1>6. \A d \in Clients : UnderWay(d)'
    BY <1>1, <1>5 DEF OnTime, UnderWay
  <1> QED
    BY <1>3, <1>4, <1>6 DEF OnTime, Current

\* What a tick takes from a message's delay it adds to the lease's age and
\* takes from the client's timer.
LEMMA TickK ==
    ASSUME LInv, OnTime, Tick
    PROVE  OnTime'
  <1>1. \A n \in net' : \E m \in net :
           /\ n.type = m.type /\ n.client = m.client /\ n.id = m.id /\ (n.awaited <=> m.awaited)
           /\ n.ttl = m.ttl - 1
    <2> SUFFICES ASSUME NEW n \in net'
                 PROVE  \E m \in net :
                           /\ n.type = m.type /\ n.client = m.client /\ n.id = m.id
                           /\ (n.awaited <=> m.awaited) /\ n.ttl = m.ttl - 1
      OBVIOUS
    <2>1. PICK m \in net : n = [m EXCEPT !.ttl = @ - 1]
      BY Zenon DEF Tick
    <2>2. m \in Messages
      BY DEF LInv, TypeOK
    <2> QED
      BY <2>1, <2>2 DEF Messages
  <1>2. \A m \in net : \E n \in net' : n.type = m.type /\ n.client = m.client /\ (n.awaited <=> m.awaited)
    <2> SUFFICES ASSUME NEW m \in net
                 PROVE  \E n \in net' : n.type = m.type /\ n.client = m.client /\ (n.awaited <=> m.awaited)
      OBVIOUS
    <2>1. [m EXCEPT !.ttl = @ - 1] \in net'
      BY Zenon DEF Tick
    <2>2. m \in Messages
      BY DEF LInv, TypeOK
    <2> QED
      BY <2>1, <2>2 DEF Messages
  <1>3. cache'.id = cache.id /\ cache'.age \in Nat /\ cache'.age <= cache.age + 1
    BY Numbers, OlderType DEF LInv, TypeOK, Tick, Older
  <1>4. \A c \in Clients : pc[c] # "crashed" => pc[c] # "loop" /\ timer[c] > 0 /\ timer'[c] = timer[c] - 1
    BY Numbers DEF Tick
  <1>5. UNCHANGED <<ctx, pc>>
    BY DEF Tick
  <1>6. ASSUME NEW n \in net', Current(n) PROVE Knows(n)'
    <2>1. PICK m \in net :
             /\ n.type = m.type /\ n.client = m.client /\ n.id = m.id /\ (n.awaited <=> m.awaited)
             /\ n.ttl = m.ttl - 1
      BY <1>1
    <2>2. Current(m)
      BY <1>6, <2>1 DEF Current
    <2>3. Knows(m) /\ CurrentOK(m)
      BY <2>2 DEF OnTime, LInv, MessagesOK
    <2>4. pc[m.client] # "crashed" /\ m.client \in Clients /\ m.ttl \in Nat
      BY <2>2, <2>3, Numbers DEF CurrentOK
    <2>5. timer'[n.client] = timer[m.client] - 1 /\ timer[m.client] \in Nat
      BY <1>4, <2>1, <2>4, Numbers
    <2>6. Slack(n) = Slack(m) /\ Slack(m) \in Nat
      BY <2>1, Numbers DEF Slack
    <2>7. timer'[n.client] + Slack(n) >= Timeout + n.ttl
      BY <2>1, <2>3, <2>4, <2>5, <2>6, Numbers DEF Knows
    <2>8. cache'.age + n.ttl <= cache.age + m.ttl
      BY <1>3, <2>1, <2>4, Numbers
    <2> QED
      BY <1>3, <2>1, <2>3, <2>4, <2>7, <2>8, Numbers DEF Knows
  <1>7. ASSUME NEW c \in Clients PROVE Rests(c)'
    <2>1. Rests(c)
      BY DEF OnTime
    <2> QED
      BY <1>3, <1>4, <1>5, <2>1, Numbers DEF Rests
  <1>8. \A c \in Clients : UnderWay(c)' /\ AppliesWithout(c)'
    BY <1>2, <1>5 DEF OnTime, UnderWay, AppliesWithout, Current
  <1> QED
    BY <1>6, <1>7, <1>8 DEF OnTime, Current

LEMMA InitK == Init => KInv
  BY DEF Init, KInv, OnTime, Rests, UnderWay, AppliesWithout

\* Once a message is lost nothing is claimed any more.
LEMMA NextK ==
    ASSUME Timely, LInv, KInv, [Next]_vars
    PROVE  KInv'
  <1> SUFFICES ASSUME lost' = 0 PROVE OnTime'
    BY DEF KInv
  <1>1. lost = 0
    <2>1. lost \in Nat
      BY LeaseAssumption DEF LInv, TypeOK
    <2>2. ~Lose
      BY <2>1 DEF Lose
    <2>3. ASSUME NEW c \in Clients, LeaseThread(c) PROVE lost' = lost
      BY <2>3 DEF LeaseThread, ThreadFunc, Wake, CallAnswered, CallTimedOut
    <2>4. ASSUME NEW c \in Clients, Server(c) PROVE lost' = lost
      BY <2>4 DEF Server, ServerApply, ServerRenewal, ServerCheck, ServerHandled
    <2>5. ASSUME NEW c \in Clients, LateAnswer(c) \/ Call(c) \/ Crash(c) PROVE lost' = lost
      BY <2>5 DEF LateAnswer, Call, Crash
    <2>6. CASE Tick \/ UNCHANGED vars
      BY <2>6 DEF Tick, vars
    <2> QED
      BY <2>2, <2>3, <2>4, <2>5, <2>6 DEF Next
  <1>2. OnTime
    BY <1>1 DEF KInv
  <1>3. ASSUME NEW c \in Clients, Wake(c) PROVE OnTime'
    <2>1. \A d \in Clients : pc'[d] = pc[d] \/ (pc[d] = "sleep" /\ pc'[d] = "loop")
      BY <1>3 DEF Wake, LInv, TypeOK
    <2> QED
      BY <1>2, <1>3, <2>1, QuietK DEF Wake
  <1>4. ASSUME NEW c \in Clients, LateAnswer(c) PROVE OnTime'
    <2>1. \A m \in net : Current(m) => m \in net'
      BY <1>4 DEF LateAnswer, Current
    <2>2. net' \subseteq net /\ UNCHANGED <<cache, ctx, timer, pc>>
      BY <1>4 DEF LateAnswer
    <2> QED
      BY <1>2, <2>1, <2>2, QuietK
  <1>5. ASSUME NEW c \in Clients, Call(c) PROVE OnTime'
    <2>1. \A m \in net' : Current(m) => m \in net
      BY <1>5 DEF Call, Msg, Current
    <2>2. net \subseteq net' /\ UNCHANGED <<cache, ctx, timer, pc>>
      BY <1>5 DEF Call
    <2> QED
      BY <1>2, <2>1, <2>2, QuietK
  <1>6. CASE UNCHANGED <<cache, ctx, timer, pc, net>>
    BY <1>2, <1>6, QuietK
  <1>7. ASSUME NEW c \in Clients, ServerHandled(c) PROVE OnTime'
    BY <1>6, <1>7 DEF ServerHandled
  <1>8. CASE UNCHANGED vars
    BY <1>6, <1>8 DEF vars
  <1>9. ~Lose
    BY <1>1 DEF Lose
  <1>10. ASSUME NEW c \in Clients, LeaseThread(c) PROVE OnTime'
    BY <1>2, <1>3, <1>10, ThreadFuncK, CallAnsweredK, NoTimeout DEF LeaseThread
  <1>11. ASSUME NEW c \in Clients, Server(c) PROVE OnTime'
    BY <1>2, <1>7, <1>11, ServerApplyK, ServerRenewalK, ServerCheckK DEF Server
  <1> QED
    BY <1>2, <1>4, <1>5, <1>8, <1>9, <1>10, <1>11, CrashK, TickK DEF Next

LEMMA KeepK ==
    ASSUME Timely, LInv, KInv, [Next]_vars, lost = 0,
           NEW c \in Clients, ctx[c] # 0, pc'[c] # "crashed"
    PROVE  ctx'[c] = ctx[c]
  <1>1. OnTime
    BY DEF KInv
  <1>2. ASSUME NEW d \in Clients, CallAnswered(d) PROVE ctx'[c] = ctx[c]
    <2>1. CASE d = c
      BY <1>1, <1>2, <2>1, CallAnsweredK
    <2>2. CASE d # c
      BY <1>2, <2>2 DEF CallAnswered, LInv, TypeOK
    <2> QED
      BY <2>1, <2>2
  <1>3. ASSUME NEW d \in Clients, Crash(d) PROVE ctx'[c] = ctx[c]
    BY <1>3 DEF Crash, LInv, TypeOK
  <1>4. CASE UNCHANGED ctx
    BY <1>4
  <1> QED
    BY <1>2, <1>3, <1>4 DEF Next, LeaseThread, ThreadFunc, Wake, CallTimedOut, LateAnswer, Call,
           Server, ServerApply, ServerRenewal, ServerCheck, ServerHandled, Lose, Tick, vars

\* LeaseClient's sleep of 0.3 of the term (GetWaitSec) is short enough: while
\* no message is lost, and none is under way for more than half of what the
\* sleep leaves of the term nor for half the timeout of a call, no client that
\* has the lease is refused it or loses it to another.
THEOREM HolderKeeps == ASSUME Timely PROVE Spec => HolderKeepsLease
  <1>1. LInv /\ KInv /\ [Next]_vars => LInv' /\ KInv'
    BY NextL, NextK
  <1>2. LInv /\ KInv /\ [Next]_vars =>
           [lost = 0 => \A c \in Clients : ctx[c] # 0 /\ pc'[c] # "crashed" => ctx'[c] = ctx[c]]_vars
    BY KeepK
  <1> QED
    BY <1>1, <1>2, InitL, InitK, PTL DEF Spec, HolderKeepsLease
============================================================================
