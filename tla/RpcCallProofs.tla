--------------------------- MODULE RpcCallProofs ---------------------------
(***************************************************************************)
(* Proofs about RpcCall for any number of threads, calls and answers and   *)
(* any lengths of the queues: that it implements the safety part of        *)
(* RemoteCall, serves in order, sleeps over no answer and loses no future. *)
(***************************************************************************)
EXTENDS RpcCall, SequenceTheorems, TLAPS

----------------------------------------------------------------------------
(* Sequences that hold requests, and the order they are in.                 *)

Elems(s) == {s[i] : i \in 1..Len(s)}

\* Of two requests of one thread, a was made before b.
Before(calls, a, b) == calls[a].caller = calls[b].caller => a < b
AllBefore(calls, A, B) == \A a \in A, b \in B : Before(calls, a, b)
Ordered(calls, s) == \A i, j \in 1..Len(s) : i < j => Before(calls, s[i], s[j])

LEMMA EmptyElems == Elems(<<>>) = {} /\ \A calls : Ordered(calls, <<>>)
  BY DEF Elems, Ordered

\* What is taken from the front precedes the rest.
LEMMA TailElems ==
    ASSUME NEW S, NEW s \in Seq(S), s # <<>>
    PROVE  /\ Head(s) \in S /\ Tail(s) \in Seq(S) /\ Len(Tail(s)) = Len(s) - 1
           /\ Head(s) \in Elems(s) /\ Elems(Tail(s)) \subseteq Elems(s)
           /\ \A calls : Ordered(calls, s) =>
                 Ordered(calls, Tail(s)) /\ AllBefore(calls, {Head(s)}, Elems(Tail(s)))
  <1>1. /\ Head(s) \in S /\ Tail(s) \in Seq(S) /\ Len(Tail(s)) = Len(s) - 1
        /\ Len(s) \in Nat \ {0} /\ Head(s) = s[1]
    BY HeadTailProperties, EmptySeq
  <1>2. \A i \in 1..Len(Tail(s)) : Tail(s)[i] = s[i + 1]
    BY <1>1
  <1>3. Elems(Tail(s)) \subseteq Elems(s)
    <2> SUFFICES ASSUME NEW i \in 1..Len(Tail(s)) PROVE Tail(s)[i] \in Elems(s)
      BY DEF Elems
    <2>1. i + 1 \in 1..Len(s) /\ Tail(s)[i] = s[i + 1]
      BY <1>1, <1>2
    <2> QED
      BY <2>1 DEF Elems
  <1>4. ASSUME NEW calls, Ordered(calls, s)
        PROVE  Ordered(calls, Tail(s)) /\ AllBefore(calls, {Head(s)}, Elems(Tail(s)))
    <2>1. ASSUME NEW i \in 1..Len(Tail(s)), NEW j \in 1..Len(Tail(s)), i < j
          PROVE  Before(calls, Tail(s)[i], Tail(s)[j])
      BY <1>1, <1>2, <1>4, <2>1 DEF Ordered
    <2>2. ASSUME NEW i \in 1..Len(Tail(s))
          PROVE  Before(calls, Head(s), Tail(s)[i])
      BY <1>1, <1>2, <1>4 DEF Ordered
    <2> QED
      BY <2>1, <2>2 DEF Ordered, AllBefore, Elems
  <1>5. Head(s) \in Elems(s)
    BY <1>1 DEF Elems
  <1> QED
    BY <1>1, <1>3, <1>4, <1>5

LEMMA AppendElems ==
    ASSUME NEW S, NEW s \in Seq(S), NEW x \in S
    PROVE  /\ Append(s, x) \in Seq(S) /\ Len(Append(s, x)) = Len(s) + 1
           /\ Elems(Append(s, x)) \subseteq Elems(s) \cup {x}
           /\ \A calls : Ordered(calls, s) /\ AllBefore(calls, Elems(s), {x}) =>
                 Ordered(calls, Append(s, x))
  <1> DEFINE q == Append(s, x)
  <1>1. /\ q \in Seq(S) /\ Len(s) \in Nat /\ Len(q) = Len(s) + 1
        /\ \A i \in 1..Len(s) : q[i] = s[i]
        /\ q[Len(s) + 1] = x
    BY AppendProperties
  <1>2. Elems(q) \subseteq Elems(s) \cup {x}
    <2>1. ASSUME NEW i \in 1..Len(q) PROVE q[i] \in Elems(s) \cup {x}
      BY <1>1 DEF Elems
    <2> QED
      BY <2>1 DEF Elems
  <1>3. ASSUME NEW calls, Ordered(calls, s), AllBefore(calls, Elems(s), {x})
        PROVE  Ordered(calls, q)
    <2> SUFFICES ASSUME NEW i \in 1..Len(q), NEW j \in 1..Len(q), i < j
                 PROVE  Before(calls, q[i], q[j])
      BY DEF Ordered
    <2>1. CASE j <= Len(s)
      BY <1>1, <1>3, <2>1 DEF Ordered
    <2>2. CASE j = Len(s) + 1
      <3>1. i \in 1..Len(s) /\ q[i] = s[i] /\ q[j] = x
        BY <1>1, <2>2
      <3> QED
        BY <1>3, <3>1 DEF AllBefore, Elems
    <2> QED
      BY <1>1, <2>1, <2>2
  <1> QED
    BY <1>1, <1>2, <1>3

\* A bounded queue keeps its bound and its order, whichever request it drops.
LEMMA PutElems ==
    ASSUME NEW S, NEW s \in Seq(S), NEW x \in S, NEW replace \in BOOLEAN,
           NEW n \in Nat \ {0}, Len(s) <= n
    PROVE  /\ Put(s, x, replace, n) \in Seq(S)
           /\ Len(Put(s, x, replace, n)) <= n
           /\ Elems(Put(s, x, replace, n)) \subseteq Elems(s) \cup {x}
           /\ \A calls : Ordered(calls, s) /\ AllBefore(calls, Elems(s), {x}) =>
                 Ordered(calls, Put(s, x, replace, n))
  <1> DEFINE p == Put(s, x, replace, n)
             tl == Tail(s)
  <1>0. Len(s) \in Nat
    BY LenProperties
  <1>1. \/ Len(s) < n /\ p = Append(s, x)
        \/ Len(s) = n /\ p = Append(tl, x)
        \/ p = s
    BY <1>0 DEF Put
  <1>2. Len(s) = n => /\ tl \in Seq(S) /\ Len(tl) = n - 1 /\ Elems(tl) \subseteq Elems(s)
                      /\ \A calls : Ordered(calls, s) => Ordered(calls, tl)
    <2>1. Len(s) = n => s # <<>>
      OBVIOUS
    <2> QED
      BY <2>1, TailElems
  <1> HIDE DEF p, tl
  <1>3. /\ p \in Seq(S) /\ Len(p) <= n /\ Elems(p) \subseteq Elems(s) \cup {x}
        /\ \A calls : Ordered(calls, s) /\ AllBefore(calls, Elems(s), {x}) => Ordered(calls, p)
    <2>1. ASSUME NEW q \in Seq(S), Len(q) < n, p = Append(q, x), Elems(q) \subseteq Elems(s),
                 \A calls : Ordered(calls, s) => Ordered(calls, q)
          PROVE  <1>3
      <3>1. p \in Seq(S) /\ Len(p) <= n
        <4>1. Len(q) \in Nat /\ p \in Seq(S) /\ Len(p) = Len(q) + 1
          BY <2>1, AppendProperties, LenProperties
        <4> QED
          BY <2>1, <4>1
      <3>2. Elems(p) \subseteq Elems(q) \cup {x}
        BY <2>1, AppendElems
      <3>3. ASSUME NEW calls, Ordered(calls, s), AllBefore(calls, Elems(s), {x})
            PROVE  Ordered(calls, p)
        <4>1. Ordered(calls, q) /\ AllBefore(calls, Elems(q), {x})
          BY <2>1, <3>3 DEF AllBefore
        <4> QED
          BY <2>1, <4>1, AppendElems
      <3> QED
        BY <2>1, <3>1, <3>2, <3>3
    <2>2. CASE Len(s) < n /\ p = Append(s, x)
      BY <2>1, <2>2
    <2>3. CASE Len(s) = n /\ p = Append(tl, x)
      <3>1. Len(tl) < n
        BY <1>2, <2>3
      <3> QED
        BY <1>2, <2>1, <2>3, <3>1
    <2>4. CASE p = s
      BY <2>4
    <2> QED
      BY <1>1, <2>2, <2>3, <2>4
  <1> QED
    BY <1>3 DEF p

----------------------------------------------------------------------------
(* The inductive invariant.                                                 *)

Issued == 1..Len(call)
Unwritten == {"set", "write"}

\* A thread's last call is its current one, and open while it is in it; only
\* a call with a reply gets a future; who is notified waits for an answer
\* that is there.
CallerOK ==
    \A c \in Callers :
        /\ \A r \in Issued : call[r].caller = c => r <= cur[c]
        /\ pc[c] # "idle" =>
              /\ cur[c] \in Issued /\ call[cur[c]].caller = c
              /\ outcome[cur[c]] = "open"
        /\ pc[c] \in {"set", "get", "wait", "expired"} => ~call[cur[c]].noreply
        /\ c \in notified => pc[c] \in {"wait", "expired"} /\ fut[cur[c]] # "defer"

NotYetMade == \A r \in Calls : r > Len(call) => outcome[r] = "none"

\* Requests that are on their way to the server, stage by stage.
Hand == {hand} \ {0}
Busy(l) == {busy[l]} \ {0}
InLane(l) == Elems(queue[l]) \cup Busy(l)
Coming == Elems(reqs) \cup Elems(chanQ) \cup Hand
Served == {r \in Calls : served[r] # <<>>}

\* A request that is on its way, or was served, has been written once, by a
\* caller that will not report a send error for it.
Written == {r \in Issued : /\ outcome[r] \notin {"none", "send_error"}
                           /\ \A c \in Callers : cur[c] = r => pc[c] \notin Unwritten}
OnlyWritten ==
    /\ Coming \subseteq Written
    /\ \A l \in Lanes : InLane(l) \subseteq Written
    /\ Served \subseteq Written

\* Every lane has its own requests, and each thread's are in the order of its
\* calls: within a stage, between the stages, and after those that were served.
\* A request is at one place, for it does not precede itself.
LanesApart == \A l \in Lanes : \A r \in InLane(l) : Lane(r) = l
InStages ==
    /\ Ordered(call, reqs) /\ Ordered(call, chanQ)
    /\ \A l \in Lanes : Ordered(call, queue[l])
BetweenStages ==
    /\ AllBefore(call, Elems(chanQ), Elems(reqs))
    /\ AllBefore(call, Hand, Elems(chanQ) \cup Elems(reqs))
    /\ \A l \in Lanes : AllBefore(call, InLane(l), Coming)
    /\ \A l \in Lanes : AllBefore(call, Busy(l), Elems(queue[l]))
    /\ AllBefore(call, Served, Coming)
    /\ \A l \in Lanes : AllBefore(call, {r \in Served : Lane(r) = l}, InLane(l))

Flow == OnlyWritten /\ LanesApart /\ InStages /\ BetweenStages

\* What comes back is what the server answered.
Answered(m) == served[m.id] = <<m.answer>>
AnswersOK ==
    /\ \A m \in Elems(resps) \cup Elems(respQ) : Answered(m)
    /\ reader # NoResponse => reader.id \in Calls /\ Answered(reader)
    /\ \A r \in Calls : fut[r] # "defer" => served[r] = <<fut[r]>>

\* AnswerFindsFuture from the moment the future is in the table.
FutureThere ==
    \A c \in Callers :
        pc[c] \in {"write", "get", "wait"} /\ ~call[cur[c]].noreply =>
            cur[c] \in table \/ reader.id = cur[c] \/ fut[cur[c]] # "defer"

IInv ==
    /\ TypeOK /\ Flow
    /\ CallerOK /\ NotYetMade /\ AnswersOK /\ FutureThere /\ NoLostWakeup

----------------------------------------------------------------------------
(* Type correctness.                                                        *)

Call == [caller : Callers, noreply : BOOLEAN, prio : BOOLEAN]
Outcomes == Answers \cup {"none", "open", "sent", "send_error", "timeout"}

LEMMA LaneTypes ==
    /\ \A r : Lane(r) \in Lanes
    /\ \A l \in Lanes : LaneLen(l) \in Nat \ {0}
  BY RpcAssumption DEF Lane, Lanes, LaneLen

LEMMA NoResponseType == NoResponse.id = 0 /\ NoResponse.answer \in Answers
  <1>1. (CHOOSE a \in Answers : TRUE) \in Answers
    BY RpcAssumption
  <1> QED
    BY <1>1 DEF NoResponse

\* A thread's call is added behind the others.
LEMMA SetHeaderCall ==
    ASSUME TypeOK, NEW c \in Callers, SetHeader(c)
    PROVE  /\ call' \in Seq(Call) /\ Len(call) \in Nat /\ Len(call') = Len(call) + 1
           /\ Len(call') \in Calls
           /\ \A r \in Issued : call'[r] = call[r]
           /\ call'[Len(call')].caller = c
           /\ cur' = [cur EXCEPT ![c] = Len(call')]
           /\ outcome' = [outcome EXCEPT ![Len(call')] = "open"]
           /\ \/ call'[Len(call')].noreply /\ pc' = [pc EXCEPT ![c] = "write"]
              \/ ~call'[Len(call')].noreply /\ pc' = [pc EXCEPT ![c] = "set"]
  <1>1. PICK noreply \in BOOLEAN, prio \in BOOLEAN :
            /\ call' = Append(call, [caller |-> c, noreply |-> noreply, prio |-> prio])
            /\ pc' = [pc EXCEPT ![c] = IF noreply THEN "write" ELSE "set"]
    BY DEF SetHeader
  <1> DEFINE new == [caller |-> c, noreply |-> noreply, prio |-> prio]
  <1>2. new \in Call
    BY DEF Call
  <1>3. call \in Seq(Call) /\ Len(call) \in Nat
    BY LenProperties DEF TypeOK, Call
  <1>4. /\ call' \in Seq(Call) /\ Len(call') = Len(call) + 1
        /\ \A r \in Issued : call'[r] = call[r]
        /\ call'[Len(call) + 1] = new
    BY <1>1, <1>2, <1>3, AppendProperties DEF Issued
  <1>5. Len(call') \in Calls
    BY <1>3, <1>4, RpcAssumption DEF SetHeader, Calls
  <1>6. call'[Len(call')] = new
    BY <1>4
  <1>7. \/ call'[Len(call')].noreply /\ pc' = [pc EXCEPT ![c] = "write"]
        \/ ~call'[Len(call')].noreply /\ pc' = [pc EXCEPT ![c] = "set"]
    <2>1. call'[Len(call')].noreply = noreply
      BY <1>6
    <2>2. CASE noreply
      <3>1. pc' = [pc EXCEPT ![c] = "write"]
        BY <1>1, <2>2
      <3> QED
        BY <2>1, <2>2, <3>1, Zenon
    <2>3. CASE ~noreply
      <3>1. pc' = [pc EXCEPT ![c] = "set"]
        BY <1>1, <2>3
      <3> QED
        BY <2>1, <2>3, <3>1, Zenon
    <2> QED
      BY <2>2, <2>3
  <1>8. /\ cur' = [cur EXCEPT ![c] = Len(call')]
        /\ outcome' = [outcome EXCEPT ![Len(call')] = "open"]
        /\ call'[Len(call')].caller = c
    BY <1>6 DEF SetHeader
  <1> QED
    BY <1>3, <1>4, <1>5, <1>7, <1>8, Zenon

LEMMA TypeInit == Init => TypeOK
  <1> SUFFICES ASSUME Init PROVE TypeOK
    OBVIOUS
  <1>1. Len(<<>>) = 0 /\ \A S : <<>> \in Seq(S)
    BY EmptySeq
  <1>2. NoResponse \in [id : 0..0, answer : Answers]
    BY NoResponseType DEF NoResponse
  <1>3. call = <<>> /\ Len(call) = 0 /\ Len(call) <= MaxCalls
    BY <1>1, RpcAssumption DEF Init
  <1>4. \A l \in Lanes : queue[l] = <<>> /\ Len(queue[l]) <= LaneLen(l)
    BY <1>1, LaneTypes DEF Init
  <1> QED
    BY <1>1, <1>2, <1>3, <1>4, RpcAssumption DEF Init, TypeOK

\* The client's steps change what belongs to one thread.
LEMMA TypeCaller ==
    ASSUME TypeOK, CallerOK, NEW c \in Callers, Caller(c)
    PROVE  TypeOK'
  <1>0. /\ cur \in [Callers -> 0..Len(call)] /\ Len(call) \in Nat /\ Len(call) <= MaxCalls
        /\ pc[c] # "idle" => cur[c] \in Issued /\ cur[c] \in Calls
    BY LenProperties, RpcAssumption DEF TypeOK, CallerOK, Issued, Calls
  <1>1. CASE SetFuture(c)
    BY <1>0, <1>1 DEF TypeOK, SetFuture, serverVars, readerVars, Issued, LaneLen
  <1>2. CASE Write(c)
    <2>1. cur[c] \in Calls /\ reqs' = Append(reqs, cur[c])
      BY <1>0, <1>2 DEF Write
    <2>2. reqs' \in Seq(Calls)
      BY <2>1, AppendProperties DEF TypeOK
    <2>3. /\ pc' \in [Callers -> {"idle", "set", "write", "get", "wait", "expired"}]
          /\ outcome' \in [Calls -> Outcomes]
      BY <1>2 DEF TypeOK, Write, Return, Outcomes
    <2> QED
      BY <1>2, <2>2, <2>3 DEF TypeOK, Write, futureVars, serverVars, readerVars, LaneLen, Outcomes
  <1>3. CASE WriteError(c)
    BY <1>3 DEF TypeOK, WriteError, Return, Remove, serverVars, readerVars, LaneLen
  <1>4. CASE GetResult(c)
    <2>1. fut[cur[c]] \in Answers \cup {"defer"}
      BY <1>0, <1>4 DEF GetResult, TypeOK
    <2>2. /\ pc' \in [Callers -> {"idle", "set", "write", "get", "wait", "expired"}]
          /\ outcome' \in [Calls -> Outcomes]
      BY <1>4, <2>1 DEF TypeOK, GetResult, Return, Outcomes
    <2> QED
      BY <1>4, <2>2 DEF TypeOK, GetResult, futureVars, serverVars, readerVars, LaneLen, Outcomes
  <1>5. CASE Woken(c)
    <2>1. fut[cur[c]] \in Answers
      BY <1>0, <1>5 DEF Woken, TypeOK, CallerOK
    <2> QED
      BY <1>5, <2>1 DEF TypeOK, Woken, Return, serverVars, readerVars, LaneLen
  <1>6. CASE Expire(c)
    BY <1>6 DEF TypeOK, Expire, futureVars, serverVars, readerVars, LaneLen
  <1>7. CASE TimedOut(c)
    BY <1>7 DEF TypeOK, TimedOut, Return, Remove, serverVars, readerVars, LaneLen
  <1> QED
    BY <1>1, <1>2, <1>3, <1>4, <1>5, <1>6, <1>7 DEF Caller

\* The server's queues keep their bounds, whatever they refuse or drop.
LEMMA TypeServer ==
    ASSUME TypeOK, OnlyWritten, OnRequest \/ ChannelThread \/ Enqueue \/ LoseRequest
    PROVE  TypeOK'
  <1>0. ChannelLen \in Nat \ {0} /\ Len(call) \in Nat /\ Len(call) <= MaxCalls
    BY RpcAssumption, LenProperties DEF TypeOK
  <1>1. CASE OnRequest
    <2>1. reqs # <<>> /\ Head(reqs) \in Calls /\ reqs' \in Seq(Calls)
      BY <1>1, TailElems DEF OnRequest, TypeOK
    <2>2. chanQ' \in Seq(Calls) /\ Len(chanQ') <= ChannelLen
      BY <1>0, <1>1, <2>1, PutElems DEF OnRequest, TypeOK
    <2> QED
      BY <1>1, <2>1, <2>2 DEF TypeOK, OnRequest, clientVars, futureVars, readerVars, LaneLen
  <1>2. CASE ChannelThread
    <2>1. chanQ # <<>> /\ hand' = Head(chanQ) /\ chanQ' = Tail(chanQ)
      BY <1>2 DEF ChannelThread, Get
    <2>2. /\ Head(chanQ) \in Elems(chanQ) /\ chanQ' \in Seq(Calls)
          /\ Len(chanQ') = Len(chanQ) - 1
      BY <2>1, TailElems DEF TypeOK
    <2>3. hand' \in 0..Len(call)
      BY <1>0, <2>1, <2>2 DEF OnlyWritten, Coming, Written, Issued
    <2>4. Len(chanQ') <= ChannelLen
      BY <1>0, <2>2, LenProperties DEF TypeOK
    <2> QED
      BY <1>2, <2>2, <2>3, <2>4
      DEF TypeOK, ChannelThread, clientVars, futureVars, readerVars, LaneLen
  <1>3. CASE Enqueue
    <2> DEFINE l == Lane(hand)
    <2>1. l \in Lanes /\ LaneLen(l) \in Nat \ {0}
      BY LaneTypes
    <2>2. hand \in Calls
      BY <1>0, <1>3, RpcAssumption DEF Enqueue, TypeOK, Calls
    <2>3. /\ Put(queue[l], hand, TRUE, LaneLen(l)) \in Seq(Calls)
          /\ Len(Put(queue[l], hand, TRUE, LaneLen(l))) <= LaneLen(l)
      <3>1. queue[l] \in Seq(Calls) /\ Len(queue[l]) <= LaneLen(l) /\ TRUE \in BOOLEAN
        BY <2>1 DEF TypeOK
      <3> HIDE DEF l
      <3> QED
        BY <2>1, <2>2, <3>1, PutElems, Zenon
    <2>4. queue' = [queue EXCEPT ![l] = Put(queue[l], hand, TRUE, LaneLen(l))]
      BY <1>3, <2>1 DEF Enqueue, TypeOK
    <2>5. queue' \in [Lanes -> Seq(Calls)] /\ \A m \in Lanes : Len(queue'[m]) <= LaneLen(m)
      BY <2>1, <2>3, <2>4 DEF TypeOK
    <2>6. hand' \in 0..Len(call)
      BY <1>0, <1>3 DEF Enqueue
    <2> QED
      BY <1>3, <2>5, <2>6 DEF TypeOK, Enqueue, clientVars, futureVars, readerVars, LaneLen
  <1>4. CASE LoseRequest
    <2>1. reqs' \in Seq(Calls)
      BY <1>4, TailElems DEF LoseRequest, TypeOK
    <2> QED
      BY <1>4, <2>1
      DEF TypeOK, LoseRequest, clientVars, futureVars, serverVars, readerVars, LaneLen
  <1> QED
    BY <1>1, <1>2, <1>3, <1>4

LEMMA TypeQueueThread ==
    ASSUME TypeOK, OnlyWritten, NEW l \in Lanes, QueueThread(l)
    PROVE  TypeOK'
  <1>0. Len(call) \in Nat /\ LaneLen(l) \in Nat
    BY LaneTypes, LenProperties DEF TypeOK
  <1>1. /\ queue[l] # <<>> /\ busy' = [busy EXCEPT ![l] = Head(queue[l])]
        /\ queue' = [queue EXCEPT ![l] = Tail(queue[l])]
    BY DEF QueueThread, Get, TypeOK
  <1>2. /\ Head(queue[l]) \in Elems(queue[l]) /\ Tail(queue[l]) \in Seq(Calls)
        /\ Len(Tail(queue[l])) = Len(queue[l]) - 1 /\ Len(queue[l]) \in Nat
    BY <1>1, TailElems, LenProperties DEF TypeOK
  <1>3. Head(queue[l]) \in 0..Len(call)
    BY <1>0, <1>2 DEF OnlyWritten, InLane, Written, Issued
  <1>4. Len(Tail(queue[l])) <= LaneLen(l)
    BY <1>0, <1>2 DEF TypeOK
  <1>5. queue' \in [Lanes -> Seq(Calls)] /\ \A m \in Lanes : Len(queue'[m]) <= LaneLen(m)
    BY <1>1, <1>2, <1>4 DEF TypeOK
  <1>6. busy' \in [Lanes -> 0..Len(call)]
    BY <1>1, <1>3 DEF TypeOK
  <1> QED
    BY <1>5, <1>6 DEF TypeOK, QueueThread, clientVars, futureVars, readerVars, LaneLen

LEMMA TypeHandle ==
    ASSUME TypeOK, NEW l \in Lanes, Handle(l)
    PROVE  TypeOK'
  <1>0. busy[l] \in Calls /\ Len(call) \in Nat
    <2>1. Len(call) \in Nat /\ Len(call) <= MaxCalls
      BY LenProperties DEF TypeOK
    <2>2. busy[l] \in 0..Len(call) /\ busy[l] # 0
      BY DEF Handle, TypeOK
    <2> QED
      BY <2>1, <2>2, RpcAssumption DEF Calls
  <1>1. PICK a \in Answers :
            /\ served' = [served EXCEPT ![busy[l]] = Append(@, a)]
            /\ resps' = IF call[busy[l]].noreply THEN resps
                        ELSE Append(resps, [id |-> busy[l], answer |-> a])
    BY DEF Handle
  <1>2. served' \in [Calls -> Seq(Answers)]
    <2>1. Append(served[busy[l]], a) \in Seq(Answers)
      BY <1>0, AppendProperties DEF TypeOK
    <2> QED
      BY <1>0, <1>1, <2>1 DEF TypeOK
  <1>3. resps' \in Seq(Response)
    <2>1. [id |-> busy[l], answer |-> a] \in Response
      BY <1>0 DEF Response
    <2>2. Append(resps, [id |-> busy[l], answer |-> a]) \in Seq(Response)
      BY <2>1, AppendProperties DEF TypeOK
    <2> QED
      BY <1>1, <2>2 DEF TypeOK
  <1>4. busy' \in [Lanes -> 0..Len(call)]
    BY <1>0 DEF Handle, TypeOK
  <1> QED
    BY <1>2, <1>3, <1>4 DEF TypeOK, Handle, clientVars, futureVars, readerVars, LaneLen

LEMMA TypeReader ==
    ASSUME TypeOK, OnResponse \/ GetFuture \/ Ready \/ LoseResponse
    PROVE  TypeOK'
  <1>0. ChannelLen \in Nat \ {0} /\ Len(call) \in Nat /\ Len(call) <= MaxCalls
    BY RpcAssumption, LenProperties DEF TypeOK
  <1>n. NoResponse \in [id : 0..Len(call), answer : Answers]
    BY <1>0, NoResponseType DEF NoResponse
  <1>1. CASE OnResponse
    <2>1. resps # <<>> /\ Head(resps) \in Response /\ resps' \in Seq(Response)
      BY <1>1, TailElems DEF OnResponse, TypeOK
    <2>2. respQ' \in Seq(Response) /\ Len(respQ') <= ChannelLen
      BY <1>0, <1>1, <2>1, PutElems DEF OnResponse, TypeOK
    <2> QED
      BY <1>1, <2>1, <2>2 DEF TypeOK, OnResponse, clientVars, futureVars, serverVars, LaneLen
  <1>2. CASE GetFuture
    <2> DEFINE m == Head(respQ)
    <2>1. /\ respQ # <<>> /\ respQ' = Tail(respQ)
          /\ reader' = IF m.id \in table THEN m ELSE NoResponse
          /\ table' = table \ {m.id}
      BY <1>2 DEF GetFuture, Get
    <2>2. m \in Response /\ respQ' \in Seq(Response) /\ Len(respQ') = Len(respQ) - 1
      BY <2>1, TailElems DEF TypeOK
    <2>3. Len(respQ') <= ChannelLen
      BY <1>0, <2>2, LenProperties DEF TypeOK
    <2>4. reader' \in [id : 0..Len(call), answer : Answers]
      <3>1. table \subseteq 1..Len(call)
        BY DEF TypeOK
      <3>2. ASSUME NEW x \in Response, x.id \in table
            PROVE  x \in [id : 0..Len(call), answer : Answers]
        <4>1. x.id \in 1..Len(call)
          BY <3>1, <3>2, Zenon
        <4>2. x.id \in 0..Len(call)
          BY <1>0, <4>1
        <4>3. x = [id |-> x.id, answer |-> x.answer] /\ x.answer \in Answers
          BY DEF Response
        <4> QED
          BY <4>2, <4>3
      <3> QED
        BY <1>n, <2>1, <2>2, <3>2
    <2> QED
      BY <1>2, <2>1, <2>2, <2>3, <2>4 DEF TypeOK, GetFuture, clientVars, serverVars, LaneLen
  <1>3. CASE Ready
    BY <1>n, <1>3 DEF TypeOK, Ready, clientVars, serverVars, LaneLen
  <1>4. CASE LoseResponse
    <2>1. resps' \in Seq(Response)
      BY <1>4, TailElems DEF LoseResponse, TypeOK
    <2> QED
      BY <1>4, <2>1
      DEF TypeOK, LoseResponse, clientVars, futureVars, serverVars, readerVars, LaneLen
  <1> QED
    BY <1>1, <1>2, <1>3, <1>4

LEMMA TypeSetHeader ==
    ASSUME TypeOK, NEW c \in Callers, SetHeader(c)
    PROVE  TypeOK'
  <1>1. /\ call' \in Seq(Call) /\ Len(call) \in Nat /\ Len(call') = Len(call) + 1
        /\ Len(call') \in Calls
        /\ cur' = [cur EXCEPT ![c] = Len(call')]
        /\ outcome' = [outcome EXCEPT ![Len(call')] = "open"]
        /\ pc' = [pc EXCEPT ![c] = "write"] \/ pc' = [pc EXCEPT ![c] = "set"]
    BY SetHeaderCall
  <1>2. Len(call') <= MaxCalls
    BY <1>1, RpcAssumption DEF Calls
  <1>3. /\ cur' \in [Callers -> 0..Len(call')] /\ outcome' \in [Calls -> Outcomes]
        /\ pc' \in [Callers -> {"idle", "set", "write", "get", "wait", "expired"}]
    <2>1. cur' \in [Callers -> 0..Len(call')]
      BY <1>1 DEF TypeOK
    <2>2. outcome' \in [Calls -> Outcomes]
      BY <1>1 DEF TypeOK, Outcomes
    <2>3. pc' \in [Callers -> {"idle", "set", "write", "get", "wait", "expired"}]
      BY <1>1 DEF TypeOK
    <2> QED
      BY <2>1, <2>2, <2>3
  <1>4. UNCHANGED <<futureVars, serverVars, readerVars, reqs, resps>>
    BY DEF SetHeader
  <1>5. /\ table' \subseteq 1..Len(call') /\ hand' \in 0..Len(call')
        /\ busy' \in [Lanes -> 0..Len(call')]
        /\ reader' \in [id : 0..Len(call'), answer : Answers]
    BY <1>1, <1>4 DEF TypeOK, futureVars, serverVars, readerVars
  <1> QED
    BY <1>1, <1>2, <1>3, <1>4, <1>5
    DEF TypeOK, futureVars, serverVars, readerVars, LaneLen, Call, Outcomes

----------------------------------------------------------------------------
(* Callers, futures and answers.                                            *)

\* Two threads are never in the same call.
LEMMA OneCaller ==
    ASSUME CallerOK, NEW c \in Callers, NEW d \in Callers,
           pc[c] # "idle", pc[d] # "idle", cur[c] = cur[d]
    PROVE  c = d
  BY DEF CallerOK

LEMMA ClientInit == Init => CallerOK /\ NotYetMade /\ AnswersOK /\ FutureThere /\ NoLostWakeup
  <1> SUFFICES ASSUME Init PROVE CallerOK /\ NotYetMade /\ AnswersOK /\ FutureThere /\ NoLostWakeup
    OBVIOUS
  <1>1. Issued = {}
    BY DEF Init, Issued
  <1>2. CallerOK /\ FutureThere /\ NoLostWakeup
    BY <1>1 DEF Init, CallerOK, FutureThere, NoLostWakeup
  <1>3. NotYetMade
    BY DEF Init, NotYetMade
  <1>4. AnswersOK
    BY EmptyElems DEF Init, AnswersOK
  <1> QED
    BY <1>2, <1>3, <1>4

\* What a step of a caller does to its place and its call.
LEMMA CallerMoves ==
    ASSUME TypeOK, CallerOK, NEW c \in Callers, Caller(c)
    PROVE  /\ pc[c] # "idle" /\ cur[c] \in Issued /\ cur[c] \in Calls
           /\ call' = call /\ cur' = cur
           /\ UNCHANGED <<fut, serverVars, readerVars, resps>>
           /\ \A d \in Callers \ {c} : pc'[d] = pc[d]
           /\ \A r \in Calls : r # cur[c] => outcome'[r] = outcome[r]
           /\ pc'[c] # "idle" => outcome'[cur[c]] = outcome[cur[c]]
           /\ pc[c] \notin Unwritten => pc'[c] \notin Unwritten
  <1>1. pc[c] # "idle" /\ cur[c] \in Issued /\ cur[c] \in Calls
    BY LenProperties, RpcAssumption DEF TypeOK, CallerOK, Issued, Calls,
       Caller, SetFuture, Write, WriteError, GetResult, Woken, Expire, TimedOut
  <1>2. /\ call' = call /\ cur' = cur
        /\ UNCHANGED <<fut, serverVars, readerVars, resps>>
    BY DEF Caller, SetFuture, Write, WriteError, GetResult, Woken, Expire, TimedOut, futureVars
  <1>3. /\ \A d \in Callers \ {c} : pc'[d] = pc[d]
        /\ pc[c] \notin Unwritten => pc'[c] \notin Unwritten
    BY DEF TypeOK, Unwritten, Return,
       Caller, SetFuture, Write, WriteError, GetResult, Woken, Expire, TimedOut
  <1>4. /\ \A r \in Calls : r # cur[c] => outcome'[r] = outcome[r]
        /\ pc'[c] # "idle" => outcome'[cur[c]] = outcome[cur[c]]
    BY DEF TypeOK, Return,
       Caller, SetFuture, Write, WriteError, GetResult, Woken, Expire, TimedOut
  <1> QED
    BY <1>1, <1>2, <1>3, <1>4

LEMMA ClientCaller ==
    ASSUME TypeOK, CallerOK, NotYetMade, AnswersOK, FutureThere, NoLostWakeup,
           NEW c \in Callers, Caller(c)
    PROVE  CallerOK' /\ NotYetMade' /\ AnswersOK' /\ FutureThere' /\ NoLostWakeup'
  <1>0. /\ pc[c] # "idle" /\ cur[c] \in Issued /\ cur[c] \in Calls
        /\ call' = call /\ cur' = cur /\ Issued' = Issued
        /\ UNCHANGED <<fut, serverVars, readerVars, resps>>
        /\ \A d \in Callers \ {c} : pc'[d] = pc[d]
        /\ \A r \in Calls : r # cur[c] => outcome'[r] = outcome[r]
        /\ pc'[c] # "idle" => outcome'[cur[c]] = outcome[cur[c]]
    BY CallerMoves DEF Issued
  <1>1. \A d \in Callers \ {c} : pc[d] # "idle" => cur[d] \in Calls /\ cur[d] # cur[c]
    <2>1. Issued \subseteq Calls
      BY LenProperties, RpcAssumption DEF TypeOK, Issued, Calls
    <2>2. \A d \in Callers : pc[d] # "idle" => cur[d] \in Issued
      BY DEF CallerOK
    <2> QED
      BY <1>0, <2>1, <2>2, OneCaller, Zenon
  <1>2. /\ pc'[c] \in {"set", "get", "wait", "expired"} => ~call[cur[c]].noreply
        /\ \A d \in notified' : d \in notified /\ (d = c => pc'[c] \in {"wait", "expired"})
    BY <1>0 DEF TypeOK, CallerOK, Return, Remove, futureVars,
       Caller, SetFuture, Write, WriteError, GetResult, Woken, Expire, TimedOut
  <1>3. CallerOK'
    BY <1>0, <1>1, <1>2 DEF CallerOK
  <1>4. NotYetMade'
    <2>1. ASSUME NEW r \in Calls, r > Len(call) PROVE outcome'[r] = "none"
      <3>1. Len(call) \in Nat /\ r # cur[c]
        BY <1>0, <2>1, LenProperties DEF Issued, Calls, TypeOK
      <3> QED
        BY <1>0, <2>1, <3>1 DEF NotYetMade
    <2> QED
      BY <1>0, <2>1 DEF NotYetMade
  <1>5. AnswersOK'
    BY <1>0 DEF AnswersOK, Answered, serverVars, readerVars
  <1>6. FutureThere'
    <2>1. table \subseteq table'
      BY DEF Remove, futureVars,
         Caller, SetFuture, Write, WriteError, GetResult, Woken, Expire, TimedOut
    <2>2. /\ pc'[c] = "write" => cur[c] \in table'
          /\ pc'[c] \in {"get", "wait"} => pc[c] \in {"write", "get", "wait"}
      BY <1>0 DEF TypeOK, Return,
         Caller, SetFuture, Write, WriteError, GetResult, Woken, Expire, TimedOut
    <2> QED
      BY <1>0, <2>1, <2>2 DEF FutureThere, readerVars
  <1>7. NoLostWakeup'
    <2>1. notified' = notified \/ notified' = notified \ {c}
      BY DEF futureVars,
         Caller, SetFuture, Write, WriteError, GetResult, Woken, Expire, TimedOut
    <2>2. pc'[c] = "wait" => fut[cur[c]] = "defer"
      BY <1>0 DEF TypeOK, Return,
         Caller, SetFuture, Write, WriteError, GetResult, Woken, Expire, TimedOut
    <2> QED
      BY <1>0, <2>1, <2>2 DEF NoLostWakeup
  <1> QED
    BY <1>3, <1>4, <1>5, <1>6, <1>7

LEMMA ClientSetHeader ==
    ASSUME TypeOK, CallerOK, NotYetMade, AnswersOK, FutureThere, NoLostWakeup,
           NEW c \in Callers, SetHeader(c)
    PROVE  CallerOK' /\ NotYetMade' /\ AnswersOK' /\ FutureThere' /\ NoLostWakeup'
  <1> DEFINE new == Len(call')
  <1>1. /\ Len(call) \in Nat /\ new = Len(call) + 1 /\ new \in Calls
        /\ \A r \in Issued : call'[r] = call[r]
        /\ call'[new].caller = c
        /\ cur' = [cur EXCEPT ![c] = new]
        /\ outcome' = [outcome EXCEPT ![new] = "open"]
        /\ \/ call'[new].noreply /\ pc' = [pc EXCEPT ![c] = "write"]
           \/ ~call'[new].noreply /\ pc' = [pc EXCEPT ![c] = "set"]
    BY SetHeaderCall
  <1>2. UNCHANGED <<futureVars, serverVars, readerVars, reqs, resps>> /\ pc[c] = "idle"
    BY DEF SetHeader
  <1>3. new \notin Issued /\ Issued' = Issued \cup {new} /\ Issued \subseteq Calls
    <2>1. Len(call) \in Nat /\ Len(call) <= MaxCalls
      BY RpcAssumption DEF TypeOK
    <2>2. new = Len(call) + 1 /\ Len(call') = Len(call) + 1
      BY <1>1
    <2> QED
      BY <2>1, <2>2, RpcAssumption DEF Issued, Calls
  <1>4. /\ cur'[c] = new /\ outcome'[new] = "open" /\ pc'[c] \in {"set", "write"}
        /\ pc'[c] = "write" => call'[new].noreply
        /\ pc'[c] = "set" => ~call'[new].noreply
        /\ \A d \in Callers \ {c} : cur'[d] = cur[d] /\ pc'[d] = pc[d]
        /\ \A r \in Calls \ {new} : outcome'[r] = outcome[r]
    BY <1>1 DEF TypeOK
  <1> HIDE DEF new
  <1>5. CallerOK'
    <2> SUFFICES ASSUME NEW d \in Callers
                 PROVE  (/\ \A r \in Issued : call[r].caller = d => r <= cur[d]
                         /\ pc[d] # "idle" =>
                               /\ cur[d] \in Issued /\ call[cur[d]].caller = d
                               /\ outcome[cur[d]] = "open"
                         /\ pc[d] \in {"set", "get", "wait", "expired"} => ~call[cur[d]].noreply
                         /\ d \in notified => pc[d] \in {"wait", "expired"} /\ fut[cur[d]] # "defer")'
      BY DEF CallerOK
    <2>1. CASE d = c
      <3>1. \A r \in Issued' : r <= new
        BY <1>1, <1>3 DEF Issued
      <3>2. c \notin notified'
        BY <1>2 DEF CallerOK, futureVars
      <3> QED
        BY <1>1, <1>3, <1>4, <2>1, <3>1, <3>2
    <2>2. CASE d # c
      <3>1. \A r \in Issued' : call'[r].caller = d => r \in Issued /\ call'[r] = call[r]
        BY <1>1, <1>3, <2>2
      <3>2. cur'[d] = cur[d] /\ pc'[d] = pc[d] /\ notified' = notified /\ fut' = fut
        BY <1>2, <1>4, <2>2 DEF futureVars
      <3>3. pc[d] # "idle" => cur[d] \in Issued /\ call'[cur[d]] = call[cur[d]] /\ outcome'[cur[d]] = outcome[cur[d]]
        BY <1>1, <1>3, <1>4 DEF CallerOK
      <3> QED
        BY <1>3, <3>1, <3>2, <3>3 DEF CallerOK
    <2> QED
      BY <2>1, <2>2
  <1>6. NotYetMade'
    <2>1. ASSUME NEW r \in Calls, r > new PROVE outcome'[r] = "none"
      <3>1. r # new /\ r > Len(call)
        BY <1>1, <2>1 DEF Calls
      <3> QED
        BY <1>4, <2>1, <3>1 DEF NotYetMade
    <2> QED
      BY <2>1 DEF NotYetMade, new
  <1>7. AnswersOK'
    BY <1>2 DEF AnswersOK, Answered, futureVars, serverVars, readerVars
  <1>8. FutureThere'
    <2> SUFFICES ASSUME NEW d \in Callers, pc'[d] \in {"write", "get", "wait"}, ~call'[cur'[d]].noreply
                 PROVE  cur'[d] \in table' \/ reader'.id = cur'[d] \/ fut'[cur'[d]] # "defer"
      BY DEF FutureThere
    <2>1. d # c /\ pc'[d] = pc[d] /\ cur'[d] = cur[d] /\ pc[d] # "idle"
      BY <1>4
    <2>2. call'[cur[d]] = call[cur[d]]
      BY <1>1, <2>1 DEF CallerOK
    <2> QED
      BY <1>2, <2>1, <2>2 DEF FutureThere, futureVars, readerVars
  <1>9. NoLostWakeup'
    BY <1>2, <1>4 DEF NoLostWakeup, futureVars
  <1> QED
    BY <1>5, <1>6, <1>7, <1>8, <1>9

\* Moving a request leaves the client, its futures and the answers alone.
LEMMA ClientServer ==
    ASSUME CallerOK, NotYetMade, AnswersOK, FutureThere, NoLostWakeup,
           \/ OnRequest \/ ChannelThread \/ Enqueue \/ LoseRequest
           \/ \E l \in Lanes : QueueThread(l)
    PROVE  CallerOK' /\ NotYetMade' /\ AnswersOK' /\ FutureThere' /\ NoLostWakeup'
  <1>1. UNCHANGED <<clientVars, futureVars, readerVars, served, resps>>
    BY DEF OnRequest, ChannelThread, Enqueue, LoseRequest, QueueThread, serverVars
  <1>2. CallerOK' /\ NotYetMade' /\ FutureThere' /\ NoLostWakeup'
    BY <1>1 DEF CallerOK, NotYetMade, FutureThere, NoLostWakeup, Issued, clientVars, futureVars, readerVars
  <1>3. AnswersOK'
    BY <1>1 DEF AnswersOK, Answered, futureVars, readerVars
  <1> QED
    BY <1>2, <1>3

\* No request is handled twice: one that was would precede itself.
LEMMA HandledOnce ==
    ASSUME TypeOK, LanesApart, BetweenStages, NEW l \in Lanes, busy[l] # 0
    PROVE  busy[l] \in Issued /\ busy[l] \in Calls /\ Lane(busy[l]) = l /\ served[busy[l]] = <<>>
  <1>1. Len(call) \in Nat /\ Len(call) <= MaxCalls /\ busy[l] \in 0..Len(call)
    BY LenProperties DEF TypeOK
  <1>2. busy[l] \in Issued /\ busy[l] \in Calls /\ busy[l] \in Nat
    BY <1>1, RpcAssumption DEF Issued, Calls
  <1>3. busy[l] \in InLane(l)
    BY DEF InLane, Busy
  <1>4. Lane(busy[l]) = l
    BY <1>3 DEF LanesApart
  <1>5. ASSUME served[busy[l]] # <<>> PROVE FALSE
    <2>1. busy[l] \in {r \in Served : Lane(r) = l}
      BY <1>2, <1>4, <1>5 DEF Served
    <2>2. Before(call, busy[l], busy[l])
      BY <1>3, <2>1 DEF BetweenStages, AllBefore
    <2> QED
      BY <1>2, <2>2 DEF Before
  <1> QED
    BY <1>2, <1>4, <1>5

LEMMA ClientHandle ==
    ASSUME TypeOK, CallerOK, NotYetMade, AnswersOK, FutureThere, NoLostWakeup,
           LanesApart, BetweenStages, NEW l \in Lanes, Handle(l)
    PROVE  CallerOK' /\ NotYetMade' /\ AnswersOK' /\ FutureThere' /\ NoLostWakeup'
  <1> DEFINE b == busy[l]
  <1>1. UNCHANGED <<clientVars, futureVars, readerVars>>
    BY DEF Handle
  <1>2. CallerOK' /\ NotYetMade' /\ FutureThere' /\ NoLostWakeup'
    BY <1>1 DEF CallerOK, NotYetMade, FutureThere, NoLostWakeup, Issued, clientVars, futureVars, readerVars
  <1>3. b \in Calls /\ served[b] = <<>>
    BY HandledOnce DEF Handle
  <1>4. PICK a \in Answers :
            /\ served' = [served EXCEPT ![b] = Append(@, a)]
            /\ resps' = IF call[b].noreply THEN resps
                        ELSE Append(resps, [id |-> b, answer |-> a])
    BY DEF Handle
  <1>5. served'[b] = <<a>> /\ \A r \in Calls \ {b} : served'[r] = served[r]
    BY <1>3, <1>4 DEF TypeOK
  <1> HIDE DEF b
  <1>6. ASSUME NEW m, m.id \in Calls, Answered(m) PROVE Answered(m)'
    <2>1. m.id # b
      <3>1. <<m.answer>> # <<>>
        OBVIOUS
      <3> QED
        BY <1>3, <1>6, <3>1, Zenon DEF Answered
    <2>2. served'[m.id] = served[m.id]
      BY <1>5, <1>6, <2>1
    <2> QED
      BY <1>6, <2>2 DEF Answered
  <1>7. Elems(resps') \subseteq Elems(resps) \cup {[id |-> b, answer |-> a]}
    <2>1. [id |-> b, answer |-> a] \in Response
      BY <1>3 DEF Response
    <2>2. Elems(Append(resps, [id |-> b, answer |-> a])) \subseteq Elems(resps) \cup {[id |-> b, answer |-> a]}
      <3>1. ASSUME NEW m \in Response PROVE Elems(Append(resps, m)) \subseteq Elems(resps) \cup {m}
        BY AppendElems DEF TypeOK
      <3> QED
        BY <2>1, <3>1
    <2>3. resps' = resps \/ resps' = Append(resps, [id |-> b, answer |-> a])
      BY <1>4, Zenon
    <2> QED
      BY <2>2, <2>3
  <1>8. ASSUME NEW s \in Seq(Response), NEW m \in Elems(s) PROVE m.id \in Calls
    <2>1. PICK i \in 1..Len(s) : m = s[i]
      BY DEF Elems
    <2>2. m \in Response
      BY <2>1, ElementOfSeq, Zenon
    <2> QED
      BY <2>2 DEF Response
  <1>9. AnswersOK'
    <2>1. ASSUME NEW m \in Elems(resps') \cup Elems(respQ') PROVE Answered(m)'
      <3>1. CASE m = [id |-> b, answer |-> a]
        BY <1>5, <3>1 DEF Answered
      <3>2. CASE m \in Elems(resps) \cup Elems(respQ)
        <4>1. m.id \in Calls
          BY <1>8, <3>2 DEF TypeOK
        <4> QED
          BY <1>6, <3>2, <4>1 DEF AnswersOK
      <3> QED
        BY <1>1, <1>7, <2>1, <3>1, <3>2 DEF readerVars
    <2>2. reader' # NoResponse => reader'.id \in Calls /\ Answered(reader)'
      <3>1. reader' = reader
        BY <1>1 DEF readerVars
      <3>2. reader # NoResponse => reader.id \in Calls /\ Answered(reader)
        BY DEF AnswersOK
      <3>3. reader # NoResponse => served'[reader.id] = served[reader.id]
        BY <1>3, <1>5, <3>2 DEF Answered
      <3> QED
        BY <3>1, <3>2, <3>3 DEF Answered
    <2>3. \A r \in Calls : fut'[r] # "defer" => served'[r] = <<fut'[r]>>
      <3>1. ASSUME NEW r \in Calls, fut[r] # "defer" PROVE served'[r] = <<fut[r]>>
        <4>1. served[r] = <<fut[r]>>
          BY <3>1 DEF AnswersOK
        <4> QED
          BY <1>3, <1>5, <4>1
      <3> QED
        BY <1>1, <3>1 DEF futureVars
    <2> QED
      BY <2>1, <2>2, <2>3 DEF AnswersOK
  <1> QED
    BY <1>2, <1>9

\* Ready stores the answer and notifies under one lock; whatever the reader
\* takes from the table it brings to the future.
LEMMA ClientReader ==
    ASSUME TypeOK, CallerOK, NotYetMade, AnswersOK, FutureThere, NoLostWakeup,
           OnResponse \/ GetFuture \/ Ready \/ LoseResponse
    PROVE  CallerOK' /\ NotYetMade' /\ AnswersOK' /\ FutureThere' /\ NoLostWakeup'
  <1>1. UNCHANGED <<clientVars, serverVars, reqs>>
    BY DEF OnResponse, GetFuture, Ready, LoseResponse
  <1>2. NotYetMade' /\ served' = served
    BY <1>1 DEF NotYetMade, clientVars, serverVars
  <1>3. CASE OnResponse \/ LoseResponse
    <2>1. UNCHANGED <<clientVars, futureVars, serverVars, reader>>
      BY <1>3 DEF OnResponse, LoseResponse, readerVars
    <2>2. CallerOK' /\ FutureThere' /\ NoLostWakeup'
      BY <2>1 DEF CallerOK, FutureThere, NoLostWakeup, Issued, clientVars, futureVars
    <2>3. Elems(resps') \cup Elems(respQ') \subseteq Elems(resps) \cup Elems(respQ)
      <3>1. resps # <<>> /\ resps' = Tail(resps)
        BY <1>3 DEF OnResponse, LoseResponse
      <3>2. Head(resps) \in Response /\ Head(resps) \in Elems(resps) /\ Elems(Tail(resps)) \subseteq Elems(resps)
        BY <3>1, TailElems DEF TypeOK
      <3>3. ChannelLen \in Nat \ {0} /\ FALSE \in BOOLEAN
        BY RpcAssumption
      <3>4. Elems(Put(respQ, Head(resps), FALSE, ChannelLen)) \subseteq Elems(respQ) \cup {Head(resps)}
        BY <3>2, <3>3, PutElems, Zenon DEF TypeOK
      <3> QED
        BY <1>3, <3>1, <3>2, <3>4 DEF OnResponse, LoseResponse, readerVars
    <2>4. AnswersOK'
      BY <2>1, <2>3 DEF AnswersOK, Answered, futureVars, serverVars
    <2> QED
      BY <1>2, <2>2, <2>4
  <1>4. CASE GetFuture
    <2> DEFINE m == Head(respQ)
    <2>1. /\ reader = NoResponse /\ respQ # <<>> /\ respQ' = Tail(respQ) /\ resps' = resps
          /\ reader' = IF m.id \in table THEN m ELSE NoResponse
          /\ table' = table \ {m.id} /\ fut' = fut /\ notified' = notified
      BY <1>4 DEF GetFuture, Get
    <2>2. m \in Response /\ m \in Elems(respQ) /\ Elems(respQ') \subseteq Elems(respQ)
      BY <2>1, TailElems DEF TypeOK
    <2>3. CallerOK' /\ NoLostWakeup'
      BY <1>1, <2>1 DEF CallerOK, NoLostWakeup, Issued, clientVars
    <2>4. m.id \in Calls /\ Answered(m)
      BY <2>2 DEF AnswersOK, Response
    <2> HIDE DEF m
    <2>5. AnswersOK'
      BY <1>2, <2>1, <2>2, <2>4 DEF AnswersOK, Answered
    <2>6. ASSUME NEW c \in Callers, pc[c] \in {"write", "get", "wait"}, ~call[cur[c]].noreply
          PROVE  cur[c] \in table' \/ reader'.id = cur[c] \/ fut[cur[c]] # "defer"
      <3>1. cur[c] \in table \/ fut[cur[c]] # "defer"
        <4>1. reader.id = 0
          BY <2>1, NoResponseType
        <4>2. cur[c] \in Issued /\ cur[c] # 0
          BY <2>6 DEF CallerOK, Issued
        <4> QED
          BY <2>6, <4>1, <4>2 DEF FutureThere
      <3> QED
        BY <2>1, <3>1
    <2>7. FutureThere'
      BY <1>1, <2>1, <2>6 DEF FutureThere, clientVars
    <2> QED
      BY <1>2, <2>3, <2>5, <2>7
  <1>5. CASE Ready
    <2> DEFINE r == reader.id
    <2>1. /\ reader # NoResponse /\ reader' = NoResponse /\ resps' = resps /\ respQ' = respQ
          /\ table' = table
          /\ fut' = [fut EXCEPT ![r] = IF @ = "defer" THEN reader.answer ELSE @]
          /\ notified' = notified \cup {c \in Callers : cur[c] = r /\ pc[c] \in {"wait", "expired"}}
      BY <1>5 DEF Ready
    <2>2. r \in Calls /\ served[r] = <<reader.answer>> /\ reader.answer \in Answers
      BY <2>1 DEF AnswersOK, Answered, TypeOK
    <2>3. fut'[r] # "defer" /\ served[r] = <<fut'[r]>>
      <3>1. reader.answer # "defer"
        BY <2>2, RpcAssumption
      <3>2. fut[r] # "defer" => served[r] = <<fut[r]>>
        BY <2>2 DEF AnswersOK
      <3> QED
        BY <2>1, <2>2, <3>1, <3>2 DEF TypeOK
    <2>4. \A s : s # r => fut'[s] = fut[s]
      BY <2>1 DEF TypeOK
    <2> HIDE DEF r
    <2>5. CallerOK'
      BY <1>1, <2>1, <2>3, <2>4 DEF CallerOK, Issued, clientVars
    <2>6. AnswersOK'
      <3>1. \A s \in Calls : fut'[s] # "defer" => served[s] = <<fut'[s]>>
        BY <2>3, <2>4 DEF AnswersOK
      <3> QED
        BY <1>2, <2>1, <3>1 DEF AnswersOK, Answered
    <2>7. FutureThere'
      BY <1>1, <2>1, <2>3, <2>4 DEF FutureThere, clientVars, r
    <2>8. NoLostWakeup'
      BY <1>1, <2>1, <2>3, <2>4 DEF NoLostWakeup, clientVars
    <2> QED
      BY <1>2, <2>5, <2>6, <2>7, <2>8
  <1> QED
    BY <1>3, <1>4, <1>5

----------------------------------------------------------------------------
(* Requests on their way.                                                   *)

LEMMA FlowInit == Init => Flow
  <1> SUFFICES ASSUME Init PROVE Flow
    OBVIOUS
  <1>1. Coming = {} /\ Served = {} /\ Hand = {} /\ Elems(reqs) = {} /\ Elems(chanQ) = {}
    BY EmptyElems DEF Init, Coming, Served, Hand
  <1>2. \A l \in Lanes : InLane(l) = {} /\ Busy(l) = {} /\ Elems(queue[l]) = {} /\ queue[l] = <<>>
    BY EmptyElems DEF Init, InLane, Busy
  <1> QED
    BY <1>1, <1>2, EmptyElems DEF Init, Flow, OnlyWritten, LanesApart, InStages, BetweenStages, AllBefore

\* The order of calls that were made is the same after another was made.
LEMMA OrderStays ==
    ASSUME NEW old, NEW new, NEW I, \A r \in I : old[r] = new[r]
    PROVE  /\ \A A, B : A \subseteq I /\ B \subseteq I /\ AllBefore(old, A, B) => AllBefore(new, A, B)
           /\ \A s : Elems(s) \subseteq I /\ Ordered(old, s) => Ordered(new, s)
  <1>1. \A a, b \in I : Before(old, a, b) => Before(new, a, b)
    BY DEF Before
  <1>2. ASSUME NEW s, Elems(s) \subseteq I, Ordered(old, s) PROVE Ordered(new, s)
    <2>1. \A i \in 1..Len(s) : s[i] \in I
      BY <1>2 DEF Elems
    <2> QED
      BY <1>1, <1>2, <2>1 DEF Ordered
  <1> QED
    BY <1>1, <1>2 DEF AllBefore

\* A request that was written stays so: its caller is past the write.
LEMMA WrittenStays ==
    ASSUME TypeOK, CallerOK, [Next]_vars
    PROVE  Written \subseteq Written'
  <1>0. Len(call) \in Nat /\ Issued \subseteq Calls
    BY LenProperties, RpcAssumption DEF TypeOK, Issued, Calls
  <1>1. CASE UNCHANGED clientVars
    BY <1>1 DEF Written, Issued, clientVars
  <1>2. ASSUME NEW c \in Callers, Caller(c) PROVE Written \subseteq Written'
    <2>1. /\ pc[c] # "idle" /\ cur[c] \in Issued /\ cur[c] \in Calls
          /\ call' = call /\ cur' = cur
          /\ \A d \in Callers \ {c} : pc'[d] = pc[d]
          /\ \A r \in Calls : r # cur[c] => outcome'[r] = outcome[r]
          /\ pc[c] \notin Unwritten => pc'[c] \notin Unwritten
      BY <1>2, CallerMoves
    <2>2. pc[c] \notin Unwritten => outcome'[cur[c]] \notin {"none", "send_error"}
      <3>1. outcome[cur[c]] = "open" /\ fut[cur[c]] \in Answers \cup {"defer"}
        BY <2>1 DEF CallerOK, TypeOK
      <3>2. c \in notified => fut[cur[c]] # "defer"
        BY DEF CallerOK
      <3> QED
        BY <1>2, <2>1, <3>1, <3>2, RpcAssumption
        DEF TypeOK, Unwritten, Return, Caller, SetFuture, Write, WriteError, GetResult, Woken, Expire, TimedOut
    <2>3. ASSUME NEW r \in Written PROVE r \in Written'
      <3>1. /\ r \in Issued /\ outcome[r] \notin {"none", "send_error"} /\ r \in Calls
            /\ \A d \in Callers : cur[d] = r => pc[d] \notin Unwritten
        BY <1>0 DEF Written
      <3>2. outcome'[r] \notin {"none", "send_error"}
        BY <2>1, <2>2, <3>1
      <3>3. \A d \in Callers : cur[d] = r => pc'[d] \notin Unwritten
        BY <2>1, <3>1
      <3> QED
        BY <2>1, <3>1, <3>2, <3>3 DEF Written, Issued
    <2> QED
      BY <2>3
  <1>3. ASSUME NEW c \in Callers, SetHeader(c) PROVE Written \subseteq Written'
    <2>1. /\ Len(call') = Len(call) + 1 /\ Len(call') \in Calls
          /\ cur' = [cur EXCEPT ![c] = Len(call')]
          /\ outcome' = [outcome EXCEPT ![Len(call')] = "open"]
          /\ pc' = [pc EXCEPT ![c] = "write"] \/ pc' = [pc EXCEPT ![c] = "set"]
      BY <1>3, SetHeaderCall
    <2>d. \A d \in Callers \ {c} : pc'[d] = pc[d]
      BY <2>1 DEF TypeOK
    <2>2. Len(call') \notin Issued /\ Issued \subseteq Issued'
      BY <1>0, <2>1 DEF Issued
    <2>3. ASSUME NEW r \in Written PROVE r \in Written'
      <3>1. /\ r \in Issued /\ outcome[r] \notin {"none", "send_error"} /\ r \in Calls
            /\ \A d \in Callers : cur[d] = r => pc[d] \notin Unwritten
        BY <1>0 DEF Written
      <3>2. outcome'[r] \notin {"none", "send_error"}
        BY <2>1, <2>2, <3>1 DEF TypeOK
      <3>3. \A d \in Callers : cur'[d] = r => d # c /\ cur[d] = r
        BY <2>1, <2>2, <3>1 DEF TypeOK
      <3>4. \A d \in Callers : cur'[d] = r => pc'[d] \notin Unwritten
        BY <2>d, <3>1, <3>3
      <3> QED
        BY <2>2, <3>1, <3>2, <3>4 DEF Written
    <2> QED
      BY <2>3
  <1>4. \/ UNCHANGED clientVars
        \/ \E c \in Callers : SetHeader(c) \/ Caller(c)
    BY DEF Next, vars, OnRequest, ChannelThread, Enqueue, QueueThread, Handle,
       OnResponse, GetFuture, Ready, LoseRequest, LoseResponse
  <1> QED
    BY <1>1, <1>2, <1>3, <1>4

LEMMA FlowSame ==
    ASSUME Flow, Written \subseteq Written', call' = call, UNCHANGED <<serverVars, reqs>>
    PROVE  Flow'
  <1>1. UNCHANGED <<Coming, Served, Hand, reqs, chanQ, queue>>
    BY DEF Coming, Served, Hand, serverVars
  <1>2. \A l \in Lanes : UNCHANGED <<InLane(l), Busy(l), queue[l]>>
    BY DEF InLane, Busy, serverVars
  <1>3. \A r : Lane(r)' = Lane(r)
    BY DEF Lane
  <1>4. OnlyWritten' /\ LanesApart'
    BY <1>1, <1>2, <1>3 DEF Flow, OnlyWritten, LanesApart
  <1>5. InStages'
    BY <1>1, <1>2 DEF Flow, InStages
  <1>6. BetweenStages'
    BY <1>1, <1>2, <1>3 DEF Flow, BetweenStages
  <1> QED
    BY <1>4, <1>5, <1>6 DEF Flow

\* A new call changes nothing for those on their way.
LEMMA FlowSetHeader ==
    ASSUME TypeOK, Flow, Written \subseteq Written', NEW c \in Callers, SetHeader(c)
    PROVE  Flow'
  <1>1. \A r \in Issued : call[r] = call'[r]
    BY SetHeaderCall
  <1>2. UNCHANGED <<serverVars, reqs>>
    BY DEF SetHeader
  <1>3. UNCHANGED <<Coming, Served, Hand, reqs, chanQ, queue>>
    BY <1>2 DEF Coming, Served, Hand, serverVars
  <1>4. \A l \in Lanes : UNCHANGED <<InLane(l), Busy(l), queue[l]>>
    BY <1>2 DEF InLane, Busy, serverVars
  <1>5. /\ Coming \subseteq Issued /\ Served \subseteq Issued /\ Hand \subseteq Issued
        /\ Elems(reqs) \subseteq Issued /\ Elems(chanQ) \subseteq Issued
        /\ \A l \in Lanes : /\ InLane(l) \subseteq Issued /\ Busy(l) \subseteq Issued
                            /\ Elems(queue[l]) \subseteq Issued
    BY DEF Flow, OnlyWritten, Written, Coming, InLane
  <1>6. \A r \in Issued : Lane(r)' = Lane(r)
    BY <1>1 DEF Lane
  <1>7. OnlyWritten' /\ LanesApart'
    BY <1>3, <1>4, <1>5, <1>6 DEF Flow, OnlyWritten, LanesApart
  <1>8. /\ \A A, B : A \subseteq Issued /\ B \subseteq Issued /\ AllBefore(call, A, B) =>
              AllBefore(call', A, B)
        /\ \A s : Elems(s) \subseteq Issued /\ Ordered(call, s) => Ordered(call', s)
    BY <1>1, OrderStays
  <1>9. InStages'
    BY <1>3, <1>4, <1>5, <1>8 DEF Flow, InStages
  <1>10. BetweenStages'
    <2>1. /\ AllBefore(call', Elems(chanQ), Elems(reqs))
          /\ AllBefore(call', Served, Coming)
      BY <1>5, <1>8 DEF Flow, BetweenStages
    <2>2. AllBefore(call', Hand, Elems(chanQ) \cup Elems(reqs))
      <3>1. Elems(chanQ) \cup Elems(reqs) \subseteq Issued
        BY <1>5
      <3> QED
        BY <1>5, <1>8, <3>1 DEF Flow, BetweenStages
    <2>3. ASSUME NEW l \in Lanes
          PROVE  /\ AllBefore(call', InLane(l), Coming)
                 /\ AllBefore(call', Busy(l), Elems(queue[l]))
                 /\ AllBefore(call', {r \in Served : Lane(r)' = l}, InLane(l))
      <3>1. {r \in Served : Lane(r)' = l} = {r \in Served : Lane(r) = l}
        BY <1>5, <1>6
      <3>2. {r \in Served : Lane(r) = l} \subseteq Issued
        BY <1>5
      <3>3. AllBefore(call', {r \in Served : Lane(r) = l}, InLane(l))
        BY <1>5, <1>8, <3>2 DEF Flow, BetweenStages
      <3>4. /\ AllBefore(call', InLane(l), Coming)
            /\ AllBefore(call', Busy(l), Elems(queue[l]))
        BY <1>5, <1>8 DEF Flow, BetweenStages
      <3> QED
        BY <3>1, <3>3, <3>4
    <2> QED
      BY <1>3, <1>4, <2>1, <2>2, <2>3 DEF BetweenStages
  <1> QED
    BY <1>7, <1>9, <1>10 DEF Flow

\* A caller writes its last call, once: it comes after all it has written.
LEMMA FlowWrite ==
    ASSUME TypeOK, CallerOK, Flow, Written \subseteq Written', NEW c \in Callers, Write(c)
    PROVE  Flow'
  <1> DEFINE r == cur[c]
  <1>1. /\ r \in Issued /\ r \in Calls /\ call[r].caller = c /\ outcome[r] = "open"
        /\ call' = call /\ cur' = cur /\ UNCHANGED serverVars
        /\ \A d \in Callers \ {c} : pc'[d] = pc[d]
    <2>1. Caller(c) /\ pc[c] # "idle"
      BY DEF Caller, Write
    <2> QED
      BY <2>1, CallerMoves DEF CallerOK
  <1>2. pc[c] = "write" /\ reqs' = Append(reqs, r)
    BY DEF Write
  <1>3. r \in Written'
    <2>1. pc'[c] \notin Unwritten /\ outcome'[r] \in {"open", "sent"}
      BY <1>1, <1>2 DEF Write, Return, Unwritten, TypeOK
    <2>2. \A d \in Callers \ {c} : cur[d] = r => pc[d] \notin Unwritten
      BY <1>2, OneCaller DEF Unwritten
    <2> QED
      BY <1>1, <2>1, <2>2 DEF Written, Issued
  <1>4. \A w \in Written : Before(call, w, r)
    <2>1. ASSUME NEW w \in Written, call[w].caller = c PROVE w < r
      <3>1. w \in Issued /\ w # r
        BY <1>2 DEF Written, Unwritten
      <3>2. w <= r
        BY <2>1, <3>1 DEF CallerOK
      <3> QED
        BY <1>1, <3>1, <3>2 DEF Issued
    <2> QED
      BY <1>1, <2>1 DEF Before
  <1> HIDE DEF r
  <1>5. Elems(reqs') \subseteq Elems(reqs) \cup {r}
    BY <1>1, <1>2, AppendElems DEF TypeOK
  <1>6. UNCHANGED <<Served, Hand, chanQ, queue>> /\ Coming' \subseteq Coming \cup {r}
    BY <1>1, <1>5 DEF Coming, Served, Hand, serverVars
  <1>7. \A l \in Lanes : UNCHANGED <<InLane(l), Busy(l), queue[l]>>
    BY <1>1 DEF InLane, Busy, serverVars
  <1>8. \A s : Lane(s)' = Lane(s)
    BY <1>1 DEF Lane
  <1>9. OnlyWritten' /\ LanesApart'
    BY <1>3, <1>6, <1>7, <1>8 DEF Flow, OnlyWritten, LanesApart
  <1>10. InStages'
    <2>1. AllBefore(call, Elems(reqs), {r})
      BY <1>4 DEF AllBefore, Flow, OnlyWritten, Coming
    <2>2. Ordered(call, reqs')
      BY <1>1, <1>2, <2>1, AppendElems DEF Flow, InStages, TypeOK
    <2> QED
      BY <1>1, <1>6, <1>7, <2>2 DEF Flow, InStages
  <1>11. BetweenStages'
    <2>1. \A A, B, B2 : A \subseteq Written /\ AllBefore(call, A, B) /\ B2 \subseteq B \cup {r}
                           => AllBefore(call, A, B2)
      BY <1>4 DEF AllBefore
    <2>2. /\ Elems(chanQ) \subseteq Written /\ Hand \subseteq Written /\ Served \subseteq Written
          /\ \A l \in Lanes : InLane(l) \subseteq Written
      BY DEF Flow, OnlyWritten, Coming
    <2>3. /\ AllBefore(call, Elems(chanQ), Elems(reqs'))
          /\ AllBefore(call, Hand, Elems(chanQ) \cup Elems(reqs'))
          /\ \A l \in Lanes : AllBefore(call, InLane(l), Coming')
          /\ AllBefore(call, Served, Coming')
      <3>1. Elems(chanQ) \cup Elems(reqs') \subseteq (Elems(chanQ) \cup Elems(reqs)) \cup {r}
        BY <1>5
      <3> QED
        BY <1>5, <1>6, <2>1, <2>2, <3>1 DEF Flow, BetweenStages
    <2> QED
      BY <1>1, <1>6, <1>7, <1>8, <2>3 DEF Flow, BetweenStages
  <1> QED
    BY <1>9, <1>10, <1>11 DEF Flow

\* The channel reader's queue takes requests in their order, or drops them.
LEMMA FlowRequest ==
    ASSUME TypeOK, Flow, Written \subseteq Written', OnRequest \/ LoseRequest
    PROVE  Flow'
  <1> DEFINE h == Head(reqs)
  <1>1. /\ reqs # <<>> /\ reqs' = Tail(reqs) /\ call' = call
        /\ UNCHANGED <<hand, queue, busy, served>>
    BY DEF OnRequest, LoseRequest, clientVars, serverVars
  <1>2. /\ h \in Calls /\ h \in Elems(reqs) /\ Elems(reqs') \subseteq Elems(reqs)
        /\ Ordered(call, reqs') /\ AllBefore(call, {h}, Elems(reqs'))
    BY <1>1, TailElems DEF TypeOK, Flow, InStages
  <1>3. Elems(chanQ') \subseteq Elems(chanQ) \cup {h} /\ Ordered(call, chanQ')
    <2>1. /\ Elems(Put(chanQ, h, FALSE, ChannelLen)) \subseteq Elems(chanQ) \cup {h}
          /\ Ordered(call, Put(chanQ, h, FALSE, ChannelLen))
      <3>1. AllBefore(call, Elems(chanQ), {h})
        BY <1>2 DEF Flow, BetweenStages, AllBefore
      <3>2. Ordered(call, chanQ) /\ chanQ \in Seq(Calls) /\ Len(chanQ) <= ChannelLen
        BY DEF Flow, InStages, TypeOK
      <3>3. ChannelLen \in Nat \ {0}
        BY RpcAssumption
      <3> HIDE DEF h
      <3> QED
        BY <1>2, <3>1, <3>2, <3>3, PutElems
    <2> QED
      BY <2>1 DEF OnRequest, LoseRequest, serverVars, Flow, InStages
  <1> HIDE DEF h
  <1>4. UNCHANGED <<Served, Hand, queue>> /\ Coming' \subseteq Coming
    BY <1>1, <1>2, <1>3 DEF Coming, Served, Hand
  <1>5. \A l \in Lanes : UNCHANGED <<InLane(l), Busy(l), queue[l]>>
    BY <1>1 DEF InLane, Busy
  <1>6. \A s : Lane(s)' = Lane(s)
    BY <1>1 DEF Lane
  <1>7. OnlyWritten' /\ LanesApart'
    BY <1>4, <1>5, <1>6 DEF Flow, OnlyWritten, LanesApart
  <1>8. InStages'
    BY <1>1, <1>2, <1>3, <1>4, <1>5 DEF Flow, InStages
  <1>9. BetweenStages'
    <2>1. AllBefore(call, Elems(chanQ'), Elems(reqs'))
      BY <1>2, <1>3 DEF Flow, BetweenStages, AllBefore
    <2>2. AllBefore(call, Hand, Elems(chanQ') \cup Elems(reqs'))
      BY <1>2, <1>3 DEF Flow, BetweenStages, AllBefore
    <2>3. /\ \A l \in Lanes : AllBefore(call, InLane(l), Coming')
          /\ AllBefore(call, Served, Coming')
      BY <1>4 DEF Flow, BetweenStages, AllBefore
    <2> QED
      BY <1>1, <1>4, <1>5, <1>6, <2>1, <2>2, <2>3 DEF Flow, BetweenStages
  <1> QED
    BY <1>7, <1>8, <1>9 DEF Flow

LEMMA FlowChannelThread ==
    ASSUME TypeOK, Flow, Written \subseteq Written', ChannelThread
    PROVE  Flow'
  <1> DEFINE h == Head(chanQ)
  <1>1. /\ chanQ # <<>> /\ chanQ' = Tail(chanQ) /\ hand' = h /\ call' = call
        /\ UNCHANGED <<queue, busy, served, reqs>>
    BY DEF ChannelThread, Get, clientVars
  <1>2. /\ h \in Elems(chanQ) /\ Elems(chanQ') \subseteq Elems(chanQ)
        /\ Ordered(call, chanQ') /\ AllBefore(call, {h}, Elems(chanQ'))
    BY <1>1, TailElems DEF TypeOK, Flow, InStages
  <1> HIDE DEF h
  <1>3. Hand' \subseteq {h} /\ UNCHANGED <<Served, reqs>> /\ Coming' \subseteq Coming
    BY <1>1, <1>2 DEF Coming, Served, Hand
  <1>4. \A l \in Lanes : UNCHANGED <<InLane(l), Busy(l), queue[l]>>
    BY <1>1 DEF InLane, Busy
  <1>5. \A s : Lane(s)' = Lane(s)
    BY <1>1 DEF Lane
  <1>6. OnlyWritten' /\ LanesApart'
    BY <1>3, <1>4, <1>5 DEF Flow, OnlyWritten, LanesApart
  <1>7. InStages'
    BY <1>1, <1>2, <1>4 DEF Flow, InStages
  <1>8. BetweenStages'
    <2>1. AllBefore(call, Elems(chanQ'), Elems(reqs))
      BY <1>2 DEF Flow, BetweenStages, AllBefore
    <2>2. AllBefore(call, Hand', Elems(chanQ') \cup Elems(reqs))
      BY <1>2, <1>3 DEF Flow, BetweenStages, AllBefore
    <2>3. /\ \A l \in Lanes : AllBefore(call, InLane(l), Coming')
          /\ AllBefore(call, Served, Coming')
      BY <1>3 DEF Flow, BetweenStages, AllBefore
    <2> QED
      BY <1>1, <1>3, <1>4, <1>5, <2>1, <2>2, <2>3 DEF Flow, BetweenStages
  <1> QED
    BY <1>6, <1>7, <1>8 DEF Flow

LEMMA FlowEnqueue ==
    ASSUME TypeOK, Flow, Written \subseteq Written', Enqueue
    PROVE  Flow'
  <1>0. PICK l \in Lanes : l = Lane(hand)
    BY LaneTypes
  <1> DEFINE q == Put(queue[l], hand, TRUE, LaneLen(l))
  <1>1. /\ hand # 0 /\ hand' = 0 /\ call' = call
        /\ UNCHANGED <<busy, served, reqs, chanQ>>
        /\ queue' = [queue EXCEPT ![l] = q]
    BY <1>0 DEF Enqueue, clientVars, TypeOK
  <1>2. hand \in Coming /\ hand \in Hand /\ hand \in Calls
    <2>1. hand \in 0..Len(call) /\ Len(call) <= MaxCalls /\ Len(call) \in Nat
      BY LenProperties DEF TypeOK
    <2> QED
      BY <1>1, <2>1, RpcAssumption DEF Coming, Hand, Calls
  <1>3. Elems(q) \subseteq Elems(queue[l]) \cup {hand} /\ Ordered(call, q)
    <2>1. AllBefore(call, Elems(queue[l]), {hand})
      BY <1>2 DEF Flow, BetweenStages, AllBefore, InLane
    <2>2. /\ Ordered(call, queue[l]) /\ queue[l] \in Seq(Calls) /\ Len(queue[l]) <= LaneLen(l)
          /\ LaneLen(l) \in Nat \ {0}
      BY <1>2, LaneTypes DEF Flow, InStages, TypeOK
    <2> QED
      BY <1>2, <2>1, <2>2, PutElems
  <1> HIDE DEF q
  <1>4. /\ queue'[l] = q
        /\ \A m \in Lanes \ {l} : queue'[m] = queue[m]
        /\ \A m \in Lanes : Elems(queue'[m]) \subseteq Elems(queue[m]) \cup {hand}
    BY <1>1, <1>2, <1>3 DEF TypeOK
  <1>5. /\ Hand' = {} /\ Served' = Served /\ \A m \in Lanes : Busy(m)' = Busy(m)
        /\ Coming' \subseteq Elems(chanQ) \cup Elems(reqs)
    BY <1>1 DEF Coming, Served, Hand, Busy
  <1>6. /\ InLane(l)' \subseteq InLane(l) \cup {hand}
        /\ \A m \in Lanes \ {l} : InLane(m)' = InLane(m)
    BY <1>1, <1>2, <1>4, <1>5 DEF InLane
  <1>7. \A s : Lane(s)' = Lane(s)
    BY <1>1 DEF Lane
  <1>8. OnlyWritten' /\ LanesApart'
    <2>1. Coming' \subseteq Coming /\ \A m \in Lanes : InLane(m)' \subseteq InLane(m) \cup Coming
      BY <1>2, <1>5, <1>6 DEF Coming
    <2>2. OnlyWritten'
      BY <1>5, <2>1 DEF Flow, OnlyWritten
    <2>3. LanesApart'
      BY <1>2, <1>0, <1>6, <1>7 DEF Flow, LanesApart
    <2> QED
      BY <2>2, <2>3
  <1>9. InStages'
    BY <1>1, <1>3, <1>4 DEF Flow, InStages
  <1>10. BetweenStages'
    <2>1. \A m \in Lanes : AllBefore(call, InLane(m)', Coming')
      <3>1. \A m \in Lanes : AllBefore(call, InLane(m), Coming')
        BY <1>5 DEF Flow, BetweenStages, AllBefore, Coming
      <3>2. AllBefore(call, {hand}, Coming')
        BY <1>2, <1>5 DEF Flow, BetweenStages, AllBefore
      <3> QED
        BY <1>6, <3>1, <3>2 DEF AllBefore
    <2>2. \A m \in Lanes : AllBefore(call, Busy(m), Elems(queue'[m]))
      <3>1. \A m \in Lanes : AllBefore(call, Busy(m), {hand})
        BY <1>2 DEF Flow, BetweenStages, AllBefore, InLane
      <3> QED
        BY <1>4, <3>1 DEF Flow, BetweenStages, AllBefore
    <2>3. \A m \in Lanes : AllBefore(call, {r \in Served : Lane(r) = m}, InLane(m)')
      <3>1. AllBefore(call, Served, {hand})
        BY <1>2 DEF Flow, BetweenStages, AllBefore
      <3> QED
        BY <1>6, <3>1 DEF Flow, BetweenStages, AllBefore
    <2>4. AllBefore(call, Served, Coming')
      BY <1>5 DEF Flow, BetweenStages, AllBefore, Coming
    <2>5. AllBefore(call, Elems(chanQ), Elems(reqs)) /\ AllBefore(call, {}, Elems(chanQ) \cup Elems(reqs))
      BY DEF Flow, BetweenStages, AllBefore
    <2> QED
      BY <1>1, <1>5, <1>7, <2>1, <2>2, <2>3, <2>4, <2>5 DEF BetweenStages
  <1> QED
    BY <1>8, <1>9, <1>10 DEF Flow

LEMMA FlowQueueThread ==
    ASSUME TypeOK, Flow, Written \subseteq Written', NEW l \in Lanes, QueueThread(l)
    PROVE  Flow'
  <1> DEFINE h == Head(queue[l])
  <1>1. /\ queue[l] # <<>> /\ call' = call /\ UNCHANGED <<chanQ, hand, served, reqs>>
        /\ busy' = [busy EXCEPT ![l] = h] /\ queue' = [queue EXCEPT ![l] = Tail(queue[l])]
    BY DEF QueueThread, Get, clientVars, TypeOK
  <1>2. /\ h \in Elems(queue[l]) /\ Elems(Tail(queue[l])) \subseteq Elems(queue[l])
        /\ Ordered(call, Tail(queue[l])) /\ AllBefore(call, {h}, Elems(Tail(queue[l])))
    BY <1>1, TailElems DEF TypeOK, Flow, InStages
  <1>3. /\ queue'[l] = Tail(queue[l]) /\ busy'[l] = h
        /\ \A m \in Lanes \ {l} : queue'[m] = queue[m] /\ busy'[m] = busy[m]
    BY <1>1 DEF TypeOK
  <1> HIDE DEF h
  <1>4. UNCHANGED <<Coming, Hand, Served, reqs, chanQ>>
    BY <1>1 DEF Coming, Served, Hand
  <1>5. Busy(l)' \subseteq {h} /\ \A m \in Lanes \ {l} : Busy(m)' = Busy(m)
    BY <1>3 DEF Busy
  <1>6. \A m \in Lanes : InLane(m)' \subseteq InLane(m)
    BY <1>2, <1>3, <1>5 DEF InLane
  <1>7. \A s : Lane(s)' = Lane(s)
    BY <1>1 DEF Lane
  <1>8. OnlyWritten' /\ LanesApart'
    BY <1>4, <1>6, <1>7 DEF Flow, OnlyWritten, LanesApart
  <1>9. InStages'
    BY <1>1, <1>2, <1>3 DEF Flow, InStages
  <1>10. BetweenStages'
    <2>1. /\ \A m \in Lanes : AllBefore(call, InLane(m)', Coming)
          /\ \A m \in Lanes : AllBefore(call, {r \in Served : Lane(r) = m}, InLane(m)')
      BY <1>6 DEF Flow, BetweenStages, AllBefore
    <2>2. \A m \in Lanes : AllBefore(call, Busy(m)', Elems(queue'[m]))
      BY <1>2, <1>3, <1>5 DEF Flow, BetweenStages, AllBefore
    <2> QED
      BY <1>1, <1>4, <1>7, <2>1, <2>2 DEF Flow, BetweenStages
  <1> QED
    BY <1>8, <1>9, <1>10 DEF Flow

LEMMA FlowHandle ==
    ASSUME TypeOK, Flow, Written \subseteq Written', NEW l \in Lanes, Handle(l)
    PROVE  Flow'
  <1> DEFINE b == busy[l]
  <1>1. /\ b # 0 /\ call' = call /\ UNCHANGED <<chanQ, hand, queue, reqs>>
        /\ busy' = [busy EXCEPT ![l] = 0]
        /\ \E a \in Answers : served' = [served EXCEPT ![b] = Append(@, a)]
    BY DEF Handle, clientVars
  <1>2. b \in Busy(l) /\ b \in InLane(l) /\ Lane(b) = l
    BY <1>1, HandledOnce DEF Flow, InLane, Busy
  <1>3. /\ busy'[l] = 0 /\ \A m \in Lanes \ {l} : busy'[m] = busy[m]
        /\ \A r \in Calls \ {b} : served'[r] = served[r]
    BY <1>1 DEF TypeOK
  <1> HIDE DEF b
  <1>4. UNCHANGED <<Coming, Hand, reqs, chanQ, queue>> /\ Served' \subseteq Served \cup {b}
    BY <1>1, <1>3 DEF Coming, Served, Hand
  <1>5. /\ Busy(l)' = {} /\ \A m \in Lanes \ {l} : Busy(m)' = Busy(m)
        /\ \A m \in Lanes : InLane(m)' \subseteq InLane(m)
        /\ InLane(l)' = Elems(queue[l])
    BY <1>1, <1>3 DEF Busy, InLane
  <1>6. \A s : Lane(s)' = Lane(s)
    BY <1>1 DEF Lane
  <1>7. OnlyWritten' /\ LanesApart'
    BY <1>2, <1>4, <1>5, <1>6 DEF Flow, OnlyWritten, LanesApart
  <1>8. InStages'
    BY <1>1 DEF Flow, InStages
  <1>9. BetweenStages'
    <2>1. /\ \A m \in Lanes : AllBefore(call, InLane(m)', Coming)
          /\ \A m \in Lanes : AllBefore(call, Busy(m)', Elems(queue[m]))
      BY <1>5 DEF Flow, BetweenStages, AllBefore
    <2>2. AllBefore(call, Served', Coming)
      BY <1>2, <1>4 DEF Flow, BetweenStages, AllBefore
    <2>3. ASSUME NEW m \in Lanes, NEW r \in Served', Lane(r) = m, NEW s \in InLane(m)'
          PROVE  Before(call, r, s)
      <3>1. CASE r = b
        <4>1. m = l /\ s \in Elems(queue[l])
          BY <1>2, <1>5, <2>3, <3>1
        <4> QED
          BY <1>2, <3>1, <4>1 DEF Flow, BetweenStages, AllBefore
      <3>2. CASE r \in Served
        BY <1>5, <2>3, <3>2 DEF Flow, BetweenStages, AllBefore
      <3> QED
        BY <1>4, <2>3, <3>1, <3>2
    <2>4. \A m \in Lanes : AllBefore(call, {r \in Served' : Lane(r) = m}, InLane(m)')
      BY <2>3 DEF AllBefore
    <2> QED
      BY <1>1, <1>4, <1>6, <2>1, <2>2, <2>4 DEF Flow, BetweenStages
  <1> QED
    BY <1>7, <1>8, <1>9 DEF Flow

----------------------------------------------------------------------------
(* The theorems.                                                            *)

LEMMA InvInductive ==
    ASSUME IInv, [Next]_vars
    PROVE  IInv'
  <1> USE DEF IInv
  <1>0. Written \subseteq Written'
    BY WrittenStays
  <1>1. ASSUME NEW c \in Callers, SetHeader(c) PROVE IInv'
    BY <1>0, <1>1, TypeSetHeader, ClientSetHeader, FlowSetHeader
  <1>2. ASSUME NEW c \in Callers, Caller(c) PROVE IInv'
    <2>1. CASE Write(c)
      BY <1>0, <1>2, <2>1, TypeCaller, ClientCaller, FlowWrite
    <2>2. CASE ~Write(c)
      <3>1. call' = call /\ UNCHANGED <<serverVars, reqs>>
        BY <1>2, <2>2 DEF Caller, SetFuture, WriteError, GetResult, Woken, Expire, TimedOut
      <3> QED
        BY <1>0, <1>2, <3>1, TypeCaller, ClientCaller, FlowSame
    <2> QED
      BY <2>1, <2>2
  <1>3. CASE OnRequest \/ LoseRequest
    BY <1>0, <1>3, TypeServer, ClientServer, FlowRequest DEF Flow
  <1>4. CASE ChannelThread
    BY <1>0, <1>4, TypeServer, ClientServer, FlowChannelThread DEF Flow
  <1>5. CASE Enqueue
    BY <1>0, <1>5, TypeServer, ClientServer, FlowEnqueue DEF Flow
  <1>6. ASSUME NEW l \in Lanes, QueueThread(l) PROVE IInv'
    BY <1>0, <1>6, TypeQueueThread, ClientServer, FlowQueueThread DEF Flow
  <1>7. ASSUME NEW l \in Lanes, Handle(l) PROVE IInv'
    BY <1>0, <1>7, TypeHandle, ClientHandle, FlowHandle DEF Flow
  <1>8. CASE OnResponse \/ GetFuture \/ Ready \/ LoseResponse
    <2>1. call' = call /\ UNCHANGED <<serverVars, reqs>>
      BY <1>8 DEF OnResponse, GetFuture, Ready, LoseResponse, clientVars
    <2> QED
      BY <1>0, <1>8, <2>1, TypeReader, ClientReader, FlowSame
  <1>9. CASE UNCHANGED vars
    <2>1. UNCHANGED <<clientVars, futureVars, serverVars, readerVars, reqs, resps>>
      BY <1>9 DEF vars
    <2>2. Flow'
      BY <1>0, <2>1, FlowSame DEF clientVars
    <2>3. TypeOK'
      BY <2>1 DEF TypeOK, clientVars, futureVars, serverVars, readerVars, LaneLen
    <2>4. CallerOK' /\ NotYetMade' /\ FutureThere' /\ NoLostWakeup'
      BY <2>1 DEF CallerOK, NotYetMade, FutureThere, NoLostWakeup, Issued, clientVars, futureVars, readerVars
    <2>5. AnswersOK'
      BY <2>1 DEF AnswersOK, Answered, futureVars, serverVars, readerVars
    <2> QED
      BY <2>2, <2>3, <2>4, <2>5
  <1> QED
    BY <1>1, <1>2, <1>3, <1>4, <1>5, <1>6, <1>7, <1>8, <1>9 DEF Next

LEMMA InvInit == Init => IInv
  BY TypeInit, ClientInit, FlowInit DEF IInv

LEMMA InvHolds == Spec => []IInv
  <1>1. IInv /\ [Next]_vars => IInv'
    BY InvInductive
  <1> QED
    BY <1>1, InvInit, PTL DEF Spec

\* The rpc layer's tables, queues and futures keep their types, and no queue
\* of either side outgrows the length BQueue was made with.
THEOREM RpcTypeCorrect == Spec => []TypeOK
  <1>1. IInv => TypeOK
    BY DEF IInv
  <1> QED
    BY <1>1, InvHolds, PTL

\* Future.GetResult and Future.Ready miss no wake-up, for any number of
\* calling threads: a thread sleeps un-notified only while there is no answer.
THEOREM SleepsOverNoAnswer == Spec => []NoLostWakeup
  <1>1. IInv => NoLostWakeup
    BY DEF IInv
  <1> QED
    BY <1>1, InvHolds, PTL

\* SendRequest puts the future into the table before it writes, so no answer
\* is too early for it and none that is wanted is thrown away.
THEOREM FutureIsFound == Spec => []AnswerFindsFuture
  <1>1. IInv => AnswerFindsFuture
    BY DEF IInv, FutureThere, CallerOK, AnswerFindsFuture
  <1> QED
    BY <1>1, InvHolds, PTL

\* Only Handle gives an answer, and only to a call that has none.
LEMMA OnlyHandleServes ==
    ASSUME [Next]_vars
    PROVE  served' = served \/ \E l \in Lanes : Handle(l)
  BY DEF Next, vars, serverVars, SetHeader, Caller, SetFuture, Write, WriteError, GetResult,
     Woken, Expire, TimedOut, OnRequest, ChannelThread, Enqueue, QueueThread,
     OnResponse, GetFuture, Ready, LoseRequest, LoseResponse

\* ServerStub serves the requests of one thread and one lane in the order of
\* the calls, whatever the two topics lose and the queues drop.
THEOREM ServesInOrder == Spec => ServedInOrder
  <1> DEFINE Step == \A r \in DOMAIN call : served'[r] # served[r] =>
                        \A s \in DOMAIN call :
                           s > r /\ call[s].caller = call[r].caller /\ Lane(s) = Lane(r) =>
                              served[s] = <<>>
  <1>1. ASSUME IInv, [Next]_vars PROVE Step
    <2> SUFFICES ASSUME NEW r \in DOMAIN call, served'[r] # served[r],
                        NEW s \in DOMAIN call, s > r, call[s].caller = call[r].caller,
                        Lane(s) = Lane(r), served[s] # <<>>
                 PROVE  FALSE
      OBVIOUS
    <2>1. DOMAIN call = Issued /\ Issued \subseteq Calls /\ TypeOK /\ Flow
      <3>1. TypeOK /\ Flow
        BY <1>1 DEF IInv
      <3>2. DOMAIN call = 1..Len(call) /\ Len(call) \in Nat /\ Len(call) <= MaxCalls
        BY <3>1, LenProperties DEF TypeOK
      <3> QED
        BY <3>1, <3>2, RpcAssumption DEF Issued, Calls
    <2>2. PICK l \in Lanes : Handle(l)
      BY <1>1, OnlyHandleServes
    <2>3. r = busy[l]
      BY <2>1, <2>2 DEF Handle, TypeOK
    <2>4. r \in InLane(l) /\ Lane(r) = l
      BY <2>1, <2>2, <2>3, HandledOnce DEF Flow, InLane, Busy, Handle
    <2>5. s \in {x \in Served : Lane(x) = l}
      BY <2>1, <2>4 DEF Served
    <2>6. Before(call, s, r)
      BY <2>1, <2>4, <2>5 DEF Flow, BetweenStages, AllBefore
    <2>7. s < r
      BY <2>6 DEF Before
    <2>8. s \in Int /\ r \in Int
      BY <2>1 DEF Issued
    <2> QED
      BY <2>7, <2>8
  <1>2. IInv /\ [Next]_vars => [Step]_vars
    BY <1>1
  <1> QED
    BY <1>2, InvHolds, PTL DEF Spec, ServedInOrder

\* The safety part of the promise: a call is served at most once, a caller
\* gets the answer the server gave to its own call, and it reports a send
\* error only for a request that the server never gets.
THEOREM ImplementsSafety == Spec => Promise!Safety
  <1>1. Init => Promise!Init
    BY DEF Init, Promise!Init
  <1>2. ASSUME IInv, [Next]_vars PROVE [Promise!Next]_(Promise!vars)
    <2>0. TypeOK /\ CallerOK /\ Flow /\ AnswersOK /\ NotYetMade
      BY <1>2 DEF IInv
    <2>1. ASSUME NEW c \in Callers, SetHeader(c) PROVE Promise!Next
      <3>1. /\ Len(call') \in Calls /\ Len(call') = Len(call) + 1 /\ Len(call) \in Nat
            /\ outcome' = [outcome EXCEPT ![Len(call')] = "open"]
        BY <2>0, <2>1, SetHeaderCall
      <3>2. outcome[Len(call')] = "none"
        BY <2>0, <3>1 DEF NotYetMade
      <3>3. served' = served
        BY <2>1 DEF SetHeader, serverVars
      <3>4. Promise!Issue(Len(call'))
        BY <3>1, <3>2, <3>3 DEF Promise!Issue
      <3> QED
        BY <3>1, <3>4 DEF Promise!Next
    <2>2. ASSUME NEW c \in Callers, Caller(c) PROVE [Promise!Next]_(Promise!vars)
      <3> DEFINE r == cur[c]
      <3>1. /\ r \in Calls /\ outcome[r] = "open" /\ served' = served
        BY <2>0, <2>2, CallerMoves DEF CallerOK, serverVars
      <3>2. ASSUME NEW what \in Answers \cup Promise!Unanswered, Return(c, what),
                   what \in Answers => served[r] = <<what>>,
                   what = "send_error" => served[r] = <<>>
            PROVE  Promise!Next
        <4>1. outcome' = [outcome EXCEPT ![r] = what]
          BY <3>2 DEF Return
        <4>2. Promise!Return(r)
          BY <3>1, <3>2, <4>1 DEF Promise!Return
        <4> QED
          BY <3>1, <4>2 DEF Promise!Next
      <3>3. \A a \in Answers : a \notin {"send_error", "timeout", "sent"}
        BY RpcAssumption
      <3>4. CASE outcome' = outcome
        BY <3>1, <3>4 DEF Promise!vars
      <3>5. CASE Write(c) /\ outcome' # outcome
        <4>1. Return(c, "sent")
          BY <3>5 DEF Write
        <4> QED
          BY <3>2, <3>3, <4>1 DEF Promise!Unanswered
      <3>6. CASE WriteError(c)
        <4>1. served[r] = <<>>
          <5>1. r \notin Written
            BY <3>6 DEF WriteError, Written, Unwritten
          <5> QED
            BY <2>0, <3>1, <5>1 DEF Flow, OnlyWritten, Served
        <4> QED
          BY <3>2, <3>3, <3>6, <4>1 DEF WriteError, Promise!Unanswered
      <3>7. CASE (GetResult(c) /\ outcome' # outcome) \/ Woken(c)
        <4>1. Return(c, fut[r]) /\ fut[r] # "defer"
          BY <2>0, <3>7 DEF GetResult, Woken, CallerOK
        <4>2. fut[r] \in Answers /\ served[r] = <<fut[r]>>
          BY <2>0, <3>1, <4>1 DEF TypeOK, AnswersOK
        <4> QED
          BY <3>2, <3>3, <4>1, <4>2
      <3>8. CASE TimedOut(c)
        BY <3>2, <3>3, <3>8 DEF TimedOut, Promise!Unanswered
      <3> QED
        BY <2>2, <3>4, <3>5, <3>6, <3>7, <3>8 DEF Caller, SetFuture, Expire
    <2>3. ASSUME NEW l \in Lanes, Handle(l) PROVE Promise!Next
      <3> DEFINE b == busy[l]
      <3>1. b \in Calls /\ served[b] = <<>> /\ b # 0
        BY <2>0, <2>3, HandledOnce DEF Flow, Handle
      <3>2. outcome[b] \notin {"none", "send_error"}
        BY <2>0, <3>1 DEF Flow, OnlyWritten, Written, InLane, Busy
      <3>3. PICK a \in Answers : served' = [served EXCEPT ![b] = Append(@, a)]
        BY <2>3 DEF Handle
      <3>4. served' = [served EXCEPT ![b] = <<a>>]
        BY <2>0, <3>1, <3>3 DEF TypeOK
      <3>5. outcome' = outcome
        BY <2>3 DEF Handle, clientVars
      <3>6. Promise!Serve(b)
        BY <3>1, <3>2, <3>4, <3>5 DEF Promise!Serve
      <3> QED
        BY <3>1, <3>6 DEF Promise!Next
    <2>4. \/ UNCHANGED <<outcome, served>>
          \/ \E c \in Callers : SetHeader(c) \/ Caller(c)
          \/ \E l \in Lanes : Handle(l)
      BY <1>2 DEF Next, vars, clientVars, serverVars, OnRequest, ChannelThread, Enqueue,
         QueueThread, OnResponse, GetFuture, Ready, LoseRequest, LoseResponse
    <2> QED
      BY <2>1, <2>2, <2>3, <2>4 DEF Promise!vars
  <1> QED
    BY <1>1, <1>2, InvHolds, PTL DEF Spec, Promise!Safety

=============================================================================
