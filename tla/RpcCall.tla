------------------------------ MODULE RpcCall ------------------------------
(***************************************************************************)
(* A call of the Unitree SDK's rpc layer from end to end.  Threads of one  *)
(* client call (ClientBase, ClientStub), each waiting on a future that the *)
(* client's response reader makes ready (RequestFutureQueue, Future); the  *)
(* server's channel reader sorts requests into one or two bounded queues   *)
(* (ServerStub), whose threads run the handlers (Server) and publish the   *)
(* responses.  Both topics are FIFO and may lose samples (the readers are  *)
(* best-effort).  An id is the caller's monotonic clock in nanoseconds:    *)
(* here, the next number.                                                  *)
(***************************************************************************)
EXTENDS BQueue

CONSTANTS
    Callers,         \* threads of the client
    MaxCalls,        \* bound on the calls made
    ChannelLen,      \* queue of a channel reader
    QueueLen,        \* ServerStub's queue
    PrioQueueLen,    \* ServerStub's priority queue
    EnablePriority,
    Answers          \* what a response says: the handler's code, or refused

ASSUME RpcAssumption ==
    /\ MaxCalls \in Nat
    /\ {ChannelLen, QueueLen, PrioQueueLen} \subseteq Nat \ {0}
    /\ EnablePriority \in BOOLEAN
    /\ Answers # {} /\ Answers \cap {"none", "open", "defer", "send_error", "timeout", "sent"} = {}

VARIABLES
    call,       \* the calls made so far: who made it, policy in its header
    pc, cur,    \* per caller: where it is, and its current call
    table,      \* RequestFutureQueue: calls with a future in it
    fut,        \* per call: its future, "defer" or the answer in it
    notified,   \* callers woken by a future's condition
    reqs,       \* request topic
    chanQ,      \* requests queued by the server's channel reader
    hand,       \* request its thread is about to enqueue, or 0
    queue,      \* ServerStub's queues
    busy,       \* per queue, the request its thread handles, or 0
    served,     \* per call: the answers the server has given to it
    resps,      \* response topic
    respQ,      \* responses queued by the client's channel reader
    reader,     \* response whose future the reader holds, or none
    outcome     \* per call: not made, open, or what it returned

clientVars == <<call, pc, cur, outcome>>
futureVars == <<table, fut, notified>>
serverVars == <<chanQ, hand, queue, busy, served>>
readerVars == <<respQ, reader>>
vars == <<clientVars, futureVars, serverVars, readerVars, reqs, resps>>

Calls == 1..MaxCalls
Lanes == {"plain", "prio"}
Response == [id : Calls, answer : Answers]
NoResponse == [id |-> 0, answer |-> CHOOSE a \in Answers : TRUE]

Init ==
    /\ call = <<>>
    /\ pc = [c \in Callers |-> "idle"] /\ cur = [c \in Callers |-> 0]
    /\ table = {} /\ fut = [r \in Calls |-> "defer"] /\ notified = {}
    /\ reqs = <<>> /\ chanQ = <<>> /\ hand = 0
    /\ queue = [l \in Lanes |-> <<>>] /\ busy = [l \in Lanes |-> 0]
    /\ served = [r \in Calls |-> <<>>]
    /\ resps = <<>> /\ respQ = <<>> /\ reader = NoResponse
    /\ outcome = [r \in Calls |-> "none"]

----------------------------------------------------------------------------
(* The caller: _CallBase and _CallNoReplyBase.                              *)

\* __SetHeader; a call without reply has no future.
SetHeader(c) ==
    /\ pc[c] = "idle" /\ Len(call) < MaxCalls
    /\ \E noreply, prio \in BOOLEAN :
          /\ call' = Append(call, [caller |-> c, noreply |-> noreply, prio |-> prio])
          /\ pc' = [pc EXCEPT ![c] = IF noreply THEN "write" ELSE "set"]
    /\ cur' = [cur EXCEPT ![c] = Len(call')]
    /\ outcome' = [outcome EXCEPT ![Len(call')] = "open"]
    /\ UNCHANGED <<futureVars, serverVars, readerVars, reqs, resps>>

\* Mutant: the future goes into the table after the request has been sent.
SetFutureAfterwards(c) ==
    \/ /\ pc[c] = "set"
       /\ pc' = [pc EXCEPT ![c] = "write"]
       /\ UNCHANGED <<call, cur, outcome, futureVars, serverVars, readerVars, reqs, resps>>
    \/ /\ pc[c] = "get" /\ cur[c] \notin table
       /\ table' = table \cup {cur[c]}
       /\ UNCHANGED <<pc, call, cur, outcome, fut, notified, serverVars, readerVars,
                      reqs, resps>>

\* SendRequest puts the future into the table before it writes.
SetFuture(c) ==
    /\ pc[c] = "set"
    /\ table' = table \cup {cur[c]}
    /\ pc' = [pc EXCEPT ![c] = "write"]
    /\ UNCHANGED <<call, cur, outcome, fut, notified, serverVars, readerVars,
                   reqs, resps>>

Return(c, what) ==
    /\ pc' = [pc EXCEPT ![c] = "idle"]
    /\ outcome' = [outcome EXCEPT ![cur[c]] = what]

\* Channel.Write publishes the request.
Write(c) ==
    /\ pc[c] = "write"
    /\ reqs' = Append(reqs, cur[c])
    /\ IF call[cur[c]].noreply
       THEN Return(c, "sent")
       ELSE pc' = [pc EXCEPT ![c] = "get"] /\ UNCHANGED outcome
    /\ UNCHANGED <<call, cur, futureVars, serverVars, readerVars, resps>>

\* RequestFutureQueue.Remove looks for the builtin id where it means the id of
\* the request, so the future stays in the table.
Remove(r) == UNCHANGED table

\* No matching reader within the timeout, or the DDS write raised.
WriteError(c) ==
    /\ pc[c] = "write"
    /\ Return(c, "send_error")
    /\ Remove(cur[c])
    /\ UNCHANGED <<call, cur, fut, notified, serverVars, readerVars, reqs, resps>>

\* Future.GetResult: a future that is ready already is not waited for.
GetResultWaits(c) ==
    /\ pc[c] = "get"
    /\ pc' = [pc EXCEPT ![c] = "wait"]
    /\ UNCHANGED <<call, cur, outcome, futureVars, serverVars, readerVars, reqs, resps>>
GetResult(c) ==
    /\ pc[c] = "get"
    /\ IF fut[cur[c]] # "defer"
       THEN Return(c, fut[cur[c]])
       ELSE pc' = [pc EXCEPT ![c] = "wait"] /\ UNCHANGED outcome
    /\ UNCHANGED <<call, cur, futureVars, serverVars, readerVars, reqs, resps>>

Woken(c) ==
    /\ pc[c] = "wait" /\ c \in notified
    /\ notified' = notified \ {c}
    /\ Return(c, fut[cur[c]])
    /\ UNCHANGED <<call, cur, table, fut, serverVars, readerVars, reqs, resps>>

\* Condition.wait gave up; the thread has yet to get the lock back.
Expire(c) ==
    /\ pc[c] = "wait" /\ c \notin notified
    /\ pc' = [pc EXCEPT ![c] = "expired"]
    /\ UNCHANGED <<call, cur, outcome, futureVars, serverVars, readerVars,
                   reqs, resps>>

\* A wait that gave up reports a timeout, even if the future is ready by now.
TimedOut(c) ==
    /\ pc[c] = "expired"
    /\ Return(c, "timeout")
    /\ Remove(cur[c])
    /\ notified' = notified \ {c}
    /\ UNCHANGED <<call, cur, fut, serverVars, readerVars, reqs, resps>>

Caller(c) ==
    \/ SetFuture(c) \/ Write(c) \/ WriteError(c)
    \/ GetResult(c) \/ Woken(c) \/ Expire(c) \/ TimedOut(c)

----------------------------------------------------------------------------
(* The server.                                                              *)

\* __OnDataAvailable on the request topic.
OnRequest ==
    /\ reqs # <<>>
    /\ chanQ' = Put(chanQ, Head(reqs), FALSE, ChannelLen)
    /\ reqs' = Tail(reqs)
    /\ UNCHANGED <<clientVars, futureVars, hand, queue, busy, served, readerVars, resps>>

\* __ChannelReaderThreadFunc takes a request ...
ChannelThread ==
    /\ hand = 0 /\ chanQ # <<>>
    /\ hand' = Get(chanQ).item /\ chanQ' = Get(chanQ).rest
    /\ UNCHANGED <<clientVars, futureVars, queue, busy, served, readerVars, reqs, resps>>

Lane(r) == IF EnablePriority /\ call[r].prio THEN "prio" ELSE "plain"
LaneLen(l) == IF l = "prio" THEN PrioQueueLen ELSE QueueLen

\* ... and calls __Enqueue.
Enqueue ==
    /\ hand # 0
    /\ queue' = [queue EXCEPT ![Lane(hand)] = Put(@, hand, TRUE, LaneLen(Lane(hand)))]
    /\ hand' = 0
    /\ UNCHANGED <<clientVars, futureVars, chanQ, busy, served, readerVars, reqs, resps>>

\* __QueueThreadFunc and __PrioQueueThreadFunc.
QueueThreadNoPop(l) ==
    /\ busy[l] = 0 /\ queue[l] # <<>>
    /\ busy' = [busy EXCEPT ![l] = Get(queue[l]).item]
    /\ UNCHANGED <<clientVars, futureVars, chanQ, hand, queue, served, readerVars, reqs, resps>>
QueueThread(l) ==
    /\ busy[l] = 0 /\ queue[l] # <<>>
    /\ busy' = [busy EXCEPT ![l] = Get(queue[l]).item]
    /\ queue' = [queue EXCEPT ![l] = Get(@).rest]
    /\ UNCHANGED <<clientVars, futureVars, chanQ, hand, served, readerVars, reqs, resps>>

\* __ServerRequestHandler: check, run, answer.  A response that cannot be sent
\* is one that is lost.
Handle(l) ==
    /\ busy[l] # 0
    /\ busy' = [busy EXCEPT ![l] = 0]
    /\ \E a \in Answers :
          /\ served' = [served EXCEPT ![busy[l]] = Append(@, a)]
          /\ resps' = IF call[busy[l]].noreply THEN resps
                      ELSE Append(resps, [id |-> busy[l], answer |-> a])
    /\ UNCHANGED <<clientVars, futureVars, chanQ, hand, queue, readerVars, reqs>>

----------------------------------------------------------------------------
(* The client's response reader.                                            *)

OnResponse ==
    /\ resps # <<>>
    /\ respQ' = Put(respQ, Head(resps), FALSE, ChannelLen)
    /\ resps' = Tail(resps)
    /\ UNCHANGED <<clientVars, futureVars, serverVars, reader, reqs>>

\* __ResponseHandler: take the future out of the table ...
GetFuture ==
    /\ reader = NoResponse /\ respQ # <<>>
    /\ LET m == Get(respQ).item
       IN  /\ reader' = IF m.id \in table THEN m ELSE NoResponse
           /\ table' = table \ {m.id}
    /\ respQ' = Get(respQ).rest
    /\ UNCHANGED <<clientVars, fut, notified, serverVars, reqs, resps>>

\* ... and Future.Ready: the answer is stored unless there is one, and one
\* waiter is notified.
Ready ==
    /\ reader # NoResponse
    /\ LET r == reader.id
       IN  /\ fut' = [fut EXCEPT ![r] = IF @ = "defer" THEN reader.answer ELSE @]
           /\ notified' = notified \cup
                 {c \in Callers : cur[c] = r /\ pc[c] \in {"wait", "expired"}}
    /\ reader' = NoResponse
    /\ UNCHANGED <<clientVars, table, serverVars, respQ, reqs, resps>>

----------------------------------------------------------------------------
\* DDS loses a sample of either topic.
LoseRequest ==
    /\ reqs # <<>> /\ reqs' = Tail(reqs)
    /\ UNCHANGED <<clientVars, futureVars, serverVars, readerVars, resps>>
LoseResponse ==
    /\ resps # <<>> /\ resps' = Tail(resps)
    /\ UNCHANGED <<clientVars, futureVars, serverVars, readerVars, reqs>>

Next ==
    \/ \E c \in Callers : SetHeader(c) \/ Caller(c)
    \/ OnRequest \/ ChannelThread \/ Enqueue
    \/ \E l \in Lanes : QueueThread(l) \/ Handle(l)
    \/ OnResponse \/ GetFuture \/ Ready
    \/ LoseRequest \/ LoseResponse

\* A caller's thread goes on: its waits have a timeout.  Nothing is assumed
\* of the server or the network.
Spec == Init /\ [][Next]_vars /\ \A c \in Callers : WF_vars(Caller(c))

----------------------------------------------------------------------------
\* Tables, queues and futures have their types, and no queue exceeds its bound.
TypeOK ==
    /\ call \in Seq([caller : Callers, noreply : BOOLEAN, prio : BOOLEAN])
    /\ Len(call) <= MaxCalls
    /\ pc \in [Callers -> {"idle", "set", "write", "get", "wait", "expired"}]
    /\ cur \in [Callers -> 0..Len(call)]
    /\ table \subseteq 1..Len(call) /\ notified \subseteq Callers
    /\ fut \in [Calls -> Answers \cup {"defer"}]
    /\ reqs \in Seq(Calls) /\ hand \in 0..Len(call)
    /\ chanQ \in Seq(Calls) /\ Len(chanQ) <= ChannelLen
    /\ queue \in [Lanes -> Seq(Calls)] /\ \A l \in Lanes : Len(queue[l]) <= LaneLen(l)
    /\ busy \in [Lanes -> 0..Len(call)]
    /\ served \in [Calls -> Seq(Answers)]
    /\ resps \in Seq(Response)
    /\ respQ \in Seq(Response) /\ Len(respQ) <= ChannelLen
    /\ reader \in [id : 0..Len(call), answer : Answers]
    /\ outcome \in [Calls -> Answers \cup {"none", "open", "sent", "send_error", "timeout"}]

\* The rpc layer keeps its promise, RemoteCall: served at most once, the
\* caller gets the server's answer to its own call, and every call returns.
Promise == INSTANCE RemoteCall WITH
    Calls <- Calls, Answers <- Answers, outcome <- outcome, served <- served
ImplementsRemoteCall == Promise!Spec

\* Nobody sleeps over an answer: a caller waits un-notified only while its
\* future has none (Future.__Wait tests the state under the lock that Ready
\* sets it under), so no timeout throws away an answer that was there.
NoLostWakeup ==
    \A c \in Callers : pc[c] = "wait" /\ c \notin notified => fut[cur[c]] = "defer"

\* An answer that comes while its caller wants it finds the future: the
\* future is in the table, or with the reader, or ready.
AnswerFindsFuture ==
    \A c \in Callers :
        pc[c] \in {"get", "wait"} =>
            cur[c] \in table \/ reader.id = cur[c] \/ fut[cur[c]] # "defer"

\* Requests of one thread and one lane are served in the order of the calls,
\* whatever is lost, dropped or given up in between.
ServedInOrder ==
    [][\A r \in DOMAIN call : served'[r] # served[r] =>
          \A s \in DOMAIN call :
             s > r /\ call[s].caller = call[r].caller /\ Lane(s) = Lane(r) =>
                served[s] = <<>>]_vars
============================================================================
