----------------------- MODULE EntityLifecycleProofs -----------------------
(***************************************************************************)
(* The counts of a handle are right whatever threads do, for every tree of *)
(* entities; implicit subscribers go with their last reader, and topics    *)
(* stay for theirs.  Where few children of an entity are deleted by other  *)
(* threads, its deletion waits for all of them.                            *)
(***************************************************************************)
EXTENDS EntityLifecycle, FiniteSetTheorems, WellFoundedInduction, TLAPS

----------------------------------------------------------------------------
(* The calls under way.  A call keeps its position, counted from the bottom *)
(* of its thread's stack, when others are made from it.                     *)

Pos == {x \in Threads \X Nat : x[2] \in 1..Len(stack[x[1]])}
call == [x \in Pos |-> stack[x[1]][Len(stack[x[1]]) - x[2] + 1]]

Last(t) == <<t, Len(stack[t])>>
Next1(t) == <<t, Len(stack[t]) + 1>>

----------------------------------------------------------------------------
(* The invariant.                                                           *)

\* dds_handle_close_wait has returned.
Past == {"close", "children", "recheck", "sleep", "handle", "parent",
         "closeparent", "deriver", "dropped", "free"}
\* The entity has left its parent's children.
Left == {"closeparent", "deriver", "dropped", "free"}

\* dds_create_reader has yet to register the reader.
Making == {"plock", "punpin", "pinsub", "clock", "ctopic", "cdefer", "cref", "cregister"}
OfParticipant == {"plock", "punpin"}
Creations == Making \cup {"ctopicdone", "crejected", "cunlock", "cfailed", "cundo"}

\* A frame's fields fit each other.
FrameOK(f, implicit) ==
    /\ f.pc \in Deleting \cup {"pin"} => f.how \in {"user", "from_parent", "implicit", "explicit"}
    /\ f.pc \in Creations => f.how \in {"create", "create_implicit"} /\ f.arg \in Readers
    /\ f.pc \in Creations \ OfParticipant => f.e = Parent[f.arg]
    /\ f.pc \in OfParticipant => f.e = Parent[Parent[f.arg]]
    /\ f.pc \in {"uselock", "using"} => f.how = "use"
    /\ f.pc = "unpin" => f.how \in {"use", "create", "create_implicit"}
    /\ f.how = "explicit" => Kind[f.e] = "topic"
    /\ f.pc = "parent" => f.arg = 0
    /\ f.pc = "closeparent" => f.arg = 0 /\ Parent[f.e] \in implicit /\ f.how # "from_parent"
    /\ f.pc \in AfterLeaving /\ f.arg # 0 => f.arg = Parent[f.e] /\ f.arg \in implicit
    /\ f.pc = "dropped" => f.e \in Readers

\* What a frame knows of the entities it has pinned, closed or unlinked, and
\* of those it is about to create.
FrameTrue(f, st, h, kids) ==
    /\ \A e \in Pinned(f) : st[e] \in {"live", "unlinked"}
    /\ f.pc \in Deleting => h[f.e].closing
    /\ f.pc \in AfterLeaving /\ f.arg # 0 => h[f.arg].closing /\ st[f.arg] = "live"
    /\ f.pc = "closeparent" => st[Parent[f.e]] = "live"
    /\ f.pc \in Deleting \ (Left \cup {"parent"}) => st[f.e] = "live"
    /\ f.pc \in Left \cup {"parent"} => st[f.e] = "unlinked"
    /\ f.pc = "parent" /\ Parent[f.e] # 0 => f.e \in kids[Parent[f.e]]
    /\ f.pc \in Making => st[f.arg] = "unborn"
    /\ f.pc = "plock" => st[Parent[f.arg]] = "unborn"

FramesOK ==
    \A x \in Pos : FrameOK(call[x], Implicit) /\ FrameTrue(call[x], stage, hdl, children)

\* A thread that dds_handle_close_wait has let go on is alone.
Alone == \A x, y \in Pos : call[x].pc \in Past /\ call[x].e \in Pinned(call[y]) => x = y

\* One call deletes an entity; an implicit one, that its last child pins and
\* closes in two steps, may be deleted in between.
Single ==
    \A x, y \in Pos :
        call[x].pc \in Deleting /\ call[y].pc \in Deleting /\ call[x].e = call[y].e =>
            x = y \/ call[x].e \in Implicit

\* Nobody creates what another is creating.
Sole ==
    \A x, y \in Pos :
        call[x].pc \in Making /\ call[y].pc \in Making =>
            /\ call[x].arg = call[y].arg => x = y
            /\ call[x].pc = "plock" /\ Parent[call[x].arg] = Parent[call[y].arg] => x = y

\* Children are those of the tree; one that is live is there.
TreeOK ==
    \A c \in Entities :
        /\ stage[c] \in {"unlinked", "freed"} => hdl[c].closing
        /\ \A e \in Entities : c \in children[e] => Parent[c] = e /\ stage[c] # "unborn"
        /\ Parent[c] # 0 /\ stage[c] = "live" => c \in children[Parent[c]]
        /\ Parent[c] # 0 /\ stage[Parent[c]] = "unborn" => stage[c] = "unborn"

\* Recursion goes down the tree; deletions that go up it start at the bottom of
\* a stack.
Rank == [participant |-> 1, subscriber |-> 2, reader |-> 3, topic |-> 4]
DepthOK ==
    \A x \in Pos :
        /\ x[2] <= Rank[Kind[call[x].e]]
        /\ x[2] > 1 => call[x].how \in {"from_parent", "explicit"}
        /\ x[2] > 1 /\ call[x].pc \in AfterLeaving => call[x].arg = 0

Own(h, implicit, e) == IF e \in implicit \/ h[e].closing \/ h[e].deferred THEN 0 ELSE 1
users == {r \in Readers : HasTopic(r)}
topicUsers == [e \in Entities |-> {r \in users : TopicOf[r] = e}]
RefsOK ==
    \A e \in Entities :
        hdl[e].ref = Own(hdl, Implicit, e) + Cardinality(children[e]) + Cardinality(topicUsers[e])

pinners == [e \in Entities |-> {x \in Pos : e \in Pinned(call[x])}]
PinsOK == \A e \in Entities : stage[e] # "freed" => hdl[e].pin = Cardinality(pinners[e])

IInv ==
    /\ TypeOK /\ FramesOK /\ Alone /\ Single /\ Sole /\ TreeOK /\ DepthOK /\ RefsOK /\ PinsOK

----------------------------------------------------------------------------
(* How a step changes the calls.                                            *)

LEMMA Positions ==
    /\ \A t, k : <<t, k>> \in Pos <=> t \in Threads /\ k \in 1..Len(stack[t])
    /\ \A x \in Pos : x = <<x[1], x[2]>>
    /\ DOMAIN call = Pos
    /\ \A t, k : <<t, k>> \in Pos => call[<<t, k>>] = stack[t][Len(stack[t]) - k + 1]
  BY DEF Pos, call

LEMMA CallType == ASSUME TypeOK, NEW x \in Pos PROVE call[x] \in Frame
  <1>1. PICK t \in Threads, k \in Nat : x = <<t, k>> /\ k \in 1..Len(stack[t])
    BY Positions DEF Pos
  <1>2. stack[t] \in Seq(Frame)
    BY DEF TypeOK
  <1> QED
    BY <1>1, <1>2, Positions

\* A broadcast turns a sleeper into a visitor of the next child.
Same(f, g) == g = f \/ (f.pc = "sleep" /\ g = [f EXCEPT !.pc = "children"])

\* Nothing else happens to the calls of other threads, nor to those below.
Others(t) ==
    \A y : y # Last(t) /\ y # Next1(t) =>
        /\ y \in Pos <=> y \in Pos'
        /\ y \in Pos => Same(call[y], call'[y])

Moves(t, g) ==
    /\ Others(t)
    /\ Last(t) \in Pos /\ Last(t) \in Pos' /\ call'[Last(t)] = g
    /\ Next1(t) \notin Pos /\ Next1(t) \notin Pos'
Pushes(t, a, b) ==
    /\ Others(t)
    /\ Last(t) \in Pos /\ Last(t) \in Pos' /\ call'[Last(t)] = b
    /\ Next1(t) \notin Pos /\ Next1(t) \in Pos' /\ call'[Next1(t)] = a
Pops(t) ==
    /\ Others(t)
    /\ Last(t) \in Pos /\ Last(t) \notin Pos'
    /\ Next1(t) \notin Pos /\ Next1(t) \notin Pos'
Begins(t, f) ==
    /\ Others(t)
    /\ Last(t) \notin Pos /\ Last(t) \notin Pos'
    /\ Next1(t) \notin Pos /\ Next1(t) \in Pos' /\ call'[Next1(t)] = f

LEMMA FrameGoto ==
    ASSUME NEW f \in Frame, NEW pc \in Deleting \cup InCall \cup {"pin", "pinsub"}
    PROVE  [f EXCEPT !.pc = pc] \in Frame
  BY Zenon DEF Frame

LEMMA TopIsLast ==
    ASSUME TypeOK, NEW t \in Threads, ~Idle(t)
    PROVE  /\ Last(t) \in Pos /\ call[Last(t)] = Top(t) /\ Next1(t) \notin Pos
           /\ Top(t) \in Frame
  <1>1. stack[t] \in Seq(Frame) /\ stack[t] # <<>>
    BY DEF TypeOK, Idle
  <1>2. Len(stack[t]) \in Nat \ {0} /\ Head(stack[t]) = stack[t][1]
    BY <1>1
  <1>3. Last(t) \in Pos /\ Next1(t) \notin Pos
    BY <1>2, Positions DEF Last, Next1
  <1>4. call[Last(t)] = stack[t][Len(stack[t]) - Len(stack[t]) + 1]
    BY <1>3, Positions DEF Last
  <1>5. call[Last(t)] = Top(t)
    BY <1>2, <1>4 DEF Top
  <1> QED
    BY <1>3, <1>5, CallType

LEMMA WithMoves ==
    ASSUME TypeOK, NEW t \in Threads, ~Idle(t), NEW g \in Frame, stack' = With(t, g)
    PROVE  Moves(t, g) /\ stack' \in [Threads -> Seq(Frame)]
  <1>1. stack[t] \in Seq(Frame) /\ stack[t] # <<>> /\ stack \in [Threads -> Seq(Frame)]
    BY DEF TypeOK, Idle
  <1> DEFINE s == stack[t]  n == Len(s)  s2 == <<g>> \o Tail(s)
  <1>2. s2 \in Seq(Frame) /\ Len(s2) = n /\ s2[1] = g /\ \A i \in 2..n : s2[i] = s[i]
    BY <1>1
  <1>3. stack' = [stack EXCEPT ![t] = s2]
    BY DEF With
  <1>4. stack' \in [Threads -> Seq(Frame)] /\ stack'[t] = s2 /\ \A u \in Threads : u # t => stack'[u] = stack[u]
    BY <1>1, <1>2, <1>3
  <1>5. Pos' = Pos
    BY <1>2, <1>4 DEF Pos
  <1>6. ASSUME NEW y \in Pos, y # Last(t) PROVE call'[y] = call[y]
    <2>1. PICK u \in Threads, k \in Nat : y = <<u, k>> /\ k \in 1..Len(stack[u])
      BY Positions DEF Pos
    <2>2. call[y] = stack[u][Len(stack[u]) - k + 1] /\ call'[y] = stack'[u][Len(stack'[u]) - k + 1]
      BY <1>5, <2>1 DEF call
    <2>3. CASE u # t
      BY <1>4, <2>2, <2>3
    <2>4. CASE u = t
      <3>1. k # n /\ k \in 1..n /\ n \in Nat
        BY <1>1, <1>6, <2>1, <2>4 DEF Last
      <3>2. n - k + 1 \in 2..n
        BY <3>1
      <3> QED
        BY <1>2, <1>4, <2>2, <2>4, <3>2
    <2> QED
      BY <2>3, <2>4
  <1>7. n \in Nat \ {0}
    BY <1>1
  <1>8. Last(t) \in Pos /\ Next1(t) \notin Pos
    BY TopIsLast
  <1>9. call'[Last(t)] = g
    <2>1. call'[Last(t)] = stack'[t][Len(stack'[t]) - n + 1]
      BY <1>5, <1>8 DEF call, Last
    <2> QED
      BY <1>2, <1>4, <1>7, <2>1
  <1> QED
    BY <1>4, <1>5, <1>6, <1>8, <1>9 DEF Moves, Others, Same

\* A step with a broadcast: its own call is not the one that sleeps.
LEMMA BroadcastMoves ==
    ASSUME TypeOK, NEW t \in Threads, ~Idle(t), NEW g \in Frame, g.pc # "sleep", NEW p,
           stack' = Broadcast(With(t, g), p)
    PROVE  Moves(t, g) /\ stack' \in [Threads -> Seq(Frame)]
  <1>1. stack[t] \in Seq(Frame) /\ stack[t] # <<>> /\ stack \in [Threads -> Seq(Frame)]
    BY DEF TypeOK, Idle
  <1> DEFINE s == stack[t]  n == Len(s)  s2 == <<g>> \o Tail(s)
  <1>2. s2 \in Seq(Frame) /\ Len(s2) = n /\ s2[1] = g /\ (\A i \in 2..n : s2[i] = s[i]) /\ Head(s2) = g /\ s2 # <<>>
    BY <1>1
  <1> DEFINE W(u) == IF stack[u] # <<>> /\ Head(stack[u]).pc = "sleep" /\ Head(stack[u]).e = p
                     THEN <<[Head(stack[u]) EXCEPT !.pc = "children"]>> \o Tail(stack[u])
                     ELSE stack[u]
  <1>3. stack' = [u \in Threads |-> IF u = t THEN s2 ELSE W(u)]
    <2>1. With(t, g) = [u \in Threads |-> IF u = t THEN s2 ELSE stack[u]]
      BY <1>1 DEF With
    <2> HIDE DEF s2
    <2> QED
      BY <1>2, <2>1 DEF Broadcast
  <1>4. ASSUME NEW u \in Threads
        PROVE  /\ W(u) \in Seq(Frame) /\ Len(W(u)) = Len(stack[u])
               /\ \A i \in 1..Len(stack[u]) : Same(stack[u][i], W(u)[i])
    <2>1. stack[u] \in Seq(Frame)
      BY <1>1
    <2>2. CASE W(u) = stack[u]
      BY <2>1, <2>2 DEF Same
    <2>3. CASE stack[u] # <<>> /\ Head(stack[u]).pc = "sleep" /\ Head(stack[u]).e = p
      <3> DEFINE h == [Head(stack[u]) EXCEPT !.pc = "children"]
      <3>1. Head(stack[u]) \in Frame /\ Head(stack[u]) = stack[u][1]
        BY <2>1, <2>3
      <3>2. h \in Frame /\ Same(stack[u][1], h)
        <4>1. "children" \in Deleting
          BY DEF Deleting, BeforeLeaving
        <4>2. h \in Frame
          BY <3>1, <4>1, FrameGoto
        <4> QED
          BY <2>3, <3>1, <4>2 DEF Same
      <3>3. W(u) = <<h>> \o Tail(stack[u])
        BY <2>3
      <3> HIDE DEF h, W
      <3>4. W(u) \in Seq(Frame) /\ Len(W(u)) = Len(stack[u]) /\ W(u)[1] = h
            /\ \A i \in 2..Len(stack[u]) : W(u)[i] = stack[u][i]
        BY <2>1, <2>3, <3>2, <3>3
      <3>5. Len(stack[u]) \in Nat
        BY <2>1
      <3> QED
        BY <3>2, <3>4, <3>5 DEF Same
    <2> QED
      BY <2>2, <2>3
  <1> HIDE DEF s2, W
  <1>5. stack' \in [Threads -> Seq(Frame)]
    BY <1>2, <1>3, <1>4
  <1>6. \A u \in Threads : Len(stack'[u]) = Len(stack[u])
    BY <1>2, <1>3, <1>4
  <1>7. Pos' = Pos
    BY <1>6 DEF Pos
  <1>8. ASSUME NEW y \in Pos, y # Last(t) PROVE Same(call[y], call'[y])
    <2>1. PICK u \in Threads, k \in Nat : y = <<u, k>> /\ k \in 1..Len(stack[u])
      BY Positions DEF Pos
    <2>2. call[y] = stack[u][Len(stack[u]) - k + 1] /\ call'[y] = stack'[u][Len(stack[u]) - k + 1]
      BY <1>6, <1>7, <2>1 DEF call
    <2>3. CASE u # t
      <3>1. Len(stack[u]) \in Nat
        BY <1>1
      <3> QED
        BY <1>3, <1>4, <2>1, <2>2, <2>3, <3>1
    <2>4. CASE u = t
      <3>1. k # n /\ k \in 1..n /\ n \in Nat
        BY <1>1, <1>8, <2>1, <2>4 DEF Last
      <3>2. n - k + 1 \in 2..n
        BY <3>1
      <3> QED
        BY <1>2, <1>3, <2>2, <2>4, <3>2 DEF Same
    <2> QED
      BY <2>3, <2>4
  <1>9. n \in Nat \ {0}
    BY <1>1
  <1>10. Last(t) \in Pos /\ Next1(t) \notin Pos
    BY TopIsLast
  <1>11. call'[Last(t)] = g
    <2>1. call'[Last(t)] = stack'[t][n - n + 1]
      BY <1>6, <1>7, <1>10 DEF call, Last
    <2> QED
      BY <1>2, <1>3, <1>9, <2>1
  <1> QED
    BY <1>5, <1>7, <1>8, <1>10, <1>11 DEF Moves, Others

Calls(t, a, b) == stack' = [stack EXCEPT ![t] = <<a, b>> \o Tail(@)]
LEMMA CallPushes ==
    ASSUME TypeOK, NEW t \in Threads, ~Idle(t), NEW a \in Frame, NEW b \in Frame, Calls(t, a, b)
    PROVE  Pushes(t, a, b) /\ stack' \in [Threads -> Seq(Frame)]
  <1>1. stack[t] \in Seq(Frame) /\ stack[t] # <<>> /\ stack \in [Threads -> Seq(Frame)]
    BY DEF TypeOK, Idle
  <1> DEFINE s == stack[t]  n == Len(s)  s2 == <<a, b>> \o Tail(s)
  <1>2. s2 \in Seq(Frame) /\ Len(s2) = n + 1 /\ s2[1] = a /\ s2[2] = b /\ \A i \in 2..n : s2[i + 1] = s[i]
    <2>1. Tail(s) \in Seq(Frame) /\ Len(Tail(s)) = n - 1 /\ n \in Nat \ {0} /\ \A i \in 1..(n - 1) : Tail(s)[i] = s[i + 1]
      BY <1>1
    <2>2. <<a, b>> \in Seq(Frame) /\ Len(<<a, b>>) = 2 /\ <<a, b>>[1] = a /\ <<a, b>>[2] = b
      OBVIOUS
    <2> DEFINE r == Tail(s)  ab == <<a, b>>
    <2>3. s2 = ab \o r
      OBVIOUS
    <2> HIDE DEF r, ab, s2
    <2>4. s2 \in Seq(Frame) /\ Len(s2) = n + 1
      BY <2>1, <2>2, <2>3 DEF r, ab
    <2>5. \A i \in 1..(n + 1) : s2[i] = IF i <= 2 THEN ab[i] ELSE r[i - 2]
      BY <2>1, <2>2, <2>3 DEF r, ab
    <2>6. \A i \in 2..n : s2[i + 1] = s[i]
      BY <2>1, <2>5 DEF r
    <2> QED
      BY <2>1, <2>2, <2>4, <2>5, <2>6 DEF ab
  <1>3. stack' = [stack EXCEPT ![t] = s2]
    BY DEF Calls
  <1>4. stack' \in [Threads -> Seq(Frame)] /\ stack'[t] = s2 /\ \A u \in Threads : u # t => stack'[u] = stack[u]
    BY <1>1, <1>2, <1>3
  <1>5. n \in Nat \ {0}
    BY <1>1
  <1> HIDE DEF s2
  <1>6. \A y : y # Next1(t) => (y \in Pos <=> y \in Pos')
    <2>1. ASSUME NEW u \in Threads, NEW k \in Nat, u # t PROVE k \in 1..Len(stack[u]) <=> k \in 1..Len(stack'[u])
      BY <1>4, <2>1
    <2>2. ASSUME NEW k \in Nat, k # n + 1 PROVE k \in 1..Len(stack[t]) <=> k \in 1..Len(stack'[t])
      BY <1>2, <1>4, <1>5, <2>2
    <2> QED
      BY <2>1, <2>2 DEF Pos, Next1
  <1>7. Last(t) \in Pos /\ Next1(t) \notin Pos
    BY TopIsLast
  <1>8. Last(t) \in Pos' /\ Next1(t) \in Pos'
    BY <1>2, <1>4, <1>5 DEF Pos, Last, Next1
  <1>9. call'[Last(t)] = b /\ call'[Next1(t)] = a
    <2>1. call'[Last(t)] = stack'[t][Len(stack'[t]) - n + 1]
      BY <1>8 DEF call, Last
    <2>2. call'[Next1(t)] = stack'[t][Len(stack'[t]) - (n + 1) + 1]
      BY <1>8 DEF call, Next1
    <2> QED
      BY <1>2, <1>4, <1>5, <2>1, <2>2
  <1>10. ASSUME NEW y \in Pos, y # Last(t), y # Next1(t) PROVE call'[y] = call[y]
    <2>1. PICK u \in Threads, k \in Nat : y = <<u, k>> /\ k \in 1..Len(stack[u])
      BY Positions DEF Pos
    <2>2. y \in Pos'
      BY <1>6, <1>10
    <2>3. call[y] = stack[u][Len(stack[u]) - k + 1] /\ call'[y] = stack'[u][Len(stack'[u]) - k + 1]
      BY <2>1, <2>2 DEF call
    <2>4. CASE u # t
      BY <1>4, <2>3, <2>4
    <2>5. CASE u = t
      <3>1. k # n /\ k \in 1..n
        BY <1>10, <2>1, <2>5 DEF Last
      <3>2. n - k + 1 \in 2..n /\ (n + 1) - k + 1 = (n - k + 1) + 1
        BY <1>5, <3>1
      <3> QED
        BY <1>2, <1>4, <2>3, <2>5, <3>2
    <2> QED
      BY <2>4, <2>5
  <1> QED
    BY <1>4, <1>6, <1>7, <1>8, <1>9, <1>10 DEF Pushes, Others, Same

LEMMA ReturnPops ==
    ASSUME TypeOK, NEW t \in Threads, ~Idle(t), stack' = [stack EXCEPT ![t] = Tail(@)]
    PROVE  Pops(t) /\ stack' \in [Threads -> Seq(Frame)]
  <1>1. stack[t] \in Seq(Frame) /\ stack[t] # <<>> /\ stack \in [Threads -> Seq(Frame)]
    BY DEF TypeOK, Idle
  <1> DEFINE s == stack[t]  n == Len(s)  s2 == Tail(s)
  <1>2. s2 \in Seq(Frame) /\ Len(s2) = n - 1 /\ n \in Nat \ {0} /\ \A i \in 1..(n - 1) : s2[i] = s[i + 1]
    BY <1>1
  <1>4. stack' \in [Threads -> Seq(Frame)] /\ stack'[t] = s2 /\ \A u \in Threads : u # t => stack'[u] = stack[u]
    BY <1>1, <1>2
  <1> HIDE DEF s2
  <1>6. \A y : y # Last(t) => (y \in Pos <=> y \in Pos')
    <2>1. ASSUME NEW u \in Threads, NEW k \in Nat, u # t PROVE k \in 1..Len(stack[u]) <=> k \in 1..Len(stack'[u])
      BY <1>4, <2>1
    <2>2. ASSUME NEW k \in Nat, k # n PROVE k \in 1..Len(stack[t]) <=> k \in 1..Len(stack'[t])
      BY <1>2, <1>4, <2>2
    <2> QED
      BY <2>1, <2>2 DEF Pos, Last
  <1>7. Last(t) \in Pos /\ Next1(t) \notin Pos
    BY TopIsLast
  <1>8. Last(t) \notin Pos' /\ Next1(t) \notin Pos'
    BY <1>2, <1>4 DEF Pos, Last, Next1
  <1>10. ASSUME NEW y \in Pos, y # Last(t), y # Next1(t) PROVE call'[y] = call[y]
    <2>1. PICK u \in Threads, k \in Nat : y = <<u, k>> /\ k \in 1..Len(stack[u])
      BY Positions DEF Pos
    <2>2. y \in Pos'
      BY <1>6, <1>10
    <2>3. call[y] = stack[u][Len(stack[u]) - k + 1] /\ call'[y] = stack'[u][Len(stack'[u]) - k + 1]
      BY <2>1, <2>2 DEF call
    <2>4. CASE u # t
      BY <1>4, <2>3, <2>4
    <2>5. CASE u = t
      <3>1. k # n /\ k \in 1..n
        BY <1>10, <2>1, <2>5 DEF Last
      <3>2. n - k \in 1..(n - 1) /\ (n - 1) - k + 1 = n - k
        BY <1>2, <3>1
      <3> QED
        BY <1>2, <1>4, <2>3, <2>5, <3>2
    <2> QED
      BY <2>4, <2>5
  <1> QED
    BY <1>4, <1>6, <1>7, <1>8, <1>10 DEF Pops, Others, Same

LEMMA EnterBegins ==
    ASSUME TypeOK, NEW t \in Threads, Idle(t), NEW f \in Frame, stack' = [stack EXCEPT ![t] = <<f>>]
    PROVE  Begins(t, f) /\ stack' \in [Threads -> Seq(Frame)]
  <1>1. stack[t] = <<>> /\ stack \in [Threads -> Seq(Frame)]
    BY DEF TypeOK, Idle
  <1>2. <<f>> \in Seq(Frame) /\ Len(<<f>>) = 1 /\ <<f>>[1] = f /\ Len(stack[t]) = 0
    BY <1>1
  <1>3. stack' \in [Threads -> Seq(Frame)] /\ stack'[t] = <<f>> /\ \A u \in Threads : u # t => stack'[u] = stack[u]
    BY <1>1, <1>2
  <1>4. Last(t) = <<t, 0>> /\ Next1(t) = <<t, 1>>
    BY <1>2 DEF Last, Next1
  <1>5. \A y : y # Next1(t) => (y \in Pos <=> y \in Pos')
    <2>1. ASSUME NEW u \in Threads, NEW k \in Nat, u # t PROVE k \in 1..Len(stack[u]) <=> k \in 1..Len(stack'[u])
      BY <1>3, <2>1
    <2>2. ASSUME NEW k \in Nat, k # 1 PROVE k \in 1..Len(stack[t]) <=> k \in 1..Len(stack'[t])
      BY <1>2, <1>3, <2>2
    <2> QED
      BY <1>4, <2>1, <2>2 DEF Pos
  <1>6. Last(t) \notin Pos /\ Next1(t) \notin Pos /\ Last(t) \notin Pos' /\ Next1(t) \in Pos'
    BY <1>2, <1>3, <1>4 DEF Pos
  <1>7. call'[Next1(t)] = f
    BY <1>2, <1>3, <1>4, <1>6 DEF call
  <1>8. ASSUME NEW y \in Pos PROVE call'[y] = call[y]
    <2>1. PICK u \in Threads, k \in Nat : y = <<u, k>> /\ k \in 1..Len(stack[u])
      BY Positions DEF Pos
    <2>2. y \in Pos' /\ u # t
      BY <1>2, <1>5, <1>6, <1>8, <2>1
    <2> QED
      BY <1>3, <2>1, <2>2 DEF call
  <1> QED
    BY <1>3, <1>5, <1>6, <1>7, <1>8 DEF Begins, Others, Same

----------------------------------------------------------------------------
(* What frames have in common.                                              *)

LEMMA Tree ==
    /\ \A e \in Entities :
          /\ e # 0 /\ e \in Nat
          /\ Kind[e] \in {"participant", "subscriber", "reader", "topic"}
          /\ Kind[e] = "participant" => Parent[e] = 0
          /\ Kind[e] # "participant" => Parent[e] \in Entities /\ Parent[e] # 0
          /\ Kind[e] = "subscriber" \/ Kind[e] = "topic" => Kind[Parent[e]] = "participant"
          /\ Kind[e] = "reader" => Kind[Parent[e]] = "subscriber"
          /\ e \in Readers <=> Kind[e] = "reader"
    /\ \A r \in Readers : r \in Entities /\ TopicOf[r] \in Entities /\ Kind[TopicOf[r]] = "topic"
  <1>1. ASSUME NEW e \in Entities
        PROVE  /\ Kind[e] \in {"participant", "subscriber", "reader", "topic"}
               /\ Parent[e] \in Entities \cup {0} /\ 0 \notin Entities
               /\ IF Kind[e] = "participant" THEN Parent[e] = 0
                  ELSE Parent[e] # 0 /\ Kind[Parent[e]] = ParentKind[Kind[e]]
    BY LifecycleAssumption, TreeAssumption
  <1>2. /\ ParentKind["subscriber"] = "participant" /\ ParentKind["topic"] = "participant"
        /\ ParentKind["reader"] = "subscriber"
    BY DEF ParentKind
  <1>3. \A r \in Readers : r \in Entities /\ TopicOf[r] \in Entities /\ Kind[TopicOf[r]] = "topic"
    BY LifecycleAssumption, TreeAssumption DEF Readers
  <1>4. Entities \subseteq Nat
    BY LifecycleAssumption
  <1> QED
    BY <1>1, <1>2, <1>3, <1>4 DEF Readers

LEMMA PinnedIs ==
    ASSUME NEW f
    PROVE  /\ f.pc \in WithTopic => Pinned(f) = {f.e, TopicOf[f.arg]}
           /\ f.pc \in InCall \ WithTopic => Pinned(f) = {f.e}
           /\ f.pc = "closeparent" => Pinned(f) = {f.e, Parent[f.e]}
           /\ f.pc \in AfterLeaving => Pinned(f) = {f.e, f.arg} \ {0}
           /\ f.pc \in Deleting \ (AfterLeaving \cup {"closeparent"}) => Pinned(f) = {f.e}
           /\ f.pc \in {"pin", "pinsub"} => Pinned(f) = {}
  BY DEF Pinned, WithTopic, InCall, AfterLeaving, Deleting, BeforeLeaving

LEMMA PinnedType ==
    ASSUME NEW f \in Frame, NEW imp \in SUBSET Entities, FrameOK(f, imp)
    PROVE  /\ Pinned(f) \subseteq Entities
           /\ f.pc \in Deleting \cup InCall => f.e \in Pinned(f)
           /\ f.pc \in AfterLeaving /\ f.arg # 0 => f.arg \in Pinned(f)
           /\ f.pc = "closeparent" => Parent[f.e] \in Pinned(f)
  <1>1. f.e \in Entities /\ f.e # 0 /\ f.pc \in Deleting \cup InCall \cup {"pin", "pinsub"}
    BY LifecycleAssumption DEF Frame
  <1>2. f.pc \in WithTopic => TopicOf[f.arg] \in Entities
    <2>1. f.pc \in WithTopic => f.arg \in Readers
      BY DEF FrameOK, WithTopic, Creations, Making
    <2> QED
      BY <2>1, LifecycleAssumption
  <1>3. f.pc = "closeparent" => Parent[f.e] \in Entities
    BY DEF FrameOK
  <1>4. f.pc \in AfterLeaving /\ f.arg # 0 => f.arg \in Entities
    BY DEF FrameOK
  <1>5. Pinned(f) \subseteq Entities
    BY <1>1, <1>2, <1>3, <1>4, PinnedIs
  <1>6. f.pc \in Deleting \cup InCall => f.e \in Pinned(f)
    BY <1>1, PinnedIs
  <1>7. f.pc \in AfterLeaving /\ f.arg # 0 => f.arg \in Pinned(f)
    BY PinnedIs
  <1>8. f.pc = "closeparent" => Parent[f.e] \in Pinned(f)
    BY PinnedIs
  <1> QED
    BY <1>5, <1>6, <1>7, <1>8

LEMMA ImplicitType == ASSUME TypeOK PROVE Implicit \in SUBSET Entities
  BY LifecycleAssumption DEF TypeOK, Implicit

LEMMA SameCall ==
    ASSUME NEW f \in Frame, NEW g, Same(f, g)
    PROVE  /\ g \in Frame /\ g.e = f.e /\ g.how = f.how /\ g.arg = f.arg
           /\ g.pc = f.pc \/ (f.pc = "sleep" /\ g.pc = "children")
           /\ Pinned(g) = Pinned(f)
           /\ \A imp : FrameOK(f, imp) => FrameOK(g, imp)
  <1>1. CASE g = f
    BY <1>1
  <1>2. CASE f.pc = "sleep" /\ g = [f EXCEPT !.pc = "children"]
    <2>1. g \in Frame
      <3>1. "children" \in Deleting
        BY DEF Deleting, BeforeLeaving
      <3> QED
        BY <1>2, <3>1, FrameGoto
    <2>2. g.pc = "children" /\ g.e = f.e /\ g.how = f.how /\ g.arg = f.arg
      BY <1>2 DEF Frame
    <2>3. Pinned(f) = {f.e} /\ Pinned(g) = {g.e}
      BY <1>2, <2>2, PinnedIs DEF Deleting, BeforeLeaving, AfterLeaving
    <2>4. \A imp : FrameOK(f, imp) => FrameOK(g, imp)
      BY <1>2, <2>2 DEF FrameOK, Deleting, BeforeLeaving, Creations, Making, OfParticipant, AfterLeaving
    <2> QED
      BY <1>2, <2>1, <2>2, <2>3, <2>4
  <1> QED
    BY <1>1, <1>2 DEF Same

LEMMA OthersKeep ==
    ASSUME TypeOK, NEW t, Others(t), NEW y \in Pos', y # Last(t), y # Next1(t)
    PROVE  /\ y \in Pos /\ call[y] \in Frame /\ call'[y] \in Frame
           /\ call'[y].e = call[y].e /\ call'[y].how = call[y].how /\ call'[y].arg = call[y].arg
           /\ call'[y].pc = call[y].pc \/ (call[y].pc = "sleep" /\ call'[y].pc = "children")
           /\ Pinned(call'[y]) = Pinned(call[y])
           /\ \A imp : FrameOK(call[y], imp) => FrameOK(call'[y], imp)
  <1>1. y \in Pos /\ Same(call[y], call'[y])
    BY DEF Others
  <1>2. call[y] \in Frame
    BY <1>1, CallType
  <1> QED
    BY <1>1, <1>2, SameCall

\* Entities are born when nobody else is about to create them, and end when
\* nobody else has them pinned.
Onward(t) ==
    \A e \in Entities :
        /\ \/ stage'[e] = stage[e]
           \/ /\ stage[e] = "unborn" /\ stage'[e] = "live"
              /\ \A y \in Pos : y # Last(t) /\ call[y].pc \in Making =>
                    call[y].arg # e /\ (call[y].pc = "plock" => Parent[call[y].arg] # e)
           \/ /\ stage[e] \in {"live", "unlinked"}
              /\ \A y \in Pos : y # Last(t) => e \notin Pinned(call[y])
        /\ stage[e] # "unborn" /\ hdl[e].closing => hdl'[e].closing
        /\ \A p \in Entities : e \in children[p] =>
              \/ e \in children'[p]
              \/ \A y \in Pos : y # Last(t) => e \notin Pinned(call[y])

LEMMA FramesStep ==
    ASSUME TypeOK, FramesOK, UNCHANGED app, NEW t, Others(t), Onward(t),
           \A y \in {Last(t), Next1(t)} : y \in Pos' =>
               FrameOK(call'[y], Implicit) /\ FrameTrue(call'[y], stage', hdl', children')
    PROVE  FramesOK'
  <1> SUFFICES ASSUME NEW y \in Pos', y # Last(t), y # Next1(t)
               PROVE  FrameOK(call'[y], Implicit) /\ FrameTrue(call'[y], stage', hdl', children')
    BY DEF FramesOK, Implicit
  <1> DEFINE f == call[y]
  <1>1. PICK g : g = call'[y]
    OBVIOUS
  <1>2. y \in Pos /\ f \in Frame /\ g.e = f.e /\ g.arg = f.arg /\ Pinned(g) = Pinned(f)
        /\ (g.pc = f.pc \/ (f.pc = "sleep" /\ g.pc = "children")) /\ FrameOK(f, Implicit) /\ FrameTrue(f, stage, hdl, children)
        /\ FrameOK(g, Implicit)
    BY <1>1, OthersKeep DEF FramesOK
  <1>3. \A e \in Entities : e \in Pinned(f) =>
           /\ stage'[e] = stage[e] /\ stage[e] \in {"live", "unlinked"}
           /\ hdl[e].closing => hdl'[e].closing
           /\ \A p \in Entities : e \in children[p] => e \in children'[p]
    <2> SUFFICES ASSUME NEW e \in Entities, e \in Pinned(f)
                 PROVE  /\ stage'[e] = stage[e] /\ stage[e] \in {"live", "unlinked"}
                        /\ hdl[e].closing => hdl'[e].closing
                        /\ \A p \in Entities : e \in children[p] => e \in children'[p]
      OBVIOUS
    <2>1. stage[e] \in {"live", "unlinked"}
      BY <1>2 DEF FrameTrue
    <2>2. stage[e] # "unborn"
      BY <2>1
    <2>3. ~(\A z \in Pos : z # Last(t) => e \notin Pinned(call[z]))
      BY <1>2
    <2> HIDE DEF f
    <2> QED
      BY <2>1, <2>2, <2>3, Zenon DEF Onward
  <1>4. /\ f.e \in Entities /\ Pinned(f) \subseteq Entities
        /\ f.pc \in Deleting => f.e \in Pinned(f)
        /\ f.pc \in AfterLeaving /\ f.arg # 0 => f.arg \in Pinned(f)
        /\ f.pc = "closeparent" => Parent[f.e] \in Pinned(f)
    BY <1>2, PinnedType, ImplicitType DEF Frame
  <1>5. g.pc \in Making => f.pc = g.pc /\ f.arg \in Readers /\ Parent[f.arg] \in Entities
    <2>1. g.pc \in Making => f.pc = g.pc /\ f.arg \in Readers
      BY <1>2 DEF FrameOK, Making, Creations
    <2> QED
      BY <2>1, Tree
  <1>6. \A e \in Pinned(g) : stage'[e] \in {"live", "unlinked"}
    BY <1>2, <1>3, <1>4
  <1>7. g.pc \in Deleting => hdl'[g.e].closing
    BY <1>2, <1>3, <1>4 DEF FrameTrue, Deleting, BeforeLeaving
  <1>8. g.pc \in AfterLeaving /\ g.arg # 0 => hdl'[g.arg].closing
    BY <1>2, <1>3, <1>4 DEF FrameTrue, AfterLeaving
  <1>8a. /\ g.pc \in AfterLeaving /\ g.arg # 0 => stage'[g.arg] = "live"
         /\ g.pc = "closeparent" => stage'[Parent[g.e]] = "live"
    BY <1>2, <1>3, <1>4 DEF FrameTrue, AfterLeaving
  <1>9. g.pc \in Deleting \ (Left \cup {"parent"}) => stage'[g.e] = "live"
    BY <1>2, <1>3, <1>4 DEF FrameTrue, Deleting, BeforeLeaving, Left
  <1>10. g.pc \in Left \cup {"parent"} => stage'[g.e] = "unlinked"
    BY <1>2, <1>3, <1>4 DEF FrameTrue, Deleting, BeforeLeaving, AfterLeaving, Left
  <1>11. g.pc = "parent" /\ Parent[g.e] # 0 => g.e \in children'[Parent[g.e]]
    <2>1. Parent[f.e] # 0 => Parent[f.e] \in Entities
      BY <1>4, LifecycleAssumption
    <2> QED
      BY <1>2, <1>3, <1>4, <2>1 DEF FrameTrue, Deleting, BeforeLeaving
  <1>12. \A e \in Entities : stage[e] = "unborn" =>
            \/ stage'[e] = "unborn"
            \/ /\ f.pc \in Making => f.arg # e
               /\ f.pc = "plock" => Parent[f.arg] # e
    BY <1>2 DEF Onward, Making
  <1>13. g.pc \in Making => stage'[g.arg] = "unborn"
    BY <1>2, <1>5, <1>12 DEF FrameTrue, Readers
  <1>14. g.pc = "plock" => stage'[Parent[g.arg]] = "unborn"
    BY <1>2, <1>5, <1>12 DEF FrameTrue, Making
  <1>15. FrameTrue(g, stage', hdl', children')
    BY <1>6, <1>7, <1>8, <1>8a, <1>9, <1>10, <1>11, <1>13, <1>14, Zenon DEF FrameTrue
  <1> QED
    BY <1>1, <1>2, <1>15

\* Whoever comes past close_wait is alone, and nobody pins what is closed.
LEMMA AloneStep ==
    ASSUME TypeOK, Alone, NEW t, Others(t),
           Last(t) \in Pos' /\ call'[Last(t)].pc \in Past =>
               \A y \in Pos : y # Last(t) => call'[Last(t)].e \notin Pinned(call[y]),
           Next1(t) \in Pos' => call'[Next1(t)].pc \notin Past,
           \A y \in {Last(t), Next1(t)} : y \in Pos' =>
               \A w \in Pos : w # Last(t) /\ call[w].pc \in Past => call[w].e \notin Pinned(call'[y]),
           Last(t) \in Pos' /\ Next1(t) \in Pos' => Pinned(call'[Next1(t)]) = {},
           Next1(t) \notin Pos
    PROVE  Alone'
  <1> SUFFICES ASSUME NEW x \in Pos', NEW y \in Pos', call'[x].pc \in Past, call'[x].e \in Pinned(call'[y])
               PROVE  x = y
    BY DEF Alone
  <1>1. CASE x = Last(t) \/ x = Next1(t)
    <2>1. x = Last(t)
      BY <1>1
    <2>2. CASE y = Next1(t)
      BY <2>1, <2>2
    <2>3. CASE y # Last(t) /\ y # Next1(t)
      BY <2>1, <2>3, OthersKeep
    <2> QED
      BY <2>1, <2>2, <2>3
  <1>2. CASE x # Last(t) /\ x # Next1(t)
    <2>1. x \in Pos /\ call[x].e = call'[x].e /\ call[x].pc \in Past
      BY <1>2, OthersKeep DEF Past
    <2>2. CASE y = Last(t) \/ y = Next1(t)
      BY <1>2, <2>1, <2>2
    <2>3. CASE y # Last(t) /\ y # Next1(t)
      BY <2>1, <2>3, OthersKeep DEF Alone
    <2> QED
      BY <2>2, <2>3
  <1> QED
    BY <1>1, <1>2

\* Whoever starts to delete an entity finds it not closing.
LEMMA SingleStep ==
    ASSUME TypeOK, FramesOK, Single, UNCHANGED app, NEW t, Others(t),
           Next1(t) \in Pos' => call'[Next1(t)].pc \notin Deleting,
           Last(t) \in Pos' /\ call'[Last(t)].pc \in Deleting =>
               \/ call'[Last(t)].e \in Implicit
               \/ /\ Last(t) \in Pos /\ call'[Last(t)].e = call[Last(t)].e
                  /\ call[Last(t)].pc \in Deleting \/ ~hdl[call[Last(t)].e].closing
    PROVE  Single'
  <1>0. Implicit' = Implicit
    BY DEF Implicit
  <1>1. ASSUME NEW y \in Pos', y # Last(t), call'[y].pc \in Deleting
        PROVE  y \in Pos /\ call[y].pc \in Deleting /\ call[y].e = call'[y].e /\ hdl[call[y].e].closing
    <2>1. y # Next1(t)
      BY <1>1
    <2>2. y \in Pos /\ call[y].pc \in Deleting /\ call[y].e = call'[y].e
      BY <1>1, <2>1, OthersKeep DEF Deleting, BeforeLeaving
    <2> QED
      BY <2>2 DEF FramesOK, FrameTrue
  <1> SUFFICES ASSUME NEW x \in Pos', NEW y \in Pos', call'[x].pc \in Deleting, call'[y].pc \in Deleting,
                      call'[x].e = call'[y].e, call'[x].e \notin Implicit
               PROVE  x = y
    BY <1>0 DEF Single
  <1>2. CASE x # Last(t) /\ y # Last(t)
    BY <1>1, <1>2 DEF Single
  <1>3. CASE x = Last(t) /\ y # Last(t)
    BY <1>1, <1>3 DEF Single
  <1>4. CASE x # Last(t) /\ y = Last(t)
    BY <1>1, <1>4 DEF Single
  <1> QED
    BY <1>2, <1>3, <1>4

\* A creation that begins finds no other one of the same entities.
LEMMA SoleStep ==
    ASSUME TypeOK, Sole, NEW t, Others(t),
           Last(t) \in Pos' /\ call'[Last(t)].pc \in Making =>
               /\ Last(t) \in Pos /\ call[Last(t)].pc \in Making
               /\ call'[Last(t)].arg = call[Last(t)].arg
               /\ call'[Last(t)].pc = "plock" => call[Last(t)].pc = "plock",
           Next1(t) \in Pos' /\ call'[Next1(t)].pc \in Making =>
               /\ Last(t) \notin Pos'
               /\ \A w \in Pos : call[w].pc \in Making =>
                     /\ call[w].arg # call'[Next1(t)].arg
                     /\ "plock" \in {call[w].pc, call'[Next1(t)].pc} =>
                           Parent[call[w].arg] # Parent[call'[Next1(t)].arg],
           Next1(t) \notin Pos
    PROVE  Sole'
  <1>1. ASSUME NEW x \in Pos', x # Next1(t), call'[x].pc \in Making
        PROVE  /\ x \in Pos /\ call[x].pc \in Making /\ call[x].arg = call'[x].arg
               /\ call'[x].pc = "plock" => call[x].pc = "plock"
    <2>1. CASE x = Last(t)
      BY <1>1, <2>1
    <2>2. CASE x # Last(t)
      BY <1>1, <2>2, OthersKeep DEF Making
    <2> QED
      BY <2>1, <2>2
  <1> SUFFICES ASSUME NEW x \in Pos', NEW y \in Pos', call'[x].pc \in Making, call'[y].pc \in Making
               PROVE  /\ call'[x].arg = call'[y].arg => x = y
                      /\ call'[x].pc = "plock" /\ Parent[call'[x].arg] = Parent[call'[y].arg] => x = y
    BY DEF Sole
  <1>2. CASE x # Next1(t) /\ y # Next1(t)
    BY <1>1, <1>2 DEF Sole
  <1>3. CASE x = Next1(t) /\ y # Next1(t)
    BY <1>1, <1>3
  <1>4. CASE x # Next1(t) /\ y = Next1(t)
    BY <1>1, <1>4
  <1> QED
    BY <1>2, <1>3, <1>4

DepthAt(x, f) ==
    /\ x[2] <= Rank[Kind[f.e]]
    /\ x[2] > 1 => f.how \in {"from_parent", "explicit"}
    /\ x[2] > 1 /\ f.pc \in AfterLeaving => f.arg = 0

LEMMA DepthStep ==
    ASSUME TypeOK, DepthOK, NEW t, Others(t),
           \A y \in {Last(t), Next1(t)} : y \in Pos' => DepthAt(y, call'[y])
    PROVE  DepthOK'
  <1> SUFFICES ASSUME NEW x \in Pos' PROVE DepthAt(x, call'[x])
    BY DEF DepthOK, DepthAt
  <1>1. CASE x # Last(t) /\ x # Next1(t)
    <2>1. DepthAt(x, call[x])
      BY <1>1, OthersKeep DEF DepthOK, DepthAt
    <2> QED
      BY <1>1, <2>1, OthersKeep DEF DepthAt, AfterLeaving
  <1> QED
    BY <1>1

LEMMA TreeStep ==
    ASSUME TreeOK, UNCHANGED <<stage, children>>,
           \A e \in Entities : stage[e] # "unborn" /\ hdl[e].closing => hdl'[e].closing
    PROVE  TreeOK'
  <1> SUFFICES ASSUME NEW c \in Entities
               PROVE  /\ stage[c] \in {"unlinked", "freed"} => hdl'[c].closing
                      /\ \A e \in Entities : c \in children[e] => Parent[c] = e /\ stage[c] # "unborn"
                      /\ Parent[c] # 0 /\ stage[c] = "live" => c \in children[Parent[c]]
                      /\ Parent[c] # 0 /\ stage[Parent[c]] = "unborn" => stage[c] = "unborn"
    BY DEF TreeOK
  <1> QED
    BY DEF TreeOK

----------------------------------------------------------------------------
(* Counting.                                                                *)

LEMMA PinnersFinite ==
    ASSUME TypeOK, DepthOK, NEW e \in Entities
    PROVE  IsFiniteSet(pinners[e]) /\ Cardinality(pinners[e]) \in Nat
  <1>1. IsFiniteSet(Threads \X (1..4))
    <2>1. IsFiniteSet(1..4)
      <3>1. 1 \in Int /\ 4 \in Int
        OBVIOUS
      <3> QED
        BY <3>1, FS_Interval, Zenon
    <2>2. IsFiniteSet(Threads)
      BY LifecycleAssumption
    <2> QED
      BY <2>1, <2>2, FS_Product
  <1>2. pinners[e] \subseteq Threads \X (1..4)
    <2>1. ASSUME NEW x \in Pos PROVE x \in Threads \X (1..4)
      <3>1. call[x].e \in Entities
        BY CallType DEF Frame
      <3>2. Rank[Kind[call[x].e]] \in 1..4
        <4>1. Kind[call[x].e] \in {"participant", "subscriber", "reader", "topic"}
          BY <3>1, Tree
        <4> QED
          BY <4>1 DEF Rank
      <3>3. x[2] <= 4
        BY <2>1, <3>2 DEF DepthOK, Pos
      <3>4. x[1] \in Threads /\ x[2] \in 1..Len(stack[x[1]]) /\ x[2] \in Nat /\ x = <<x[1], x[2]>>
        BY DEF Pos
      <3>5. stack[x[1]] \in Seq(Frame)
        BY <3>4 DEF TypeOK
      <3>6. x[2] \in 1..4
        BY <3>3, <3>4, <3>5
      <3> QED
        BY <3>4, <3>6
    <2> QED
      BY <2>1 DEF pinners
  <1> QED
    BY <1>1, <1>2, FS_Subset, FS_CardinalityType

LEMMA PinnersOthers ==
    ASSUME TypeOK, NEW t, Others(t), NEW e \in Entities
    PROVE  \A y : y # Last(t) /\ y # Next1(t) => (y \in pinners'[e] <=> y \in pinners[e])
  <1> SUFFICES ASSUME NEW y, y # Last(t), y # Next1(t) PROVE y \in pinners'[e] <=> y \in pinners[e]
    OBVIOUS
  <1>1. y \in Pos <=> y \in Pos'
    BY DEF Others
  <1>2. y \in Pos' => Pinned(call'[y]) = Pinned(call[y])
    BY OthersKeep
  <1> QED
    BY <1>1, <1>2 DEF pinners

\* A pin is taken or released where the call that does so says so.
LEMMA PinsStep ==
    ASSUME TypeOK, DepthOK, PinsOK, NEW t, Others(t),
           \A e \in Entities : stage'[e] # "freed" =>
               /\ stage[e] # "freed"
               /\ \/ /\ hdl'[e].pin = hdl[e].pin
                     /\ \A y \in {Last(t), Next1(t)} : y \in pinners'[e] <=> y \in pinners[e]
                  \/ /\ hdl'[e].pin = hdl[e].pin + 1
                     /\ \E y \in {Last(t), Next1(t)} :
                           /\ y \notin pinners[e] /\ y \in pinners'[e]
                           /\ \A w \in {Last(t), Next1(t)} : w # y => (w \in pinners'[e] <=> w \in pinners[e])
                  \/ /\ hdl'[e].pin = hdl[e].pin - 1
                     /\ \E y \in {Last(t), Next1(t)} :
                           /\ y \in pinners[e] /\ y \notin pinners'[e]
                           /\ \A w \in {Last(t), Next1(t)} : w # y => (w \in pinners'[e] <=> w \in pinners[e])
    PROVE  PinsOK'
  <1> SUFFICES ASSUME NEW e \in Entities, stage'[e] # "freed"
               PROVE  hdl'[e].pin = Cardinality(pinners'[e])
    BY DEF PinsOK
  <1>1. hdl[e].pin = Cardinality(pinners[e])
    BY DEF PinsOK
  <1>2. IsFiniteSet(pinners[e]) /\ Cardinality(pinners[e]) \in Nat
    BY PinnersFinite
  <1>3. \A y : y # Last(t) /\ y # Next1(t) => (y \in pinners'[e] <=> y \in pinners[e])
    BY PinnersOthers
  <1>4. CASE /\ hdl'[e].pin = hdl[e].pin
             /\ \A y \in {Last(t), Next1(t)} : y \in pinners'[e] <=> y \in pinners[e]
    <2>1. \A y : y \in pinners'[e] <=> y \in pinners[e]
      BY <1>3, <1>4
    <2>2. pinners'[e] = pinners[e]
      BY <2>1, Zenon
    <2> QED
      BY <1>1, <1>4, <2>2
  <1>5. CASE /\ hdl'[e].pin = hdl[e].pin + 1
             /\ \E y \in {Last(t), Next1(t)} :
                   /\ y \notin pinners[e] /\ y \in pinners'[e]
                   /\ \A w \in {Last(t), Next1(t)} : w # y => (w \in pinners'[e] <=> w \in pinners[e])
    <2>1. PICK y : /\ y \notin pinners[e]
                   /\ \A w : w \in pinners'[e] <=> w \in pinners[e] \/ w = y
      BY <1>3, <1>5
    <2>2. pinners'[e] = pinners[e] \cup {y}
      BY <2>1, Zenon
    <2>3. Cardinality(pinners[e] \cup {y}) = Cardinality(pinners[e]) + 1
      BY <1>2, <2>1, FS_AddElement
    <2> QED
      BY <1>1, <1>5, <2>2, <2>3
  <1>6. CASE /\ hdl'[e].pin = hdl[e].pin - 1
             /\ \E y \in {Last(t), Next1(t)} :
                   /\ y \in pinners[e] /\ y \notin pinners'[e]
                   /\ \A w \in {Last(t), Next1(t)} : w # y => (w \in pinners'[e] <=> w \in pinners[e])
    <2>1. PICK y : /\ y \in pinners[e]
                   /\ \A w : w \in pinners'[e] <=> w \in pinners[e] /\ w # y
      BY <1>3, <1>6
    <2>2. pinners'[e] = pinners[e] \ {y}
      BY <2>1, Zenon
    <2>3. Cardinality(pinners[e] \ {y}) = Cardinality(pinners[e]) - 1
      BY <1>2, <2>1, FS_RemoveElement
    <2> QED
      BY <1>1, <1>6, <2>2, <2>3
  <1> QED
    BY <1>4, <1>5, <1>6

\* A reader's frame gives its reference to the topic up, or has it taken for
\* a reader that is not yet registered.
Drops(f, r) == f.e = r /\ f.pc \in {"dropped", "free"}
Takes(f, r) == f.pc = "cregister" /\ f.arg = r

LEMMA FramesAre == TypeOK => Frames = {call[x] : x \in Pos}
  <1> SUFFICES ASSUME TypeOK PROVE Frames = {call[x] : x \in Pos}
    OBVIOUS
  <1>1. ASSUME NEW f, f \in Frames PROVE \E x \in Pos : f = call[x]
    <2>0. PICK t \in Threads : f \in {stack[t][i] : i \in DOMAIN stack[t]}
      BY <1>1 DEF Frames
    <2>1. PICK i \in DOMAIN stack[t] : f = stack[t][i]
      BY <2>0
    <2>2. stack[t] \in Seq(Frame)
      BY DEF TypeOK
    <2>3. i \in 1..Len(stack[t]) /\ Len(stack[t]) \in Nat
      BY <2>1, <2>2
    <2> DEFINE k == Len(stack[t]) - i + 1
    <2>4. k \in Nat /\ k \in 1..Len(stack[t]) /\ Len(stack[t]) - k + 1 = i
      <3>1. \A n \in Nat : \A j \in 1..n : n - j + 1 \in 1..n /\ n - (n - j + 1) + 1 = j
        OBVIOUS
      <3> QED
        BY <2>3, <3>1
    <2>5. <<t, k>> \in Pos
      BY <2>4 DEF Pos
    <2> QED
      BY <2>1, <2>4, <2>5, Positions
  <1>2. ASSUME NEW x \in Pos PROVE call[x] \in Frames
    <2>1. PICK t \in Threads, k \in Nat : x = <<t, k>> /\ k \in 1..Len(stack[t])
      BY Positions DEF Pos
    <2>2. stack[t] \in Seq(Frame) /\ Len(stack[t]) \in Nat
      BY DEF TypeOK
    <2>3. Len(stack[t]) - k + 1 \in DOMAIN stack[t]
      BY <2>1, <2>2
    <2> QED
      BY <2>1, <2>3, Positions DEF Frames
  <1> QED
    BY <1>1, <1>2

UsersMean ==
    \A r \in Readers : r \in users <=>
        \/ stage[r] \in {"live", "unlinked"} /\ \A x \in Pos : ~Drops(call[x], r)
        \/ \E x \in Pos : Takes(call[x], r)

LEMMA UsersAre == TypeOK => UsersMean
  BY FramesAre DEF UsersMean, users, HasTopic, Drops, Takes

LEMMA UsersStep ==
    ASSUME TypeOK, TypeOK', NEW t, Others(t), NEW r \in Readers,
           stage'[r] \in {"live", "unlinked"} <=> stage[r] \in {"live", "unlinked"},
           \A y \in {Last(t), Next1(t)} :
               /\ (y \in Pos' /\ Drops(call'[y], r)) <=> (y \in Pos /\ Drops(call[y], r))
               /\ (y \in Pos' /\ Takes(call'[y], r)) <=> (y \in Pos /\ Takes(call[y], r))
    PROVE  r \in users' <=> r \in users
  <1>1. ASSUME NEW y
        PROVE  /\ (y \in Pos' /\ Drops(call'[y], r)) <=> (y \in Pos /\ Drops(call[y], r))
               /\ (y \in Pos' /\ Takes(call'[y], r)) <=> (y \in Pos /\ Takes(call[y], r))
    <2>1. CASE y # Last(t) /\ y # Next1(t)
      <3>1. y \in Pos <=> y \in Pos'
        BY <2>1 DEF Others
      <3> QED
        BY <2>1, <3>1, OthersKeep DEF Drops, Takes
    <2> QED
      BY <2>1
  <1>2. r \in users <=>
          \/ stage[r] \in {"live", "unlinked"} /\ \A x \in Pos : ~Drops(call[x], r)
          \/ \E x \in Pos : Takes(call[x], r)
    BY UsersAre DEF UsersMean
  <1>3. r \in users' <=>
          \/ stage'[r] \in {"live", "unlinked"} /\ \A x \in Pos' : ~Drops(call'[x], r)
          \/ \E x \in Pos' : Takes(call'[x], r)
    <2>1. TypeOK' => UsersMean'
      BY UsersAre, PTL
    <2> QED
      BY <2>1 DEF UsersMean
  <1> QED
    BY <1>1, <1>2, <1>3

LEMMA CountsFinite ==
    ASSUME TypeOK, NEW e \in Entities
    PROVE  /\ IsFiniteSet(children[e]) /\ Cardinality(children[e]) \in Nat
           /\ IsFiniteSet(topicUsers[e]) /\ Cardinality(topicUsers[e]) \in Nat
           /\ Own(hdl, Implicit, e) \in {0, 1}
  <1>1. children[e] \subseteq Entities
    BY DEF TypeOK
  <1>2. topicUsers[e] \subseteq Entities
    BY DEF topicUsers, users, Readers
  <1> QED
    BY <1>1, <1>2, LifecycleAssumption, FS_Subset, FS_CardinalityType DEF Own

\* A step that neither takes nor drops a reference.
LEMMA RefsKept ==
    ASSUME TypeOK, TypeOK', RefsOK, NEW t, Others(t),
           UNCHANGED <<app, children>>,
           \A r \in Readers :
               /\ stage'[r] \in {"live", "unlinked"} <=> stage[r] \in {"live", "unlinked"}
               /\ \A y \in {Last(t), Next1(t)} :
                     /\ (y \in Pos' /\ Drops(call'[y], r)) <=> (y \in Pos /\ Drops(call[y], r))
                     /\ (y \in Pos' /\ Takes(call'[y], r)) <=> (y \in Pos /\ Takes(call[y], r)),
           \A e \in Entities :
               hdl'[e].ref - Own(hdl', Implicit, e) = hdl[e].ref - Own(hdl, Implicit, e)
    PROVE  RefsOK'
  <1>1. users' = users
    <2>1. \A r \in Readers : r \in users' <=> r \in users
      BY UsersStep
    <2>2. users \subseteq Readers /\ users' \subseteq Readers
      BY DEF users
    <2> QED
      BY <2>1, <2>2
  <1>2. topicUsers' = topicUsers
    BY <1>1 DEF topicUsers
  <1>3. Implicit' = Implicit
    BY DEF Implicit
  <1> SUFFICES ASSUME NEW e \in Entities
               PROVE  hdl'[e].ref = Own(hdl', Implicit, e) + Cardinality(children[e]) + Cardinality(topicUsers[e])
    BY <1>2, <1>3 DEF RefsOK
  <1>4. hdl[e].ref \in Nat /\ hdl'[e].ref \in Nat
    BY DEF TypeOK, CntFlags
  <1>5. Own(hdl', Implicit, e) \in {0, 1}
    BY DEF Own
  <1>6. hdl[e].ref = Own(hdl, Implicit, e) + Cardinality(children[e]) + Cardinality(topicUsers[e])
    BY DEF RefsOK
  <1> QED
    BY <1>4, <1>5, <1>6, CountsFinite

----------------------------------------------------------------------------
(* Steps that neither create nor end an entity nor a child.                 *)

\* What the calls that a step leaves or adds at the top of the stack owe the
\* invariant.
Fits(t, y, g, h) ==
    /\ FrameOK(g, Implicit) /\ FrameTrue(g, stage, h, children) /\ DepthAt(y, g)
    /\ \A e \in Pinned(g) : (Last(t) \in Pos /\ e \in Pinned(call[Last(t)])) \/ ~hdl[e].closing
    /\ g.pc \in Making =>
          /\ y = Last(t) /\ y \in Pos
          /\ call[y].pc \in Making /\ g.arg = call[y].arg /\ g.pc # "plock"
    /\ g.pc \in Past =>
          /\ y = Last(t)
          /\ \/ Last(t) \in Pos /\ call[y].pc \in Past /\ g.e = call[y].e
             \/ \A w \in Pos : w # Last(t) => g.e \notin Pinned(call[w])
    /\ g.pc \in Deleting =>
          /\ y = Last(t) /\ y \in Pos /\ g.e = call[y].e
          /\ call[y].pc \in Deleting \/ ~hdl[g.e].closing

Control == TypeOK /\ FramesOK /\ Alone /\ Single /\ Sole /\ TreeOK /\ DepthOK

LEMMA ControlStep ==
    ASSUME IInv, TypeOK', NEW t, Others(t), Next1(t) \notin Pos,
           UNCHANGED <<app, stage, children>>,
           \A e \in Entities : hdl[e].closing => hdl'[e].closing,
           \A y \in {Last(t), Next1(t)} : y \in Pos' => Fits(t, y, call'[y], hdl'),
           Last(t) \in Pos' /\ Next1(t) \in Pos' => Pinned(call'[Next1(t)]) = {}
    PROVE  Control'
  <1>1. TypeOK /\ FramesOK /\ Alone /\ Single /\ Sole /\ TreeOK /\ DepthOK
    BY DEF IInv
  <1>2. FramesOK'
    <2>1. Onward(t)
      BY DEF Onward
    <2>2. \A y \in {Last(t), Next1(t)} : y \in Pos' =>
              FrameOK(call'[y], Implicit) /\ FrameTrue(call'[y], stage', hdl', children')
      BY DEF Fits
    <2> QED
      BY <1>1, <2>1, <2>2, FramesStep
  <1>3. Alone'
    <2>1. ASSUME NEW y \in {Last(t), Next1(t)}, y \in Pos', NEW w \in Pos, w # Last(t), call[w].pc \in Past,
                 call[w].e \in Pinned(call'[y])
          PROVE  FALSE
      <3>1. FrameOK(call[w], Implicit) /\ FrameTrue(call[w], stage, hdl, children) /\ call[w] \in Frame
        BY <1>1, CallType DEF FramesOK
      <3>2. hdl[call[w].e].closing
        BY <2>1, <3>1 DEF FrameTrue, Past, Deleting, BeforeLeaving, AfterLeaving
      <3>3. Last(t) \in Pos /\ call[w].e \in Pinned(call[Last(t)])
        BY <2>1, <3>2 DEF Fits
      <3> QED
        BY <1>1, <2>1, <3>3 DEF Alone
    <2>2. ASSUME Last(t) \in Pos', call'[Last(t)].pc \in Past, NEW y \in Pos, y # Last(t)
          PROVE  call'[Last(t)].e \notin Pinned(call[y])
      BY <1>1, <2>2 DEF Fits, Alone
    <2>3. Next1(t) \in Pos' => call'[Next1(t)].pc \notin Past
      BY DEF Fits, Next1, Last
    <2> QED
      BY <1>1, <2>1, <2>2, <2>3, AloneStep
  <1>3a. Single'
    <2>1. Next1(t) \in Pos' => call'[Next1(t)].pc \notin Deleting
      BY DEF Fits, Next1, Last
    <2>2. Last(t) \in Pos' /\ call'[Last(t)].pc \in Deleting =>
             /\ Last(t) \in Pos /\ call'[Last(t)].e = call[Last(t)].e
             /\ call[Last(t)].pc \in Deleting \/ ~hdl[call[Last(t)].e].closing
      BY DEF Fits
    <2> QED
      BY <1>1, <2>1, <2>2, SingleStep
  <1>4. Sole'
    BY <1>1, SoleStep DEF Fits
  <1>5. TreeOK'
    BY <1>1, TreeStep
  <1>6. DepthOK'
    <2>1. \A y \in {Last(t), Next1(t)} : y \in Pos' => DepthAt(y, call'[y])
      BY DEF Fits
    <2> QED
      BY <1>1, <2>1, DepthStep
  <1> QED
    BY <1>2, <1>3, <1>3a, <1>4, <1>5, <1>6 DEF Control

\* A call of dds_delete_impl that is about to be made.
LEMMA CallFits ==
    ASSUME NEW e \in Entities, NEW how \in {"user", "from_parent", "explicit"},
           how = "explicit" => Kind[e] = "topic"
    PROVE  /\ Call(e, how) \in Frame /\ Call(e, how).pc = "pin" /\ Call(e, how).e = e
           /\ Call(e, how).how = how /\ Call(e, how).arg = 0
           /\ Pinned(Call(e, how)) = {}
           /\ \A imp : FrameOK(Call(e, how), imp)
           /\ \A h : FrameTrue(Call(e, how), stage, h, children)
           /\ \A r : ~Drops(Call(e, how), r) /\ ~Takes(Call(e, how), r)
  <1> DEFINE f == Call(e, how)
  <1>1. f.pc = "pin" /\ f.e = e /\ f.how = how /\ f.arg = 0 /\ f.pass = 1 /\ f \in Frame
    BY DEF Call, Frame
  <1> HIDE DEF f
  <1>2. Pinned(f) = {}
    BY <1>1, PinnedIs
  <1>3. \A imp : FrameOK(f, imp)
    BY <1>1 DEF FrameOK, Deleting, BeforeLeaving, AfterLeaving, Creations, Making, OfParticipant
  <1>4. \A h : FrameTrue(f, stage, h, children)
    BY <1>1, <1>2 DEF FrameTrue, Deleting, BeforeLeaving, AfterLeaving, Left, Making
  <1>5. \A r : ~Drops(f, r) /\ ~Takes(f, r)
    BY <1>1 DEF Drops, Takes
  <1> QED
    BY <1>1, <1>2, <1>3, <1>4, <1>5 DEF f

\* A step of one call that touches no handle, perhaps to make another.
LEMMA QuietStep ==
    ASSUME IInv, TypeOK', NEW t, Others(t), Next1(t) \notin Pos,
           UNCHANGED <<app, stage, hdl, children>>,
           Last(t) \in Pos, Last(t) \in Pos',
           NEW f, f = call[Last(t)], NEW g, g = call'[Last(t)],
           Fits(t, Last(t), g, hdl), Pinned(g) = Pinned(f),
           \A r \in Readers : (Drops(g, r) <=> Drops(f, r)) /\ (Takes(g, r) <=> Takes(f, r)),
           Next1(t) \in Pos' => \E e \in Entities, how \in {"from_parent", "explicit"} :
               /\ call'[Next1(t)] = Call(e, how) /\ (how = "explicit" => Kind[e] = "topic")
               /\ DepthAt(Next1(t), Call(e, how))
    PROVE  IInv'
  <1>1. Next1(t) \in Pos' =>
           /\ Fits(t, Next1(t), call'[Next1(t)], hdl) /\ Pinned(call'[Next1(t)]) = {}
           /\ \A r : ~Drops(call'[Next1(t)], r) /\ ~Takes(call'[Next1(t)], r)
    <2> SUFFICES ASSUME Next1(t) \in Pos'
                 PROVE  /\ Fits(t, Next1(t), call'[Next1(t)], hdl) /\ Pinned(call'[Next1(t)]) = {}
                        /\ \A r : ~Drops(call'[Next1(t)], r) /\ ~Takes(call'[Next1(t)], r)
      OBVIOUS
    <2>1. PICK e \in Entities, how \in {"from_parent", "explicit"} :
             /\ call'[Next1(t)] = Call(e, how) /\ (how = "explicit" => Kind[e] = "topic")
             /\ DepthAt(Next1(t), Call(e, how))
      OBVIOUS
    <2>2. PICK a : a = call'[Next1(t)]
      OBVIOUS
    <2>3. a.pc = "pin" /\ Pinned(a) = {} /\ FrameOK(a, Implicit) /\ FrameTrue(a, stage, hdl, children)
          /\ DepthAt(Next1(t), a) /\ \A r : ~Drops(a, r) /\ ~Takes(a, r)
      BY <2>1, <2>2, CallFits
    <2>4. Fits(t, Next1(t), a, hdl)
      BY <2>3 DEF Fits, Making, Past, Deleting, BeforeLeaving, AfterLeaving
    <2> QED
      BY <2>2, <2>3, <2>4
  <1>2. Control'
    <2>1. \A y \in {Last(t), Next1(t)} : y \in Pos' => Fits(t, y, call'[y], hdl')
      BY <1>1
    <2>2. Last(t) \in Pos' /\ Next1(t) \in Pos' => Pinned(call'[Next1(t)]) = {}
      BY <1>1
    <2> QED
      BY <2>1, <2>2, ControlStep
  <1>3. RefsOK'
    <2>1. \A r \in Readers :
             /\ stage'[r] \in {"live", "unlinked"} <=> stage[r] \in {"live", "unlinked"}
             /\ \A y \in {Last(t), Next1(t)} :
                   /\ (y \in Pos' /\ Drops(call'[y], r)) <=> (y \in Pos /\ Drops(call[y], r))
                   /\ (y \in Pos' /\ Takes(call'[y], r)) <=> (y \in Pos /\ Takes(call[y], r))
      BY <1>1
    <2> QED
      BY <2>1, RefsKept DEF IInv
  <1>4. PinsOK'
    <2>1. \A e \in Entities : \A y \in {Last(t), Next1(t)} : y \in pinners'[e] <=> y \in pinners[e]
      BY <1>1 DEF pinners
    <2> QED
      BY <2>1, PinsStep DEF IInv
  <1> QED
    BY <1>2, <1>3, <1>4 DEF IInv, Control

\* The call on top of a thread's stack.
LEMMA TopFrame ==
    ASSUME IInv, NEW t \in Threads, ~Idle(t)
    PROVE  /\ Last(t) \in Pos /\ Next1(t) \notin Pos /\ call[Last(t)] = Top(t)
           /\ Top(t) \in Frame /\ Top(t).e \in Entities
           /\ FrameOK(Top(t), Implicit) /\ FrameTrue(Top(t), stage, hdl, children)
           /\ DepthAt(Last(t), Top(t))
           /\ Pinned(Top(t)) \subseteq Entities
  <1>1. TypeOK /\ FramesOK /\ DepthOK
    BY DEF IInv
  <1>2. Last(t) \in Pos /\ Next1(t) \notin Pos /\ call[Last(t)] = Top(t) /\ Top(t) \in Frame
    BY <1>1, TopIsLast
  <1>3. FrameOK(Top(t), Implicit) /\ FrameTrue(Top(t), stage, hdl, children)
    BY <1>1, <1>2 DEF FramesOK
  <1>4. DepthAt(Last(t), Top(t))
    BY <1>1, <1>2 DEF DepthOK, DepthAt
  <1>5. Top(t).e \in Entities
    BY <1>2 DEF Frame
  <1> QED
    BY <1>1, <1>2, <1>3, <1>4, <1>5, PinnedType, ImplicitType

\* What an action leaves alone but for the stack and a mutex.
Typed ==
    /\ mutex' \in [Entities -> Threads \cup {0}]
    /\ ret' \in [Threads -> {"ok", "bad_parameter", "already_deleted"}]
    /\ uses' \in 0..MaxUses

\* A call goes on from one point to another.
LEMMA GotoStep ==
    ASSUME IInv, NEW t \in Threads, ~Idle(t), Typed, UNCHANGED <<app, stage, hdl, children>>,
           NEW g \in Frame, stack' = With(t, g),
           g.e = Top(t).e, g.how = Top(t).how,
           FrameOK(g, Implicit), FrameTrue(g, stage, hdl, children),
           Pinned(g) = Pinned(Top(t)),
           g.pc \in Making => Top(t).pc \in Making /\ g.arg = Top(t).arg /\ g.pc # "plock",
           g.pc \in Past => \/ Top(t).pc \in Past
                            \/ \A w \in Pos : w # Last(t) => g.e \notin Pinned(call[w]),
           g.pc \in AfterLeaving => g.arg = 0 \/ (Top(t).pc \in AfterLeaving /\ g.arg = Top(t).arg),
           g.pc \in Deleting => Top(t).pc \in Deleting,
           \A r \in Readers : (Drops(g, r) <=> Drops(Top(t), r)) /\ (Takes(g, r) <=> Takes(Top(t), r))
    PROVE  IInv'
  <1> DEFINE f == Top(t)
  <1>1. TypeOK
    BY DEF IInv
  <1>2. Moves(t, g) /\ stack' \in [Threads -> Seq(Frame)]
    BY <1>1, WithMoves
  <1>3. TypeOK'
    BY <1>1, <1>2 DEF TypeOK, Typed
  <1>4. f = call[Last(t)] /\ Last(t) \in Pos /\ Next1(t) \notin Pos /\ DepthAt(Last(t), f)
    BY TopFrame
  <1>5. DepthAt(Last(t), g)
    BY <1>4 DEF DepthAt
  <1>6. Fits(t, Last(t), g, hdl)
    BY <1>4, <1>5 DEF Fits
  <1> QED
    BY <1>2, <1>3, <1>4, <1>6, QuietStep DEF Moves

LEMMA GotoFrame ==
    ASSUME NEW f \in Frame, NEW pc \in Deleting \cup InCall \cup {"pin", "pinsub"}
    PROVE  LET g == [f EXCEPT !.pc = pc]
           IN  g \in Frame /\ g.pc = pc /\ g.e = f.e /\ g.how = f.how /\ g.arg = f.arg /\ g.pass = f.pass
  BY FrameGoto DEF Frame

\* Where a call may go on without touching a handle.
QuietMoves == {
    <<"lock", "wait">>, <<"wait", "close">>, <<"close", "children">>,
    <<"children", "children">>, <<"children", "recheck">>, <<"children", "handle">>,
    <<"recheck", "sleep">>, <<"recheck", "children">>,
    <<"parent", "deriver">>, <<"deriver", "free">>, <<"dropped", "free">>,
    <<"uselock", "using">>, <<"using", "unpin">>,
    <<"plock", "punpin">>, <<"clock", "ctopic">>, <<"ctopic", "cfailed">>,
    <<"cdefer", "cref">>, <<"cref", "crejected">>,
    <<"cunlock", "unpin">>, <<"cfailed", "unpin">>, <<"cfailed", "cundo">>}

LEMMA QuietFrame ==
    ASSUME NEW f \in Frame, NEW g \in Frame, g.e = f.e, g.how = f.how,
           g.arg = f.arg \/ g.pc \in {"children", "recheck"},
           <<f.pc, g.pc>> \in QuietMoves,
           g.pc = "deriver" => Parent[f.e] = 0,
           f.pc = "deriver" => f.e \notin Readers,
           FrameOK(f, Implicit), FrameTrue(f, stage, hdl, children)
    PROVE  /\ FrameOK(g, Implicit) /\ FrameTrue(g, stage, hdl, children) /\ Pinned(g) = Pinned(f)
           /\ g.pc \in Making => f.pc \in Making /\ g.arg = f.arg /\ g.pc # "plock"
           /\ g.pc \in Past => f.pc \in Past \/ g.pc = "close"
           /\ g.pc \in AfterLeaving => g.arg = 0 \/ (f.pc \in AfterLeaving /\ g.arg = f.arg)
           /\ g.pc \in Deleting => f.pc \in Deleting
           /\ \A r \in Readers : (Drops(g, r) <=> Drops(f, r)) /\ (Takes(g, r) <=> Takes(f, r))
  <1>0. f.e # 0 /\ f.e \in Entities
    BY LifecycleAssumption DEF Frame
  <1>1. FrameOK(g, Implicit)
    BY DEF QuietMoves, FrameOK, Deleting, BeforeLeaving, AfterLeaving, Creations, Making, OfParticipant
  <1>2. Pinned(g) = Pinned(f)
    <2>1. CASE f.pc \in {"parent", "deriver", "dropped"}
      <3>1. g.pc \in AfterLeaving /\ g.arg = f.arg
        BY <2>1 DEF QuietMoves, AfterLeaving
      <3>2. Pinned(g) = {g.e, g.arg} \ {0}
        BY <3>1, PinnedIs
      <3>3. f.pc = "parent" => f.arg = 0 /\ Pinned(f) = {f.e}
        BY PinnedIs DEF FrameOK, Deleting, BeforeLeaving, AfterLeaving
      <3>4. f.pc # "parent" => Pinned(f) = {f.e, f.arg} \ {0}
        BY <2>1, PinnedIs DEF AfterLeaving
      <3> QED
        BY <1>0, <3>1, <3>2, <3>3, <3>4
    <2>2. CASE f.pc \in {"cdefer", "cref"}
      BY <2>2, PinnedIs DEF QuietMoves, WithTopic
    <2>3. CASE f.pc \notin {"parent", "deriver", "dropped", "cdefer", "cref"}
      <3>1. /\ f.pc \in (Deleting \ (AfterLeaving \cup {"closeparent"})) \cup (InCall \ WithTopic)
            /\ g.pc \in (Deleting \ (AfterLeaving \cup {"closeparent"})) \cup (InCall \ WithTopic)
        BY <2>3 DEF QuietMoves, Deleting, BeforeLeaving, AfterLeaving, InCall, WithTopic
      <3> QED
        BY <3>1, PinnedIs
    <2> QED
      BY <2>1, <2>2, <2>3
  <1>3. FrameTrue(g, stage, hdl, children)
    <2>1. \A e \in Pinned(g) : stage[e] \in {"live", "unlinked"}
      BY <1>2 DEF FrameTrue
    <2>2. g.pc \in Deleting => f.pc \in Deleting
      BY DEF QuietMoves, Deleting, BeforeLeaving, AfterLeaving
    <2>3. g.pc \in Deleting => hdl[g.e].closing
      BY <2>2 DEF FrameTrue
    <2>4. g.pc \in AfterLeaving /\ g.arg # 0 => f.pc \in AfterLeaving /\ g.arg = f.arg
      BY DEF QuietMoves, AfterLeaving, FrameOK
    <2>5. g.pc \in AfterLeaving /\ g.arg # 0 => hdl[g.arg].closing /\ stage[g.arg] = "live"
      BY <2>4 DEF FrameTrue
    <2>6. /\ g.pc \in Deleting \ (Left \cup {"parent"}) => f.pc \in Deleting \ (Left \cup {"parent"})
          /\ g.pc \in Left \cup {"parent"} => f.pc \in Left \cup {"parent"}
          /\ g.pc # "parent" /\ g.pc # "plock" /\ g.pc # "closeparent"
      BY DEF QuietMoves, Deleting, BeforeLeaving, AfterLeaving, Left
    <2>7. g.pc \in Making => f.pc \in Making /\ g.arg = f.arg
      BY DEF QuietMoves, Making
    <2> QED
      BY <2>1, <2>3, <2>5, <2>6, <2>7, Zenon DEF FrameTrue
  <1>4. g.pc \in Making => f.pc \in Making /\ g.arg = f.arg /\ g.pc # "plock"
    BY DEF QuietMoves, Making
  <1>5. g.pc \in Past => f.pc \in Past \/ g.pc = "close"
    BY DEF QuietMoves, Past
  <1>6. g.pc \in AfterLeaving => g.arg = 0 \/ (f.pc \in AfterLeaving /\ g.arg = f.arg)
    BY DEF QuietMoves, AfterLeaving, FrameOK
  <1>7. \A r \in Readers : (Drops(g, r) <=> Drops(f, r)) /\ (Takes(g, r) <=> Takes(f, r))
    BY DEF QuietMoves, Drops, Takes
  <1>8. g.pc \in Deleting => f.pc \in Deleting
    BY DEF QuietMoves, Deleting, BeforeLeaving, AfterLeaving
  <1> QED
    BY <1>1, <1>2, <1>3, <1>4, <1>5, <1>6, <1>7, <1>8

LEMMA QuietGoto ==
    ASSUME IInv, NEW t \in Threads, ~Idle(t), Typed, UNCHANGED <<app, stage, hdl, children>>,
           NEW g \in Frame, stack' = With(t, g), g.e = Top(t).e, g.how = Top(t).how,
           g.arg = Top(t).arg \/ g.pc = "children", g.pc # "recheck" \/ g.arg = Top(t).arg,
           <<Top(t).pc, g.pc>> \in QuietMoves,
           g.pc = "deriver" => Parent[Top(t).e] = 0,
           Top(t).pc = "deriver" => Top(t).e \notin Readers,
           g.pc = "close" => \A w \in Pos : w # Last(t) => g.e \notin Pinned(call[w])
    PROVE  IInv'
  <1>1. Top(t) \in Frame /\ FrameOK(Top(t), Implicit) /\ FrameTrue(Top(t), stage, hdl, children)
    BY TopFrame
  <1>2. /\ FrameOK(g, Implicit) /\ FrameTrue(g, stage, hdl, children) /\ Pinned(g) = Pinned(Top(t))
        /\ g.pc \in Making => Top(t).pc \in Making /\ g.arg = Top(t).arg /\ g.pc # "plock"
        /\ g.pc \in Past => Top(t).pc \in Past \/ g.pc = "close"
        /\ g.pc \in AfterLeaving => g.arg = 0 \/ (Top(t).pc \in AfterLeaving /\ g.arg = Top(t).arg)
        /\ g.pc \in Deleting => Top(t).pc \in Deleting
        /\ \A r \in Readers : (Drops(g, r) <=> Drops(Top(t), r)) /\ (Takes(g, r) <=> Takes(Top(t), r))
    BY <1>1, QuietFrame
  <1> QED
    BY <1>1, <1>2, GotoStep

LEMMA JustGoto ==
    ASSUME IInv, NEW t \in Threads, ~Idle(t), Typed, UNCHANGED <<app, stage, hdl, children>>,
           NEW pc, Goto(t, pc), <<Top(t).pc, pc>> \in QuietMoves,
           pc = "deriver" => Parent[Top(t).e] = 0,
           Top(t).pc = "deriver" => Top(t).e \notin Readers,
           pc = "close" => \A w \in Pos : w # Last(t) => Top(t).e \notin Pinned(call[w])
    PROVE  IInv'
  <1> DEFINE f == Top(t)  g == [f EXCEPT !.pc = pc]
  <1>1. pc \in Deleting \cup InCall
    BY DEF QuietMoves, Deleting, BeforeLeaving, AfterLeaving, InCall
  <1>2. f \in Frame
    BY TopFrame
  <1>3. g \in Frame /\ g.pc = pc /\ g.e = f.e /\ g.how = f.how /\ g.arg = f.arg
    BY <1>1, <1>2, GotoFrame
  <1>4. stack' = With(t, g)
    BY DEF Goto, GotoPc
  <1> HIDE DEF g
  <1> QED
    BY <1>3, <1>4, QuietGoto

LEMMA NothingTyped == ASSUME IInv, UNCHANGED <<mutex, ret, uses>> PROVE Typed
  BY DEF IInv, TypeOK, Typed

LEMMA MutexTyped ==
    ASSUME IInv, NEW e, NEW u \in Threads \cup {0}, mutex' = [mutex EXCEPT ![e] = u],
           UNCHANGED <<ret, uses>>
    PROVE  Typed
  BY DEF IInv, TypeOK, Typed

LEMMA InterruptI ==
    ASSUME IInv, NEW t \in Threads, Interrupt(t), UNCHANGED app
    PROVE  IInv'
  <1>1. ~Idle(t) /\ Top(t).pc = "lock" /\ <<Top(t).pc, "wait">> \in QuietMoves
    BY DEF Interrupt, At, QuietMoves
  <1> QED
    BY <1>1, JustGoto, NothingTyped DEF Interrupt

\* dds_handle_close_wait: the only pin is this thread's.
LEMMA CloseWaitI ==
    ASSUME IInv, NEW t \in Threads, CloseWait(t), UNCHANGED app
    PROVE  IInv'
  <1> DEFINE e == Top(t).e
  <1>1. ~Idle(t) /\ Top(t).pc = "wait" /\ <<Top(t).pc, "close">> \in QuietMoves /\ hdl[e].pin = 1
    BY DEF CloseWait, At, QuietMoves, OnlyPin
  <1>2. Last(t) \in Pos /\ call[Last(t)] = Top(t) /\ Top(t) \in Frame /\ FrameOK(Top(t), Implicit)
        /\ FrameTrue(Top(t), stage, hdl, children)
    BY <1>1, TopFrame
  <1>3. TypeOK /\ DepthOK /\ PinsOK /\ e \in Entities
    BY <1>2 DEF IInv, Frame
  <1>4. e \in Pinned(Top(t))
    BY <1>1, <1>2, <1>3, PinnedType, ImplicitType DEF Deleting, BeforeLeaving
  <1>5. stage[e] # "freed"
    BY <1>2, <1>4 DEF FrameTrue
  <1>6. Cardinality(pinners[e]) = 1 /\ IsFiniteSet(pinners[e])
    BY <1>1, <1>3, <1>5, PinnersFinite DEF PinsOK
  <1>7. PICK y : pinners[e] = {y}
    BY <1>6, FS_Singleton
  <1>8. Last(t) \in pinners[e]
    BY <1>2, <1>3, <1>4 DEF pinners
  <1>9. \A w \in Pos : w # Last(t) => e \notin Pinned(call[w])
    BY <1>3, <1>7, <1>8 DEF pinners
  <1> QED
    BY <1>1, <1>9, JustGoto, NothingTyped DEF CloseWait

LEMMA DeriverCloseI ==
    ASSUME IInv, NEW t \in Threads, DeriverClose(t), UNCHANGED app
    PROVE  IInv'
  <1> DEFINE f == Top(t)  g == [f EXCEPT !.pc = "children", !.arg = 0, !.pass = 1]
  <1>1. ~Idle(t) /\ f.pc = "close" /\ stack' = With(t, g)
    BY DEF DeriverClose, At
  <1>2. f \in Frame
    BY <1>1, TopFrame
  <1>3. "children" \in Deleting /\ 0 \in Nat /\ 1 \in 1..2
    BY DEF Deleting, BeforeLeaving
  <1> HIDE DEF f
  <1>4. g \in Frame
    BY <1>2, <1>3, Zenon DEF Frame
  <1>5. g.pc = "children" /\ g.e = f.e /\ g.how = f.how
    BY <1>2 DEF Frame
  <1>6. <<f.pc, g.pc>> \in QuietMoves
    BY <1>1, <1>5 DEF QuietMoves
  <1>7. Typed
    BY NothingTyped DEF DeriverClose
  <1> HIDE DEF g
  <1> QED
    BY <1>1, <1>4, <1>5, <1>6, <1>7, QuietGoto DEF DeriverClose, f

LEMMA RecheckI ==
    ASSUME IInv, NEW t \in Threads, Recheck(t), UNCHANGED app
    PROVE  IInv'
  <1>1. PICK pc \in {"sleep", "children"} : Goto(t, pc)
    BY DEF Recheck
  <1>2. ~Idle(t) /\ Top(t).pc = "recheck" /\ <<Top(t).pc, pc>> \in QuietMoves
    BY DEF Recheck, At, QuietMoves
  <1> QED
    BY <1>1, <1>2, JustGoto, NothingTyped DEF Recheck

LEMMA NoParentI ==
    ASSUME IInv, NEW t \in Threads, NoParent(t), UNCHANGED app
    PROVE  IInv'
  <1>1. ~Idle(t) /\ Top(t).pc = "parent" /\ <<Top(t).pc, "deriver">> \in QuietMoves
    BY DEF NoParent, At, QuietMoves
  <1> QED
    BY <1>1, JustGoto, NothingTyped DEF NoParent

LEMMA OtherDeleteI ==
    ASSUME IInv, NEW t \in Threads, OtherDelete(t), UNCHANGED app
    PROVE  IInv'
  <1>1. ~Idle(t) /\ Top(t).pc = "deriver" /\ <<Top(t).pc, "free">> \in QuietMoves
    BY DEF OtherDelete, At, QuietMoves
  <1> QED
    BY <1>1, JustGoto, NothingTyped DEF OtherDelete

LEMMA DroppedI ==
    ASSUME IInv, NEW t \in Threads, Dropped(t), UNCHANGED app
    PROVE  IInv'
  <1>1. ~Idle(t) /\ Top(t).pc = "dropped" /\ <<Top(t).pc, "free">> \in QuietMoves
    BY DEF Dropped, At, QuietMoves
  <1> QED
    BY <1>1, JustGoto, NothingTyped DEF Dropped

LEMMA UseLockI ==
    ASSUME IInv, NEW t \in Threads, UseLock(t), UNCHANGED app
    PROVE  IInv'
  <1>1. ~Idle(t) /\ Top(t).pc = "uselock" /\ <<Top(t).pc, "using">> \in QuietMoves
    BY DEF UseLock, At, QuietMoves
  <1>2. Typed
    BY MutexTyped DEF UseLock
  <1> QED
    BY <1>1, <1>2, JustGoto DEF UseLock

LEMMA UseUnlockI ==
    ASSUME IInv, NEW t \in Threads, UseUnlock(t), UNCHANGED app
    PROVE  IInv'
  <1>1. ~Idle(t) /\ Top(t).pc = "using" /\ <<Top(t).pc, "unpin">> \in QuietMoves
    BY DEF UseUnlock, At, QuietMoves
  <1>2. Typed
    BY MutexTyped DEF UseUnlock
  <1> QED
    BY <1>1, <1>2, JustGoto DEF UseUnlock

LEMMA LockSubscriberI ==
    ASSUME IInv, NEW t \in Threads, LockSubscriber(t), UNCHANGED app
    PROVE  IInv'
  <1>1. ~Idle(t) /\ Top(t).pc = "clock" /\ <<Top(t).pc, "ctopic">> \in QuietMoves
    BY DEF LockSubscriber, At, QuietMoves
  <1>2. Typed
    BY MutexTyped DEF LockSubscriber
  <1> QED
    BY <1>1, <1>2, JustGoto DEF LockSubscriber

LEMMA UnlockSubscriberI ==
    ASSUME IInv, NEW t \in Threads, UnlockSubscriber(t), UNCHANGED app
    PROVE  IInv'
  <1>1. PICK pc \in {"cundo", "unpin"} : Goto(t, pc) /\ (pc = "cundo" => Top(t).pc = "cfailed")
    BY DEF UnlockSubscriber
  <1>2. ~Idle(t) /\ <<Top(t).pc, pc>> \in QuietMoves /\ Top(t).pc \in {"cunlock", "cfailed"}
    BY <1>1 DEF UnlockSubscriber, At, QuietMoves
  <1>3. Typed
    BY MutexTyped DEF UnlockSubscriber
  <1> QED
    BY <1>1, <1>2, <1>3, JustGoto DEF UnlockSubscriber

LEMMA DeferSetQosI ==
    ASSUME IInv, NEW t \in Threads, DeferSetQos(t), UNCHANGED app
    PROVE  IInv'
  <1>1. ~Idle(t) /\ Top(t).pc = "cdefer" /\ <<Top(t).pc, "cref">> \in QuietMoves
    BY DEF DeferSetQos, At, QuietMoves
  <1> QED
    BY <1>1, JustGoto, NothingTyped DEF DeferSetQos

\* get_next_child skips no child.
LEMMA LeastChild ==
    ASSUME NEW S, S \subseteq Entities, S # {}
    PROVE  Min(S) \in S /\ \A c \in S : Min(S) <= c
  <1>1. S \subseteq Nat
    BY LifecycleAssumption
  <1>2. PICK x \in S : \A y \in S : ~(<<y, x>> \in OpToRel(<, Nat))
    BY <1>1, NatLessThanWellFounded, WFMin, Zenon
  <1>3. \A y \in S : ~(y < x)
    BY <1>1, <1>2 DEF OpToRel
  <1>4. \A y \in S : x <= y
    BY <1>1, <1>3
  <1> QED
    BY <1>4, Zenon DEF Min

\* delete_children calls dds_delete_impl for a child, which is further down.
LEMMA NextChildCalls ==
    ASSUME IInv, NEW t \in Threads, At(t, "children"), Typed, UNCHANGED <<app, stage, hdl, children>>,
           NEW c \in children[Top(t).e],
           stack' = [stack EXCEPT ![t] =
               <<Call(c, "from_parent"), [Top(t) EXCEPT !.pc = "recheck", !.arg = c]>> \o Tail(@)]
    PROVE  IInv'
  <1> DEFINE f == Top(t)  g == [f EXCEPT !.pc = "recheck", !.arg = c]  a == Call(c, "from_parent")
  <1>1. ~Idle(t) /\ f.pc = "children"
    BY DEF At
  <1>2. f \in Frame /\ f.e \in Entities /\ FrameOK(f, Implicit) /\ FrameTrue(f, stage, hdl, children)
        /\ DepthAt(Last(t), f) /\ Last(t) \in Pos /\ Next1(t) \notin Pos /\ call[Last(t)] = f
    BY <1>1, TopFrame
  <1>3. c \in Entities /\ Parent[c] = f.e
    BY <1>2 DEF IInv, TypeOK, TreeOK
  <1>4. c \in Nat
    BY <1>3, LifecycleAssumption
  <1>5. a \in Frame /\ a.how = "from_parent" /\ a.pc = "pin" /\ a.e = c
    BY <1>3, CallFits
  <1>6. "recheck" \in Deleting
    BY DEF Deleting, BeforeLeaving
  <1>7. Calls(t, a, g)
    BY DEF Calls
  <1> HIDE DEF f, a
  <1>8. g \in Frame
    BY <1>2, <1>4, <1>6, Zenon DEF Frame
  <1>9. g.pc = "recheck" /\ g.e = f.e /\ g.how = f.how
    BY <1>2 DEF Frame
  <1> HIDE DEF g
  <1>10. TypeOK
    BY DEF IInv
  <1>11. Pushes(t, a, g) /\ stack' \in [Threads -> Seq(Frame)]
    BY <1>1, <1>5, <1>7, <1>8, <1>10, CallPushes
  <1>12. TypeOK'
    BY <1>10, <1>11 DEF TypeOK, Typed
  <1>13. /\ FrameOK(g, Implicit) /\ FrameTrue(g, stage, hdl, children) /\ Pinned(g) = Pinned(f)
         /\ \A r \in Readers : (Drops(g, r) <=> Drops(f, r)) /\ (Takes(g, r) <=> Takes(f, r))
    <2>1. <<f.pc, g.pc>> \in QuietMoves
      BY <1>1, <1>9 DEF QuietMoves
    <2> QED
      BY <1>1, <1>2, <1>8, <1>9, <2>1, QuietFrame
  <1>14. DepthAt(Last(t), g)
    BY <1>2, <1>9 DEF DepthAt, AfterLeaving
  <1>15. Fits(t, Last(t), g, hdl)
    BY <1>1, <1>2, <1>9, <1>13, <1>14 DEF Fits, Making, Past, Deleting, BeforeLeaving, AfterLeaving
  <1>16. DepthAt(Next1(t), a)
    <2>1. Rank[Kind[c]] >= Rank[Kind[f.e]] + 1
      BY <1>2, <1>3, Tree DEF Rank
    <2>2. Len(stack[t]) \in Nat
      BY <1>10 DEF TypeOK
    <2>3. Rank[Kind[c]] \in Nat /\ Rank[Kind[f.e]] \in Nat
      BY <1>2, <1>3, Tree DEF Rank
    <2> QED
      BY <1>2, <1>5, <2>1, <2>2, <2>3 DEF DepthAt, Last, Next1, AfterLeaving
  <1>17. \E e \in Entities, how \in {"from_parent", "explicit"} :
           /\ call'[Next1(t)] = Call(e, how) /\ (how = "explicit" => Kind[e] = "topic")
           /\ DepthAt(Next1(t), Call(e, how))
    BY <1>3, <1>11, <1>16 DEF Pushes, a
  <1> QED
    BY <1>2, <1>11, <1>12, <1>13, <1>15, <1>17, QuietStep DEF Pushes

LEMMA NextChildI ==
    ASSUME IInv, NEW t \in Threads, NextChild(t), UNCHANGED app
    PROVE  IInv'
  <1> DEFINE f == Top(t)
             rest == {c \in children[f.e] : c > f.arg /\ Allowed(f, c)}
             g == [f EXCEPT !.pass = 2, !.arg = 0]
  <1>1. ~Idle(t) /\ f.pc = "children" /\ Typed
    BY NothingTyped DEF NextChild, At
  <1>2. f \in Frame /\ f.e \in Entities
    BY <1>1, TopFrame
  <1>3. CASE /\ rest # {}
             /\ stack' = [stack EXCEPT ![t] =
                   <<Call(Min(rest), "from_parent"), [f EXCEPT !.pc = "recheck", !.arg = Min(rest)]>> \o Tail(@)]
    <2>1. rest \subseteq Entities
      BY <1>2 DEF IInv, TypeOK
    <2>2. Min(rest) \in rest
      BY <1>3, <2>1, LeastChild
    <2>3. Min(rest) \in children[f.e]
      BY <2>2
    <2> HIDE DEF rest
    <2> QED
      BY <1>1, <1>3, <2>3, NextChildCalls DEF NextChild
  <1>4. CASE stack' = With(t, g)
    <2>1. f.pc = "children" /\ 0 \in Nat /\ 2 \in 1..2
      BY <1>1
    <2> HIDE DEF f
    <2>2. g \in Frame
      BY <1>2, <2>1, Zenon DEF Frame
    <2>3. g.pc = "children" /\ g.e = f.e /\ g.how = f.how
      BY <1>2, <2>1 DEF Frame
    <2>4. <<f.pc, g.pc>> \in QuietMoves
      BY <2>1, <2>3 DEF QuietMoves
    <2> HIDE DEF g
    <2> QED
      BY <1>1, <1>4, <2>1, <2>2, <2>3, <2>4, QuietGoto DEF NextChild, f
  <1>5. CASE Goto(t, "handle")
    <2>1. <<f.pc, "handle">> \in QuietMoves
      BY <1>1 DEF QuietMoves
    <2> QED
      BY <1>1, <1>5, <2>1, JustGoto DEF NextChild
  <1> QED
    BY <1>3, <1>4, <1>5 DEF NextChild

----------------------------------------------------------------------------
(* Steps that change handles.                                               *)

\* What a call has pinned before a step and after it, and the pin counts.
Balance(before, after) ==
    \A e \in Entities : stage'[e] # "freed" =>
        /\ stage[e] # "freed"
        /\ \/ hdl'[e].pin = hdl[e].pin /\ (e \in after <=> e \in before)
           \/ hdl'[e].pin = hdl[e].pin + 1 /\ e \in after /\ e \notin before
           \/ hdl'[e].pin = hdl[e].pin - 1 /\ e \notin after /\ e \in before

Changes(t, before, after) ==
    \/ \E g : Moves(t, g) /\ before = Pinned(call[Last(t)]) /\ after = Pinned(g)
    \/ \E a, b : /\ Pushes(t, a, b) /\ Pinned(a) = {}
                 /\ before = Pinned(call[Last(t)]) /\ after = Pinned(b)
    \/ Pops(t) /\ before = Pinned(call[Last(t)]) /\ after = {}
    \/ \E f : Begins(t, f) /\ before = {} /\ after = Pinned(f)

LEMMA PinsBalance ==
    ASSUME TypeOK, DepthOK, PinsOK, NEW t, NEW before, NEW after,
           Changes(t, before, after), Balance(before, after)
    PROVE  PinsOK'
  <1> DEFINE l == Last(t)  n == Next1(t)
  <1>0. l # n
    <2>1. Len(stack[t]) # Len(stack[t]) + 1 \/ Len(stack[t]) = Len(stack[t]) + 1
      OBVIOUS
    <2> QED
      BY DEF Changes, Moves, Pushes, Pops, Begins
  <1>1. Others(t)
    BY DEF Changes, Moves, Pushes, Pops, Begins
  <1>2. ASSUME NEW e \in Entities
        PROVE  \E y \in {l, n} :
                  /\ y \in pinners[e] <=> e \in before
                  /\ y \in pinners'[e] <=> e \in after
                  /\ \A w \in {l, n} : w # y => w \notin pinners'[e] /\ w \notin pinners[e]
    <2>1. ASSUME NEW g, Moves(t, g), before = Pinned(call[l]), after = Pinned(g)
          PROVE  /\ l \in pinners[e] <=> e \in before
                 /\ l \in pinners'[e] <=> e \in after
                 /\ n \notin pinners'[e] /\ n \notin pinners[e]
      BY <2>1 DEF Moves, pinners
    <2>2. ASSUME NEW a, NEW b, Pushes(t, a, b), Pinned(a) = {}, before = Pinned(call[l]), after = Pinned(b)
          PROVE  /\ l \in pinners[e] <=> e \in before
                 /\ l \in pinners'[e] <=> e \in after
                 /\ n \notin pinners'[e] /\ n \notin pinners[e]
      BY <2>2 DEF Pushes, pinners
    <2>3. ASSUME Pops(t), before = Pinned(call[l]), after = {}
          PROVE  /\ l \in pinners[e] <=> e \in before
                 /\ l \in pinners'[e] <=> e \in after
                 /\ n \notin pinners'[e] /\ n \notin pinners[e]
      BY <2>3 DEF Pops, pinners
    <2>4. ASSUME NEW f, Begins(t, f), before = {}, after = Pinned(f)
          PROVE  /\ n \in pinners[e] <=> e \in before
                 /\ n \in pinners'[e] <=> e \in after
                 /\ l \notin pinners'[e] /\ l \notin pinners[e]
      BY <2>4 DEF Begins, pinners
    <2> QED
      BY <2>1, <2>2, <2>3, <2>4 DEF Changes
  <1>3. \A e \in Entities : stage'[e] # "freed" =>
               /\ stage[e] # "freed"
               /\ \/ /\ hdl'[e].pin = hdl[e].pin
                     /\ \A y \in {l, n} : y \in pinners'[e] <=> y \in pinners[e]
                  \/ /\ hdl'[e].pin = hdl[e].pin + 1
                     /\ \E y \in {l, n} :
                           /\ y \notin pinners[e] /\ y \in pinners'[e]
                           /\ \A w \in {l, n} : w # y => (w \in pinners'[e] <=> w \in pinners[e])
                  \/ /\ hdl'[e].pin = hdl[e].pin - 1
                     /\ \E y \in {l, n} :
                           /\ y \in pinners[e] /\ y \notin pinners'[e]
                           /\ \A w \in {l, n} : w # y => (w \in pinners'[e] <=> w \in pinners[e])
    BY <1>2 DEF Balance
  <1> HIDE DEF l, n
  <1> QED
    BY <1>1, <1>3, PinsStep DEF l, n

\* Whoever has an entity pinned shows in its pin count.
LEMMA PinsPositive ==
    ASSUME IInv, NEW x \in Pos, NEW e \in Pinned(call[x])
    PROVE  e \in Entities /\ stage[e] \in {"live", "unlinked"} /\ hdl[e].pin \in Nat \ {0}
  <1>1. TypeOK /\ DepthOK /\ PinsOK /\ FrameOK(call[x], Implicit) /\ FrameTrue(call[x], stage, hdl, children)
    BY DEF IInv, FramesOK
  <1>2. e \in Entities
    BY <1>1, CallType, PinnedType, ImplicitType
  <1>3. stage[e] \in {"live", "unlinked"}
    BY <1>1 DEF FrameTrue
  <1>4. hdl[e].pin = Cardinality(pinners[e])
    BY <1>1, <1>2, <1>3 DEF PinsOK
  <1>5. x \in pinners[e]
    BY <1>2 DEF pinners
  <1>6. IsFiniteSet(pinners[e]) /\ Cardinality(pinners[e]) \in Nat
    BY <1>1, <1>2, PinnersFinite
  <1>7. Cardinality(pinners[e]) # 0
    BY <1>5, <1>6, FS_EmptySet
  <1> QED
    BY <1>2, <1>3, <1>4, <1>6, <1>7

LEMMA RefsPositive ==
    ASSUME IInv, NEW e \in Entities,
           \/ Own(hdl, Implicit, e) = 1
           \/ children[e] # {}
           \/ topicUsers[e] # {}
    PROVE  hdl[e].ref \in Nat \ {0}
  <1>1. TypeOK /\ hdl[e].ref = Own(hdl, Implicit, e) + Cardinality(children[e]) + Cardinality(topicUsers[e])
    BY DEF IInv, RefsOK
  <1>2. /\ IsFiniteSet(children[e]) /\ Cardinality(children[e]) \in Nat
        /\ IsFiniteSet(topicUsers[e]) /\ Cardinality(topicUsers[e]) \in Nat
        /\ Own(hdl, Implicit, e) \in {0, 1}
    BY <1>1, CountsFinite
  <1>3. /\ children[e] # {} => Cardinality(children[e]) # 0
        /\ topicUsers[e] # {} => Cardinality(topicUsers[e]) # 0
    BY <1>2, FS_EmptySet
  <1> QED
    BY <1>1, <1>2, <1>3

\* A step that changes the calls, and perhaps handles, but no reference.
NoRefs(before, after) ==
    \A r \in Readers : (Drops(after, r) <=> Drops(before, r)) /\ (Takes(after, r) <=> Takes(before, r))
Silent(f) == \A r \in Readers : ~Drops(f, r) /\ ~Takes(f, r)
SameRefs ==
    \A e \in Entities : hdl'[e].ref - Own(hdl', Implicit, e) = hdl[e].ref - Own(hdl, Implicit, e)

LEMMA RefsQuiet ==
    ASSUME IInv, TypeOK', NEW t, UNCHANGED <<app, stage, children>>, SameRefs,
           \/ \E g : Moves(t, g) /\ NoRefs(call[Last(t)], g)
           \/ Pops(t) /\ Silent(call[Last(t)])
           \/ \E f : Begins(t, f) /\ Silent(f)
    PROVE  RefsOK'
  <1>1. TypeOK /\ RefsOK
    BY DEF IInv
  <1>2. Others(t)
    BY DEF Moves, Pops, Begins
  <1>3. \A r \in Readers : \A y \in {Last(t), Next1(t)} :
             /\ (y \in Pos' /\ Drops(call'[y], r)) <=> (y \in Pos /\ Drops(call[y], r))
             /\ (y \in Pos' /\ Takes(call'[y], r)) <=> (y \in Pos /\ Takes(call[y], r))
    BY DEF Moves, Pops, Begins, NoRefs, Silent
  <1> QED
    BY <1>1, <1>2, <1>3, RefsKept DEF SameRefs

LEMMA MoveStep ==
    ASSUME IInv, NEW t \in Threads, ~Idle(t), Typed, UNCHANGED <<app, stage, children>>,
           hdl' \in [Entities -> CntFlags], stack' \in [Threads -> Seq(Frame)],
           NEW g, Moves(t, g),
           \A e \in Entities : hdl[e].closing => hdl'[e].closing,
           Fits(t, Last(t), g, hdl'), Balance(Pinned(Top(t)), Pinned(g)),
           RefsOK' \/ (SameRefs /\ NoRefs(Top(t), g))
    PROVE  IInv'
  <1>1. TypeOK /\ DepthOK /\ PinsOK
    BY DEF IInv
  <1>2. TypeOK'
    BY <1>1 DEF TypeOK, Typed
  <1>3. Next1(t) \notin Pos /\ call[Last(t)] = Top(t)
    BY TopFrame
  <1>4. Control'
    <2>1. Others(t) /\ call'[Last(t)] = g /\ Next1(t) \notin Pos'
      BY DEF Moves
    <2>2. \A y \in {Last(t), Next1(t)} : y \in Pos' => Fits(t, y, call'[y], hdl')
      BY <2>1
    <2> QED
      BY <1>2, <1>3, <2>1, <2>2, ControlStep
  <1>5. PinsOK'
    <2>1. Changes(t, Pinned(Top(t)), Pinned(g))
      BY <1>3 DEF Changes
    <2> QED
      BY <1>1, <2>1, PinsBalance
  <1>6. RefsOK'
    BY <1>2, <1>3, RefsQuiet
  <1> QED
    BY <1>4, <1>5, <1>6 DEF IInv, Control

LEMMA PopStep ==
    ASSUME IInv, NEW t \in Threads, ~Idle(t), Typed, UNCHANGED <<app, stage, children>>,
           hdl' \in [Entities -> CntFlags], stack' \in [Threads -> Seq(Frame)],
           Pops(t),
           \A e \in Entities : hdl[e].closing => hdl'[e].closing,
           Balance(Pinned(Top(t)), {}),
           RefsOK' \/ (SameRefs /\ Silent(Top(t)))
    PROVE  IInv'
  <1>1. TypeOK /\ DepthOK /\ PinsOK
    BY DEF IInv
  <1>2. TypeOK'
    BY <1>1 DEF TypeOK, Typed
  <1>3. Next1(t) \notin Pos /\ call[Last(t)] = Top(t)
    BY TopFrame
  <1>4. Control'
    BY <1>2, <1>3, ControlStep DEF Pops
  <1>5. PinsOK'
    <2>1. Changes(t, Pinned(Top(t)), {})
      BY <1>3 DEF Changes
    <2> QED
      BY <1>1, <2>1, PinsBalance
  <1>6. RefsOK'
    BY <1>2, <1>3, RefsQuiet
  <1> QED
    BY <1>4, <1>5, <1>6 DEF IInv, Control

LEMMA BeginStep ==
    ASSUME IInv, NEW t \in Threads, Typed, UNCHANGED <<app, stage, children>>,
           hdl' \in [Entities -> CntFlags], stack' \in [Threads -> Seq(Frame)],
           NEW f, Begins(t, f),
           \A e \in Entities : hdl[e].closing => hdl'[e].closing,
           Fits(t, Next1(t), f, hdl'), Balance({}, Pinned(f)),
           RefsOK' \/ (SameRefs /\ Silent(f))
    PROVE  IInv'
  <1>1. TypeOK /\ DepthOK /\ PinsOK
    BY DEF IInv
  <1>2. TypeOK'
    BY <1>1 DEF TypeOK, Typed
  <1>3. Control'
    <2>1. Others(t) /\ call'[Next1(t)] = f /\ Last(t) \notin Pos' /\ Next1(t) \notin Pos
      BY DEF Begins
    <2>2. \A y \in {Last(t), Next1(t)} : y \in Pos' => Fits(t, y, call'[y], hdl')
      BY <2>1
    <2> QED
      BY <1>2, <2>1, <2>2, ControlStep
  <1>4. PinsOK'
    <2>1. Changes(t, {}, Pinned(f))
      BY DEF Changes
    <2> QED
      BY <1>1, <2>1, PinsBalance
  <1>5. RefsOK'
    BY <1>2, RefsQuiet
  <1> QED
    BY <1>3, <1>4, <1>5 DEF IInv, Control

\* What the operations on the word do to its fields.
LEMMA HandleType ==
    ASSUME NEW h \in CntFlags, NEW pin \in Nat, NEW ref \in Nat, NEW c \in BOOLEAN, NEW d \in BOOLEAN
    PROVE  /\ [h EXCEPT !.pin = pin] \in CntFlags
           /\ [h EXCEPT !.ref = ref] \in CntFlags
           /\ [h EXCEPT !.closing = c] \in CntFlags
           /\ [h EXCEPT !.ref = ref, !.deferred = d] \in CntFlags
  BY Zenon DEF CntFlags

LEMMA HandleFields ==
    ASSUME NEW h \in CntFlags
    PROVE  /\ Pin(h).pin = h.pin + 1 /\ Pin(h).ref = h.ref
           /\ (Pin(h).closing <=> h.closing) /\ (Pin(h).deferred <=> h.deferred)
           /\ Unpin(h).pin = h.pin - 1 /\ Unpin(h).ref = h.ref
           /\ (Unpin(h).closing <=> h.closing) /\ (Unpin(h).deferred <=> h.deferred)
           /\ AddRef(h).pin = h.pin /\ AddRef(h).ref = h.ref + 1
           /\ (AddRef(h).closing <=> h.closing) /\ (AddRef(h).deferred <=> h.deferred)
           /\ DropRef(h).pin = h.pin /\ DropRef(h).ref = h.ref - 1
           /\ (DropRef(h).closing <=> h.closing) /\ (DropRef(h).deferred <=> h.deferred)
           /\ Close(h).pin = h.pin /\ Close(h).ref = h.ref
           /\ Close(h).closing /\ (Close(h).deferred <=> h.deferred)
           /\ Defer(h).pin = h.pin /\ Defer(h).ref = h.ref - 1
           /\ (Defer(h).closing <=> h.closing) /\ Defer(h).deferred
           /\ \A imp \in BOOLEAN :
                 /\ PinAndClose(h, imp).pin = h.pin + 1
                 /\ PinAndClose(h, imp).ref = IF h.deferred \/ imp THEN h.ref ELSE h.ref - 1
                 /\ PinAndClose(h, imp).closing /\ (PinAndClose(h, imp).deferred <=> h.deferred)
  BY DEF CntFlags, Pin, Unpin, AddRef, DropRef, Close, Defer, PinAndClose

LEMMA HandleKept ==
    ASSUME NEW h \in CntFlags
    PROVE  /\ Pin(h) \in CntFlags /\ AddRef(h) \in CntFlags /\ Close(h) \in CntFlags
           /\ h.pin \in Nat \ {0} => Unpin(h) \in CntFlags
           /\ h.ref \in Nat \ {0} => DropRef(h) \in CntFlags /\ Defer(h) \in CntFlags
           /\ \A imp \in BOOLEAN : h.deferred \/ imp \/ h.ref \in Nat \ {0} => PinAndClose(h, imp) \in CntFlags
  <1>1. h.pin \in Nat /\ h.ref \in Nat /\ h.closing \in BOOLEAN /\ h.deferred \in BOOLEAN
    BY DEF CntFlags
  <1>2. h.pin + 1 \in Nat /\ h.ref + 1 \in Nat /\ TRUE \in BOOLEAN
        /\ (h.pin \in Nat \ {0} => h.pin - 1 \in Nat) /\ (h.ref \in Nat \ {0} => h.ref - 1 \in Nat)
    BY <1>1
  <1>3. Pin(h) \in CntFlags /\ AddRef(h) \in CntFlags /\ Close(h) \in CntFlags
    BY <1>2, HandleType, Zenon DEF Pin, AddRef, Close
  <1>4. /\ h.pin \in Nat \ {0} => Unpin(h) \in CntFlags
        /\ h.ref \in Nat \ {0} => DropRef(h) \in CntFlags /\ Defer(h) \in CntFlags
    BY <1>2, HandleType, Zenon DEF Unpin, DropRef, Defer
  <1>5. ASSUME NEW imp \in BOOLEAN, h.deferred \/ imp \/ h.ref \in Nat \ {0}
        PROVE  PinAndClose(h, imp) \in CntFlags
    <2> DEFINE ref == IF h.deferred \/ imp THEN h.ref ELSE h.ref - 1
    <2>1. ref \in Nat
      BY <1>1, <1>2, <1>5
    <2>2. PinAndClose(h, imp) = [h EXCEPT !.pin = h.pin + 1, !.closing = TRUE, !.ref = ref]
      BY <1>1 DEF PinAndClose, CntFlags
    <2> HIDE DEF ref
    <2>3. [h EXCEPT !.pin = h.pin + 1, !.closing = TRUE, !.ref = ref] \in CntFlags
      BY <1>2, <2>1, Zenon DEF CntFlags
    <2> QED
      BY <2>2, <2>3, Zenon
  <1> QED
    BY <1>3, <1>4, <1>5

\* A call returns that has nothing pinned.
LEMMA ReturnI ==
    ASSUME IInv, NEW t \in Threads, ~Idle(t), UNCHANGED <<app, stage, hdl, children, mutex, uses>>,
           NEW rc \in {"ok", "bad_parameter", "already_deleted"}, Return(t, rc),
           Top(t).pc \in {"pin", "pinsub"}
    PROVE  IInv'
  <1>1. TypeOK
    BY DEF IInv
  <1>2. Pops(t) /\ stack' \in [Threads -> Seq(Frame)]
    BY <1>1, ReturnPops DEF Return
  <1>3. Typed
    BY <1>1 DEF TypeOK, Typed, Return
  <1>4. Pinned(Top(t)) = {} /\ Silent(Top(t))
    BY PinnedIs DEF Silent, Drops, Takes
  <1>5. hdl' \in [Entities -> CntFlags] /\ Balance({}, {}) /\ SameRefs
    BY <1>1 DEF TypeOK, Balance, SameRefs, Own
  <1> QED
    BY <1>2, <1>3, <1>4, <1>5, PopStep

\* A step that changes one handle.
OneHandle(a, h) == hdl' = [hdl EXCEPT ![a] = h]

LEMMA OneHandleType ==
    ASSUME TypeOK, NEW a \in Entities, NEW h \in CntFlags, OneHandle(a, h),
           hdl[a].closing => h.closing
    PROVE  /\ hdl' \in [Entities -> CntFlags] /\ hdl'[a] = h
           /\ \A x \in Entities : x # a => hdl'[x] = hdl[x]
           /\ \A x \in Entities : hdl[x].closing => hdl'[x].closing
  <1>1. hdl' \in [Entities -> CntFlags] /\ hdl'[a] = h /\ \A x \in Entities : x # a => hdl'[x] = hdl[x]
    BY DEF TypeOK, OneHandle
  <1> QED
    BY <1>1

LEMMA OneHandleRefs ==
    ASSUME TypeOK, NEW a \in Entities, NEW h \in CntFlags, OneHandle(a, h),
           hdl[a].closing => h.closing,
           \/ h.ref = hdl[a].ref /\ (h.closing <=> hdl[a].closing) /\ (h.deferred <=> hdl[a].deferred)
           \/ a \in Implicit /\ h.ref = hdl[a].ref
           \/ hdl[a].deferred /\ h.deferred /\ h.ref = hdl[a].ref
           \/ Own(hdl, Implicit, a) = 1 /\ h.ref = hdl[a].ref - 1 /\ (h.closing \/ h.deferred)
    PROVE  SameRefs
  <1>1. hdl'[a] = h /\ \A x \in Entities : x # a => hdl'[x] = hdl[x]
    BY OneHandleType
  <1>2. ASSUME NEW x \in Entities, x # a
        PROVE  hdl'[x].ref - Own(hdl', Implicit, x) = hdl[x].ref - Own(hdl, Implicit, x)
    BY <1>1, <1>2 DEF Own
  <1>3. h.ref \in Nat /\ hdl[a].ref \in Nat
    BY DEF TypeOK, CntFlags
  <1>4. CASE \/ h.ref = hdl[a].ref /\ (h.closing <=> hdl[a].closing) /\ (h.deferred <=> hdl[a].deferred)
             \/ a \in Implicit /\ h.ref = hdl[a].ref
             \/ hdl[a].deferred /\ h.deferred /\ h.ref = hdl[a].ref
    <2>1. Own(hdl', Implicit, a) = Own(hdl, Implicit, a)
      BY <1>1, <1>4 DEF Own
    <2> QED
      BY <1>1, <1>2, <1>4, <2>1 DEF SameRefs
  <1>5. CASE Own(hdl, Implicit, a) = 1 /\ h.ref = hdl[a].ref - 1 /\ (h.closing \/ h.deferred)
    <2>1. Own(hdl', Implicit, a) = 0
      BY <1>1, <1>5 DEF Own
    <2>2. hdl'[a].ref - 0 = hdl[a].ref - 1
      BY <1>1, <1>3, <1>5
    <2> QED
      BY <1>2, <1>5, <2>1, <2>2 DEF SameRefs
  <1> QED
    BY <1>4, <1>5

LEMMA OneHandlePins ==
    ASSUME TypeOK, NEW a \in Entities, NEW h \in CntFlags, OneHandle(a, h),
           hdl[a].closing => h.closing, UNCHANGED stage,
           NEW before, NEW after,
           \/ h.pin = hdl[a].pin /\ after = before
           \/ h.pin = hdl[a].pin + 1 /\ a \notin before /\ after = before \cup {a}
           \/ h.pin = hdl[a].pin - 1 /\ a \in before /\ after = before \ {a}
    PROVE  Balance(before, after)
  <1>1. hdl'[a] = h /\ \A x \in Entities : x # a => hdl'[x] = hdl[x]
    BY OneHandleType
  <1> QED
    BY <1>1 DEF Balance

\* dds_handle_pin_for_delete puts the deletion of a topic off.
LEMMA DeferI ==
    ASSUME IInv, NEW t \in Threads, ~Idle(t), UNCHANGED <<app, stage, children, mutex, uses>>,
           Return(t, "ok"), Top(t).pc = "pin",
           NEW e, e = Top(t).e, ~hdl[e].closing,
           MustDefer(hdl[e], e \in Implicit, AllowChildren(e)),
           OneHandle(e, Defer(hdl[e]))
    PROVE  IInv'
  <1>1. TypeOK /\ e \in Entities /\ hdl[e] \in CntFlags
    BY TopFrame DEF IInv, TypeOK
  <1>2. Pops(t) /\ stack' \in [Threads -> Seq(Frame)]
    BY <1>1, ReturnPops DEF Return
  <1>3. Typed
    BY <1>1 DEF TypeOK, Typed, Return
  <1>4. Pinned(Top(t)) = {} /\ Silent(Top(t))
    BY PinnedIs DEF Silent, Drops, Takes
  <1>5. ~hdl[e].deferred /\ e \notin Implicit /\ hdl[e].ref > 1
    BY DEF MustDefer
  <1>6. /\ Defer(hdl[e]) \in CntFlags /\ Defer(hdl[e]).pin = hdl[e].pin /\ Defer(hdl[e]).ref = hdl[e].ref - 1
        /\ Defer(hdl[e]).deferred /\ (Defer(hdl[e]).closing <=> hdl[e].closing)
    <2>1. hdl[e].ref \in Nat \ {0}
      BY <1>1, <1>5 DEF CntFlags
    <2> QED
      BY <1>1, <2>1, HandleFields, HandleKept
  <1>7. Own(hdl, Implicit, e) = 1
    BY <1>5 DEF Own
  <1>8. /\ hdl' \in [Entities -> CntFlags] /\ Balance({}, {}) /\ SameRefs
        /\ \A x \in Entities : hdl[x].closing => hdl'[x].closing
    BY <1>1, <1>6, <1>7, OneHandleType, OneHandlePins, OneHandleRefs
  <1> QED
    BY <1>2, <1>3, <1>4, <1>8, PopStep

\* ... or pins it and closes its handle.
LEMMA PinAndCloseI ==
    ASSUME IInv, NEW t \in Threads, At(t, "pin"), UNCHANGED <<app, stage, children, mutex, ret, uses>>,
           Goto(t, "lock"), NEW e, e = Top(t).e, Live(e), ~hdl[e].closing,
           NEW imp \in BOOLEAN, imp <=> e \in Implicit,
           OneHandle(e, PinAndClose(hdl[e], imp))
    PROVE  IInv'
  <1> DEFINE f == Top(t)  g == [f EXCEPT !.pc = "lock"]  h == PinAndClose(hdl[e], imp)
  <1>1. ~Idle(t) /\ f.pc = "pin" /\ stack' = With(t, g)
    BY DEF At, Goto, GotoPc
  <1>2. f \in Frame /\ e \in Entities /\ FrameOK(f, Implicit) /\ DepthAt(Last(t), f)
        /\ Last(t) \in Pos /\ call[Last(t)] = f
    BY <1>1, TopFrame
  <1>3. TypeOK /\ hdl[e] \in CntFlags
    BY <1>2 DEF IInv, TypeOK
  <1>4. g \in Frame /\ g.pc = "lock" /\ g.e = e /\ f.e = e /\ g.how = f.how /\ g.arg = f.arg
    BY <1>2, GotoFrame DEF Deleting, BeforeLeaving
  <1> HIDE DEF f, g
  <1>5. Moves(t, g) /\ stack' \in [Threads -> Seq(Frame)]
    BY <1>1, <1>3, <1>4, WithMoves
  <1>6. Typed
    BY NothingTyped
  <1>7. Pinned(f) = {} /\ Pinned(g) = {e} /\ NoRefs(f, g)
    BY <1>1, <1>4, PinnedIs DEF Deleting, BeforeLeaving, AfterLeaving, NoRefs, Drops, Takes
  <1>8. Own(hdl, Implicit, e) = 1 <=> ~(hdl[e].deferred \/ imp)
    BY DEF Own
  <1>9. h \in CntFlags
    BY <1>2, <1>3, <1>8, RefsPositive, HandleKept
  <1>10. /\ h.pin = hdl[e].pin + 1 /\ h.closing
         /\ h.ref = IF hdl[e].deferred \/ imp THEN hdl[e].ref ELSE hdl[e].ref - 1
         /\ h.deferred <=> hdl[e].deferred
    BY <1>3, HandleFields
  <1>11. OneHandle(e, h)
    OBVIOUS
  <1> HIDE DEF h
  <1>12. /\ hdl' \in [Entities -> CntFlags] /\ hdl'[e] = h
         /\ \A x \in Entities : hdl[x].closing => hdl'[x].closing
    BY <1>2, <1>3, <1>9, <1>10, <1>11, OneHandleType
  <1>13. Balance(Pinned(f), Pinned(g))
    BY <1>2, <1>3, <1>7, <1>9, <1>10, <1>11, OneHandlePins
  <1>14. SameRefs
    BY <1>2, <1>3, <1>8, <1>9, <1>10, <1>11, OneHandleRefs
  <1>15. FrameOK(g, Implicit)
    BY <1>1, <1>2, <1>4 DEF FrameOK, Deleting, BeforeLeaving, AfterLeaving, Creations, Making, OfParticipant
  <1>16. FrameTrue(g, stage, hdl', children)
    BY <1>4, <1>7, <1>10, <1>12 DEF FrameTrue, Deleting, BeforeLeaving, AfterLeaving, Left, Making, Live
  <1>17. Fits(t, Last(t), g, hdl')
    <2>1. DepthAt(Last(t), g)
      BY <1>2, <1>4 DEF DepthAt, AfterLeaving, f
    <2> QED
      BY <1>2, <1>4, <1>7, <1>15, <1>16, <2>1 DEF Fits, Making, Past, Deleting, BeforeLeaving, AfterLeaving
  <1> QED
    BY <1>1, <1>5, <1>6, <1>7, <1>12, <1>13, <1>14, <1>17, MoveStep DEF f

LEMMA DeletePinI ==
    ASSUME IInv, NEW t \in Threads, DeletePin(t), UNCHANGED app
    PROVE  IInv'
  <1> DEFINE e == Top(t).e  imp == e \in Implicit
  <1>1. ~Idle(t) /\ Top(t).pc = "pin"
    BY DEF DeletePin, At
  <1>2. CASE UNCHANGED hdl /\ Return(t, "bad_parameter")
    BY <1>1, <1>2, ReturnI DEF DeletePin
  <1>3. CASE UNCHANGED hdl /\ Return(t, "already_deleted")
    BY <1>1, <1>3, ReturnI DEF DeletePin
  <1>4. CASE /\ ~hdl[e].closing /\ MustDefer(hdl[e], imp, AllowChildren(e))
             /\ hdl' = [hdl EXCEPT ![e] = Defer(@)] /\ Return(t, "ok")
    BY <1>1, <1>4, DeferI DEF DeletePin, OneHandle
  <1>5. CASE /\ Live(e) /\ ~hdl[e].closing
             /\ hdl' = [hdl EXCEPT ![e] = PinAndClose(@, imp)] /\ Goto(t, "lock") /\ UNCHANGED ret
    <2>1. imp \in BOOLEAN
      OBVIOUS
    <2>2. OneHandle(e, PinAndClose(hdl[e], imp))
      BY <1>5 DEF OneHandle
    <2> HIDE DEF imp
    <2> QED
      BY <1>5, <2>1, <2>2, PinAndCloseI DEF DeletePin, imp
  <1> QED
    BY <1>2, <1>3, <1>4, <1>5 DEF DeletePin

LEMMA UserDeleteI ==
    ASSUME IInv, NEW t \in Threads, UserDelete(t), UNCHANGED app
    PROVE  IInv'
  <1>1. TypeOK /\ Idle(t) /\ Typed
    BY NothingTyped DEF UserDelete, IInv
  <1>2. PICK e \in app.deletable : stack' = [stack EXCEPT ![t] = <<Call(e, "user")>>]
    BY DEF UserDelete
  <1>3. e \in Entities
    BY <1>1, LifecycleAssumption DEF TypeOK
  <1> DEFINE f == Call(e, "user")
  <1>4. /\ f \in Frame /\ f.pc = "pin" /\ f.e = e /\ Pinned(f) = {} /\ FrameOK(f, Implicit)
        /\ FrameTrue(f, stage, hdl, children) /\ \A r : ~Drops(f, r) /\ ~Takes(f, r)
    BY <1>3, CallFits
  <1>5. Begins(t, f) /\ stack' \in [Threads -> Seq(Frame)]
    BY <1>1, <1>2, <1>4, EnterBegins
  <1> HIDE DEF f
  <1>6. DepthAt(Next1(t), f)
    <2>1. Next1(t)[2] = 1
      BY <1>1 DEF Idle, Next1
    <2>2. Rank[Kind[e]] >= 1
      BY <1>3, Tree DEF Rank
    <2> QED
      BY <1>4, <2>1, <2>2 DEF DepthAt
  <1>7. UNCHANGED <<app, stage, hdl, children>>
    BY DEF UserDelete
  <1>8. Fits(t, Next1(t), f, hdl')
    BY <1>4, <1>6, <1>7 DEF Fits, Making, Past, Deleting, BeforeLeaving, AfterLeaving
  <1>9. /\ hdl' \in [Entities -> CntFlags] /\ Balance({}, {}) /\ SameRefs /\ Silent(f)
    BY <1>1, <1>4, <1>7 DEF TypeOK, Balance, SameRefs, Own, Silent
  <1> QED
    BY <1>1, <1>4, <1>5, <1>7, <1>8, <1>9, BeginStep

LEMMA DepthAtBottom ==
    ASSUME NEW t \in Threads, stack[t] \in Seq(Frame), NEW f, DepthAt(Last(t), f), f.how \notin {"from_parent", "explicit"},
           NEW g, g.e \in Entities
    PROVE  DepthAt(Last(t), g)
  <1>1. Last(t)[2] \in Nat /\ ~(Last(t)[2] > 1)
    BY DEF DepthAt, Last
  <1>2. Rank[Kind[g.e]] \in Nat /\ Rank[Kind[g.e]] >= 1
    BY Tree DEF Rank
  <1> QED
    BY <1>1, <1>2 DEF DepthAt

\* A call pins or unpins one entity and goes on, outside dds_delete.
LEMMA PinStep ==
    ASSUME IInv, NEW t \in Threads, ~Idle(t), Typed, UNCHANGED <<app, stage, children>>,
           NEW g \in Frame, Moves(t, g), stack' \in [Threads -> Seq(Frame)],
           NEW a \in Entities, NEW h \in CntFlags, OneHandle(a, h), h.ref = hdl[a].ref,
           h.closing <=> hdl[a].closing, h.deferred <=> hdl[a].deferred,
           \/ /\ h.pin = hdl[a].pin + 1 /\ Live(a) /\ ~hdl[a].closing
              /\ a \notin Pinned(Top(t)) /\ Pinned(g) = Pinned(Top(t)) \cup {a}
           \/ /\ h.pin = hdl[a].pin - 1
              /\ a \in Pinned(Top(t)) /\ Pinned(g) = Pinned(Top(t)) \ {a},
           g.pc \in InCall \cup {"pin", "pinsub"}, FrameOK(g, Implicit), DepthAt(Last(t), g),
           g.pc \in Making => Top(t).pc \in Making /\ g.arg = Top(t).arg /\ g.pc # "plock",
           NoRefs(Top(t), g)
    PROVE  IInv'
  <1> DEFINE f == Top(t)
  <1>1. /\ Last(t) \in Pos /\ call[Last(t)] = f /\ f \in Frame /\ FrameTrue(f, stage, hdl, children)
        /\ TypeOK
    BY TopFrame DEF IInv
  <1>2. /\ hdl' \in [Entities -> CntFlags] /\ hdl'[a] = h
        /\ \A x \in Entities : hdl[x].closing => hdl'[x].closing
    BY <1>1, OneHandleType
  <1>3. Balance(Pinned(f), Pinned(g))
    BY <1>1, OneHandlePins
  <1>4. SameRefs
    BY <1>1, OneHandleRefs
  <1>5. FrameTrue(g, stage, hdl', children)
    <2>1. \A e \in Pinned(g) : stage[e] \in {"live", "unlinked"}
      BY <1>1 DEF FrameTrue, Live
    <2>2. g.pc \notin Deleting /\ g.pc \notin AfterLeaving /\ g.pc \notin Left \cup {"parent"} /\ g.pc # "closeparent"
      BY DEF InCall, Deleting, BeforeLeaving, AfterLeaving, Left
    <2>3. g.pc \in Making => stage[g.arg] = "unborn" /\ g.pc # "plock"
      BY <1>1 DEF FrameTrue
    <2>4. g.pc = "plock" => g.pc \in Making
      BY DEF Making
    <2> QED
      BY <2>1, <2>2, <2>3, <2>4, Zenon DEF FrameTrue
  <1>6. g.pc \notin Past
    BY DEF InCall, Past
  <1>6a. g.pc \notin Deleting
    BY DEF InCall, Deleting, BeforeLeaving, AfterLeaving
  <1>7. Fits(t, Last(t), g, hdl')
    BY <1>1, <1>5, <1>6, <1>6a DEF Fits
  <1> QED
    BY <1>2, <1>3, <1>4, <1>7, MoveStep

LEMMA UsePinI ==
    ASSUME IInv, NEW t \in Threads, UsePin(t), UNCHANGED app
    PROVE  IInv'
  <1>1. TypeOK /\ Idle(t) /\ uses < MaxUses /\ uses' = uses + 1 /\ UNCHANGED <<app, stage, children, mutex, ret>>
    BY DEF UsePin, IInv
  <1>2. PICK e \in app.usable : Pinnable(e) /\ Enter(t, [Call(e, "use") EXCEPT !.pc = "uselock"])
    BY DEF UsePin
  <1>3. e \in Entities /\ hdl[e] \in CntFlags
    BY <1>1, LifecycleAssumption DEF TypeOK
  <1>4. Typed
    BY <1>1, LifecycleAssumption DEF TypeOK, Typed
  <1> DEFINE f == [Call(e, "use") EXCEPT !.pc = "uselock"]  h == Pin(hdl[e])
  <1>5. f = [pc |-> "uselock", e |-> e, how |-> "use", arg |-> 0, pass |-> 1]
    BY DEF Call
  <1>6. f \in Frame /\ f.pc = "uselock" /\ f.e = e /\ f.how = "use" /\ f.arg = 0
    BY <1>3, <1>5 DEF Frame, InCall
  <1>7. stack' = [stack EXCEPT ![t] = <<f>>] /\ hdl' = [hdl EXCEPT ![e] = h]
    BY <1>2, <1>6 DEF Enter
  <1> HIDE DEF f
  <1>8. Begins(t, f) /\ stack' \in [Threads -> Seq(Frame)]
    BY <1>1, <1>6, <1>7, EnterBegins
  <1>9. h \in CntFlags /\ h.pin = hdl[e].pin + 1 /\ h.ref = hdl[e].ref
        /\ (h.closing <=> hdl[e].closing) /\ (h.deferred <=> hdl[e].deferred)
    BY <1>3, HandleFields, HandleKept
  <1> HIDE DEF h
  <1>10. OneHandle(e, h)
    BY <1>7 DEF OneHandle
  <1>11. Pinned(f) = {e} /\ Silent(f)
    BY <1>6, PinnedIs DEF InCall, WithTopic, Silent, Drops, Takes
  <1>12. stage[e] = "live" /\ ~hdl[e].closing
    BY <1>2 DEF Pinnable, Live, CanPin
  <1>13. /\ hdl' \in [Entities -> CntFlags] /\ SameRefs /\ Balance({}, Pinned(f))
         /\ \A x \in Entities : hdl[x].closing => hdl'[x].closing
    <2>1. UNCHANGED stage
      BY <1>1
    <2>2. {e} = {} \cup {e} /\ e \notin {}
      OBVIOUS
    <2>3. Balance({}, Pinned(f))
      BY <1>1, <1>3, <1>9, <1>10, <1>11, <2>1, <2>2, OneHandlePins
    <2> QED
      BY <1>1, <1>3, <1>9, <1>10, <2>3, OneHandleType, OneHandleRefs
  <1>14. FrameOK(f, Implicit)
    BY <1>6 DEF FrameOK, Deleting, BeforeLeaving, AfterLeaving, Creations, Making, OfParticipant
  <1>15. FrameTrue(f, stage, hdl', children)
    BY <1>6, <1>11, <1>12 DEF FrameTrue, Deleting, BeforeLeaving, AfterLeaving, Left, Making
  <1>16. DepthAt(Next1(t), f)
    <2>1. Next1(t)[2] = 1
      BY <1>1 DEF Idle, Next1
    <2>2. Rank[Kind[e]] >= 1
      BY <1>3, Tree DEF Rank
    <2> QED
      BY <1>6, <2>1, <2>2 DEF DepthAt
  <1>17. Fits(t, Next1(t), f, hdl')
    BY <1>6, <1>11, <1>12, <1>14, <1>15, <1>16 DEF Fits, Making, Past, Deleting, BeforeLeaving, AfterLeaving
  <1> QED
    BY <1>1, <1>4, <1>8, <1>11, <1>13, <1>17, BeginStep

LEMMA UseUnpinI ==
    ASSUME IInv, NEW t \in Threads, UseUnpin(t), UNCHANGED app
    PROVE  IInv'
  <1> DEFINE f == Top(t)  e == f.e  h == Unpin(hdl[e])
  <1>1. ~Idle(t) /\ f.pc = "unpin" /\ TypeOK /\ UNCHANGED <<app, stage, children, mutex, uses>>
        /\ Return(t, "ok")
    BY DEF UseUnpin, At, IInv
  <1>2. f \in Frame /\ e \in Entities /\ Last(t) \in Pos /\ call[Last(t)] = f
    BY <1>1, TopFrame
  <1>3. Pinned(f) = {e} /\ Silent(f)
    BY <1>1, PinnedIs DEF InCall, WithTopic, Silent, Drops, Takes
  <1>4. hdl[e].pin \in Nat \ {0} /\ hdl[e] \in CntFlags
    BY <1>1, <1>2, <1>3, PinsPositive DEF TypeOK
  <1>5. h \in CntFlags /\ h.pin = hdl[e].pin - 1 /\ h.ref = hdl[e].ref
        /\ (h.closing <=> hdl[e].closing) /\ (h.deferred <=> hdl[e].deferred)
    BY <1>4, HandleFields, HandleKept
  <1>6. OneHandle(e, h)
    BY DEF UseUnpin, OneHandle
  <1>7. Pops(t) /\ stack' \in [Threads -> Seq(Frame)]
    BY <1>1, ReturnPops DEF Return
  <1>8. Typed
    BY <1>1 DEF TypeOK, Typed, Return
  <1> HIDE DEF h
  <1>9. {} = Pinned(f) \ {e} /\ e \in Pinned(f)
    BY <1>3
  <1>10. Balance(Pinned(f), {})
    BY <1>1, <1>2, <1>5, <1>6, <1>9, OneHandlePins
  <1>11. /\ hdl' \in [Entities -> CntFlags] /\ SameRefs
         /\ \A x \in Entities : hdl[x].closing => hdl'[x].closing
    BY <1>1, <1>2, <1>5, <1>6, OneHandleType, OneHandleRefs
  <1> QED
    BY <1>1, <1>3, <1>7, <1>8, <1>10, <1>11, PopStep

LEMMA CreationFrame ==
    ASSUME NEW f, NEW imp, FrameOK(f, imp), f.pc \in Creations
    PROVE  /\ f.how \in {"create", "create_implicit"} /\ f.how \notin {"from_parent", "explicit"}
           /\ f.arg \in Readers /\ f.arg \in Nat
           /\ Parent[f.arg] \in Entities /\ Kind[Parent[f.arg]] = "subscriber"
           /\ Parent[Parent[f.arg]] \in Entities /\ Kind[Parent[Parent[f.arg]]] = "participant"
           /\ TopicOf[f.arg] \in Entities /\ Kind[TopicOf[f.arg]] = "topic"
           /\ TopicOf[f.arg] # Parent[f.arg]
           /\ f.pc \notin OfParticipant => f.e = Parent[f.arg]
           /\ f.pc \in OfParticipant => f.e = Parent[Parent[f.arg]]
  <1>1. f.how \in {"create", "create_implicit"} /\ f.arg \in Readers
    BY DEF FrameOK
  <1>2. f.arg \in Entities /\ Kind[f.arg] = "reader"
    BY <1>1, Tree
  <1>3. Parent[f.arg] \in Entities /\ Kind[Parent[f.arg]] = "subscriber"
    BY <1>2, Tree
  <1>4. Parent[Parent[f.arg]] \in Entities /\ Kind[Parent[Parent[f.arg]]] = "participant"
    BY <1>3, Tree
  <1>5. TopicOf[f.arg] \in Entities /\ Kind[TopicOf[f.arg]] = "topic" /\ f.arg \in Nat
    BY <1>1, <1>2, Tree
  <1> QED
    BY <1>1, <1>3, <1>4, <1>5 DEF FrameOK

LEMMA ParticipantUnpinI ==
    ASSUME IInv, NEW t \in Threads, ParticipantUnpin(t), UNCHANGED app
    PROVE  IInv'
  <1> DEFINE f == Top(t)  a == f.e  h == Unpin(hdl[a])
             g == [f EXCEPT !.pc = "pinsub", !.e = Parent[f.arg]]
  <1>1. ~Idle(t) /\ f.pc = "punpin" /\ TypeOK /\ UNCHANGED <<app, stage, children, mutex, ret, uses>>
        /\ stack' = With(t, g) /\ OneHandle(a, h)
    BY DEF ParticipantUnpin, At, IInv, OneHandle
  <1>2. f \in Frame /\ a \in Entities /\ Last(t) \in Pos /\ call[Last(t)] = f /\ FrameOK(f, Implicit)
        /\ DepthAt(Last(t), f)
    BY <1>1, TopFrame
  <1>3. f.how \in {"create", "create_implicit"} /\ f.how \notin {"from_parent", "explicit"}
        /\ f.arg \in Readers /\ Parent[f.arg] \in Entities
    BY <1>1, <1>2, CreationFrame DEF Creations, Making
  <1>4. Pinned(f) = {a}
    BY <1>1, PinnedIs DEF InCall, WithTopic
  <1>5. hdl[a].pin \in Nat \ {0} /\ hdl[a] \in CntFlags
    BY <1>1, <1>2, <1>4, PinsPositive DEF TypeOK
  <1>6. h \in CntFlags /\ h.pin = hdl[a].pin - 1 /\ h.ref = hdl[a].ref
        /\ (h.closing <=> hdl[a].closing) /\ (h.deferred <=> hdl[a].deferred)
    BY <1>5, HandleFields, HandleKept
  <1> HIDE DEF f, h
  <1>7. g \in Frame
    BY <1>2, <1>3, Zenon DEF Frame
  <1>8. g.pc = "pinsub" /\ g.e = Parent[f.arg] /\ g.how = f.how /\ g.arg = f.arg
    BY <1>2 DEF Frame
  <1> HIDE DEF g
  <1>9. Moves(t, g) /\ stack' \in [Threads -> Seq(Frame)]
    BY <1>1, <1>7, WithMoves
  <1>10. Typed
    BY <1>1, NothingTyped
  <1>11. Pinned(g) = {} /\ a \in Pinned(f) /\ Pinned(g) = Pinned(f) \ {a} /\ NoRefs(f, g)
    BY <1>1, <1>4, <1>8, PinnedIs DEF NoRefs, Drops, Takes
  <1>12. FrameOK(g, Implicit)
    BY <1>3, <1>8 DEF FrameOK, Deleting, BeforeLeaving, AfterLeaving, Creations, Making, OfParticipant
  <1>13. DepthAt(Last(t), g)
    <2>1. stack[t] \in Seq(Frame)
      BY <1>1 DEF TypeOK
    <2> QED
      BY <1>2, <1>3, <1>8, <2>1, DepthAtBottom
  <1>14. f.pc \in Making /\ g.pc # "plock" /\ g.pc \in InCall \cup {"pin", "pinsub"}
    BY <1>1, <1>8 DEF Making
  <1> QED
    BY <1>1, <1>2, <1>6, <1>7, <1>8, <1>9, <1>10, <1>11, <1>12, <1>13, <1>14, PinStep DEF f

LEMMA PinSubscriberI ==
    ASSUME IInv, NEW t \in Threads, PinSubscriber(t), UNCHANGED app
    PROVE  IInv'
  <1> DEFINE f == Top(t)  a == f.e  h == Pin(hdl[a])  g == [f EXCEPT !.pc = "clock"]
  <1>1. ~Idle(t) /\ f.pc = "pinsub" /\ TypeOK /\ UNCHANGED <<app, stage, children, mutex, uses>>
    BY DEF PinSubscriber, At, IInv
  <1>2. CASE Return(t, "bad_parameter") /\ UNCHANGED hdl
    BY <1>1, <1>2, ReturnI
  <1>3. CASE Pinnable(a) /\ hdl' = [hdl EXCEPT ![a] = Pin(@)] /\ Goto(t, "clock") /\ UNCHANGED ret
    <2>1. f \in Frame /\ a \in Entities /\ Last(t) \in Pos /\ call[Last(t)] = f /\ FrameOK(f, Implicit)
          /\ DepthAt(Last(t), f)
      BY <1>1, TopFrame
    <2>2. f.how \in {"create", "create_implicit"} /\ f.how \notin {"from_parent", "explicit"}
          /\ f.arg \in Readers /\ a = Parent[f.arg]
      BY <1>1, <2>1, CreationFrame DEF Creations, Making, OfParticipant
    <2>3. OneHandle(a, h) /\ stack' = With(t, g) /\ Live(a) /\ ~hdl[a].closing
      BY <1>3 DEF OneHandle, Goto, GotoPc, Pinnable, CanPin
    <2>4. g \in Frame /\ g.pc = "clock" /\ g.e = a /\ g.how = f.how /\ g.arg = f.arg
      BY <2>1, GotoFrame DEF InCall
    <2>5. hdl[a] \in CntFlags
      BY <1>1, <2>1 DEF TypeOK
    <2>6. h \in CntFlags /\ h.pin = hdl[a].pin + 1 /\ h.ref = hdl[a].ref
          /\ (h.closing <=> hdl[a].closing) /\ (h.deferred <=> hdl[a].deferred)
      BY <2>5, HandleFields, HandleKept
    <2> HIDE DEF h, g
    <2>7. Moves(t, g) /\ stack' \in [Threads -> Seq(Frame)]
      BY <1>1, <2>3, <2>4, WithMoves
    <2>8. Typed
      BY <1>1, <1>3, NothingTyped
    <2>9. Pinned(f) = {} /\ a \notin Pinned(f) /\ Pinned(g) = Pinned(f) \cup {a} /\ NoRefs(f, g)
      BY <1>1, <2>4, PinnedIs DEF InCall, WithTopic, NoRefs, Drops, Takes
    <2>10. FrameOK(g, Implicit)
      BY <2>2, <2>4 DEF FrameOK, Deleting, BeforeLeaving, AfterLeaving, Creations, Making, OfParticipant
    <2>11. DepthAt(Last(t), g)
      <3>1. stack[t] \in Seq(Frame)
        BY <1>1 DEF TypeOK
      <3> QED
        BY <2>1, <2>2, <2>4, <3>1, DepthAtBottom
    <2>12. f.pc \in Making /\ g.pc # "plock" /\ g.pc \in InCall \cup {"pin", "pinsub"}
      BY <1>1, <2>4 DEF Making, InCall
    <2> QED
      BY <1>1, <2>1, <2>3, <2>4, <2>6, <2>7, <2>8, <2>9, <2>10, <2>11, <2>12, PinStep
  <1> QED
    BY <1>2, <1>3 DEF PinSubscriber

LEMMA PinTopicI ==
    ASSUME IInv, NEW t \in Threads, PinTopic(t), UNCHANGED app
    PROVE  IInv'
  <1> DEFINE f == Top(t)  a == TopicOf[f.arg]  h == Pin(hdl[a])  g == [f EXCEPT !.pc = "cdefer"]
  <1>1. ~Idle(t) /\ f.pc = "ctopic" /\ TypeOK /\ UNCHANGED <<app, stage, children, mutex, ret, uses>>
    BY DEF PinTopic, At, IInv
  <1>2. Typed
    BY <1>1, NothingTyped
  <1>3. CASE Goto(t, "cfailed") /\ UNCHANGED hdl
    <2>1. <<f.pc, "cfailed">> \in QuietMoves
      BY <1>1 DEF QuietMoves
    <2> QED
      BY <1>1, <1>2, <1>3, <2>1, JustGoto
  <1>4. CASE Pinnable(a) /\ hdl' = [hdl EXCEPT ![a] = Pin(@)] /\ Goto(t, "cdefer")
    <2>1. f \in Frame /\ Last(t) \in Pos /\ call[Last(t)] = f /\ FrameOK(f, Implicit)
          /\ DepthAt(Last(t), f)
      BY <1>1, TopFrame
    <2>2. f.how \in {"create", "create_implicit"} /\ f.how \notin {"from_parent", "explicit"}
          /\ f.arg \in Readers /\ f.e = Parent[f.arg] /\ a \in Entities /\ a # f.e /\ f.e \in Entities
      BY <1>1, <2>1, CreationFrame DEF Creations, Making, OfParticipant
    <2>3. OneHandle(a, h) /\ stack' = With(t, g) /\ Live(a) /\ ~hdl[a].closing
      BY <1>4 DEF OneHandle, Goto, GotoPc, Pinnable, CanPin
    <2>4. g \in Frame /\ g.pc = "cdefer" /\ g.e = f.e /\ g.how = f.how /\ g.arg = f.arg
      BY <2>1, GotoFrame DEF InCall
    <2>5. hdl[a] \in CntFlags
      BY <1>1, <2>2 DEF TypeOK
    <2>6. h \in CntFlags /\ h.pin = hdl[a].pin + 1 /\ h.ref = hdl[a].ref
          /\ (h.closing <=> hdl[a].closing) /\ (h.deferred <=> hdl[a].deferred)
      BY <2>5, HandleFields, HandleKept
    <2> HIDE DEF h, g
    <2>7. Moves(t, g) /\ stack' \in [Threads -> Seq(Frame)]
      BY <1>1, <2>3, <2>4, WithMoves
    <2>8. Pinned(f) = {f.e} /\ Pinned(g) = {f.e, a} /\ NoRefs(f, g)
      BY <1>1, <2>4, PinnedIs DEF InCall, WithTopic, NoRefs, Drops, Takes
    <2>9. a \notin Pinned(f) /\ Pinned(g) = Pinned(f) \cup {a}
      BY <2>2, <2>8
    <2>10. FrameOK(g, Implicit)
      BY <2>2, <2>4 DEF FrameOK, Deleting, BeforeLeaving, AfterLeaving, Creations, Making, OfParticipant
    <2>11. DepthAt(Last(t), g)
      <3>1. stack[t] \in Seq(Frame)
        BY <1>1 DEF TypeOK
      <3> QED
        BY <2>1, <2>2, <2>4, <3>1, DepthAtBottom
    <2>12. f.pc \in Making /\ g.pc # "plock" /\ g.pc \in InCall \cup {"pin", "pinsub"}
      BY <1>1, <2>4 DEF Making, InCall
    <2> HIDE DEF a
    <2> QED
      BY <1>1, <1>2, <2>1, <2>2, <2>3, <2>4, <2>6, <2>7, <2>8, <2>9, <2>10, <2>11, <2>12, PinStep
  <1> QED
    BY <1>3, <1>4 DEF PinTopic

\* dds_topic_allow_set_qos and dds_topic_unpin, with a broadcast or not.
LEMMA UnpinTopicI ==
    ASSUME IInv, NEW t \in Threads, UnpinTopic(t), UNCHANGED app
    PROVE  IInv'
  <1> DEFINE f == Top(t)  a == TopicOf[f.arg]  h == Unpin(hdl[a])
             pc == IF f.pc = "crejected" THEN "cfailed" ELSE "cunlock"
             g == [f EXCEPT !.pc = pc]
  <1>1. ~Idle(t) /\ f.pc \in {"ctopicdone", "crejected"} /\ TypeOK /\ UNCHANGED <<app, stage, children, mutex, ret, uses>>
        /\ OneHandle(a, h)
    BY DEF UnpinTopic, At, IInv, OneHandle
  <1>2. stack' = With(t, g) \/ stack' = Broadcast(With(t, g), Parent[a])
    BY DEF UnpinTopic, GotoPc
  <1>3. Typed
    BY <1>1, NothingTyped
  <1>4. f \in Frame /\ Last(t) \in Pos /\ call[Last(t)] = f /\ FrameOK(f, Implicit)
        /\ DepthAt(Last(t), f)
    BY <1>1, TopFrame
  <1>5. f.how \in {"create", "create_implicit"} /\ f.how \notin {"from_parent", "explicit"}
        /\ f.arg \in Readers /\ f.e = Parent[f.arg] /\ a \in Entities /\ a # f.e /\ f.e \in Entities
    BY <1>1, <1>4, CreationFrame DEF Creations, Making, OfParticipant
  <1>6. pc \in {"cfailed", "cunlock"}
    OBVIOUS
  <1> HIDE DEF pc
  <1>7. g \in Frame /\ g.pc = pc /\ g.e = f.e /\ g.how = f.how /\ g.arg = f.arg
    BY <1>4, <1>6, GotoFrame DEF InCall
  <1>8. Pinned(f) = {f.e, a}
    BY <1>1, PinnedIs DEF WithTopic
  <1>9. hdl[a].pin \in Nat \ {0} /\ hdl[a] \in CntFlags
    BY <1>1, <1>4, <1>5, <1>8, PinsPositive DEF TypeOK
  <1>10. h \in CntFlags /\ h.pin = hdl[a].pin - 1 /\ h.ref = hdl[a].ref
         /\ (h.closing <=> hdl[a].closing) /\ (h.deferred <=> hdl[a].deferred)
    BY <1>9, HandleFields, HandleKept
  <1> HIDE DEF h, g
  <1>11. Moves(t, g) /\ stack' \in [Threads -> Seq(Frame)]
    BY <1>1, <1>2, <1>6, <1>7, WithMoves, BroadcastMoves
  <1>12. Pinned(g) = {f.e} /\ NoRefs(f, g)
    BY <1>1, <1>6, <1>7, PinnedIs DEF InCall, WithTopic, NoRefs, Drops, Takes
  <1>13. a \in Pinned(f) /\ Pinned(g) = Pinned(f) \ {a}
    BY <1>5, <1>8, <1>12
  <1>14. FrameOK(g, Implicit)
    BY <1>5, <1>6, <1>7 DEF FrameOK, Deleting, BeforeLeaving, AfterLeaving, Creations, Making, OfParticipant
  <1>15. DepthAt(Last(t), g)
    <2>1. stack[t] \in Seq(Frame)
      BY <1>1 DEF TypeOK
    <2> QED
      BY <1>4, <1>5, <1>7, <2>1, DepthAtBottom
  <1>16. g.pc \notin Making /\ g.pc \in InCall \cup {"pin", "pinsub"}
    BY <1>6, <1>7 DEF Making, InCall
  <1> HIDE DEF a
  <1> QED
    BY <1>1, <1>3, <1>5, <1>7, <1>10, <1>11, <1>12, <1>13, <1>14, <1>15, <1>16, PinStep

LEMMA UndoSubscriberI ==
    ASSUME IInv, NEW t \in Threads, UndoSubscriber(t), UNCHANGED app
    PROVE  IInv'
  <1> DEFINE f == Top(t)  a == f.e  h == Unpin(hdl[a])  g == Call(a, "user")
  <1>1. ~Idle(t) /\ f.pc = "cundo" /\ TypeOK /\ UNCHANGED <<app, stage, children, mutex, ret, uses>>
        /\ OneHandle(a, h) /\ stack' = With(t, g)
    BY DEF UndoSubscriber, At, IInv, OneHandle
  <1>2. Typed
    BY <1>1, NothingTyped
  <1>3. f \in Frame /\ a \in Entities /\ Last(t) \in Pos /\ call[Last(t)] = f /\ FrameOK(f, Implicit)
        /\ DepthAt(Last(t), f)
    BY <1>1, TopFrame
  <1>4. f.how \notin {"from_parent", "explicit"}
    BY <1>1, <1>3, CreationFrame DEF Creations
  <1>5. /\ g \in Frame /\ g.pc = "pin" /\ g.e = a /\ Pinned(g) = {} /\ FrameOK(g, Implicit)
        /\ \A r : ~Drops(g, r) /\ ~Takes(g, r)
    BY <1>3, CallFits
  <1>6. Pinned(f) = {a} /\ \A r : ~Drops(f, r) /\ ~Takes(f, r)
    BY <1>1, PinnedIs DEF InCall, WithTopic, Drops, Takes
  <1>7. hdl[a].pin \in Nat \ {0} /\ hdl[a] \in CntFlags
    BY <1>1, <1>3, <1>6, PinsPositive DEF TypeOK
  <1>8. h \in CntFlags /\ h.pin = hdl[a].pin - 1 /\ h.ref = hdl[a].ref
        /\ (h.closing <=> hdl[a].closing) /\ (h.deferred <=> hdl[a].deferred)
    BY <1>7, HandleFields, HandleKept
  <1> HIDE DEF h, g
  <1>9. Moves(t, g) /\ stack' \in [Threads -> Seq(Frame)]
    BY <1>1, <1>5, WithMoves
  <1>10. a \in Pinned(f) /\ Pinned(g) = Pinned(f) \ {a} /\ NoRefs(f, g)
    BY <1>5, <1>6 DEF NoRefs
  <1>11. DepthAt(Last(t), g)
    <2>1. stack[t] \in Seq(Frame)
      BY <1>1 DEF TypeOK
    <2> QED
      BY <1>3, <1>4, <1>5, <2>1, DepthAtBottom
  <1>12. g.pc \notin Making
    BY <1>5 DEF Making
  <1> QED
    BY <1>1, <1>2, <1>3, <1>5, <1>8, <1>9, <1>10, <1>11, <1>12, PinStep

----------------------------------------------------------------------------
(* Readers take and drop references to topics.                              *)

LEMMA TopicRefs ==
    ASSUME TypeOK, TypeOK', RefsOK, UNCHANGED <<app, children>>,
           NEW r \in Readers, NEW a, a = TopicOf[r], NEW h \in CntFlags, OneHandle(a, h),
           h.closing <=> hdl[a].closing, h.deferred <=> hdl[a].deferred,
           \A q \in Readers : q # r => (q \in users' <=> q \in users),
           \/ r \notin users /\ r \in users' /\ h.ref = hdl[a].ref + 1
           \/ r \in users /\ r \notin users' /\ h.ref = hdl[a].ref - 1
    PROVE  RefsOK'
  <1>1. a \in Entities
    BY Tree
  <1>2. hdl'[a] = h /\ \A x \in Entities : x # a => hdl'[x] = hdl[x]
    BY <1>1, OneHandleType
  <1>3. Implicit' = Implicit /\ children' = children
    BY DEF Implicit
  <1>4. users \subseteq Readers /\ users' \subseteq Readers
    BY DEF users
  <1>5. ASSUME NEW e \in Entities, e # a
        PROVE  topicUsers'[e] = topicUsers[e]
    <2>1. topicUsers'[e] = {q \in users' : TopicOf[q] = e} /\ topicUsers[e] = {q \in users : TopicOf[q] = e}
      BY DEF topicUsers
    <2>2. \A q : q \in topicUsers'[e] <=> q \in topicUsers[e]
      BY <1>4, <1>5, <2>1
    <2> QED
      BY <2>2, Zenon
  <1>6. topicUsers'[a] = {q \in users' : TopicOf[q] = a} /\ topicUsers[a] = {q \in users : TopicOf[q] = a}
    BY <1>1 DEF topicUsers
  <1>7. IsFiniteSet(topicUsers[a]) /\ Cardinality(topicUsers[a]) \in Nat
    BY <1>1, CountsFinite
  <1>8. \/ h.ref = hdl[a].ref + 1 /\ Cardinality(topicUsers'[a]) = Cardinality(topicUsers[a]) + 1
        \/ h.ref = hdl[a].ref - 1 /\ Cardinality(topicUsers'[a]) = Cardinality(topicUsers[a]) - 1
    <2>1. CASE r \notin users /\ r \in users' /\ h.ref = hdl[a].ref + 1
      <3>1. \A q : q \in topicUsers'[a] <=> q \in topicUsers[a] \cup {r}
        BY <1>4, <1>6, <2>1
      <3>2. topicUsers'[a] = topicUsers[a] \cup {r}
        BY <3>1, Zenon
      <3>3. r \notin topicUsers[a]
        BY <1>6, <2>1
      <3>4. Cardinality(topicUsers[a] \cup {r}) = Cardinality(topicUsers[a]) + 1
        BY <1>7, <3>3, FS_AddElement
      <3> QED
        BY <2>1, <3>2, <3>4
    <2>2. CASE r \in users /\ r \notin users' /\ h.ref = hdl[a].ref - 1
      <3>1. \A q : q \in topicUsers'[a] <=> q \in topicUsers[a] \ {r}
        BY <1>4, <1>6, <2>2
      <3>2. topicUsers'[a] = topicUsers[a] \ {r}
        BY <3>1, Zenon
      <3>3. r \in topicUsers[a]
        BY <1>6, <2>2
      <3>4. Cardinality(topicUsers[a] \ {r}) = Cardinality(topicUsers[a]) - 1
        BY <1>7, <3>3, FS_RemoveElement
      <3> QED
        BY <2>2, <3>2, <3>4
    <2> QED
      BY <2>1, <2>2
  <1> SUFFICES ASSUME NEW e \in Entities
               PROVE  hdl'[e].ref = Own(hdl', Implicit, e) + Cardinality(children[e]) + Cardinality(topicUsers'[e])
    BY <1>3 DEF RefsOK
  <1>9. hdl[e].ref = Own(hdl, Implicit, e) + Cardinality(children[e]) + Cardinality(topicUsers[e])
    BY DEF RefsOK
  <1>10. Own(hdl', Implicit, e) = Own(hdl, Implicit, e) /\ Own(hdl, Implicit, e) \in {0, 1}
    <2>1. CASE e = a
      BY <1>2, <2>1 DEF Own
    <2>2. CASE e # a
      BY <1>2, <2>2 DEF Own
    <2> QED
      BY <2>1, <2>2
  <1>11. Cardinality(children[e]) \in Nat
    BY CountsFinite
  <1>12. CASE e # a
    BY <1>2, <1>5, <1>9, <1>10, <1>12
  <1>13. CASE e = a
    BY <1>2, <1>7, <1>8, <1>9, <1>10, <1>11, <1>13
  <1> QED
    BY <1>12, <1>13

LEMMA AddTopicRefI ==
    ASSUME IInv, NEW t \in Threads, AddTopicRef(t), UNCHANGED app
    PROVE  IInv'
  <1> DEFINE f == Top(t)  r == f.arg  a == TopicOf[r]  h == AddRef(hdl[a])  g == [f EXCEPT !.pc = "cregister"]
  <1>1. ~Idle(t) /\ f.pc = "cref" /\ TypeOK /\ UNCHANGED <<app, stage, children, mutex, ret, uses>>
    BY DEF AddTopicRef, At, IInv
  <1>2. Typed
    BY <1>1, NothingTyped
  <1>3. CASE Goto(t, "crejected") /\ UNCHANGED hdl
    <2>1. <<f.pc, "crejected">> \in QuietMoves
      BY <1>1 DEF QuietMoves
    <2> QED
      BY <1>1, <1>2, <1>3, <2>1, JustGoto
  <1>4. CASE hdl' = [hdl EXCEPT ![a] = AddRef(@)] /\ Goto(t, "cregister")
    <2>1. f \in Frame /\ Last(t) \in Pos /\ call[Last(t)] = f /\ FrameOK(f, Implicit) /\ f.e \in Entities
          /\ DepthAt(Last(t), f) /\ FrameTrue(f, stage, hdl, children) /\ Next1(t) \notin Pos
      BY <1>1, TopFrame
    <2>2. f.how \in {"create", "create_implicit"} /\ f.how \notin {"from_parent", "explicit"}
          /\ f.arg \in Readers /\ f.e = Parent[f.arg] /\ a \in Entities
      BY <1>1, <2>1, CreationFrame DEF Creations, Making, OfParticipant
    <2>3. OneHandle(a, h) /\ stack' = With(t, g)
      BY <1>4 DEF OneHandle, Goto, GotoPc
    <2>4. g \in Frame /\ g.pc = "cregister" /\ g.e = f.e /\ g.how = f.how /\ g.arg = f.arg
      BY <2>1, GotoFrame DEF InCall
    <2>5. hdl[a] \in CntFlags
      BY <1>1, <2>2 DEF TypeOK
    <2>6. h \in CntFlags /\ h.pin = hdl[a].pin /\ h.ref = hdl[a].ref + 1
          /\ (h.closing <=> hdl[a].closing) /\ (h.deferred <=> hdl[a].deferred)
      BY <2>5, HandleFields, HandleKept
    <2> HIDE DEF h, g
    <2>7. Moves(t, g) /\ stack' \in [Threads -> Seq(Frame)]
      BY <1>1, <2>3, <2>4, WithMoves
    <2>8. Pinned(g) = Pinned(f)
      BY <1>1, <2>4, PinnedIs DEF WithTopic
    <2>9. /\ hdl' \in [Entities -> CntFlags] /\ Balance(Pinned(f), Pinned(g))
          /\ \A x \in Entities : hdl[x].closing => hdl'[x].closing
      BY <1>1, <2>2, <2>3, <2>6, <2>8, OneHandleType, OneHandlePins
    <2>10. TypeOK'
      BY <1>1, <1>2, <2>7, <2>9 DEF TypeOK, Typed
    <2>11. FrameOK(g, Implicit)
      BY <2>2, <2>4 DEF FrameOK, Deleting, BeforeLeaving, AfterLeaving, Creations, Making, OfParticipant
    <2>12. FrameTrue(g, stage, hdl', children)
      BY <1>1, <2>1, <2>4, <2>8 DEF FrameTrue, Deleting, BeforeLeaving, AfterLeaving, Left, Making
    <2>13. Fits(t, Last(t), g, hdl')
      <3>1. stack[t] \in Seq(Frame)
        BY <1>1 DEF TypeOK
      <3>2. DepthAt(Last(t), g)
        BY <2>1, <2>2, <2>4, <3>1, DepthAtBottom
      <3> QED
        BY <1>1, <2>1, <2>4, <2>8, <2>11, <2>12, <3>2 DEF Fits, Making, Past, Deleting, BeforeLeaving, AfterLeaving
    <2>14. r \notin users
      <3>1. stage[r] = "unborn"
        BY <1>1, <2>1 DEF FrameTrue, Making
      <3>2. \A x \in Pos : ~Takes(call[x], r)
        BY <1>1, <2>1 DEF IInv, Sole, Making, Takes
      <3> QED
        BY <1>1, <2>2, <3>1, <3>2, UsersAre DEF UsersMean
    <2>15. r \in users'
      <3>1. UsersMean'
        <4>1. TypeOK' => UsersMean'
          BY UsersAre, PTL
        <4> QED
          BY <2>10, <4>1
      <3>2. Last(t) \in Pos' /\ Takes(call'[Last(t)], r)
        BY <2>4, <2>7 DEF Moves, Takes
      <3> QED
        BY <2>2, <3>1, <3>2 DEF UsersMean
    <2>16. ASSUME NEW q \in Readers, q # r PROVE q \in users' <=> q \in users
      <3>1. \A y \in {Last(t), Next1(t)} :
               /\ (y \in Pos' /\ Drops(call'[y], q)) <=> (y \in Pos /\ Drops(call[y], q))
               /\ (y \in Pos' /\ Takes(call'[y], q)) <=> (y \in Pos /\ Takes(call[y], q))
        BY <1>1, <2>1, <2>4, <2>7, <2>16 DEF Moves, Drops, Takes
      <3>2. Others(t) /\ UNCHANGED stage
        BY <1>1, <2>7 DEF Moves
      <3> QED
        BY <1>1, <2>10, <3>1, <3>2, UsersStep
    <2> HIDE DEF r
    <2>17. RefsOK'
      BY <1>1, <2>2, <2>3, <2>6, <2>10, <2>14, <2>15, <2>16, TopicRefs DEF IInv, r
    <2> QED
      BY <1>1, <1>2, <2>7, <2>9, <2>13, <2>17, MoveStep
  <1> QED
    BY <1>3, <1>4 DEF AddTopicRef

\* A reader whose deletion has come to dds_reader_delete has its reference.
\* A reader's deletion has its topic until dds_reader_delete drops it.
LEMMA LeaverUses ==
    ASSUME IInv, NEW x \in Pos, call[x].pc = "deriver", call[x].e \in Readers
    PROVE  HasTopic(call[x].e)
  <1> DEFINE r == call[x].e
  <1>1. TypeOK /\ Alone /\ FramesOK
    BY DEF IInv
  <1>2. FrameTrue(call[x], stage, hdl, children)
    BY <1>1 DEF FramesOK
  <1>3. stage[r] = "unlinked"
    BY <1>2 DEF FrameTrue, Left
  <1>4. ASSUME NEW y \in Pos, Drops(call[y], r) PROVE FALSE
    <2>1. call[y] \in Frame /\ FrameOK(call[y], Implicit)
      BY <1>1, CallType DEF FramesOK
    <2>2. r \in Pinned(call[y])
      BY <1>1, <1>4, <2>1, PinnedType, ImplicitType DEF Drops, Deleting, AfterLeaving
    <2>3. x = y
      BY <1>1, <2>2 DEF Alone, Past
    <2> QED
      BY <1>4, <2>3 DEF Drops
  <1> QED
    BY <1>1, <1>3, <1>4, UsersAre DEF UsersMean, users

LEMMA DeleterUses ==
    ASSUME IInv, NEW t \in Threads, ~Idle(t), Top(t).pc = "deriver", Top(t).e \in Readers
    PROVE  Top(t).e \in users
  <1>1. Last(t) \in Pos /\ call[Last(t)] = Top(t)
    BY TopFrame
  <1> QED
    BY <1>1, LeaverUses DEF users

\* The frame below, or at the end, of a reader's deletion.
LEMMA ReaderLeaves ==
    ASSUME IInv, TypeOK', NEW t \in Threads, ~Idle(t), Top(t).pc = "deriver", Top(t).e \in Readers,
           UNCHANGED <<app, stage, children>>,
           NEW g \in Frame, g.pc \in {"dropped", "free"}, g.e = Top(t).e, g.how = Top(t).how, g.arg = Top(t).arg,
           \/ Moves(t, g)
           \/ \E c : Pushes(t, c, g) /\ c.pc = "pin",
           OneHandle(TopicOf[Top(t).e], DropRef(hdl[TopicOf[Top(t).e]]))
    PROVE  /\ RefsOK' /\ Fits(t, Last(t), g, hdl') /\ Balance(Pinned(Top(t)), Pinned(g))
           /\ \A x \in Entities : hdl[x].closing => hdl'[x].closing
  <1> DEFINE f == Top(t)  r == f.e  a == TopicOf[r]  h == DropRef(hdl[a])
  <1>1. TypeOK /\ RefsOK /\ TypeOK'
    BY DEF IInv
  <1>2. f \in Frame /\ Last(t) \in Pos /\ call[Last(t)] = f /\ FrameOK(f, Implicit) /\ FrameTrue(f, stage, hdl, children)
        /\ DepthAt(Last(t), f) /\ Next1(t) \notin Pos /\ r \in Entities
    BY TopFrame
  <1>3. a \in Entities /\ hdl[a] \in CntFlags
    BY <1>1, Tree DEF TypeOK
  <1>4. r \in users
    BY DeleterUses
  <1>5. hdl[a].ref \in Nat \ {0}
    <2>1. r \in topicUsers[a]
      BY <1>3, <1>4 DEF topicUsers
    <2> QED
      BY <1>3, <2>1, RefsPositive
  <1>6. h \in CntFlags /\ h.pin = hdl[a].pin /\ h.ref = hdl[a].ref - 1
        /\ (h.closing <=> hdl[a].closing) /\ (h.deferred <=> hdl[a].deferred)
    BY <1>3, <1>5, HandleFields, HandleKept
  <1>7. OneHandle(a, h)
    OBVIOUS
  <1> HIDE DEF h
  <1>8. Pinned(f) = {r, f.arg} \ {0} /\ Pinned(g) = {r, f.arg} \ {0}
    BY PinnedIs DEF AfterLeaving
  <1>9. Balance(Pinned(f), Pinned(g)) /\ \A x \in Entities : hdl[x].closing => hdl'[x].closing
    BY <1>1, <1>3, <1>6, <1>7, <1>8, OneHandleType, OneHandlePins
  <1>10. FrameOK(g, Implicit)
    BY <1>2 DEF FrameOK, Deleting, BeforeLeaving, AfterLeaving, Creations, Making, OfParticipant
  <1>11. FrameTrue(g, stage, hdl', children)
    <2>1. f.arg # 0 => f.arg \in Entities /\ hdl[f.arg].closing /\ stage[f.arg] = "live"
      BY <1>1, <1>2, ImplicitType DEF FrameOK, FrameTrue, AfterLeaving
    <2>2. hdl[r].closing /\ stage[r] = "unlinked"
      BY <1>2 DEF FrameTrue, Deleting, AfterLeaving, Left
    <2>3. hdl'[g.e].closing /\ (g.arg # 0 => hdl'[g.arg].closing)
      BY <1>2, <1>9, <2>1, <2>2
    <2>4. \A e \in Pinned(g) : stage[e] \in {"live", "unlinked"}
      BY <1>2, <1>8 DEF FrameTrue
    <2> QED
      BY <2>1, <2>2, <2>3, <2>4 DEF FrameTrue, Deleting, BeforeLeaving, AfterLeaving, Left, Making
  <1>12. Fits(t, Last(t), g, hdl')
    <2>1. DepthAt(Last(t), g)
      BY <1>2 DEF DepthAt, AfterLeaving
    <2> QED
      BY <1>2, <1>8, <1>10, <1>11, <2>1 DEF Fits, Making, Past, Deleting, BeforeLeaving, AfterLeaving
  <1>13. Last(t) \in Pos' /\ call'[Last(t)] = g /\ Others(t)
         /\ (Next1(t) \in Pos' => call'[Next1(t)].pc = "pin")
    BY DEF Moves, Pushes
  <1>14. UsersMean'
    <2>1. TypeOK' => UsersMean'
      BY UsersAre, PTL
    <2> QED
      BY <1>1, <2>1
  <1>15. r \notin users'
    <2>1. Drops(call'[Last(t)], r)
      BY <1>13 DEF Drops
    <2>2. \A x \in Pos' : ~Takes(call'[x], r)
      <3>1. ASSUME NEW x \in Pos', Takes(call'[x], r) PROVE FALSE
        <4>1. x # Last(t) /\ x # Next1(t)
          BY <1>13, <3>1 DEF Takes
        <4>2. x \in Pos /\ call[x].pc = "cregister" /\ call[x].arg = r
          BY <1>1, <1>13, <3>1, <4>1, OthersKeep DEF Takes
        <4>3. stage[r] = "unborn"
          BY <4>2 DEF IInv, FramesOK, FrameTrue, Making
        <4> QED
          BY <1>2, <4>3 DEF FrameTrue, Left
      <3> QED
        BY <3>1
    <2> QED
      BY <1>13, <1>14, <2>1, <2>2 DEF UsersMean
  <1>16. ASSUME NEW q \in Readers, q # r PROVE q \in users' <=> q \in users
    <2>1. \A y \in {Last(t), Next1(t)} :
             /\ (y \in Pos' /\ Drops(call'[y], q)) <=> (y \in Pos /\ Drops(call[y], q))
             /\ (y \in Pos' /\ Takes(call'[y], q)) <=> (y \in Pos /\ Takes(call[y], q))
      BY <1>2, <1>13, <1>16 DEF Drops, Takes
    <2> QED
      BY <1>1, <1>13, <2>1, UsersStep
  <1> HIDE DEF r
  <1>17. RefsOK'
    BY <1>1, <1>3, <1>4, <1>6, <1>7, <1>15, <1>16, TopicRefs DEF r
  <1> QED
    BY <1>9, <1>12, <1>17

LEMMA PushStep ==
    ASSUME IInv, NEW t \in Threads, ~Idle(t), Typed, UNCHANGED <<app, stage, children>>,
           hdl' \in [Entities -> CntFlags], stack' \in [Threads -> Seq(Frame)],
           NEW c, NEW g, Pushes(t, c, g), Pinned(c) = {},
           \A e \in Entities : hdl[e].closing => hdl'[e].closing,
           Fits(t, Last(t), g, hdl'), Fits(t, Next1(t), c, hdl'),
           Balance(Pinned(Top(t)), Pinned(g)), RefsOK'
    PROVE  IInv'
  <1>1. TypeOK /\ DepthOK /\ PinsOK
    BY DEF IInv
  <1>2. TypeOK'
    BY <1>1 DEF TypeOK, Typed
  <1>3. Next1(t) \notin Pos /\ call[Last(t)] = Top(t)
    BY TopFrame
  <1>4. Control'
    <2>1. Others(t) /\ call'[Last(t)] = g /\ call'[Next1(t)] = c
      BY DEF Pushes
    <2>2. \A y \in {Last(t), Next1(t)} : y \in Pos' => Fits(t, y, call'[y], hdl')
      BY <2>1
    <2> QED
      BY <1>2, <1>3, <2>1, <2>2, ControlStep
  <1>5. PinsOK'
    <2>1. Changes(t, Pinned(Top(t)), Pinned(g))
      BY <1>3 DEF Changes
    <2> QED
      BY <1>1, <2>1, PinsBalance
  <1> QED
    BY <1>4, <1>5 DEF IInv, Control

LEMMA ReaderDeleteI ==
    ASSUME IInv, NEW t \in Threads, ReaderDelete(t), UNCHANGED app
    PROVE  IInv'
  <1> DEFINE f == Top(t)  r == f.e  a == TopicOf[r]
  <1>1. ~Idle(t) /\ f.pc = "deriver" /\ r \in Readers /\ TypeOK /\ UNCHANGED <<app, stage, children, mutex, ret, uses>>
        /\ OneHandle(a, DropRef(hdl[a]))
    BY DEF ReaderDelete, At, IInv, OneHandle
  <1>2. Typed
    BY <1>1, NothingTyped
  <1>3. f \in Frame /\ r \in Entities /\ Last(t) \in Pos /\ Next1(t) \notin Pos /\ DepthAt(Last(t), f)
    BY <1>1, TopFrame
  <1>4. a \in Entities /\ Kind[a] = "topic" /\ Kind[r] = "reader"
    BY <1>1, <1>3, Tree
  <1>5. hdl' \in [Entities -> CntFlags]
    <2>1. r \in topicUsers[a]
      BY <1>1, <1>4, DeleterUses DEF topicUsers
    <2>2. hdl[a].ref \in Nat \ {0} /\ hdl[a] \in CntFlags
      BY <1>1, <1>4, <2>1, RefsPositive DEF TypeOK
    <2>3. DropRef(hdl[a]) \in CntFlags
      BY <2>2, HandleKept
    <2> QED
      BY <1>1, <1>4, <2>3 DEF OneHandle, TypeOK
  <1>6. CASE Goto(t, "free")
    <2> DEFINE g == [f EXCEPT !.pc = "free"]
    <2>1. stack' = With(t, g)
      BY <1>6 DEF Goto, GotoPc
    <2>2. g \in Frame /\ g.pc = "free" /\ g.e = r /\ g.how = f.how /\ g.arg = f.arg
      BY <1>3, GotoFrame DEF Deleting, AfterLeaving
    <2> HIDE DEF g
    <2>3. Moves(t, g) /\ stack' \in [Threads -> Seq(Frame)]
      BY <1>1, <2>1, <2>2, WithMoves
    <2>4. TypeOK'
      BY <1>1, <1>2, <1>5, <2>3 DEF TypeOK, Typed
    <2>5. /\ RefsOK' /\ Fits(t, Last(t), g, hdl') /\ Balance(Pinned(f), Pinned(g))
          /\ \A x \in Entities : hdl[x].closing => hdl'[x].closing
      BY <1>1, <2>2, <2>3, <2>4, ReaderLeaves
    <2> QED
      BY <1>1, <1>2, <1>5, <2>3, <2>5, MoveStep
  <1>7. CASE stack' = [stack EXCEPT ![t] = <<Call(a, "explicit"), [f EXCEPT !.pc = "dropped"]>> \o Tail(@)]
    <2> DEFINE g == [f EXCEPT !.pc = "dropped"]  c == Call(a, "explicit")
    <2>1. Calls(t, c, g)
      BY <1>7 DEF Calls
    <2>2. g \in Frame /\ g.pc = "dropped" /\ g.e = r /\ g.how = f.how /\ g.arg = f.arg
      BY <1>3, GotoFrame DEF Deleting, AfterLeaving
    <2>3. /\ c \in Frame /\ c.pc = "pin" /\ c.e = a /\ c.how = "explicit" /\ Pinned(c) = {}
          /\ FrameOK(c, Implicit) /\ FrameTrue(c, stage, hdl', children)
      <3>1. /\ c \in Frame /\ c.pc = "pin" /\ c.e = a /\ c.how = "explicit" /\ Pinned(c) = {}
            /\ FrameOK(c, Implicit)
        BY <1>4, CallFits
      <3>2. FrameTrue(c, stage, hdl', children)
        BY <3>1 DEF FrameTrue, Deleting, BeforeLeaving, AfterLeaving, Left, Making
      <3> QED
        BY <3>1, <3>2
    <2> HIDE DEF g, c
    <2>4. Pushes(t, c, g) /\ stack' \in [Threads -> Seq(Frame)]
      BY <1>1, <2>1, <2>2, <2>3, CallPushes
    <2>5. TypeOK'
      BY <1>1, <1>2, <1>5, <2>4 DEF TypeOK, Typed
    <2>6. /\ RefsOK' /\ Fits(t, Last(t), g, hdl') /\ Balance(Pinned(f), Pinned(g))
          /\ \A x \in Entities : hdl[x].closing => hdl'[x].closing
      BY <1>1, <2>2, <2>3, <2>4, <2>5, ReaderLeaves
    <2>7. Fits(t, Next1(t), c, hdl')
      <3>1. DepthAt(Next1(t), c)
        <4>1. Len(stack[t]) \in Nat
          BY <1>1 DEF TypeOK
        <4>2. Len(stack[t]) <= 3
          BY <1>3, <1>4 DEF DepthAt, Last, Rank
        <4> QED
          BY <1>4, <2>3, <4>1, <4>2 DEF DepthAt, Next1, Rank, AfterLeaving
      <3> QED
        BY <2>3, <3>1 DEF Fits, Making, Past, Deleting, BeforeLeaving, AfterLeaving
    <2> QED
      BY <1>1, <1>2, <1>5, <2>3, <2>4, <2>6, <2>7, PushStep
  <1> QED
    BY <1>6, <1>7 DEF ReaderDelete

\* The last child closes its implicit parent.
LEMMA CloseParentI ==
    ASSUME IInv, NEW t \in Threads, CloseParent(t), UNCHANGED app
    PROVE  IInv'
  <1> DEFINE f == Top(t)  p == Parent[f.e]  h == Close(hdl[p])  g == [f EXCEPT !.pc = "deriver", !.arg = p]
  <1>1. ~Idle(t) /\ f.pc = "closeparent" /\ TypeOK /\ UNCHANGED <<app, stage, children, ret, uses>>
        /\ OneHandle(p, h) /\ stack' = Broadcast(With(t, g), p) /\ mutex' = [mutex EXCEPT ![p] = 0]
    BY DEF CloseParent, At, IInv, OneHandle
  <1>2. Typed
    BY <1>1, MutexTyped
  <1>3. f \in Frame /\ f.e \in Entities /\ Last(t) \in Pos /\ call[Last(t)] = f /\ FrameOK(f, Implicit)
        /\ FrameTrue(f, stage, hdl, children) /\ DepthAt(Last(t), f)
    BY <1>1, TopFrame
  <1>4. p \in Implicit /\ f.how \in {"user", "implicit", "explicit"}
    BY <1>1, <1>3 DEF FrameOK, Deleting, BeforeLeaving
  <1>5. p \in Entities /\ Kind[p] = "subscriber" /\ p # 0 /\ p \in Nat
    <2>1. p \in Entities
      BY <1>1, <1>4, ImplicitType
    <2>2. Kind[p] = "subscriber"
      BY <1>1, <1>4, <2>1, TreeAssumption DEF TypeOK, Implicit
    <2> QED
      BY <2>1, <2>2, Tree
  <1>6. f.how \notin {"from_parent", "explicit"}
    <2>1. Kind[f.e] # "topic"
      BY <1>3, <1>5, Tree
    <2> QED
      BY <1>3, <1>4, <2>1 DEF FrameOK
  <1>7. hdl[p] \in CntFlags
    BY <1>1, <1>5 DEF TypeOK
  <1>8. h \in CntFlags /\ h.pin = hdl[p].pin /\ h.ref = hdl[p].ref /\ h.closing
        /\ (h.deferred <=> hdl[p].deferred)
    BY <1>7, HandleFields, HandleKept
  <1>9. "deriver" \in Deleting
    BY DEF Deleting, AfterLeaving
  <1>10. f.pc = "closeparent" /\ Pinned(f) = {f.e, p}
    BY <1>1, PinnedIs
  <1> HIDE DEF f, h
  <1>11. g \in Frame
    BY <1>3, <1>5, <1>9, Zenon DEF Frame
  <1>12. g.pc = "deriver" /\ g.e = f.e /\ g.how = f.how /\ g.arg = p
    BY <1>3 DEF Frame
  <1> HIDE DEF g
  <1>13. Moves(t, g) /\ stack' \in [Threads -> Seq(Frame)]
    BY <1>1, <1>11, <1>12, BroadcastMoves
  <1>14. Pinned(g) = Pinned(f) /\ NoRefs(f, g)
    <2>1. Pinned(g) = {f.e, p} \ {0}
      BY <1>12, PinnedIs DEF AfterLeaving
    <2>2. f.e # 0
      BY <1>3, LifecycleAssumption
    <2> QED
      BY <1>5, <1>10, <1>12, <2>1, <2>2 DEF NoRefs, Drops, Takes
  <1>15. /\ hdl' \in [Entities -> CntFlags] /\ hdl'[p] = h /\ Balance(Pinned(f), Pinned(g)) /\ SameRefs
         /\ \A x \in Entities : hdl[x].closing => hdl'[x].closing
    BY <1>1, <1>4, <1>5, <1>8, <1>14, OneHandleType, OneHandlePins, OneHandleRefs
  <1>16. FrameOK(g, Implicit)
    BY <1>3, <1>4, <1>6, <1>12 DEF FrameOK, Deleting, BeforeLeaving, AfterLeaving, Creations, Making, OfParticipant
  <1>17. FrameTrue(g, stage, hdl', children)
    <2>1. hdl[f.e].closing /\ stage[f.e] = "unlinked" /\ stage[p] = "live"
      BY <1>3, <1>10 DEF FrameTrue, Deleting, BeforeLeaving, Left
    <2>2. hdl'[g.e].closing /\ hdl'[g.arg].closing
      BY <1>3, <1>8, <1>12, <1>15, <2>1
    <2>3. \A e \in Pinned(g) : stage[e] \in {"live", "unlinked"}
      BY <1>3, <1>14 DEF FrameTrue
    <2> QED
      BY <1>12, <2>1, <2>2, <2>3 DEF FrameTrue, Deleting, BeforeLeaving, AfterLeaving, Left, Making
  <1>18. DepthAt(Last(t), g)
    <2>1. stack[t] \in Seq(Frame)
      BY <1>1 DEF TypeOK
    <2> QED
      BY <1>3, <1>6, <1>12, <2>1, DepthAtBottom
  <1>19. Fits(t, Last(t), g, hdl')
    BY <1>3, <1>10, <1>12, <1>14, <1>16, <1>17, <1>18 DEF Fits, Making, Past, Deleting, BeforeLeaving, AfterLeaving, f
  <1> QED
    BY <1>1, <1>2, <1>13, <1>14, <1>15, <1>19, MoveStep DEF f

----------------------------------------------------------------------------
(* Steps that create and end entities.                                      *)

\* What an end or a birth owes the invariant, counts aside.
LEMMA ControlMoves ==
    ASSUME IInv, TypeOK', TreeOK', NEW t \in Threads, ~Idle(t), UNCHANGED app, Onward(t),
           NEW g,
           \/ Moves(t, g)
           \/ Pops(t),
           Moves(t, g) =>
               /\ FrameOK(g, Implicit) /\ FrameTrue(g, stage', hdl', children') /\ DepthAt(Last(t), g)
               /\ \A e \in Pinned(g) : e \in Pinned(Top(t)) \/ ~hdl[e].closing
               /\ g.pc \in Past => Top(t).pc \in Past /\ g.e = Top(t).e
               /\ g.pc \in Making => Top(t).pc \in Making /\ g.arg = Top(t).arg /\ g.pc # "plock"
               /\ g.pc \in Deleting => g.e \in Implicit \/ (Top(t).pc \in Deleting /\ g.e = Top(t).e)
    PROVE  Control'
  <1> DEFINE f == Top(t)
  <1>1. TypeOK /\ FramesOK /\ Alone /\ Single /\ Sole /\ TreeOK /\ DepthOK
    BY DEF IInv
  <1>2. Last(t) \in Pos /\ Next1(t) \notin Pos /\ call[Last(t)] = f
    BY TopFrame
  <1>3. Others(t) /\ Next1(t) \notin Pos' /\ (Last(t) \in Pos' => Moves(t, g) /\ call'[Last(t)] = g)
    BY DEF Moves, Pops
  <1>4. FramesOK'
    <2>1. \A y \in {Last(t), Next1(t)} : y \in Pos' =>
              FrameOK(call'[y], Implicit) /\ FrameTrue(call'[y], stage', hdl', children')
      BY <1>3
    <2> QED
      BY <1>1, <1>3, <2>1, FramesStep
  <1>5. Alone'
    <2>1. ASSUME NEW w \in Pos, w # Last(t), call[w].pc \in Past, Last(t) \in Pos', call[w].e \in Pinned(g)
          PROVE  FALSE
      <3>1. FrameTrue(call[w], stage, hdl, children)
        BY <1>1 DEF FramesOK
      <3>2. hdl[call[w].e].closing
        BY <2>1, <3>1 DEF FrameTrue, Past, Deleting, BeforeLeaving, AfterLeaving
      <3>3. call[w].e \in Pinned(f)
        BY <1>3, <2>1, <3>2
      <3> QED
        BY <1>1, <1>2, <2>1, <3>3 DEF Alone
    <2>2. Last(t) \in Pos' /\ g.pc \in Past => \A y \in Pos : y # Last(t) => g.e \notin Pinned(call[y])
      BY <1>1, <1>2, <1>3 DEF Alone
    <2> QED
      BY <1>1, <1>2, <1>3, <2>1, <2>2, AloneStep
  <1>5a. Single'
    BY <1>1, <1>2, <1>3, SingleStep
  <1>6. Sole'
    BY <1>1, <1>2, <1>3, SoleStep
  <1>7. DepthOK'
    <2>1. \A y \in {Last(t), Next1(t)} : y \in Pos' => DepthAt(y, call'[y])
      BY <1>3
    <2> QED
      BY <1>1, <1>3, <2>1, DepthStep
  <1> QED
    BY <1>1, <1>4, <1>5, <1>5a, <1>6, <1>7 DEF Control

\* The call that deletes an entity is the only one to have it pinned.
LEMMA DeleterAlone ==
    ASSUME IInv, NEW t \in Threads, ~Idle(t), Top(t).pc \in Past
    PROVE  \A y \in Pos : y # Last(t) => Top(t).e \notin Pinned(call[y])
  <1>1. Last(t) \in Pos /\ call[Last(t)] = Top(t)
    BY TopFrame
  <1> QED
    BY <1>1 DEF IInv, Alone

\* dds_handle_delete takes the handle out of the table.
LEMMA HandleDeleteI ==
    ASSUME IInv, NEW t \in Threads, HandleDelete(t), UNCHANGED app
    PROVE  IInv'
  <1> DEFINE f == Top(t)  e == f.e  g == [f EXCEPT !.pc = "parent", !.arg = 0]
  <1>1. ~Idle(t) /\ f.pc = "handle" /\ TypeOK /\ TreeOK /\ UNCHANGED <<app, hdl, children, mutex, ret, uses>>
        /\ stage' = [stage EXCEPT ![e] = "unlinked"] /\ stack' = With(t, g)
    BY DEF HandleDelete, At, IInv
  <1>2. f \in Frame /\ e \in Entities /\ Last(t) \in Pos /\ call[Last(t)] = f /\ FrameOK(f, Implicit)
        /\ FrameTrue(f, stage, hdl, children) /\ DepthAt(Last(t), f)
    BY <1>1, TopFrame
  <1>3. hdl[e].closing /\ stage[e] = "live"
    BY <1>1, <1>2 DEF FrameTrue, Deleting, BeforeLeaving, Left
  <1>4. \A y \in Pos : y # Last(t) => e \notin Pinned(call[y])
    BY <1>1, DeleterAlone DEF Past
  <1>5. "parent" \in Deleting /\ 0 \in Nat
    BY DEF Deleting, BeforeLeaving
  <1>6. Typed
    BY <1>1, NothingTyped
  <1>7. stage' \in [Entities -> {"unborn", "live", "unlinked", "freed"}] /\ stage'[e] = "unlinked"
        /\ \A x \in Entities : x # e => stage'[x] = stage[x]
    BY <1>1, <1>2 DEF TypeOK
  <1>8. Pinned(f) = {e}
    BY <1>1, PinnedIs DEF Deleting, BeforeLeaving, AfterLeaving
  <1> HIDE DEF f
  <1>9. g \in Frame
    BY <1>2, <1>5, Zenon DEF Frame
  <1>10. g.pc = "parent" /\ g.e = e /\ g.how = f.how /\ g.arg = 0
    BY <1>2 DEF Frame
  <1> HIDE DEF g
  <1>11. Moves(t, g) /\ stack' \in [Threads -> Seq(Frame)]
    BY <1>1, <1>9, WithMoves
  <1>12. TypeOK'
    BY <1>1, <1>6, <1>7, <1>11 DEF TypeOK, Typed
  <1>13. Onward(t)
    BY <1>1, <1>3, <1>4, <1>7 DEF Onward
  <1>14. Pinned(g) = {e} /\ NoRefs(f, g)
    BY <1>1, <1>10, PinnedIs DEF Deleting, BeforeLeaving, AfterLeaving, NoRefs, Drops, Takes
  <1>15. FrameOK(g, Implicit)
    BY <1>1, <1>2, <1>10 DEF FrameOK, Deleting, BeforeLeaving, AfterLeaving, Creations, Making, OfParticipant
  <1>16. FrameTrue(g, stage', hdl', children')
    <2>1. Parent[e] # 0 => e \in children'[Parent[e]]
      BY <1>1, <1>2, <1>3 DEF TreeOK
    <2>2. hdl'[e].closing
      BY <1>1, <1>3
    <2> QED
      BY <1>7, <1>10, <1>14, <2>1, <2>2 DEF FrameTrue, Deleting, BeforeLeaving, AfterLeaving, Left, Making
  <1>17. TreeOK'
    <2> SUFFICES ASSUME NEW c \in Entities
                 PROVE  /\ stage'[c] \in {"unlinked", "freed"} => hdl'[c].closing
                        /\ \A x \in Entities : c \in children'[x] => Parent[c] = x /\ stage'[c] # "unborn"
                        /\ Parent[c] # 0 /\ stage'[c] = "live" => c \in children'[Parent[c]]
                        /\ Parent[c] # 0 /\ stage'[Parent[c]] = "unborn" => stage'[c] = "unborn"
      BY DEF TreeOK
    <2>1. Parent[c] # 0 => Parent[c] \in Entities
      BY LifecycleAssumption
    <2>2. stage'[c] \in {"unlinked", "freed"} => hdl'[c].closing
      BY <1>1, <1>3, <1>7 DEF TreeOK
    <2>3. \A x \in Entities : c \in children'[x] => Parent[c] = x /\ stage'[c] # "unborn"
      BY <1>1, <1>7 DEF TreeOK
    <2>4. Parent[c] # 0 /\ stage'[c] = "live" => c \in children'[Parent[c]]
      BY <1>1, <1>7 DEF TreeOK
    <2>5. Parent[c] # 0 /\ stage'[Parent[c]] = "unborn" => stage'[c] = "unborn"
      BY <1>1, <1>3, <1>7, <2>1 DEF TreeOK
    <2> QED
      BY <2>2, <2>3, <2>4, <2>5
  <1>18. Control'
    <2>1. DepthAt(Last(t), g)
      BY <1>2, <1>10 DEF DepthAt, AfterLeaving
    <2>2. g.pc \notin Making /\ f.pc \in Past /\ f.pc \in Deleting
      BY <1>1, <1>10 DEF Making, Past, Deleting, BeforeLeaving
    <2> QED
      BY <1>1, <1>8, <1>10, <1>11, <1>12, <1>13, <1>14, <1>15, <1>16, <1>17, <2>1, <2>2, ControlMoves DEF f
  <1>19. PinsOK'
    <2>1. Changes(t, Pinned(f), Pinned(g))
      BY <1>2, <1>11 DEF Changes
    <2>2. Balance(Pinned(f), Pinned(g))
      BY <1>1, <1>3, <1>7, <1>8, <1>14 DEF Balance
    <2> QED
      BY <2>1, <2>2, PinsBalance DEF IInv
  <1>20. RefsOK'
    <2>1. \A r \in Readers :
             /\ stage'[r] \in {"live", "unlinked"} <=> stage[r] \in {"live", "unlinked"}
             /\ \A y \in {Last(t), Next1(t)} :
                   /\ (y \in Pos' /\ Drops(call'[y], r)) <=> (y \in Pos /\ Drops(call[y], r))
                   /\ (y \in Pos' /\ Takes(call'[y], r)) <=> (y \in Pos /\ Takes(call[y], r))
      BY <1>2, <1>3, <1>7, <1>11, <1>14 DEF Moves, NoRefs, Readers
    <2>2. \A x \in Entities : hdl'[x].ref - Own(hdl', Implicit, x) = hdl[x].ref - Own(hdl, Implicit, x)
      BY <1>1 DEF Own
    <2> QED
      BY <1>1, <1>11, <1>12, <2>1, <2>2, RefsKept DEF IInv, Moves
  <1> QED
    BY <1>18, <1>19, <1>20 DEF IInv, Control

\* The entity leaves its parent's children, and perhaps pins the parent.
LEMMA Leaves ==
    ASSUME IInv, NEW t \in Threads, At(t, "parent"), Typed, UNCHANGED <<app, stage>>,
           NEW e, e = Top(t).e, NEW p, p = Parent[e], p # 0,
           children' = [children EXCEPT ![p] = @ \ {e}],
           NEW h, OneHandle(p, h), h.ref = hdl[p].ref - 1,
           h.closing <=> hdl[p].closing, h.deferred <=> hdl[p].deferred,
           hdl[p].ref \in Nat \ {0} => h \in CntFlags,
           NEW g \in Frame, Moves(t, g), stack' \in [Threads -> Seq(Frame)],
           g.e = e, g.how = Top(t).how, g.arg = Top(t).arg,
           \/ g.pc = "deriver" /\ h.pin = hdl[p].pin
           \/ /\ g.pc = "closeparent" /\ h.pin = hdl[p].pin + 1 /\ ~hdl[p].closing
              /\ p \in Implicit /\ Top(t).how # "from_parent"
    PROVE  IInv'
  <1> DEFINE f == Top(t)
  <1>1. ~Idle(t) /\ f.pc = "parent" /\ TypeOK /\ TreeOK /\ RefsOK
    BY DEF At, IInv
  <1>2. f \in Frame /\ e \in Entities /\ Last(t) \in Pos /\ call[Last(t)] = f /\ FrameOK(f, Implicit)
        /\ FrameTrue(f, stage, hdl, children) /\ DepthAt(Last(t), f) /\ Next1(t) \notin Pos
    BY <1>1, TopFrame
  <1>3. f.arg = 0 /\ hdl[e].closing /\ stage[e] = "unlinked" /\ e \in children[p]
    BY <1>1, <1>2 DEF FrameOK, FrameTrue, Deleting, BeforeLeaving, Left
  <1>4. p \in Entities /\ p # e
    BY <1>2, Tree
  <1>5. \A y \in Pos : y # Last(t) => e \notin Pinned(call[y])
    BY <1>1, DeleterAlone DEF Past
  <1>6. hdl[p].ref \in Nat \ {0}
    BY <1>3, <1>4, RefsPositive
  <1>7. /\ hdl' \in [Entities -> CntFlags] /\ hdl'[p] = h /\ h \in CntFlags
        /\ \A x \in Entities : x # p => hdl'[x] = hdl[x]
        /\ \A x \in Entities : hdl[x].closing => hdl'[x].closing
    BY <1>1, <1>4, <1>6, OneHandleType
  <1>8. /\ children' \in [Entities -> SUBSET Entities] /\ children'[p] = children[p] \ {e}
        /\ \A x \in Entities : x # p => children'[x] = children[x]
    BY <1>1, <1>4 DEF TypeOK
  <1>9. TypeOK'
    BY <1>1, <1>7, <1>8 DEF TypeOK, Typed
  <1>10. Pinned(f) = {e} /\ NoRefs(f, g)
    BY <1>1, PinnedIs DEF Deleting, BeforeLeaving, AfterLeaving, NoRefs, Drops, Takes
  <1>11. g.pc = "deriver" => Pinned(g) = {e}
    <2>1. g.pc = "deriver" => Pinned(g) = {e, 0} \ {0}
      BY <1>3, PinnedIs DEF AfterLeaving
    <2>2. e # 0
      BY <1>2, LifecycleAssumption
    <2> QED
      BY <2>1, <2>2
  <1>12. g.pc = "closeparent" => Pinned(g) = {e, p}
    BY PinnedIs
  <1>13. g.pc = "closeparent" => stage[p] = "live"
    <2>1. stage[p] \in {"unborn", "live", "unlinked", "freed"}
      BY <1>1, <1>4 DEF TypeOK
    <2>2. ~hdl[p].closing => stage[p] \notin {"unlinked", "freed"}
      BY <1>1, <1>4 DEF TreeOK
    <2>3. stage[p] # "unborn"
      BY <1>1, <1>2, <1>3 DEF TreeOK
    <2> QED
      BY <2>1, <2>2, <2>3
  <1>14. Onward(t)
    <2>1. ASSUME NEW x \in Entities, NEW q \in Entities, x \in children[q]
          PROVE  x \in children'[q] \/ \A y \in Pos : y # Last(t) => x \notin Pinned(call[y])
      BY <1>5, <1>8, <2>1
    <2> QED
      BY <1>7, <2>1 DEF Onward
  <1>15. FrameOK(g, Implicit)
    BY <1>1, <1>2, <1>3 DEF FrameOK, Deleting, BeforeLeaving, AfterLeaving, Creations, Making, OfParticipant
  <1>16. FrameTrue(g, stage', hdl', children')
    <2>1. hdl'[g.e].closing
      BY <1>2, <1>3, <1>7
    <2>2. \A x \in Pinned(g) : stage[x] \in {"live", "unlinked"}
      BY <1>3, <1>11, <1>12, <1>13
    <2> QED
      BY <1>3, <1>13, <2>1, <2>2 DEF FrameTrue, Deleting, BeforeLeaving, AfterLeaving, Left, Making
  <1>17. TreeOK'
    <2> SUFFICES ASSUME NEW c \in Entities
                 PROVE  /\ stage[c] \in {"unlinked", "freed"} => hdl'[c].closing
                        /\ \A x \in Entities : c \in children'[x] => Parent[c] = x /\ stage[c] # "unborn"
                        /\ Parent[c] # 0 /\ stage[c] = "live" => c \in children'[Parent[c]]
                        /\ Parent[c] # 0 /\ stage[Parent[c]] = "unborn" => stage[c] = "unborn"
      BY DEF TreeOK
    <2>1. stage[c] \in {"unlinked", "freed"} => hdl'[c].closing
      BY <1>1, <1>7 DEF TreeOK
    <2>2. \A x \in Entities : c \in children'[x] => Parent[c] = x /\ stage[c] # "unborn"
      BY <1>1, <1>8 DEF TreeOK
    <2>3. Parent[c] # 0 /\ stage[c] = "live" => c \in children'[Parent[c]]
      <3>1. Parent[c] # 0 => Parent[c] \in Entities
        BY LifecycleAssumption
      <3>2. Parent[c] # 0 /\ stage[c] = "live" => c \in children[Parent[c]] /\ c # e
        BY <1>1, <1>3 DEF TreeOK
      <3> QED
        BY <1>8, <3>1, <3>2
    <2> QED
      BY <1>1, <2>1, <2>2, <2>3 DEF TreeOK
  <1>18. Control'
    <2>1. DepthAt(Last(t), g)
      BY <1>2, <1>3 DEF DepthAt, AfterLeaving
    <2>2. g.pc \notin Making /\ f.pc \in Past /\ f.pc \in Deleting
      BY <1>1 DEF Making, Past, Deleting, BeforeLeaving
    <2>3. \A x \in Pinned(g) : x \in Pinned(f) \/ ~hdl[x].closing
      BY <1>10, <1>11, <1>12
    <2> QED
      BY <1>1, <1>9, <1>14, <1>15, <1>16, <1>17, <2>1, <2>2, <2>3, ControlMoves
  <1>19. PinsOK'
    <2>1. Changes(t, Pinned(f), Pinned(g))
      BY <1>2 DEF Changes
    <2>2. Balance(Pinned(f), Pinned(g))
      <3>1. g.pc = "deriver" => Pinned(g) = Pinned(f)
        BY <1>10, <1>11
      <3>2. g.pc = "closeparent" => p \notin Pinned(f) /\ Pinned(g) = Pinned(f) \cup {p}
        BY <1>4, <1>10, <1>12
      <3> QED
        BY <1>1, <1>4, <1>7, <3>1, <3>2, OneHandlePins
    <2> QED
      BY <2>1, <2>2, PinsBalance DEF IInv
  <1>20. RefsOK'
    <2>1. topicUsers' = topicUsers
      <3>1. ASSUME NEW r \in Readers PROVE r \in users' <=> r \in users
        <4>1. \A y \in {Last(t), Next1(t)} :
                   /\ (y \in Pos' /\ Drops(call'[y], r)) <=> (y \in Pos /\ Drops(call[y], r))
                   /\ (y \in Pos' /\ Takes(call'[y], r)) <=> (y \in Pos /\ Takes(call[y], r))
          BY <1>2, <1>10 DEF Moves, NoRefs
        <4> QED
          BY <1>1, <1>9, <4>1, UsersStep DEF Moves
      <3>2. users \subseteq Readers /\ users' \subseteq Readers
        BY DEF users
      <3>3. users' = users
        BY <3>1, <3>2
      <3> QED
        BY <3>3 DEF topicUsers
    <2>2. Implicit' = Implicit
      BY DEF Implicit
    <2> SUFFICES ASSUME NEW x \in Entities
                 PROVE  hdl'[x].ref = Own(hdl', Implicit, x) + Cardinality(children'[x]) + Cardinality(topicUsers[x])
      BY <2>1, <2>2 DEF RefsOK
    <2>3. hdl[x].ref = Own(hdl, Implicit, x) + Cardinality(children[x]) + Cardinality(topicUsers[x])
      BY <1>1 DEF RefsOK
    <2>4. CASE x # p
      BY <1>7, <1>8, <2>3, <2>4 DEF Own
    <2>5. CASE x = p
      <3>1. Own(hdl', Implicit, p) = Own(hdl, Implicit, p)
        BY <1>7 DEF Own
      <3>2. /\ IsFiniteSet(children[p]) /\ Cardinality(children[p]) \in Nat
            /\ Cardinality(topicUsers[p]) \in Nat /\ Own(hdl, Implicit, p) \in {0, 1}
        BY <1>1, <1>4, CountsFinite
      <3>3. Cardinality(children[p] \ {e}) = Cardinality(children[p]) - 1
        BY <1>3, <3>2, FS_RemoveElement
      <3>4. hdl'[p].ref = hdl[p].ref - 1 /\ children'[p] = children[p] \ {e}
        BY <1>7, <1>8
      <3>5. hdl[p].ref = Own(hdl, Implicit, p) + Cardinality(children[p]) + Cardinality(topicUsers[p])
        BY <2>3, <2>5
      <3>6. hdl'[p].ref = Own(hdl', Implicit, p) + Cardinality(children'[p]) + Cardinality(topicUsers[p])
        <4> DEFINE k == Cardinality(children[p])  u == Cardinality(topicUsers[p])  o == Own(hdl, Implicit, p)
        <4>1. k \in Nat /\ u \in Nat /\ o \in {0, 1}
          BY <3>2
        <4>2. hdl[p].ref = o + k + u /\ Own(hdl', Implicit, p) = o
          BY <3>1, <3>5
        <4>3. Cardinality(children'[p]) = k - 1
          BY <3>3, <3>4
        <4> HIDE DEF k, u, o
        <4>4. hdl'[p].ref = o + (k - 1) + u
          BY <3>4, <4>1, <4>2
        <4> QED
          BY <4>2, <4>3, <4>4 DEF u
      <3> QED
        BY <2>5, <3>6
    <2> QED
      BY <2>4, <2>5
  <1> QED
    BY <1>18, <1>19, <1>20 DEF IInv, Control

LEMMA LeaveParentI ==
    ASSUME IInv, NEW t \in Threads, LeaveParent(t), UNCHANGED app
    PROVE  IInv'
  <1> DEFINE f == Top(t)  e == f.e  p == Parent[e]  dropped == DropRef(hdl[p])
  <1>1. ~Idle(t) /\ At(t, "parent") /\ f.pc = "parent" /\ TypeOK /\ p # 0 /\ UNCHANGED <<app, stage, ret, uses>>
        /\ children' = [children EXCEPT ![p] = @ \ {e}]
    BY DEF LeaveParent, At, IInv
  <1>2. f \in Frame /\ e \in Entities
    BY <1>1, TopFrame
  <1>3. p \in Entities /\ hdl[p] \in CntFlags
    BY <1>1, <1>2, Tree DEF TypeOK
  <1>4. dropped.pin = hdl[p].pin /\ dropped.ref = hdl[p].ref - 1
        /\ (dropped.closing <=> hdl[p].closing) /\ (dropped.deferred <=> hdl[p].deferred)
        /\ (hdl[p].ref \in Nat \ {0} => dropped \in CntFlags)
    BY <1>3, HandleFields, HandleKept
  <1>5. CASE /\ DeletesParent(hdl[p], p \in Implicit, f.how # "from_parent")
             /\ hdl' = [hdl EXCEPT ![p] = Pin(dropped)]
             /\ mutex' = [mutex EXCEPT ![p] = t]
             /\ Goto(t, "closeparent")
    <2> DEFINE g == [f EXCEPT !.pc = "closeparent"]  h == Pin(dropped)
    <2>1. OneHandle(p, h) /\ stack' = With(t, g)
      BY <1>5 DEF OneHandle, Goto, GotoPc
    <2>2. ~hdl[p].closing /\ p \in Implicit /\ f.how # "from_parent" /\ hdl[p].ref = 1
      BY <1>5 DEF DeletesParent
    <2> HIDE DEF dropped
    <2>3. h \in CntFlags /\ h.pin = hdl[p].pin + 1 /\ h.ref = hdl[p].ref - 1
          /\ (h.closing <=> hdl[p].closing) /\ (h.deferred <=> hdl[p].deferred)
      <3>1. dropped \in CntFlags
        BY <1>4, <2>2
      <3>2. Pin(dropped) \in CntFlags /\ Pin(dropped).pin = dropped.pin + 1 /\ Pin(dropped).ref = dropped.ref
            /\ (Pin(dropped).closing <=> dropped.closing) /\ (Pin(dropped).deferred <=> dropped.deferred)
        BY <3>1, HandleFields, HandleKept
      <3> QED
        BY <1>4, <3>2
    <2>4. g \in Frame /\ g.pc = "closeparent" /\ g.e = e /\ g.how = f.how /\ g.arg = f.arg
      BY <1>2, GotoFrame DEF Deleting, BeforeLeaving
    <2> HIDE DEF g, h
    <2>5. Moves(t, g) /\ stack' \in [Threads -> Seq(Frame)]
      BY <1>1, <2>1, <2>4, WithMoves
    <2>6. Typed
      BY <1>1, <1>5, MutexTyped
    <2> QED
      BY <1>1, <2>1, <2>2, <2>3, <2>4, <2>5, <2>6, Leaves
  <1>6. CASE /\ hdl' = [hdl EXCEPT ![p] = dropped]
             /\ stack' = Broadcast(GotoPc(t, "deriver"), p)
             /\ UNCHANGED mutex
    <2> DEFINE g == [f EXCEPT !.pc = "deriver"]
    <2>1. OneHandle(p, dropped) /\ stack' = Broadcast(With(t, g), p)
      BY <1>6 DEF OneHandle, GotoPc
    <2>2. g \in Frame /\ g.pc = "deriver" /\ g.e = e /\ g.how = f.how /\ g.arg = f.arg
      BY <1>2, GotoFrame DEF Deleting, AfterLeaving
    <2> HIDE DEF g, dropped
    <2>3. Moves(t, g) /\ stack' \in [Threads -> Seq(Frame)]
      BY <1>1, <2>1, <2>2, BroadcastMoves
    <2>4. Typed
      BY <1>1, <1>6, NothingTyped
    <2> QED
      BY <1>1, <1>4, <2>1, <2>2, <2>3, <2>4, Leaves
  <1> QED
    BY <1>5, <1>6 DEF LeaveParent

\* The memory of an entity is given back when its handle is long closed.
LEMMA Frees ==
    ASSUME IInv, NEW t \in Threads, At(t, "free"), Typed, UNCHANGED <<app, hdl, children>>,
           NEW e, e = Top(t).e, stage' = [stage EXCEPT ![e] = "freed"],
           stack' \in [Threads -> Seq(Frame)], NEW g, NEW after,
           \/ /\ Moves(t, g) /\ Top(t).arg # 0 /\ after = Pinned(g)
              /\ g \in Frame /\ g.pc = "lock" /\ g.e = Top(t).arg /\ g.how = "implicit"
           \/ Pops(t) /\ Top(t).arg = 0 /\ after = {}
    PROVE  IInv'
  <1> DEFINE f == Top(t)
  <1>1. ~Idle(t) /\ f.pc = "free" /\ TypeOK /\ TreeOK /\ RefsOK
    BY DEF At, IInv
  <1>2. f \in Frame /\ e \in Entities /\ Last(t) \in Pos /\ call[Last(t)] = f /\ FrameOK(f, Implicit)
        /\ FrameTrue(f, stage, hdl, children) /\ DepthAt(Last(t), f) /\ Next1(t) \notin Pos
    BY <1>1, TopFrame
  <1>3. hdl[e].closing /\ stage[e] = "unlinked"
    BY <1>1, <1>2 DEF FrameTrue, Deleting, AfterLeaving, Left
  <1>4. \A y \in Pos : y # Last(t) => e \notin Pinned(call[y])
    BY <1>1, DeleterAlone DEF Past
  <1>5. stage' \in [Entities -> {"unborn", "live", "unlinked", "freed"}] /\ stage'[e] = "freed"
        /\ \A x \in Entities : x # e => stage'[x] = stage[x]
    BY <1>1, <1>2 DEF TypeOK
  <1>6. TypeOK'
    BY <1>1, <1>5 DEF TypeOK, Typed
  <1>7. Onward(t)
    BY <1>3, <1>4, <1>5 DEF Onward
  <1>8. Pinned(f) = {e, f.arg} \ {0} /\ e # 0
    BY <1>1, <1>2, PinnedIs, Tree DEF AfterLeaving
  <1>9. f.arg # 0 => /\ f.arg = Parent[e] /\ f.arg \in Entities /\ f.arg # e /\ f.arg \in Implicit
                     /\ hdl[f.arg].closing /\ stage[f.arg] = "live"
    <2>1. f.arg # 0 => f.arg = Parent[e] /\ f.arg \in Implicit /\ hdl[f.arg].closing /\ stage[f.arg] = "live"
      BY <1>1, <1>2 DEF FrameOK, FrameTrue, AfterLeaving
    <2> QED
      BY <1>1, <1>3, <2>1, ImplicitType
  <1>10. Moves(t, g) => f.arg # 0 /\ g.pc = "lock" /\ g.e = f.arg /\ g.how = "implicit"
    BY DEF Moves, Pops
  <1>11. Moves(t, g) => Pinned(g) = {f.arg}
    BY <1>10, PinnedIs DEF Deleting, BeforeLeaving, AfterLeaving
  <1>12. TreeOK'
    <2> SUFFICES ASSUME NEW c \in Entities
                 PROVE  /\ stage'[c] \in {"unlinked", "freed"} => hdl'[c].closing
                        /\ \A x \in Entities : c \in children'[x] => Parent[c] = x /\ stage'[c] # "unborn"
                        /\ Parent[c] # 0 /\ stage'[c] = "live" => c \in children'[Parent[c]]
                        /\ Parent[c] # 0 /\ stage'[Parent[c]] = "unborn" => stage'[c] = "unborn"
      BY DEF TreeOK
    <2>1. Parent[c] # 0 => Parent[c] \in Entities
      BY LifecycleAssumption
    <2>2. stage'[c] \in {"unlinked", "freed"} => hdl'[c].closing
      BY <1>1, <1>3, <1>5 DEF TreeOK
    <2>3. \A x \in Entities : c \in children'[x] => Parent[c] = x /\ stage'[c] # "unborn"
      BY <1>1, <1>5 DEF TreeOK
    <2>4. Parent[c] # 0 /\ stage'[c] = "live" => c \in children'[Parent[c]]
      BY <1>1, <1>5 DEF TreeOK
    <2>5. Parent[c] # 0 /\ stage'[Parent[c]] = "unborn" => stage'[c] = "unborn"
      BY <1>1, <1>3, <1>5, <2>1 DEF TreeOK
    <2> QED
      BY <2>2, <2>3, <2>4, <2>5
  <1>13. Control'
    <2>1. ASSUME Moves(t, g)
          PROVE  /\ FrameOK(g, Implicit) /\ FrameTrue(g, stage', hdl', children') /\ DepthAt(Last(t), g)
                 /\ \A x \in Pinned(g) : x \in Pinned(Top(t)) \/ ~hdl[x].closing
                 /\ g.pc \in Past => Top(t).pc \in Past /\ g.e = Top(t).e
                 /\ g.pc \in Making => Top(t).pc \in Making /\ g.arg = Top(t).arg /\ g.pc # "plock"
                 /\ g.e \in Implicit
      <3>1. FrameOK(g, Implicit)
        BY <1>10, <2>1 DEF FrameOK, Deleting, BeforeLeaving, AfterLeaving, Creations, Making, OfParticipant
      <3>2. FrameTrue(g, stage', hdl', children')
        <4>1. hdl'[g.e].closing /\ stage'[g.e] = "live" /\ Pinned(g) = {g.e}
          BY <1>5, <1>9, <1>10, <1>11, <2>1
        <4> QED
          BY <1>10, <2>1, <4>1 DEF FrameTrue, Deleting, BeforeLeaving, AfterLeaving, Left, Making
      <3>3. DepthAt(Last(t), g)
        <4>1. Last(t)[2] \in Nat /\ ~(Last(t)[2] > 1)
          BY <1>1, <1>2, <1>10, <2>1 DEF DepthAt, AfterLeaving, Last, TypeOK
        <4>2. Rank[Kind[g.e]] \in Nat /\ Rank[Kind[g.e]] >= 1
          BY <1>9, <1>10, <2>1, Tree DEF Rank
        <4> QED
          BY <4>1, <4>2 DEF DepthAt
      <3>4. \A x \in Pinned(g) : x \in Pinned(Top(t))
        BY <1>8, <1>10, <1>11, <2>1
      <3>5. g.pc \notin Past /\ g.pc \notin Making /\ g.e \in Implicit
        BY <1>9, <1>10, <2>1 DEF Past, Making
      <3> QED
        BY <3>1, <3>2, <3>3, <3>4, <3>5
    <2> QED
      BY <1>1, <1>6, <1>7, <1>12, <2>1, ControlMoves
  <1>14. PinsOK'
    <2>1. Changes(t, Pinned(f), after)
      BY <1>2 DEF Changes
    <2>2. Balance(Pinned(f), after)
      <3>1. \A x \in Entities : x # e => (x \in after <=> x \in Pinned(f))
        BY <1>8, <1>9, <1>11, Tree
      <3> QED
        BY <1>5, <3>1 DEF Balance
    <2> QED
      BY <2>1, <2>2, PinsBalance DEF IInv
  <1>15. Others(t) /\ Next1(t) \notin Pos' /\ (Last(t) \in Pos' => call'[Last(t)].pc = "lock")
    BY DEF Moves, Pops
  <1>16. ASSUME NEW r \in Readers PROVE r \in users' <=> r \in users
    <2>1. CASE r # e
      <3>1. \A y \in {Last(t), Next1(t)} :
                 /\ (y \in Pos' /\ Drops(call'[y], r)) <=> (y \in Pos /\ Drops(call[y], r))
                 /\ (y \in Pos' /\ Takes(call'[y], r)) <=> (y \in Pos /\ Takes(call[y], r))
        BY <1>1, <1>2, <1>15, <2>1 DEF Drops, Takes
      <3>2. stage'[r] = stage[r]
        BY <1>5, <2>1 DEF Readers
      <3> QED
        BY <1>1, <1>6, <1>15, <3>1, <3>2, UsersStep
    <2>2. CASE r = e
      <3>1. \A x \in Pos : ~Takes(call[x], e)
        <4>1. ASSUME NEW x \in Pos, Takes(call[x], e) PROVE FALSE
          <5>1. stage[e] = "unborn"
            BY <4>1 DEF IInv, FramesOK, FrameTrue, Making, Takes
          <5> QED
            BY <1>3, <5>1
        <4> QED
          BY <4>1
      <3>2. \A x \in Pos' : ~Takes(call'[x], e)
        <4>1. ASSUME NEW x \in Pos', Takes(call'[x], e) PROVE FALSE
          <5>1. x # Last(t) /\ x # Next1(t)
            BY <1>15, <4>1 DEF Takes
          <5>2. x \in Pos /\ Takes(call[x], e)
            BY <1>1, <1>15, <4>1, <5>1, OthersKeep DEF Takes
          <5> QED
            BY <3>1, <5>2
        <4> QED
          BY <4>1
      <3>3. r \notin users
        <4>1. Drops(call[Last(t)], e)
          BY <1>1, <1>2 DEF Drops
        <4>2. UsersMean
          BY <1>1, UsersAre
        <4> QED
          BY <1>2, <2>2, <3>1, <4>1, <4>2 DEF UsersMean
      <3>4. r \notin users'
        <4>1. TypeOK' => UsersMean'
          BY UsersAre, PTL
        <4>2. UsersMean'
          BY <1>6, <4>1
        <4> QED
          BY <1>5, <2>2, <3>2, <4>2 DEF UsersMean
      <3> QED
        BY <3>3, <3>4
    <2> QED
      BY <2>1, <2>2
  <1>17. RefsOK'
    <2>1. users \subseteq Readers /\ users' \subseteq Readers
      BY DEF users
    <2>2. users' = users
      BY <1>16, <2>1
    <2>3. topicUsers' = topicUsers /\ Implicit' = Implicit
      BY <2>2 DEF topicUsers, Implicit
    <2> QED
      BY <1>1, <2>3 DEF RefsOK, Own
  <1> QED
    BY <1>13, <1>14, <1>17 DEF IInv, Control

LEMMA FreeI ==
    ASSUME IInv, NEW t \in Threads, Free(t), UNCHANGED app
    PROVE  IInv'
  <1> DEFINE f == Top(t)
  <1>1. At(t, "free") /\ ~Idle(t) /\ TypeOK /\ UNCHANGED <<app, hdl, children, mutex, uses>>
        /\ stage' = [stage EXCEPT ![f.e] = "freed"]
    BY DEF Free, At, IInv
  <1>2. f \in Frame
    BY <1>1, TopFrame
  <1>3. CASE f.arg = 0 /\ Return(t, "ok")
    <2>1. Pops(t) /\ stack' \in [Threads -> Seq(Frame)]
      BY <1>1, <1>3, ReturnPops DEF Return
    <2>2. Typed
      BY <1>1, <1>3 DEF TypeOK, Typed, Return
    <2> QED
      BY <1>1, <1>3, <2>1, <2>2, Frees
  <1>4. CASE f.arg # 0 /\ stack' = With(t, [Call(f.arg, "implicit") EXCEPT !.pc = "lock"]) /\ UNCHANGED ret
    <2> DEFINE g == [Call(f.arg, "implicit") EXCEPT !.pc = "lock"]
    <2>1. g = [pc |-> "lock", e |-> f.arg, how |-> "implicit", arg |-> 0, pass |-> 1]
      BY DEF Call
    <2>2. f.arg \in Entities
      <3>1. FrameOK(f, Implicit) /\ f.pc = "free"
        BY <1>1, TopFrame DEF At
      <3> QED
        BY <1>1, <1>4, <3>1, ImplicitType DEF FrameOK, AfterLeaving
    <2>3. g \in Frame /\ g.pc = "lock" /\ g.e = f.arg /\ g.how = "implicit"
      BY <2>1, <2>2 DEF Frame, Deleting, BeforeLeaving
    <2>4. stack' = With(t, g)
      BY <1>4
    <2> HIDE DEF g
    <2>5. Moves(t, g) /\ stack' \in [Threads -> Seq(Frame)]
      BY <1>1, <2>3, <2>4, WithMoves
    <2>6. Typed
      BY <1>1, <1>4, NothingTyped
    <2> QED
      BY <1>1, <1>4, <2>3, <2>5, <2>6, Frees
  <1> QED
    BY <1>3, <1>4 DEF Free

\* dds_create_reader starts: nobody else creates the reader, nor its subscriber.
LEMMA CreateReaderI ==
    ASSUME IInv, NEW t \in Threads, CreateReader(t), UNCHANGED app
    PROVE  IInv'
  <1>1. TypeOK /\ FramesOK /\ Alone /\ Single /\ Sole /\ TreeOK /\ DepthOK /\ PinsOK /\ Idle(t)
        /\ UNCHANGED <<app, stage, children, mutex, ret, uses>>
    BY DEF CreateReader, IInv
  <1>2. PICK r \in Readers \cap Unborn :
          LET sub == Parent[r]
              implicit == sub \in Implicit /\ stage[sub] = "unborn"
              e == IF implicit THEN Parent[sub] ELSE sub
          IN  /\ stage[r] = "unborn" /\ Pinnable(e)
              /\ \A c \in {r} \cup (IF implicit THEN KidsOf(sub) ELSE {}) : ~Creating(c)
              /\ Enter(t, [pc |-> IF implicit THEN "plock" ELSE "clock", e |-> e,
                           how |-> IF implicit THEN "create_implicit" ELSE "create",
                           arg |-> r, pass |-> 1])
    BY DEF CreateReader
  <1> DEFINE sub == Parent[r]
             implicit == sub \in Implicit /\ stage[sub] = "unborn"
             e == IF implicit THEN Parent[sub] ELSE sub
             f == [pc |-> IF implicit THEN "plock" ELSE "clock", e |-> e,
                   how |-> IF implicit THEN "create_implicit" ELSE "create",
                   arg |-> r, pass |-> 1]
             h == Pin(hdl[e])
  <1>3. r \in Entities /\ r \in Nat /\ sub \in Entities /\ Parent[sub] \in Entities /\ e \in Entities
    <2>1. r \in Entities /\ r \in Nat /\ sub \in Entities /\ Kind[sub] = "subscriber"
      BY Tree
    <2> QED
      BY <2>1, Tree
  <1>4. /\ f.pc = "plock" \/ f.pc = "clock"
        /\ f.pc = "plock" <=> implicit
        /\ f.how \in {"create", "create_implicit"} /\ f.arg = r /\ f.e = e
        /\ f.pc = "plock" => f.e = Parent[Parent[r]] /\ stage[Parent[r]] = "unborn"
        /\ f.pc = "clock" => f.e = Parent[r]
    OBVIOUS
  <1>5. f \in Frame
    BY <1>3 DEF Frame, InCall
  <1>6. stack' = [stack EXCEPT ![t] = <<f>>] /\ hdl' = [hdl EXCEPT ![e] = h]
    BY <1>2, <1>4 DEF Enter
  <1>7. stage[r] = "unborn" /\ stage[e] = "live" /\ ~hdl[e].closing
    BY <1>2 DEF Pinnable, Live, CanPin
  <1>8. ASSUME NEW w \in Pos, call[w].pc \in Making
        PROVE  /\ call[w].arg # r
               /\ "plock" \in {call[w].pc, f.pc} => Parent[call[w].arg] # sub
    <2>1. FrameOK(call[w], Implicit) /\ FrameTrue(call[w], stage, hdl, children) /\ call[w] \in Frames
      BY <1>1, FramesAre DEF FramesOK
    <2>2. call[w].how \in {"create", "create_implicit"} /\ call[w].arg \in Readers /\ call[w].pc # "unpin"
      BY <1>8, <2>1 DEF FrameOK, Creations, Making
    <2>3. \A c : c = call[w].arg => Creating(c)
      BY <2>1, <2>2 DEF Creating
    <2>4. call[w].arg # r
      BY <1>2, <2>3
    <2>5. ASSUME f.pc = "plock" PROVE Parent[call[w].arg] # sub
      <3>1. implicit
        BY <1>4, <2>5
      <3>2. \A c \in KidsOf(sub) : ~Creating(c)
        BY <1>2, <3>1
      <3> QED
        BY <2>2, <2>3, <3>2 DEF KidsOf, Readers
    <2>6. ASSUME f.pc = "clock", call[w].pc = "plock" PROVE Parent[call[w].arg] # sub
      <3>1. stage[Parent[call[w].arg]] = "unborn"
        BY <2>1, <2>6 DEF FrameTrue
      <3> QED
        BY <1>4, <1>7, <2>6, <3>1
    <2> QED
      BY <1>4, <2>4, <2>5, <2>6
  <1>9. hdl[e] \in CntFlags
    BY <1>1, <1>3 DEF TypeOK
  <1>10. h \in CntFlags /\ h.pin = hdl[e].pin + 1 /\ h.ref = hdl[e].ref
         /\ (h.closing <=> hdl[e].closing) /\ (h.deferred <=> hdl[e].deferred)
    BY <1>9, HandleFields, HandleKept
  <1> HIDE DEF f, e, h, implicit
  <1>11. Begins(t, f) /\ stack' \in [Threads -> Seq(Frame)]
    BY <1>1, <1>5, <1>6, EnterBegins
  <1>12. OneHandle(e, h)
    BY <1>6 DEF OneHandle
  <1>13. Pinned(f) = {e} /\ Silent(f)
    BY <1>4, PinnedIs DEF InCall, WithTopic, Silent, Drops, Takes
  <1>14. /\ hdl' \in [Entities -> CntFlags] /\ SameRefs /\ Balance({}, Pinned(f))
         /\ \A x \in Entities : hdl[x].closing => hdl'[x].closing
    <2>1. UNCHANGED stage
      BY <1>1
    <2>2. {e} = {} \cup {e} /\ e \notin {}
      OBVIOUS
    <2>3. Balance({}, Pinned(f))
      BY <1>1, <1>3, <1>10, <1>12, <1>13, <2>1, <2>2, OneHandlePins
    <2> QED
      BY <1>1, <1>3, <1>10, <1>12, <2>3, OneHandleType, OneHandleRefs
  <1>15. TypeOK'
    <2>1. Typed
      BY <1>1, NothingTyped
    <2> QED
      BY <1>1, <1>11, <1>14, <2>1 DEF TypeOK, Typed
  <1>16. /\ Others(t) /\ Last(t) \notin Pos' /\ Next1(t) \notin Pos /\ call'[Next1(t)] = f
    BY <1>11 DEF Begins
  <1>17. FrameOK(f, Implicit)
    BY <1>4 DEF FrameOK, Deleting, BeforeLeaving, AfterLeaving, Creations, Making, OfParticipant
  <1>18. FrameTrue(f, stage', hdl', children')
    BY <1>1, <1>4, <1>7, <1>13 DEF FrameTrue, Deleting, BeforeLeaving, AfterLeaving, Left, Making
  <1>19. FramesOK'
    <2>1. Onward(t)
      BY <1>1, <1>14 DEF Onward
    <2> QED
      BY <1>1, <1>16, <1>17, <1>18, <2>1, FramesStep
  <1>20. Alone'
    <2>1. ASSUME NEW w \in Pos, call[w].pc \in Past PROVE call[w].e \notin Pinned(f)
      <3>1. FrameTrue(call[w], stage, hdl, children)
        BY <1>1 DEF FramesOK
      <3>2. hdl[call[w].e].closing
        BY <2>1, <3>1 DEF FrameTrue, Past, Deleting, BeforeLeaving, AfterLeaving
      <3> QED
        BY <1>7, <1>13, <3>2
    <2>2. f.pc \notin Past
      BY <1>4 DEF Past
    <2> QED
      BY <1>1, <1>16, <2>1, <2>2, AloneStep
  <1>20a. Single'
    <2>1. f.pc \notin Deleting
      BY <1>4 DEF Deleting, BeforeLeaving, AfterLeaving
    <2> QED
      BY <1>1, <1>16, <2>1, SingleStep
  <1>21. Sole'
    <2>1. \A w \in Pos : call[w].pc \in Making =>
              /\ call[w].arg # f.arg
              /\ "plock" \in {call[w].pc, f.pc} => Parent[call[w].arg] # Parent[f.arg]
      BY <1>4, <1>8
    <2> QED
      BY <1>1, <1>16, <2>1, SoleStep
  <1>22. TreeOK'
    BY <1>1, <1>14, TreeStep
  <1>23. DepthOK'
    <2>1. Next1(t)[2] = 1
      BY <1>1 DEF Idle, Next1
    <2>2. Rank[Kind[e]] >= 1
      BY <1>3, Tree DEF Rank
    <2>3. DepthAt(Next1(t), f)
      BY <1>4, <2>1, <2>2 DEF DepthAt
    <2> QED
      BY <1>1, <1>16, <2>3, DepthStep
  <1>24. PinsOK'
    <2>1. Changes(t, {}, Pinned(f))
      BY <1>11 DEF Changes
    <2> QED
      BY <1>1, <1>14, <2>1, PinsBalance
  <1>25. RefsOK'
    BY <1>1, <1>11, <1>13, <1>14, <1>15, RefsQuiet
  <1> QED
    BY <1>15, <1>19, <1>20, <1>20a, <1>21, <1>22, <1>23, <1>24, <1>25 DEF IInv

\* dds_entity_init and dds_entity_register_child: an entity is born, under a
\* parent that its creator has pinned.
LEMMA Registers ==
    ASSUME IInv, NEW t \in Threads, ~Idle(t), Typed, UNCHANGED app,
           NEW p \in Entities, NEW c \in Entities, Kind[c] # "topic", Parent[c] = p,
           stage[c] = "unborn", RegisterChild(p, c), p \in Pinned(Top(t)),
           \A y \in Pos : y # Last(t) /\ call[y].pc \in Making =>
               call[y].arg # c /\ (call[y].pc = "plock" => Parent[call[y].arg] # c),
           NEW g \in Frame, Moves(t, g), stack' \in [Threads -> Seq(Frame)],
           FrameOK(g, Implicit), DepthAt(Last(t), g), Pinned(g) = Pinned(Top(t)), g.arg = Top(t).arg,
           \/ /\ Top(t).pc = "plock" /\ g.pc = "punpin" /\ c \notin Readers /\ stage[g.arg] = "unborn"
              /\ g.arg # c /\ g.arg \in Entities
           \/ Top(t).pc = "cregister" /\ g.pc = "ctopicdone" /\ g.arg = c
    PROVE  IInv'
  <1> DEFINE f == Top(t)  h == AddRef(hdl[p])  n == Created(c \in Implicit)
  <1>1. TypeOK /\ FramesOK /\ TreeOK /\ RefsOK /\ PinsOK /\ DepthOK
    BY DEF IInv
  <1>2. f \in Frame /\ Last(t) \in Pos /\ call[Last(t)] = f /\ FrameTrue(f, stage, hdl, children)
        /\ Next1(t) \notin Pos
    BY TopFrame
  <1>3. p # c /\ stage[p] \in {"live", "unlinked"}
    BY <1>2 DEF FrameTrue
  <1>4. /\ h \in CntFlags /\ h.pin = hdl[p].pin /\ h.ref = hdl[p].ref + 1
        /\ (h.closing <=> hdl[p].closing) /\ (h.deferred <=> hdl[p].deferred)
    <2>1. hdl[p] \in CntFlags
      BY <1>1 DEF TypeOK
    <2> QED
      BY <2>1, HandleFields, HandleKept
  <1>5. /\ n \in CntFlags /\ n.pin = 0 /\ n.ref = (IF c \in Implicit THEN 0 ELSE 1)
        /\ ~n.closing /\ ~n.deferred
    BY DEF Created, CntFlags
  <1> HIDE DEF h, n
  <1>6. /\ hdl' \in [Entities -> CntFlags] /\ hdl'[p] = h /\ hdl'[c] = n
        /\ \A x \in Entities : x # p /\ x # c => hdl'[x] = hdl[x]
    <2>1. hdl' = [hdl EXCEPT ![p] = h, ![c] = n]
      BY DEF RegisterChild, h, n
    <2> QED
      BY <1>1, <1>3, <1>4, <1>5, <2>1 DEF TypeOK
  <1>7. /\ stage' \in [Entities -> {"unborn", "live", "unlinked", "freed"}] /\ stage'[c] = "live"
        /\ \A x \in Entities : x # c => stage'[x] = stage[x]
    BY <1>1 DEF RegisterChild, TypeOK
  <1>8. /\ children' \in [Entities -> SUBSET Entities] /\ children'[p] = children[p] \cup {c}
        /\ \A x \in Entities : x # p => children'[x] = children[x]
    BY <1>1 DEF RegisterChild, TypeOK
  <1>9. TypeOK'
    BY <1>1, <1>6, <1>7, <1>8 DEF TypeOK, Typed
  <1>10. \A x \in Pos : c \notin Pinned(call[x])
    <2>1. ASSUME NEW x \in Pos, c \in Pinned(call[x]) PROVE FALSE
      <3>1. stage[c] \in {"live", "unlinked"}
        BY <1>1, <2>1 DEF FramesOK, FrameTrue
      <3> QED
        BY <3>1
    <2> QED
      BY <2>1
  <1>11. hdl[c].pin = 0
    <2>1. pinners[c] = {}
      BY <1>10 DEF pinners
    <2> QED
      BY <1>1, <2>1, FS_EmptySet DEF PinsOK
  <1>12. c \notin children[p] /\ children[c] = {}
    BY <1>1, Tree DEF TreeOK, TypeOK
  <1>13. Onward(t)
    <2>1. ASSUME NEW x \in Entities
          PROVE  \/ stage'[x] = stage[x]
                 \/ /\ stage[x] = "unborn" /\ stage'[x] = "live"
                    /\ \A y \in Pos : y # Last(t) /\ call[y].pc \in Making =>
                          call[y].arg # x /\ (call[y].pc = "plock" => Parent[call[y].arg] # x)
      BY <1>7
    <2>2. ASSUME NEW x \in Entities, stage[x] # "unborn", hdl[x].closing PROVE hdl'[x].closing
      BY <1>4, <1>6, <2>2
    <2>3. ASSUME NEW x \in Entities, NEW q \in Entities, x \in children[q] PROVE x \in children'[q]
      BY <1>8, <2>3
    <2> QED
      BY <2>1, <2>2, <2>3 DEF Onward
  <1>14. TreeOK'
    <2> SUFFICES ASSUME NEW d \in Entities
                 PROVE  /\ stage'[d] \in {"unlinked", "freed"} => hdl'[d].closing
                        /\ \A x \in Entities : d \in children'[x] => Parent[d] = x /\ stage'[d] # "unborn"
                        /\ Parent[d] # 0 /\ stage'[d] = "live" => d \in children'[Parent[d]]
                        /\ Parent[d] # 0 /\ stage'[Parent[d]] = "unborn" => stage'[d] = "unborn"
      BY DEF TreeOK
    <2>1. Parent[d] # 0 => Parent[d] \in Entities
      BY LifecycleAssumption
    <2>2. stage'[d] \in {"unlinked", "freed"} => hdl'[d].closing
      BY <1>1, <1>4, <1>6, <1>7 DEF TreeOK
    <2>3. \A x \in Entities : d \in children'[x] => Parent[d] = x /\ stage'[d] # "unborn"
      BY <1>1, <1>7, <1>8 DEF TreeOK
    <2>4. Parent[d] # 0 /\ stage'[d] = "live" => d \in children'[Parent[d]]
      BY <1>1, <1>7, <1>8, <2>1 DEF TreeOK
    <2>5. Parent[d] # 0 /\ stage'[Parent[d]] = "unborn" => stage'[d] = "unborn"
      BY <1>1, <1>3, <1>7, <2>1 DEF TreeOK
    <2> QED
      BY <2>2, <2>3, <2>4, <2>5
  <1>15. FrameTrue(g, stage', hdl', children')
    <2>1. \A e \in Pinned(g) : stage'[e] \in {"live", "unlinked"}
      <3>1. Pinned(f) \subseteq Entities
        BY TopFrame
      <3> QED
        BY <1>2, <1>7, <3>1 DEF FrameTrue
    <2>2. g.pc = "punpin" => stage'[g.arg] = "unborn"
      BY <1>7
    <2> QED
      BY <2>1, <2>2 DEF FrameTrue, Deleting, BeforeLeaving, AfterLeaving, Left, Making
  <1>16. Control'
    <2>1. g.pc \notin Past /\ g.pc \notin Deleting /\ g.pc # "plock" /\ (g.pc \in Making => f.pc \in Making)
      BY DEF Past, Making, Deleting, BeforeLeaving, AfterLeaving
    <2> QED
      BY <1>9, <1>13, <1>14, <1>15, <2>1, ControlMoves
  <1>17. PinsOK'
    <2>1. Changes(t, Pinned(f), Pinned(g))
      BY <1>2 DEF Changes
    <2>2. Balance(Pinned(f), Pinned(g))
      BY <1>4, <1>5, <1>6, <1>7, <1>11 DEF Balance
    <2> QED
      BY <1>1, <2>1, <2>2, PinsBalance
  <1>18. Others(t) /\ Last(t) \in Pos' /\ call'[Last(t)] = g /\ Next1(t) \notin Pos'
    BY DEF Moves
  <1>19. ASSUME NEW r \in Readers PROVE r \in users' <=> r \in users
    <2>1. CASE r # c
      <3>1. \A y \in {Last(t), Next1(t)} :
                 /\ (y \in Pos' /\ Drops(call'[y], r)) <=> (y \in Pos /\ Drops(call[y], r))
                 /\ (y \in Pos' /\ Takes(call'[y], r)) <=> (y \in Pos /\ Takes(call[y], r))
        BY <1>2, <1>18, <2>1 DEF Drops, Takes
      <3>2. stage'[r] = stage[r]
        BY <1>7, <2>1 DEF Readers
      <3> QED
        BY <1>1, <1>9, <1>18, <3>1, <3>2, UsersStep
    <2>2. CASE r = c
      <3>1. f.pc = "cregister" /\ f.arg = c /\ g.pc = "ctopicdone"
        BY <2>2
      <3>2. r \in users
        <4>1. UsersMean
          BY <1>1, UsersAre
        <4> QED
          BY <1>2, <2>2, <3>1, <4>1 DEF UsersMean, Takes
      <3>3. \A x \in Pos' : ~Drops(call'[x], c)
        <4>1. ASSUME NEW x \in Pos', Drops(call'[x], c) PROVE FALSE
          <5>1. x # Last(t) /\ x # Next1(t)
            BY <1>18, <3>1, <4>1 DEF Drops
          <5>2. x \in Pos /\ Drops(call[x], c)
            BY <1>1, <1>18, <4>1, <5>1, OthersKeep DEF Drops
          <5>3. FrameTrue(call[x], stage, hdl, children)
            BY <1>1, <5>2 DEF FramesOK
          <5> QED
            BY <5>2, <5>3 DEF FrameTrue, Drops, Left
        <4> QED
          BY <4>1
      <3>4. r \in users'
        <4>1. TypeOK' => UsersMean'
          BY UsersAre, PTL
        <4>2. UsersMean'
          BY <1>9, <4>1
        <4> QED
          BY <1>7, <2>2, <3>3, <4>2 DEF UsersMean
      <3> QED
        BY <3>2, <3>4
    <2> QED
      BY <2>1, <2>2
  <1>20. RefsOK'
    <2>1. users \subseteq Readers /\ users' \subseteq Readers
      BY DEF users
    <2>2. users' = users
      BY <1>19, <2>1
    <2>3. topicUsers' = topicUsers /\ Implicit' = Implicit
      BY <2>2 DEF topicUsers, Implicit
    <2> SUFFICES ASSUME NEW x \in Entities
                 PROVE  hdl'[x].ref = Own(hdl', Implicit, x) + Cardinality(children'[x]) + Cardinality(topicUsers[x])
      BY <2>3 DEF RefsOK
    <2>4. hdl[x].ref = Own(hdl, Implicit, x) + Cardinality(children[x]) + Cardinality(topicUsers[x])
      BY <1>1 DEF RefsOK
    <2>5. CASE x # p /\ x # c
      BY <1>6, <1>8, <2>4, <2>5 DEF Own
    <2>6. CASE x = c
      <3>1. topicUsers[c] = {}
        BY Tree DEF topicUsers, users
      <3>2. Own(hdl', Implicit, c) = hdl'[c].ref
        BY <1>5, <1>6 DEF Own
      <3>3. children'[c] = {} /\ Cardinality({}) = 0 /\ hdl'[c].ref \in {0, 1}
        BY <1>3, <1>5, <1>6, <1>8, <1>12, FS_EmptySet
      <3> QED
        BY <2>6, <3>1, <3>2, <3>3
    <2>7. CASE x = p
      <3> DEFINE k == Cardinality(children[p])  u == Cardinality(topicUsers[p])  o == Own(hdl, Implicit, p)
      <3>1. IsFiniteSet(children[p]) /\ k \in Nat /\ u \in Nat /\ o \in {0, 1}
        BY <1>1, CountsFinite
      <3>2. Cardinality(children'[p]) = k + 1
        BY <1>8, <1>12, <3>1, FS_AddElement
      <3>3. Own(hdl', Implicit, p) = o
        BY <1>4, <1>6 DEF Own
      <3>4. hdl[p].ref = o + k + u /\ hdl'[p].ref = hdl[p].ref + 1
        BY <1>4, <1>6, <2>4, <2>7
      <3> HIDE DEF k, u, o
      <3>5. hdl'[p].ref = o + (k + 1) + u
        BY <3>1, <3>4
      <3> QED
        BY <2>7, <3>2, <3>3, <3>5 DEF u
    <2> QED
      BY <2>5, <2>6, <2>7
  <1> QED
    BY <1>16, <1>17, <1>20 DEF IInv, Control

LEMMA CreateSubscriberI ==
    ASSUME IInv, NEW t \in Threads, CreateSubscriber(t), UNCHANGED app
    PROVE  IInv'
  <1> DEFINE f == Top(t)  c == Parent[f.arg]  g == [f EXCEPT !.pc = "punpin"]
  <1>1. ~Idle(t) /\ f.pc = "plock" /\ TypeOK /\ Sole /\ FramesOK /\ Typed /\ Goto(t, "punpin")
    BY NothingTyped DEF CreateSubscriber, At, IInv
  <1>2. CASE UNCHANGED <<stage, children, hdl>>
    <2>1. <<f.pc, "punpin">> \in QuietMoves
      BY <1>1 DEF QuietMoves
    <2> QED
      BY <1>1, <1>2, <2>1, JustGoto
  <1>3. CASE RegisterChild(f.e, c)
    <2>1. f \in Frame /\ f.e \in Entities /\ Last(t) \in Pos /\ call[Last(t)] = f /\ FrameOK(f, Implicit)
          /\ FrameTrue(f, stage, hdl, children) /\ DepthAt(Last(t), f)
      BY <1>1, TopFrame
    <2>2. /\ f.how \in {"create", "create_implicit"} /\ f.arg \in Readers
          /\ c \in Entities /\ Kind[c] = "subscriber" /\ f.e = Parent[c] /\ f.arg \in Entities
      BY <1>1, <2>1, CreationFrame, Tree DEF Creations, Making, OfParticipant
    <2>3. c \notin Readers /\ f.arg # c /\ stage[c] = "unborn" /\ stage[f.arg] = "unborn"
      BY <1>1, <2>1, <2>2, Tree DEF FrameTrue, Making
    <2>4. ASSUME NEW y \in Pos, y # Last(t), call[y].pc \in Making
          PROVE  call[y].arg # c /\ (call[y].pc = "plock" => Parent[call[y].arg] # c)
      <3>1. call[y].arg \in Readers
        BY <1>1, <2>4 DEF FramesOK, FrameOK, Creations
      <3>2. Parent[call[y].arg] # c
        BY <1>1, <2>1, <2>4 DEF Sole, Making
      <3> QED
        BY <2>3, <3>1, <3>2
    <2>5. g \in Frame /\ g.pc = "punpin" /\ g.e = f.e /\ g.how = f.how /\ g.arg = f.arg
      BY <2>1, GotoFrame DEF InCall
    <2>6. stack' = With(t, g)
      BY <1>1 DEF Goto, GotoPc
    <2> HIDE DEF g
    <2>7. Moves(t, g) /\ stack' \in [Threads -> Seq(Frame)]
      BY <1>1, <2>5, <2>6, WithMoves
    <2>8. Pinned(f) = {f.e} /\ Pinned(g) = {f.e}
      BY <1>1, <2>5, PinnedIs DEF InCall, WithTopic
    <2>9. FrameOK(g, Implicit)
      BY <1>1, <2>1, <2>2, <2>5 DEF FrameOK, Deleting, BeforeLeaving, AfterLeaving, Creations, Making, OfParticipant
    <2>10. DepthAt(Last(t), g)
      BY <2>1, <2>5 DEF DepthAt, AfterLeaving
    <2>11. UNCHANGED app
      OBVIOUS
    <2> QED
      BY <1>1, <1>3, <2>1, <2>2, <2>3, <2>4, <2>5, <2>7, <2>8, <2>9, <2>10, <2>11, Registers
  <1> QED
    BY <1>2, <1>3 DEF CreateSubscriber

LEMMA RegisterReaderI ==
    ASSUME IInv, NEW t \in Threads, RegisterReader(t), UNCHANGED app
    PROVE  IInv'
  <1> DEFINE f == Top(t)  c == f.arg  g == [f EXCEPT !.pc = "ctopicdone"]
  <1>1. ~Idle(t) /\ f.pc = "cregister" /\ TypeOK /\ Sole /\ FramesOK /\ Typed /\ Goto(t, "ctopicdone")
        /\ RegisterChild(f.e, c)
    BY NothingTyped DEF RegisterReader, At, IInv
  <1>2. f \in Frame /\ f.e \in Entities /\ Last(t) \in Pos /\ call[Last(t)] = f /\ FrameOK(f, Implicit)
        /\ FrameTrue(f, stage, hdl, children) /\ DepthAt(Last(t), f)
    BY <1>1, TopFrame
  <1>3. /\ f.how \in {"create", "create_implicit"} /\ f.arg \in Readers
        /\ c \in Entities /\ Kind[c] = "reader" /\ f.e = Parent[c]
    BY <1>1, <1>2, CreationFrame, Tree DEF Creations, Making, OfParticipant
  <1>4. stage[c] = "unborn"
    BY <1>1, <1>2 DEF FrameTrue, Making
  <1>5. ASSUME NEW y \in Pos, y # Last(t), call[y].pc \in Making
        PROVE  call[y].arg # c /\ (call[y].pc = "plock" => Parent[call[y].arg] # c)
    <2>1. call[y].arg \in Readers
      BY <1>1, <1>5 DEF FramesOK, FrameOK, Creations
    <2>2. Kind[Parent[call[y].arg]] = "subscriber"
      BY <2>1, Tree
    <2>3. call[y].arg # c
      BY <1>1, <1>2, <1>5 DEF Sole, Making
    <2> QED
      BY <1>3, <2>2, <2>3
  <1>6. g \in Frame /\ g.pc = "ctopicdone" /\ g.e = f.e /\ g.how = f.how /\ g.arg = f.arg
    BY <1>2, GotoFrame DEF InCall
  <1>7. stack' = With(t, g)
    BY <1>1 DEF Goto, GotoPc
  <1> HIDE DEF g
  <1>8. Moves(t, g) /\ stack' \in [Threads -> Seq(Frame)]
    BY <1>1, <1>6, <1>7, WithMoves
  <1>9. Pinned(f) = {f.e, TopicOf[c]} /\ Pinned(g) = {f.e, TopicOf[c]}
    BY <1>1, <1>6, PinnedIs DEF WithTopic
  <1>10. FrameOK(g, Implicit)
    BY <1>1, <1>2, <1>3, <1>6 DEF FrameOK, Deleting, BeforeLeaving, AfterLeaving, Creations, Making, OfParticipant
  <1>11. DepthAt(Last(t), g)
    BY <1>2, <1>6 DEF DepthAt, AfterLeaving
  <1> QED
    BY <1>1, <1>2, <1>3, <1>4, <1>5, <1>6, <1>8, <1>9, <1>10, <1>11, Registers

----------------------------------------------------------------------------
(* The invariant holds initially and is kept.                               *)

LEMMA InitI == Init => IInv
  <1> SUFFICES ASSUME Init PROVE IInv
    OBVIOUS
  <1>1. /\ app \in Apps /\ stack = [t \in Threads |-> <<>>] /\ Implicit \in SUBSET Entities
        /\ stage = [e \in Entities |-> IF e \in Unborn THEN "unborn" ELSE "live"]
        /\ children = [e \in Entities |-> KidsOf(e) \ Unborn]
    BY LifecycleAssumption DEF Init, Implicit
  <1>2. Pos = {} /\ Frames = {}
    BY <1>1 DEF Pos, Frames
  <1>3. ASSUME NEW e \in Entities
        PROVE  /\ hdl[e] \in CntFlags /\ hdl[e].pin = 0 /\ ~hdl[e].closing /\ ~hdl[e].deferred
               /\ hdl[e].ref = (IF e \in Implicit THEN 0 ELSE 1) + Cardinality(children[e]) + Cardinality(Users(e))
    <2> DEFINE k == Cardinality(children[e])  u == Cardinality(Users(e))  o == IF e \in Implicit THEN 0 ELSE 1
               c == Created(e \in Implicit)
    <2>1. k \in Nat /\ u \in Nat /\ o \in Nat
      <3>1. children[e] \subseteq Entities /\ Users(e) \subseteq Entities
        BY <1>1 DEF KidsOf, Users, Readers
      <3> QED
        BY <3>1, LifecycleAssumption, FS_Subset, FS_CardinalityType
    <2>2. c \in CntFlags /\ c.pin = 0 /\ c.ref = o /\ ~c.closing /\ ~c.deferred
      BY DEF Created, CntFlags
    <2>3. hdl[e] = [c EXCEPT !.ref = o + k + u]
      BY <1>1, <2>1, <2>2 DEF Init, CntFlags
    <2> HIDE DEF k, u, o, c
    <2>4. o + k + u \in Nat
      BY <2>1
    <2>5. hdl[e] \in CntFlags
      BY <2>2, <2>3, <2>4, HandleType
    <2>6. hdl[e].pin = 0 /\ hdl[e].ref = o + k + u /\ (hdl[e].closing <=> c.closing) /\ (hdl[e].deferred <=> c.deferred)
      BY <2>2, <2>3 DEF CntFlags
    <2> QED
      BY <2>2, <2>5, <2>6 DEF k, u, o
  <1>4. TypeOK
    <2>1. hdl \in [Entities -> CntFlags]
      <3>1. hdl = [e \in Entities |-> hdl[e]]
        BY DEF Init
      <3> QED
        BY <1>3, <3>1
    <2>2. children \in [Entities -> SUBSET Entities]
      BY <1>1 DEF KidsOf
    <2>3. mutex \in [Entities -> Threads \cup {0}] /\ uses \in 0..MaxUses
          /\ ret \in [Threads -> {"ok", "bad_parameter", "already_deleted"}]
      BY LifecycleAssumption DEF Init
    <2>4. stack \in [Threads -> Seq(Frame)]
      <3>1. <<>> \in Seq(Frame)
        OBVIOUS
      <3> QED
        BY <1>1, <3>1
    <2> QED
      BY <1>1, <2>1, <2>2, <2>3, <2>4 DEF TypeOK
  <1>5. FramesOK /\ Alone /\ Single /\ Sole /\ DepthOK
    BY <1>2 DEF FramesOK, Alone, Single, Sole, DepthOK
  <1>6. TreeOK
    <2> SUFFICES ASSUME NEW c \in Entities
                 PROVE  /\ stage[c] \in {"unlinked", "freed"} => hdl[c].closing
                        /\ \A e \in Entities : c \in children[e] => Parent[c] = e /\ stage[c] # "unborn"
                        /\ Parent[c] # 0 /\ stage[c] = "live" => c \in children[Parent[c]]
                        /\ Parent[c] # 0 /\ stage[Parent[c]] = "unborn" => stage[c] = "unborn"
      BY DEF TreeOK
    <2>1. Parent[c] # 0 => Parent[c] \in Entities
      BY LifecycleAssumption
    <2> QED
      BY <1>1, <2>1, TreeAssumption DEF KidsOf
  <1>7. RefsOK
    <2> SUFFICES ASSUME NEW e \in Entities
                 PROVE  hdl[e].ref = Own(hdl, Implicit, e) + Cardinality(children[e]) + Cardinality(topicUsers[e])
      BY DEF RefsOK
    <2>1. users = Readers \ Unborn
      <3>1. \A r \in Readers : HasTopic(r) <=> r \notin Unborn
        BY <1>1, <1>2 DEF HasTopic, Readers
      <3> QED
        BY <3>1 DEF users
    <2>2. topicUsers[e] = Users(e)
      BY <2>1 DEF topicUsers, Users
    <2>3. Own(hdl, Implicit, e) = IF e \in Implicit THEN 0 ELSE 1
      BY <1>3 DEF Own
    <2> QED
      BY <1>3, <2>2, <2>3
  <1>8. PinsOK
    <2> SUFFICES ASSUME NEW e \in Entities PROVE hdl[e].pin = Cardinality(pinners[e])
      BY DEF PinsOK
    <2>1. pinners[e] = {}
      BY <1>2 DEF pinners
    <2> QED
      BY <1>3, <2>1, FS_EmptySet
  <1> QED
    BY <1>4, <1>5, <1>6, <1>7, <1>8 DEF IInv

LEMMA NextI == IInv /\ [Next]_vars => IInv'
  <1> SUFFICES ASSUME IInv, [Next]_vars PROVE IInv'
    OBVIOUS
  <1>1. ASSUME NEW t \in Threads, Begin(t) PROVE IInv'
    BY <1>1, UserDeleteI, UsePinI, CreateReaderI DEF Begin
  <1>2. ASSUME NEW t \in Threads, Continue(t) PROVE IInv'
    <2>1. UNCHANGED app
      BY <1>2 DEF Continue
    <2>2. CASE Delete(t)
      BY <2>1, <2>2, DeletePinI, InterruptI, CloseWaitI, DeriverCloseI, NextChildI, RecheckI,
         HandleDeleteI, LeaveParentI, NoParentI, CloseParentI, ReaderDeleteI, OtherDeleteI,
         DroppedI, FreeI DEF Delete
    <2>3. CASE UseLock(t) \/ UseUnlock(t) \/ UseUnpin(t)
      BY <2>1, <2>3, UseLockI, UseUnlockI, UseUnpinI
    <2>4. CASE Create(t)
      BY <2>1, <2>4, CreateSubscriberI, ParticipantUnpinI, PinSubscriberI, LockSubscriberI,
         PinTopicI, DeferSetQosI, AddTopicRefI, RegisterReaderI, UnpinTopicI,
         UnlockSubscriberI, UndoSubscriberI DEF Create
    <2> QED
      BY <1>2, <2>2, <2>3, <2>4 DEF Continue
  <1>3. CASE UNCHANGED vars
    <2>1. UNCHANGED <<app, stage, hdl, children, mutex, stack, ret, uses>>
      BY <1>3 DEF vars
    <2>2. Pos' = Pos /\ Implicit' = Implicit /\ Frames' = Frames
      BY <2>1 DEF Pos, Implicit, Frames
    <2>3. call' = call
      BY <2>1, <2>2 DEF call
    <2>4. pinners' = pinners
      BY <2>2, <2>3 DEF pinners
    <2>5. topicUsers' = topicUsers
      BY <2>1, <2>2 DEF topicUsers, users, HasTopic
    <2>6. TypeOK' /\ FramesOK' /\ Alone' /\ Single' /\ Sole' /\ DepthOK'
      BY <2>1, <2>2, <2>3 DEF IInv, TypeOK, FramesOK, Alone, Single, Sole, DepthOK
    <2>7. TreeOK' /\ RefsOK' /\ PinsOK'
      BY <2>1, <2>2, <2>4, <2>5 DEF IInv, TreeOK, RefsOK, PinsOK, Own
    <2> QED
      BY <2>6, <2>7 DEF IInv
  <1> QED
    BY <1>1, <1>2, <1>3 DEF Next

THEOREM CallsAreConsistent == Spec => []IInv
  BY InitI, NextI, PTL DEF Spec

----------------------------------------------------------------------------
(* What the invariant says of the counts.                                   *)

\* No pin count and no reference count goes below zero, in any tree.
THEOREM EntityTypeCorrect == Spec => []TypeOK
  <1>1. IInv => TypeOK
    BY DEF IInv
  <1> QED
    BY <1>1, CallsAreConsistent, PTL

LEMMA CountedRefs == IInv => RefsCounted
  <1> SUFFICES ASSUME IInv, NEW e \in Entities, Live(e)
               PROVE  hdl[e].ref =
                          (IF e \in Implicit \/ hdl[e].closing \/ hdl[e].deferred THEN 0 ELSE 1)
                          + Cardinality(children[e])
                          + Cardinality({r \in Readers : TopicOf[r] = e /\ HasTopic(r)})
    BY DEF RefsCounted
  <1>1. hdl[e].ref = Own(hdl, Implicit, e) + Cardinality(children[e]) + Cardinality(topicUsers[e])
    BY DEF IInv, RefsOK
  <1>2. topicUsers[e] = {r \in Readers : TopicOf[r] = e /\ HasTopic(r)}
    BY DEF topicUsers, users
  <1> QED
    BY <1>1, <1>2 DEF Own

\* Handles' references are their own, their children's and their readers': an
\* entity is neither freed while something refers to it nor kept by a
\* reference that nobody will drop.
THEOREM RefsAreCounted == Spec => []RefsCounted
  BY CountedRefs, CallsAreConsistent, PTL

\* The run counts positions from the top of a stack, the invariant from its
\* bottom.
LEMMA CountedPins == IInv => PinsCounted
  <1> SUFFICES ASSUME IInv, NEW e \in Entities, stage[e] # "freed"
               PROVE  hdl[e].pin = Cardinality({ti \in Threads \X (1..MaxDepth) :
                          ti[2] <= Len(stack[ti[1]]) /\ e \in Pinned(stack[ti[1]][ti[2]])})
    BY DEF PinsCounted
  <1> DEFINE T == {ti \in Threads \X (1..MaxDepth) :
                     ti[2] <= Len(stack[ti[1]]) /\ e \in Pinned(stack[ti[1]][ti[2]])}
             S == pinners[e]
             F == [x \in S |-> <<x[1], Len(stack[x[1]]) - x[2] + 1>>]
  <1>1. TypeOK /\ DepthOK /\ hdl[e].pin = Cardinality(S)
    BY DEF IInv, PinsOK
  <1>2. IsFiniteSet(S)
    BY <1>1, PinnersFinite
  <1>3. ASSUME NEW t \in Threads PROVE Len(stack[t]) \in 0..4
    <2>1. Len(stack[t]) \in Nat
      BY <1>1 DEF TypeOK
    <2>2. CASE Len(stack[t]) > 0
      <3>1. <<t, Len(stack[t])>> \in Pos
        BY <2>1, <2>2 DEF Pos
      <3>2. call[<<t, Len(stack[t])>>].e \in Entities
        BY <1>1, <3>1, CallType DEF Frame
      <3>3. Len(stack[t]) <= Rank[Kind[call[<<t, Len(stack[t])>>].e]]
        BY <1>1, <3>1 DEF DepthOK
      <3>4. Rank[Kind[call[<<t, Len(stack[t])>>].e]] \in 1..4
        BY <3>2, Tree DEF Rank
      <3>5. \A n \in Nat, k \in 1..4 : n <= k => n \in 0..4
        OBVIOUS
      <3> QED
        BY <2>1, <3>3, <3>4, <3>5
    <2>3. Len(stack[t]) = 0 \/ Len(stack[t]) > 0
      BY <2>1
    <2> QED
      BY <2>2, <2>3
  <1>4. ASSUME NEW x, x \in S
        PROVE  /\ x[1] \in Threads /\ x[2] \in 1..Len(stack[x[1]]) /\ x = <<x[1], x[2]>>
               /\ e \in Pinned(stack[x[1]][Len(stack[x[1]]) - x[2] + 1])
    BY <1>4 DEF pinners, Pos, call
  <1>5. F \in [S -> T]
    <2>1. ASSUME NEW x, x \in S PROVE <<x[1], Len(stack[x[1]]) - x[2] + 1>> \in T
      <3> DEFINE n == Len(stack[x[1]])  k == n - x[2] + 1
      <3>1. n \in 0..4 /\ x[2] \in 1..n
        BY <1>3, <1>4, <2>1
      <3>2. k \in 1..MaxDepth /\ k <= n
        <4>1. \A i \in 0..4 : \A j \in 1..i : i - j + 1 \in 1..4 /\ i - j + 1 <= i
          OBVIOUS
        <4> QED
          BY <3>1, <4>1 DEF MaxDepth
      <3>3. x[1] \in Threads /\ e \in Pinned(stack[x[1]][k])
        BY <1>4, <2>1
      <3> HIDE DEF k
      <3> QED
        BY <3>2, <3>3 DEF k
    <2> HIDE DEF T, S
    <2> QED
      BY <2>1
  <1>6. ASSUME NEW x \in S, NEW y \in S, F[x] = F[y] PROVE x = y
    <2>1. x[1] = y[1] /\ Len(stack[x[1]]) - x[2] + 1 = Len(stack[y[1]]) - y[2] + 1
      BY <1>6
    <2>2. x[2] \in Nat /\ y[2] \in Nat /\ Len(stack[x[1]]) \in Nat
      BY <1>3, <1>4
    <2>3. x[2] = y[2]
      BY <2>1, <2>2
    <2> QED
      BY <1>4, <2>1, <2>3
  <1>7. ASSUME NEW z \in T PROVE \E x \in S : F[x] = z
    <2>1. PICK t \in Threads, k \in 1..MaxDepth : z = <<t, k>> /\ k <= Len(stack[t]) /\ e \in Pinned(stack[t][k])
      OBVIOUS
    <2> DEFINE n == Len(stack[t])  x == <<t, n - k + 1>>
    <2>2. n \in Nat /\ k \in 1..n
      BY <1>3, <2>1
    <2>3. n - k + 1 \in 1..n /\ n - (n - k + 1) + 1 = k /\ n - k + 1 \in Nat
      BY <2>2
    <2>4. x \in Pos /\ call[x] = stack[t][k]
      BY <2>3, Positions DEF Pos
    <2>5. x \in S
      BY <2>1, <2>4 DEF pinners
    <2>6. F[x] = z
      BY <2>1, <2>3, <2>5
    <2> QED
      BY <2>5, <2>6
  <1> HIDE DEF S, T, F
  <1>8. F \in Bijection(S, T)
    BY <1>5, <1>6, <1>7 DEF Bijection, Injection, Surjection, IsInjective
  <1>9. Cardinality(T) = Cardinality(S)
    BY <1>2, <1>8, FS_Bijection DEF ExistsBijection
  <1> QED
    BY <1>1, <1>9 DEF T

\* Handles' pins are the threads inside an operation on them: dds_delete
\* neither goes on while one is inside nor waits for one that has left.
THEOREM PinsAreCounted == Spec => []PinsCounted
  BY CountedPins, CallsAreConsistent, PTL

----------------------------------------------------------------------------
(* What it says of deletions.                                               *)

\* A thread that has pinned an entity does not find its memory given back.
PinnedIsKept == \A f \in Frames : \A e \in Pinned(f) : stage[e] # "freed"

\* Whatever is deleted meanwhile: what MemorySafe asks of the entities that a
\* call has pinned, in any tree.
THEOREM PinnedNotFreed == Spec => []PinnedIsKept
  <1>1. IInv => PinnedIsKept
    <2> SUFFICES ASSUME IInv, NEW f \in Frames, NEW e \in Pinned(f) PROVE stage[e] # "freed"
      BY DEF PinnedIsKept
    <2>1. PICK x \in Pos : f = call[x]
      BY FramesAre DEF IInv
    <2>2. stage[e] \in {"live", "unlinked"}
      BY <2>1 DEF IInv, FramesOK, FrameTrue
    <2> QED
      BY <2>2
  <1> QED
    BY <1>1, CallsAreConsistent, PTL

\* Where a frame is in a stack and where among the calls.
LEMMA SamePlace ==
    ASSUME TypeOK, NEW t \in Threads, NEW u \in Threads, NEW i \in DOMAIN stack[t], NEW j \in DOMAIN stack[u]
    PROVE  \E x, y \in Pos : call[x] = stack[t][i] /\ call[y] = stack[u][j] /\ (x = y => t = u /\ i = j)
  <1> DEFINE n == Len(stack[t])  m == Len(stack[u])  x == <<t, n - i + 1>>  y == <<u, m - j + 1>>
  <1>2. n \in Nat /\ m \in Nat /\ i \in 1..n /\ j \in 1..m
    BY DEF TypeOK
  <1>3. \A k \in Nat : \A l \in 1..k : k - l + 1 \in 1..k /\ k - l + 1 \in Nat /\ k - (k - l + 1) + 1 = l
    OBVIOUS
  <1>4. x \in Pos /\ call[x] = stack[t][i]
    <2>1. n - i + 1 \in 1..n /\ n - (n - i + 1) + 1 = i
      BY <1>2, <1>3
    <2> QED
      BY <2>1, Positions
  <1>5. y \in Pos /\ call[y] = stack[u][j]
    <2>1. m - j + 1 \in 1..m /\ m - (m - j + 1) + 1 = j
      BY <1>2, <1>3
    <2> QED
      BY <2>1, Positions
  <1> HIDE DEF x, y
  <1>6. ASSUME x = y PROVE t = u /\ i = j
    <2>1. t = u /\ n - i + 1 = n - j + 1
      BY <1>6 DEF x, y
    <2>2. \A a \in Nat, b \in Nat, c \in Nat : a - b + 1 = a - c + 1 => b = c
      OBVIOUS
    <2>3. i \in Nat /\ j \in Nat
      BY <1>2
    <2>4. i = j
      BY <1>2, <2>1, <2>2, <2>3
    <2> QED
      BY <2>1, <2>4
  <1> QED
    BY <1>4, <1>5, <1>6

LEMMA SingleDeleter ==
    ASSUME IInv, NEW t \in Threads, NEW u \in Threads, NEW i \in DOMAIN stack[t], NEW j \in DOMAIN stack[u],
           stack[t][i].e = stack[u][j].e, stack[t][i].e \notin Implicit,
           stack[t][i].pc \in Deleting, stack[u][j].pc \in Deleting
    PROVE  t = u /\ i = j
  <1>1. TypeOK /\ Single
    BY DEF IInv
  <1>2. PICK x, y \in Pos : call[x] = stack[t][i] /\ call[y] = stack[u][j] /\ (x = y => t = u /\ i = j)
    BY <1>1, SamePlace
  <1> QED
    BY <1>1, <1>2 DEF Single

\* One call deletes an entity, whoever else calls dds_delete on it or on what
\* is above it.  Of an implicit entity this cannot be said: its last child pins
\* it and closes it in two steps, and dds_delete of it may come in between.
OneDeleterOfExplicit ==
    \A t, u \in Threads : \A i \in DOMAIN stack[t], j \in DOMAIN stack[u] :
        /\ stack[t][i].e = stack[u][j].e /\ stack[t][i].e \notin Implicit
        /\ stack[t][i].pc \in Deleting /\ stack[u][j].pc \in Deleting
        => t = u /\ i = j

\* "Only one thread may call close_wait on a given handle", the handle of an
\* entity that an application has created.
THEOREM ExplicitHasOneDeleter == Spec => []OneDeleterOfExplicit
  <1>1. IInv => OneDeleterOfExplicit
    BY SingleDeleter DEF OneDeleterOfExplicit
  <1> QED
    BY <1>1, CallsAreConsistent, PTL

\* The property that the run checks, where no entity is implicit.
THEOREM OneThreadDeletes == Spec => [](Implicit = {} => OneDeleter)
  <1>1. IInv => (Implicit = {} => OneDeleter)
    BY SingleDeleter DEF OneDeleter
  <1> QED
    BY <1>1, CallsAreConsistent, PTL

\* dds_handle_delete's assertions but that on references: a handle leaves the
\* table closed and pinned by its deleter only.
ClosedAndAlone ==
    \A f \in Frames : f.pc = "handle" => hdl[f.e].closing /\ hdl[f.e].pin = 1

\* Its pin is the only one since dds_handle_close_wait returned.
LEMMA HandleAlone == IInv => ClosedAndAlone
  <1> SUFFICES ASSUME IInv, NEW f \in Frames, f.pc = "handle"
               PROVE  hdl[f.e].closing /\ hdl[f.e].pin = 1
    BY DEF ClosedAndAlone
  <1>1. PICK x \in Pos : f = call[x]
    BY FramesAre DEF IInv
  <1>2. f \in Frame /\ f.e \in Entities
    BY <1>1, CallType DEF IInv, Frame
  <1>3. f.pc \in Past /\ f.pc \in Deleting /\ f.e \in Pinned(f)
    BY DEF Past, Deleting, BeforeLeaving, AfterLeaving, Pinned, WithTopic, InCall
  <1>4. hdl[f.e].closing /\ stage[f.e] # "freed"
    BY <1>1, <1>3 DEF IInv, FramesOK, FrameTrue
  <1>5. pinners[f.e] = {x}
    <2>1. \A y : y \in pinners[f.e] <=> y \in Pos /\ f.e \in Pinned(call[y])
      BY <1>2 DEF pinners
    <2>2. \A y \in Pos : f.e \in Pinned(call[y]) => x = y
      BY <1>1, <1>3 DEF IInv, Alone
    <2> QED
      BY <1>1, <1>3, <2>1, <2>2
  <1>6. Cardinality(pinners[f.e]) = 1
    BY <1>5, FS_Singleton
  <1> QED
    BY <1>2, <1>4, <1>6 DEF IInv, PinsOK

\* What dds_handle_close_wait waited for still holds when the call that
\* deletes the entity has been through its children and, perhaps, slept.
THEOREM HandleLeavesAlone == Spec => []ClosedAndAlone
  BY HandleAlone, CallsAreConsistent, PTL

----------------------------------------------------------------------------
(* A subscriber that dds_create_reader made for a reader does not outlive   *)
(* its last one.                                                            *)

\* A call that will take e out of the handle table: it deletes e, or it has
\* closed e as its last child and deletes it next.
Responsible(f, e) ==
    \/ f.pc \in Deleting \ (Left \cup {"parent"}) /\ f.e = e
    \/ f.pc \in AfterLeaving /\ f.arg = e

\* dds_create_reader between the creation of a subscriber and of its reader,
\* or before the subscriber's creation is undone.
Awaiting == {"punpin", "pinsub", "clock", "ctopic", "cdefer", "cref", "cregister",
             "crejected", "cfailed", "cundo"}

\* A call that will close e, give it a child or find it closed.
Saves(f, e) ==
    \/ f.pc = "pin" /\ f.e = e
    \/ f.pc = "closeparent" /\ Parent[f.e] = e
    \/ f.pc \in Awaiting /\ f.how = "create_implicit" /\ Parent[f.arg] = e

\* delete_children deletes the children of what is closed; a participant is
\* locked to create a subscriber in it.
FrameNeeds(f, st, h) ==
    /\ f.how = "from_parent" =>
          Parent[f.e] \in Entities /\ st[Parent[f.e]] # "unborn" /\ h[Parent[f.e]].closing
    /\ f.pc = "plock" => f.how = "create_implicit"

OnlyTopics == \A e \in Entities : hdl[e].deferred => Kind[e] = "topic"
FramesNeed == \A x \in Pos : FrameNeeds(call[x], stage, hdl)
ClosedIsDeleted == \A e \in Entities : Live(e) /\ hdl[e].closing => \E x \in Pos : Responsible(call[x], e)
ChildlessIsSaved ==
    \A e \in Implicit : Live(e) /\ children[e] = {} =>
        hdl[e].closing \/ \E x \in Pos : Saves(call[x], e)

Needed == OnlyTopics /\ FramesNeed /\ ClosedIsDeleted /\ ChildlessIsSaved

\* The other calls stay responsible for what they are.
LEMMA OthersSave ==
    ASSUME TypeOK, NEW t, Others(t), Next1(t) \notin Pos, NEW y \in Pos, y # Last(t), NEW e
    PROVE  /\ y \in Pos' /\ y # Next1(t)
           /\ Responsible(call[y], e) => Responsible(call'[y], e)
           /\ Saves(call[y], e) => Saves(call'[y], e)
  <1>1. y \in Pos' /\ y # Next1(t)
    BY DEF Others
  <1>2. /\ call'[y].e = call[y].e /\ call'[y].how = call[y].how /\ call'[y].arg = call[y].arg
        /\ call'[y].pc = call[y].pc \/ (call[y].pc = "sleep" /\ call'[y].pc = "children")
    BY <1>1, OthersKeep
  <1>3. CASE call'[y].pc = call[y].pc
    BY <1>1, <1>2, <1>3 DEF Responsible, Saves
  <1>4. CASE call[y].pc = "sleep" /\ call'[y].pc = "children"
    <2>1. Responsible(call[y], e) => call[y].e = e
      BY <1>4 DEF Responsible, AfterLeaving
    <2>2. "children" \in Deleting \ (Left \cup {"parent"})
      BY DEF Deleting, BeforeLeaving, Left
    <2>3. ~Saves(call[y], e)
      BY <1>4 DEF Saves, Awaiting
    <2> QED
      BY <1>1, <1>2, <1>4, <2>1, <2>2, <2>3 DEF Responsible
  <1> QED
    BY <1>2, <1>3, <1>4

Mine(t) == {y \in {Last(t), Next1(t)} : y \in Pos'}

LEMMA NeededStep ==
    ASSUME IInv, Needed, UNCHANGED app, NEW t, Others(t), Next1(t) \notin Pos,
           \A y \in Mine(t) : FrameNeeds(call'[y], stage', hdl'),
           \A e \in Entities : stage[e] # "unborn" =>
               stage'[e] # "unborn" /\ (hdl[e].closing => hdl'[e].closing),
           \A e \in Entities : hdl'[e].deferred => hdl[e].deferred \/ Kind[e] = "topic",
           \A e \in Entities : stage'[e] = "live" /\ hdl'[e].closing =>
               \/ \E y \in Mine(t) : Responsible(call'[y], e)
               \/ /\ stage[e] = "live" /\ hdl[e].closing
                  /\ Last(t) \in Pos => ~Responsible(call[Last(t)], e),
           \A e \in Implicit : stage'[e] = "live" /\ children'[e] = {} =>
               \/ hdl'[e].closing
               \/ \E y \in Mine(t) : Saves(call'[y], e)
               \/ /\ stage[e] = "live" /\ children[e] = {}
                  /\ Last(t) \in Pos => ~Saves(call[Last(t)], e)
    PROVE  Needed'
  <1>1. TypeOK /\ \A y \in Pos : y # Last(t) => y \in Pos' /\ y # Next1(t)
    BY OthersSave DEF IInv
  <1>2. OnlyTopics'
    BY DEF Needed, OnlyTopics
  <1>3. FramesNeed'
    <2> SUFFICES ASSUME NEW y \in Pos', y # Last(t), y # Next1(t)
                 PROVE  FrameNeeds(call'[y], stage', hdl')
      BY DEF FramesNeed, Mine
    <2>1. /\ y \in Pos /\ call'[y].e = call[y].e /\ call'[y].how = call[y].how
          /\ call'[y].pc = call[y].pc \/ call'[y].pc = "children"
      BY <1>1, OthersKeep
    <2>2. FrameNeeds(call[y], stage, hdl)
      BY <2>1 DEF Needed, FramesNeed
    <2> QED
      BY <2>1, <2>2 DEF FrameNeeds
  <1>4. ClosedIsDeleted'
    <2> SUFFICES ASSUME NEW e \in Entities, stage'[e] = "live", hdl'[e].closing
                 PROVE  \E x \in Pos' : Responsible(call'[x], e)
      BY DEF ClosedIsDeleted, Live
    <2>1. CASE \E y \in Mine(t) : Responsible(call'[y], e)
      BY <2>1 DEF Mine
    <2>2. CASE stage[e] = "live" /\ hdl[e].closing /\ (Last(t) \in Pos => ~Responsible(call[Last(t)], e))
      <3>1. PICK x \in Pos : Responsible(call[x], e)
        BY <2>2 DEF Needed, ClosedIsDeleted, Live
      <3>2. x # Last(t)
        BY <2>2, <3>1
      <3> QED
        BY <1>1, <3>1, <3>2, OthersSave
    <2> QED
      BY <2>1, <2>2
  <1>5. ChildlessIsSaved'
    <2> SUFFICES ASSUME NEW e \in Implicit, stage'[e] = "live", children'[e] = {}, ~hdl'[e].closing
                 PROVE  \E x \in Pos' : Saves(call'[x], e)
      BY DEF ChildlessIsSaved, Live, Implicit
    <2>1. CASE \E y \in Mine(t) : Saves(call'[y], e)
      BY <2>1 DEF Mine
    <2>2. CASE stage[e] = "live" /\ children[e] = {} /\ (Last(t) \in Pos => ~Saves(call[Last(t)], e))
      <3>1. e \in Entities /\ ~hdl[e].closing
        BY <1>1, <2>2, ImplicitType
      <3>2. PICK x \in Pos : Saves(call[x], e)
        BY <2>2, <3>1 DEF Needed, ChildlessIsSaved, Live
      <3>3. x # Last(t)
        BY <2>2, <3>2
      <3> QED
        BY <1>1, <3>2, <3>3, OthersSave
    <2> QED
      BY <2>1, <2>2
  <1> QED
    BY <1>2, <1>3, <1>4, <1>5 DEF Needed

\* A step that leaves the tree alone and closes nothing.
Keeps ==
    /\ UNCHANGED <<app, stage, children>>
    /\ \A e \in Entities :
          (hdl'[e].closing <=> hdl[e].closing) /\ (hdl'[e].deferred <=> hdl[e].deferred)

LEMMA NeededKept ==
    ASSUME IInv, Needed, Keeps, NEW t, Others(t), Next1(t) \notin Pos,
           \A y \in Mine(t) : FrameNeeds(call'[y], stage, hdl),
           \A e \in Entities : Last(t) \in Pos /\ Responsible(call[Last(t)], e) =>
               \E y \in Mine(t) : Responsible(call'[y], e),
           \A e \in Implicit : Last(t) \in Pos /\ Saves(call[Last(t)], e) =>
               ~Live(e) \/ hdl[e].closing \/ \E y \in Mine(t) : Saves(call'[y], e)
    PROVE  Needed'
  <1>1. TypeOK /\ \A e \in Implicit : e \in Entities
    BY ImplicitType DEF IInv
  <1>2. \A f \in {call'[y] : y \in Mine(t)} : FrameNeeds(f, stage', hdl')
    BY DEF Keeps, FrameNeeds
  <1>3. \A y \in Mine(t) : FrameNeeds(call'[y], stage', hdl')
    BY <1>2
  <1>4. \A e \in Entities : stage[e] # "unborn" =>
            stage'[e] # "unborn" /\ (hdl[e].closing => hdl'[e].closing)
    BY DEF Keeps
  <1>5. \A e \in Entities : hdl'[e].deferred => hdl[e].deferred \/ Kind[e] = "topic"
    BY DEF Keeps
  <1>6. \A e \in Entities : stage'[e] = "live" /\ hdl'[e].closing =>
            \/ \E y \in Mine(t) : Responsible(call'[y], e)
            \/ /\ stage[e] = "live" /\ hdl[e].closing
               /\ Last(t) \in Pos => ~Responsible(call[Last(t)], e)
    BY DEF Keeps
  <1>7. \A e \in Implicit : stage'[e] = "live" /\ children'[e] = {} =>
            \/ hdl'[e].closing
            \/ \E y \in Mine(t) : Saves(call'[y], e)
            \/ /\ stage[e] = "live" /\ children[e] = {}
               /\ Last(t) \in Pos => ~Saves(call[Last(t)], e)
    BY <1>1 DEF Keeps, Live
  <1>8. UNCHANGED app
    BY DEF Keeps
  <1> QED
    BY <1>3, <1>4, <1>5, <1>6, <1>7, <1>8, NeededStep

LEMMA NeededMove ==
    ASSUME IInv, Needed, Keeps, NEW t \in Threads, ~Idle(t), NEW g, Moves(t, g),
           FrameNeeds(g, stage, hdl),
           \A e \in Entities : Responsible(Top(t), e) => Responsible(g, e),
           \A e \in Implicit : Saves(Top(t), e) => ~Live(e) \/ hdl[e].closing \/ Saves(g, e)
    PROVE  Needed'
  <1>1. Last(t) \in Pos /\ call[Last(t)] = Top(t) /\ Next1(t) \notin Pos
    BY TopFrame
  <1>2. Others(t) /\ Mine(t) = {Last(t)} /\ call'[Last(t)] = g
    BY DEF Moves, Mine
  <1> QED
    BY <1>1, <1>2, NeededKept

\* Where a call may go on without touching the tree, and how far it stays
\* responsible: the counts of handles may change.
Onwards == QuietMoves \cup {
    <<"punpin", "pinsub">>, <<"pinsub", "clock">>, <<"ctopic", "cdefer">>, <<"cref", "cregister">>,
    <<"ctopicdone", "cunlock">>, <<"crejected", "cfailed">>}

LEMMA NeededGoto ==
    ASSUME IInv, Needed, Keeps, NEW t \in Threads, ~Idle(t), NEW g, Moves(t, g),
           <<Top(t).pc, g.pc>> \in Onwards, g.how = Top(t).how,
           g.e = Top(t).e \/ g.pc = "pinsub",
           g.arg = Top(t).arg \/ g.pc = "children",
           g.pc = "unpin" => Top(t).pc # "cfailed" \/ g.how # "create_implicit"
    PROVE  Needed'
  <1> DEFINE f == Top(t)
  <1>1. f \in Frame /\ FrameOK(f, Implicit) /\ call[Last(t)] = f /\ Last(t) \in Pos
    BY TopFrame
  <1>2. FrameNeeds(f, stage, hdl)
    BY <1>1 DEF Needed, FramesNeed
  <1>3. FrameNeeds(g, stage, hdl)
    <2>1. g.pc # "plock"
      BY DEF Onwards, QuietMoves
    <2>2. g.pc = "pinsub" => f.how # "from_parent"
      BY <1>1 DEF Onwards, QuietMoves, FrameOK, Creations, Making
    <2> QED
      BY <1>2, <2>1, <2>2 DEF FrameNeeds
  <1>4. ASSUME NEW e \in Entities, Responsible(f, e) PROVE Responsible(g, e)
    <2>1. CASE f.pc \in Deleting \ (Left \cup {"parent"}) /\ f.e = e
      <3>1. g.pc \in Deleting \ (Left \cup {"parent"}) /\ g.pc # "pinsub"
        BY <2>1 DEF Onwards, QuietMoves, Deleting, BeforeLeaving, AfterLeaving, Left
      <3> QED
        BY <2>1, <3>1 DEF Responsible
    <2>2. CASE f.pc \in AfterLeaving /\ f.arg = e
      <3>1. g.pc \in AfterLeaving /\ g.pc # "children"
        BY <2>2 DEF Onwards, QuietMoves, AfterLeaving
      <3> QED
        BY <2>2, <3>1 DEF Responsible
    <2> QED
      BY <1>4, <2>1, <2>2 DEF Responsible
  <1>5. ASSUME NEW e \in Implicit, Saves(f, e) PROVE Saves(g, e)
    <2>1. f.pc # "pin" /\ f.pc # "closeparent"
      BY DEF Onwards, QuietMoves
    <2>2. f.pc \in Awaiting /\ f.how = "create_implicit" /\ Parent[f.arg] = e
      BY <1>5, <2>1 DEF Saves
    <2>3. g.pc \in Awaiting /\ g.pc # "children"
      BY <2>2 DEF Onwards, QuietMoves, Awaiting
    <2> QED
      BY <2>2, <2>3 DEF Saves
  <1> QED
    BY <1>3, <1>4, <1>5, NeededMove

\* The ways in which the actions say so.
LEMMA NeededNext ==
    ASSUME IInv, Needed, Keeps, NEW t \in Threads, ~Idle(t), NEW pc,
           <<Top(t).pc, pc>> \in Onwards, NEW g, g = [Top(t) EXCEPT !.pc = pc],
           stack' = With(t, g) \/ (\E p : stack' = Broadcast(With(t, g), p) /\ pc # "sleep"),
           pc = "unpin" => Top(t).pc # "cfailed" \/ Top(t).how # "create_implicit", pc # "pinsub"
    PROVE  Needed'
  <1>1. TypeOK /\ Top(t) \in Frame
    BY TopFrame DEF IInv
  <1>2. pc \in Deleting \cup InCall
    BY DEF Onwards, QuietMoves, Deleting, BeforeLeaving, AfterLeaving, InCall
  <1>3. g \in Frame /\ g.pc = pc /\ g.e = Top(t).e /\ g.how = Top(t).how /\ g.arg = Top(t).arg
    BY <1>1, <1>2, GotoFrame
  <1>4. Moves(t, g)
    BY <1>1, <1>3, WithMoves, BroadcastMoves
  <1> QED
    BY <1>3, <1>4, NeededGoto

LEMMA NothingKeeps == ASSUME UNCHANGED <<app, stage, hdl, children>> PROVE Keeps
  BY DEF Keeps

\* A pin, an unpin and a reference close nothing.
LEMMA CountKeeps ==
    ASSUME TypeOK, UNCHANGED <<app, stage, children>>, NEW a \in Entities,
           \/ hdl' = [hdl EXCEPT ![a] = Pin(@)] \/ hdl' = [hdl EXCEPT ![a] = Unpin(@)]
           \/ hdl' = [hdl EXCEPT ![a] = AddRef(@)] \/ hdl' = [hdl EXCEPT ![a] = DropRef(@)]
    PROVE  Keeps
  <1>1. hdl[a] \in CntFlags /\ hdl \in [Entities -> CntFlags]
    BY DEF TypeOK
  <1>2. PICK h \in {Pin(hdl[a]), Unpin(hdl[a]), AddRef(hdl[a]), DropRef(hdl[a])} : hdl' = [hdl EXCEPT ![a] = h]
    OBVIOUS
  <1>3. (h.closing <=> hdl[a].closing) /\ (h.deferred <=> hdl[a].deferred)
    BY <1>1, <1>2, HandleFields
  <1>4. hdl'[a] = h /\ \A e \in Entities : e # a => hdl'[e] = hdl[e]
    BY <1>1, <1>2
  <1> QED
    BY <1>3, <1>4 DEF Keeps

LEMMA NeededReturn ==
    ASSUME IInv, Needed, Keeps, NEW t \in Threads, ~Idle(t), NEW rc, Return(t, rc),
           Top(t).pc \notin Deleting,
           \A e \in Implicit : Saves(Top(t), e) => ~Live(e) \/ hdl[e].closing
    PROVE  Needed'
  <1>1. TypeOK /\ Last(t) \in Pos /\ call[Last(t)] = Top(t)
    BY TopFrame DEF IInv
  <1>2. Pops(t)
    BY <1>1, ReturnPops DEF Return
  <1>3. Others(t) /\ Next1(t) \notin Pos /\ Mine(t) = {}
    BY <1>2 DEF Pops, Mine
  <1>4. \A e : ~Responsible(Top(t), e)
    BY DEF Responsible, Deleting
  <1> QED
    BY <1>1, <1>3, <1>4, NeededKept

LEMMA NeededBegin ==
    ASSUME IInv, Needed, Keeps, NEW t \in Threads, NEW f, Begins(t, f), FrameNeeds(f, stage, hdl)
    PROVE  Needed'
  <1>1. Others(t) /\ Next1(t) \notin Pos /\ Last(t) \notin Pos /\ Mine(t) = {Next1(t)} /\ call'[Next1(t)] = f
    BY DEF Begins, Mine
  <1> QED
    BY <1>1, NeededKept

LEMMA NeededPush ==
    ASSUME IInv, Needed, Keeps, NEW t \in Threads, ~Idle(t), NEW a \in Frame, NEW g \in Frame, Calls(t, a, g),
           FrameNeeds(a, stage, hdl), g.e = Top(t).e, g.how = Top(t).how,
           \/ Top(t).pc = "children" /\ g.pc = "recheck"
           \/ Top(t).pc = "deriver" /\ g.pc = "dropped" /\ g.arg = Top(t).arg
    PROVE  Needed'
  <1> DEFINE f == Top(t)
  <1>1. TypeOK /\ Last(t) \in Pos /\ call[Last(t)] = f
    BY TopFrame DEF IInv
  <1>2. Pushes(t, a, g)
    BY <1>1, CallPushes
  <1>3. /\ Others(t) /\ Next1(t) \notin Pos /\ Last(t) \in Mine(t) /\ Mine(t) = {Last(t), Next1(t)}
        /\ call'[Last(t)] = g /\ call'[Next1(t)] = a
    BY <1>2 DEF Pushes, Mine
  <1>4. FrameNeeds(g, stage, hdl)
    <2>1. FrameNeeds(f, stage, hdl)
      BY <1>1 DEF Needed, FramesNeed
    <2> QED
      BY <2>1 DEF FrameNeeds
  <1>5. \A e \in Entities : Responsible(f, e) => Responsible(g, e)
    BY DEF Responsible, Deleting, BeforeLeaving, AfterLeaving, Left
  <1>6. \A e : ~Saves(f, e)
    BY DEF Saves, Awaiting
  <1> QED
    BY <1>1, <1>3, <1>4, <1>5, <1>6, NeededKept

----------------------------------------------------------------------------
(* The steps that leave the tree alone.                                     *)

LEMMA NeededInDelete ==
    ASSUME IInv, Needed, NEW t \in Threads, UNCHANGED app,
           \/ Interrupt(t) \/ CloseWait(t) \/ DeriverClose(t) \/ Recheck(t)
           \/ NoParent(t) \/ OtherDelete(t) \/ Dropped(t)
    PROVE  Needed'
  <1> DEFINE f == Top(t)
  <1>1. Keeps
    BY NothingKeeps DEF Interrupt, CloseWait, DeriverClose, Recheck, NoParent, OtherDelete, Dropped
  <1>2. CASE DeriverClose(t)
    <2> DEFINE g == [f EXCEPT !.pc = "children", !.arg = 0, !.pass = 1]
    <2>1. ~Idle(t) /\ f.pc = "close" /\ stack' = With(t, g)
      BY <1>2 DEF DeriverClose, At
    <2>2. f \in Frame /\ TypeOK
      BY <2>1, TopFrame DEF IInv
    <2>3. "children" \in Deleting /\ 0 \in Nat /\ 1 \in 1..2
      BY DEF Deleting, BeforeLeaving
    <2> HIDE DEF f
    <2>4. g \in Frame
      BY <2>2, <2>3, Zenon DEF Frame
    <2>5. g.pc = "children" /\ g.e = f.e /\ g.how = f.how
      BY <2>2 DEF Frame
    <2> HIDE DEF g
    <2>6. Moves(t, g)
      BY <2>1, <2>2, <2>4, WithMoves
    <2>7. <<f.pc, g.pc>> \in Onwards
      BY <2>1, <2>5 DEF Onwards, QuietMoves
    <2> QED
      BY <1>1, <2>1, <2>5, <2>6, <2>7, NeededGoto DEF f
  <1>3. CASE ~DeriverClose(t)
    <2>1. PICK pc \in {"wait", "close", "sleep", "children", "deriver", "free"} :
              Goto(t, pc) /\ ~Idle(t) /\ <<f.pc, pc>> \in Onwards
      BY <1>3 DEF Interrupt, CloseWait, Recheck, NoParent, OtherDelete, Dropped, At, Onwards, QuietMoves
    <2>2. stack' = With(t, [f EXCEPT !.pc = pc])
      BY <2>1 DEF Goto, GotoPc
    <2>3. pc # "unpin" /\ pc # "pinsub"
      BY <2>1
    <2> QED
      BY <1>1, <2>1, <2>2, <2>3, NeededNext
  <1> QED
    BY <1>2, <1>3

\* A child is deleted because what is above it is closed.
LEMMA NeededNextChild ==
    ASSUME IInv, Needed, NEW t \in Threads, UNCHANGED app, NextChild(t)
    PROVE  Needed'
  <1> DEFINE f == Top(t)
             rest == {c \in children[f.e] : c > f.arg /\ Allowed(f, c)}
             g == [f EXCEPT !.pass = 2, !.arg = 0]
  <1>1. ~Idle(t) /\ f.pc = "children" /\ Keeps /\ TypeOK /\ TreeOK
    BY NothingKeeps DEF NextChild, At, IInv
  <1>2. f \in Frame /\ f.e \in Entities /\ FrameTrue(f, stage, hdl, children)
    BY <1>1, TopFrame
  <1>3. CASE /\ rest # {}
             /\ stack' = [stack EXCEPT ![t] =
                   <<Call(Min(rest), "from_parent"), [f EXCEPT !.pc = "recheck", !.arg = Min(rest)]>> \o Tail(@)]
    <2>1. rest \subseteq Entities
      BY <1>2 DEF IInv, TypeOK
    <2> DEFINE c == Min(rest)  a == Call(c, "from_parent")  b == [f EXCEPT !.pc = "recheck", !.arg = c]
    <2>2. c \in rest
      BY <1>3, <2>1, LeastChild
    <2>3. c \in children[f.e] /\ c \in Entities /\ c \in Nat
      BY <2>1, <2>2, LifecycleAssumption
    <2>4. Calls(t, a, b)
      BY <1>3 DEF Calls
    <2> HIDE DEF rest, c
    <2>5. a \in Frame /\ a.how = "from_parent" /\ a.pc = "pin" /\ a.e = c
      BY <2>3, CallFits
    <2>6. "recheck" \in Deleting /\ "children" \in Deleting \ (Left \cup {"parent"})
      BY DEF Deleting, BeforeLeaving, Left
    <2>7. Parent[c] = f.e
      BY <1>1, <1>2, <2>3 DEF TreeOK
    <2>8. stage[f.e] = "live" /\ hdl[f.e].closing
      BY <1>1, <1>2, <2>6 DEF FrameTrue
    <2> HIDE DEF f, a
    <2>9. b \in Frame
      BY <1>2, <2>3, <2>6, Zenon DEF Frame
    <2>10. b.pc = "recheck" /\ b.e = f.e /\ b.how = f.how
      BY <1>2 DEF Frame
    <2> HIDE DEF b
    <2>11. FrameNeeds(a, stage, hdl)
      BY <1>2, <2>5, <2>7, <2>8 DEF FrameNeeds
    <2> QED
      BY <1>1, <2>4, <2>5, <2>9, <2>10, <2>11, NeededPush DEF f
  <1>4. CASE stack' = With(t, g)
    <2>1. f.pc = "children" /\ 0 \in Nat /\ 2 \in 1..2
      BY <1>1
    <2> HIDE DEF f
    <2>2. g \in Frame
      BY <1>2, <2>1, Zenon DEF Frame
    <2>3. g.pc = "children" /\ g.e = f.e /\ g.how = f.how
      BY <1>2, <2>1 DEF Frame
    <2>4. <<f.pc, g.pc>> \in Onwards
      BY <2>1, <2>3 DEF Onwards, QuietMoves
    <2> HIDE DEF g
    <2>5. Moves(t, g)
      BY <1>1, <1>4, <2>2, WithMoves
    <2> QED
      BY <1>1, <2>3, <2>4, <2>5, NeededGoto DEF f
  <1>5. CASE Goto(t, "handle")
    <2>1. <<f.pc, "handle">> \in Onwards
      BY <1>1 DEF Onwards, QuietMoves
    <2>2. stack' = With(t, [f EXCEPT !.pc = "handle"])
      BY <1>5 DEF Goto, GotoPc
    <2> QED
      BY <1>1, <2>1, <2>2, NeededNext
  <1> QED
    BY <1>3, <1>4, <1>5 DEF NextChild

\* A reader gives its topic up; what it may have closed is its subscriber.
LEMMA NeededReaderDelete ==
    ASSUME IInv, Needed, NEW t \in Threads, UNCHANGED app, ReaderDelete(t)
    PROVE  Needed'
  <1> DEFINE f == Top(t)  a == TopicOf[f.e]
  <1>1. ~Idle(t) /\ f.pc = "deriver" /\ f.e \in Readers /\ TypeOK
    BY DEF ReaderDelete, At, IInv
  <1>2. f \in Frame /\ a \in Entities /\ Kind[a] = "topic"
    BY <1>1, TopFrame, Tree
  <1>3. Keeps
    BY <1>1, <1>2, CountKeeps DEF ReaderDelete
  <1>4. CASE Goto(t, "free")
    <2>1. <<f.pc, "free">> \in Onwards
      BY <1>1 DEF Onwards, QuietMoves
    <2>2. stack' = With(t, [f EXCEPT !.pc = "free"])
      BY <1>4 DEF Goto, GotoPc
    <2> QED
      BY <1>1, <1>3, <2>1, <2>2, NeededNext
  <1>5. CASE stack' = [stack EXCEPT ![t] = <<Call(a, "explicit"), [f EXCEPT !.pc = "dropped"]>> \o Tail(@)]
    <2> DEFINE g == [f EXCEPT !.pc = "dropped"]  c == Call(a, "explicit")
    <2>1. Calls(t, c, g)
      BY <1>5 DEF Calls
    <2>2. g \in Frame /\ g.pc = "dropped" /\ g.e = f.e /\ g.how = f.how /\ g.arg = f.arg
      BY <1>2, GotoFrame DEF Deleting, AfterLeaving
    <2>3. c \in Frame /\ c.pc = "pin" /\ c.how = "explicit"
      BY <1>2, CallFits
    <2> HIDE DEF g, c
    <2>4. FrameNeeds(c, stage, hdl)
      BY <2>3 DEF FrameNeeds
    <2> QED
      BY <1>1, <1>3, <2>1, <2>2, <2>3, <2>4, NeededPush
  <1> QED
    BY <1>4, <1>5 DEF ReaderDelete

\* A begin: dds_delete, dds_create_reader or any other operation.
LEMMA NeededAtBegin ==
    ASSUME IInv, Needed, NEW t \in Threads, Begin(t)
    PROVE  Needed'
  <1>1. TypeOK /\ Idle(t) /\ UNCHANGED app
    BY DEF Begin, UserDelete, UsePin, CreateReader, IInv
  <1>2. CASE UserDelete(t)
    <2>1. PICK e \in app.deletable : stack' = [stack EXCEPT ![t] = <<Call(e, "user")>>]
      BY <1>2 DEF UserDelete
    <2>2. e \in Entities
      BY <1>1, LifecycleAssumption DEF TypeOK
    <2> DEFINE f == Call(e, "user")
    <2>3. f \in Frame /\ f.pc = "pin" /\ f.how = "user"
      BY <2>2, CallFits
    <2>4. Begins(t, f)
      BY <1>1, <2>1, <2>3, EnterBegins
    <2> HIDE DEF f
    <2>5. FrameNeeds(f, stage, hdl) /\ Keeps
      BY <1>1, <1>2, <2>3, NothingKeeps DEF FrameNeeds, UserDelete
    <2> QED
      BY <2>4, <2>5, NeededBegin
  <1>3. CASE UsePin(t)
    <2>1. PICK e \in app.usable : Enter(t, [Call(e, "use") EXCEPT !.pc = "uselock"])
      BY <1>3 DEF UsePin
    <2>2. e \in Entities
      BY <1>1, LifecycleAssumption DEF TypeOK
    <2> DEFINE f == [Call(e, "use") EXCEPT !.pc = "uselock"]
    <2>3. f = [pc |-> "uselock", e |-> e, how |-> "use", arg |-> 0, pass |-> 1]
      BY DEF Call
    <2>4. f \in Frame /\ f.pc = "uselock" /\ f.how = "use" /\ f.e = e
      BY <2>2, <2>3 DEF Frame, InCall
    <2>5. stack' = [stack EXCEPT ![t] = <<f>>] /\ hdl' = [hdl EXCEPT ![e] = Pin(@)]
      BY <2>1, <2>4 DEF Enter
    <2> HIDE DEF f
    <2>6. Begins(t, f)
      BY <1>1, <2>4, <2>5, EnterBegins
    <2>7. UNCHANGED <<app, stage, children>>
      BY <1>1, <1>3 DEF UsePin
    <2>8. FrameNeeds(f, stage, hdl) /\ Keeps
      BY <1>1, <2>2, <2>4, <2>5, <2>7, CountKeeps DEF FrameNeeds
    <2> QED
      BY <2>6, <2>8, NeededBegin
  <1>4. CASE CreateReader(t)
    <2>1. PICK r \in Readers \cap Unborn :
            LET sub == Parent[r]
                implicit == sub \in Implicit /\ stage[sub] = "unborn"
                e == IF implicit THEN Parent[sub] ELSE sub
            IN  Enter(t, [pc |-> IF implicit THEN "plock" ELSE "clock", e |-> e,
                          how |-> IF implicit THEN "create_implicit" ELSE "create",
                          arg |-> r, pass |-> 1])
      BY <1>4 DEF CreateReader
    <2> DEFINE sub == Parent[r]
               implicit == sub \in Implicit /\ stage[sub] = "unborn"
               e == IF implicit THEN Parent[sub] ELSE sub
               f == [pc |-> IF implicit THEN "plock" ELSE "clock", e |-> e,
                     how |-> IF implicit THEN "create_implicit" ELSE "create",
                     arg |-> r, pass |-> 1]
    <2>2. r \in Entities /\ r \in Nat /\ e \in Entities
      <3>1. r \in Entities /\ r \in Nat /\ sub \in Entities /\ Kind[sub] = "subscriber"
        BY Tree
      <3> QED
        BY <3>1, Tree
    <2>3. /\ f \in Frame /\ f.e = e /\ f.how # "from_parent"
          /\ f.pc = "plock" => f.how = "create_implicit"
      BY <2>2 DEF Frame, InCall
    <2>4. stack' = [stack EXCEPT ![t] = <<f>>] /\ hdl' = [hdl EXCEPT ![e] = Pin(@)]
      BY <2>1, <2>3 DEF Enter
    <2> HIDE DEF f, e
    <2>5. Begins(t, f)
      BY <1>1, <2>3, <2>4, EnterBegins
    <2>6. UNCHANGED <<app, stage, children>>
      BY <1>1, <1>4 DEF CreateReader
    <2>7. FrameNeeds(f, stage, hdl) /\ Keeps
      BY <1>1, <2>2, <2>3, <2>4, <2>6, CountKeeps DEF FrameNeeds
    <2> QED
      BY <2>5, <2>7, NeededBegin
  <1> QED
    BY <1>2, <1>3, <1>4 DEF Begin

LEMMA NeededInUse ==
    ASSUME IInv, Needed, NEW t \in Threads, UNCHANGED app, UseLock(t) \/ UseUnlock(t) \/ UseUnpin(t)
    PROVE  Needed'
  <1>1. ~Idle(t) /\ TypeOK
    BY DEF UseLock, UseUnlock, UseUnpin, At, IInv
  <1>2. Top(t).e \in Entities
    BY <1>1, TopFrame
  <1>3. CASE UseLock(t) \/ UseUnlock(t)
    <2>1. Keeps
      BY <1>3, NothingKeeps DEF UseLock, UseUnlock
    <2>2. PICK pc \in {"using", "unpin"} : Goto(t, pc) /\ <<Top(t).pc, pc>> \in Onwards /\ Top(t).pc # "cfailed"
      BY <1>3 DEF UseLock, UseUnlock, At, Onwards, QuietMoves
    <2>3. stack' = With(t, [Top(t) EXCEPT !.pc = pc])
      BY <2>2 DEF Goto, GotoPc
    <2> QED
      BY <1>1, <2>1, <2>2, <2>3, NeededNext
  <1>4. CASE UseUnpin(t)
    <2>1. Keeps
      BY <1>1, <1>2, <1>4, CountKeeps DEF UseUnpin
    <2>2. Return(t, "ok") /\ Top(t).pc = "unpin"
      BY <1>4 DEF UseUnpin, At
    <2>3. Top(t).pc \notin Deleting /\ \A e : ~Saves(Top(t), e)
      BY <2>2 DEF Deleting, BeforeLeaving, AfterLeaving, Saves, Awaiting
    <2> QED
      BY <1>1, <2>1, <2>2, <2>3, NeededReturn
  <1> QED
    BY <1>3, <1>4

\* dds_create_reader but for the two registrations: the new subscriber is kept
\* in mind until its reader is there or until it is deleted.
LEMMA NeededInCreate ==
    ASSUME IInv, Needed, NEW t \in Threads, UNCHANGED app,
           \/ LockSubscriber(t) \/ PinTopic(t) \/ DeferSetQos(t) \/ AddTopicRef(t)
           \/ UnpinTopic(t) \/ UnlockSubscriber(t)
    PROVE  Needed'
  <1> DEFINE f == Top(t)  tp == TopicOf[f.arg]
  <1>1. /\ ~Idle(t) /\ TypeOK /\ UNCHANGED <<app, stage, children>>
        /\ f.pc \in {"clock", "ctopic", "cdefer", "cref", "ctopicdone", "crejected", "cunlock", "cfailed"}
    BY DEF LockSubscriber, PinTopic, DeferSetQos, AddTopicRef, UnpinTopic, UnlockSubscriber, At, IInv
  <1>2. tp \in Entities
    BY <1>1, TopFrame, CreationFrame DEF Creations, Making
  <1>3. Keeps
    <2>1. \/ UNCHANGED hdl
          \/ hdl' = [hdl EXCEPT ![tp] = Pin(@)]
          \/ hdl' = [hdl EXCEPT ![tp] = AddRef(@)]
          \/ hdl' = [hdl EXCEPT ![tp] = Unpin(@)]
      BY DEF LockSubscriber, PinTopic, DeferSetQos, AddTopicRef, UnpinTopic, UnlockSubscriber
    <2> QED
      BY <1>1, <1>2, <2>1, NothingKeeps, CountKeeps
  <1>4. PICK pc : /\ <<f.pc, pc>> \in Onwards /\ pc # "pinsub" /\ pc # "sleep"
                  /\ pc = "unpin" => f.pc # "cfailed" \/ f.how # "create_implicit"
                  /\ Goto(t, pc) \/ \E p : stack' = Broadcast(GotoPc(t, pc), p)
    <2>1. CASE UnpinTopic(t)
      <3>1. PICK pc : /\ pc = IF f.pc = "crejected" THEN "cfailed" ELSE "cunlock"
                      /\ stack' = GotoPc(t, pc) \/ \E p : stack' = Broadcast(GotoPc(t, pc), p)
        BY <2>1 DEF UnpinTopic
      <3>2. f.pc \in {"ctopicdone", "crejected"}
        BY <2>1 DEF UnpinTopic, At
      <3> QED
        BY <3>1, <3>2 DEF Onwards, Goto
    <2>2. CASE UnlockSubscriber(t)
      BY <2>2 DEF UnlockSubscriber, At, Onwards, QuietMoves
    <2>3. CASE LockSubscriber(t) \/ DeferSetQos(t)
      BY <2>3 DEF LockSubscriber, DeferSetQos, At, Onwards, QuietMoves
    <2>4. CASE PinTopic(t) \/ AddTopicRef(t)
      BY <2>4 DEF PinTopic, AddTopicRef, At, Onwards, QuietMoves
    <2> QED
      BY <2>1, <2>2, <2>3, <2>4
  <1>5. \/ stack' = With(t, [f EXCEPT !.pc = pc])
        \/ \E p : stack' = Broadcast(With(t, [f EXCEPT !.pc = pc]), p) /\ pc # "sleep"
    BY <1>4 DEF Goto, GotoPc
  <1> QED
    BY <1>1, <1>3, <1>4, <1>5, NeededNext

LEMMA ImplicitKind ==
    ASSUME TypeOK, NEW e \in Implicit
    PROVE  e \in Entities /\ Kind[e] = "subscriber" /\ e \notin Readers /\ e # 0
  <1>1. e \in Entities /\ app \in Apps /\ e \in app.implicit
    BY ImplicitType DEF TypeOK, Implicit
  <1>2. Kind[e] = "subscriber"
    BY <1>1, TreeAssumption
  <1> QED
    BY <1>1, <1>2, Tree

LEMMA NeededPinning ==
    ASSUME IInv, Needed, NEW t \in Threads, UNCHANGED app,
           ParticipantUnpin(t) \/ PinSubscriber(t) \/ UndoSubscriber(t)
    PROVE  Needed'
  <1> DEFINE f == Top(t)
  <1>1. ~Idle(t) /\ TypeOK /\ f.pc \in {"punpin", "pinsub", "cundo"} /\ UNCHANGED <<app, stage, children>>
    BY DEF ParticipantUnpin, PinSubscriber, UndoSubscriber, At, IInv
  <1>2. f \in Frame /\ f.e \in Entities /\ FrameOK(f, Implicit)
    BY <1>1, TopFrame
  <1>3. f.arg \in Readers /\ Parent[f.arg] \in Entities /\ (f.pc # "punpin" => f.e = Parent[f.arg])
    BY <1>1, <1>2, CreationFrame DEF Creations, Making, OfParticipant
  <1>4. Keeps
    <2>1. \/ UNCHANGED hdl
          \/ hdl' = [hdl EXCEPT ![f.e] = Pin(@)]
          \/ hdl' = [hdl EXCEPT ![f.e] = Unpin(@)]
      BY DEF ParticipantUnpin, PinSubscriber, UndoSubscriber
    <2> QED
      BY <1>1, <1>2, <2>1, NothingKeeps, CountKeeps
  <1>5. CASE ParticipantUnpin(t)
    <2> DEFINE g == [f EXCEPT !.pc = "pinsub", !.e = Parent[f.arg]]
    <2>1. f.pc = "punpin" /\ stack' = With(t, g)
      BY <1>5 DEF ParticipantUnpin, At
    <2> HIDE DEF f
    <2>2. g \in Frame
      BY <1>2, <1>3, Zenon DEF Frame
    <2>3. g.pc = "pinsub" /\ g.how = f.how /\ g.arg = f.arg
      BY <1>2 DEF Frame
    <2> HIDE DEF g
    <2>4. Moves(t, g)
      BY <1>1, <2>1, <2>2, WithMoves
    <2>5. <<f.pc, g.pc>> \in Onwards
      BY <2>1, <2>3 DEF Onwards
    <2> QED
      BY <1>1, <1>4, <2>3, <2>4, <2>5, NeededGoto DEF f
  <1>6. CASE PinSubscriber(t) /\ Goto(t, "clock")
    <2>1. <<f.pc, "clock">> \in Onwards
      BY <1>6 DEF PinSubscriber, At, Onwards
    <2>2. stack' = With(t, [f EXCEPT !.pc = "clock"])
      BY <1>6 DEF Goto, GotoPc
    <2> QED
      BY <1>1, <1>4, <2>1, <2>2, NeededNext
  <1>7. CASE PinSubscriber(t) /\ Return(t, "bad_parameter") /\ ~Pinnable(f.e)
    <2>1. f.pc = "pinsub" /\ (~Live(f.e) \/ hdl[f.e].closing)
      BY <1>7 DEF PinSubscriber, At, Pinnable, CanPin
    <2>2. \A e \in Implicit : Saves(f, e) => ~Live(e) \/ hdl[e].closing
      BY <1>3, <2>1 DEF Saves
    <2>3. f.pc \notin Deleting
      BY <2>1 DEF Deleting, BeforeLeaving, AfterLeaving
    <2> QED
      BY <1>1, <1>4, <1>7, <2>2, <2>3, NeededReturn
  <1>8. CASE UndoSubscriber(t)
    <2> DEFINE g == Call(f.e, "user")
    <2>1. f.pc = "cundo" /\ stack' = With(t, g)
      BY <1>8 DEF UndoSubscriber, At
    <2>2. g \in Frame /\ g.pc = "pin" /\ g.e = f.e /\ g.how = "user"
      BY <1>2, CallFits
    <2> HIDE DEF g
    <2>3. Moves(t, g)
      BY <1>1, <2>1, <2>2, WithMoves
    <2>4. FrameNeeds(g, stage, hdl)
      BY <2>2 DEF FrameNeeds
    <2>5. \A e : ~Responsible(f, e)
      BY <2>1 DEF Responsible, Deleting, BeforeLeaving, AfterLeaving
    <2>6. \A e \in Implicit : Saves(f, e) => Saves(g, e)
      BY <1>3, <2>1, <2>2 DEF Saves
    <2> QED
      BY <1>1, <1>4, <2>3, <2>4, <2>5, <2>6, NeededMove
  <1> QED
    BY <1>5, <1>6, <1>7, <1>8 DEF PinSubscriber

----------------------------------------------------------------------------
(* The steps that change what is live, closed or a child.                   *)

\* dds_entity_pin_for_delete: nobody deletes what it finds closed, and it is
\* only of a topic that the deletion is put off.
LEMMA NeededDeletePin ==
    ASSUME IInv, Needed, NEW t \in Threads, UNCHANGED app, DeletePin(t)
    PROVE  Needed'
  <1> DEFINE f == Top(t)  e == f.e  imp == e \in Implicit
  <1>1. ~Idle(t) /\ f.pc = "pin" /\ TypeOK /\ UNCHANGED <<app, stage, children>>
    BY DEF DeletePin, At, IInv
  <1>2. f \in Frame /\ e \in Entities /\ Last(t) \in Pos /\ call[Last(t)] = f /\ Next1(t) \notin Pos
        /\ hdl[e] \in CntFlags
    BY <1>1, TopFrame DEF TypeOK
  <1>3. f.pc \notin Deleting /\ f.pc \notin Awaiting /\ f.pc # "closeparent" /\ \A x : ~Responsible(f, x)
    BY <1>1 DEF Deleting, BeforeLeaving, AfterLeaving, Awaiting, Responsible
  <1>4. \A x : Saves(f, x) => x = e
    BY <1>3 DEF Saves
  <1>5. CASE UNCHANGED hdl /\ (Return(t, "bad_parameter") \/ Return(t, "already_deleted"))
             /\ (~Live(e) \/ hdl[e].closing \/ AlreadyDeleted(hdl[e]))
    <2>1. AlreadyDeleted(hdl[e]) => Kind[e] = "topic"
      BY <1>2 DEF AlreadyDeleted, Needed, OnlyTopics
    <2>2. \A x \in Implicit : Saves(f, x) => ~Live(x) \/ hdl[x].closing
      BY <1>1, <1>2, <1>4, <1>5, <2>1, ImplicitKind
    <2>3. Keeps
      BY <1>1, <1>5, NothingKeeps
    <2> QED
      BY <1>1, <1>3, <1>5, <2>2, <2>3, NeededReturn
  <1>6. CASE /\ MustDefer(hdl[e], imp, AllowChildren(e))
             /\ hdl' = [hdl EXCEPT ![e] = Defer(@)] /\ Return(t, "ok")
    <2>1. Pops(t)
      BY <1>1, <1>6, ReturnPops DEF Return
    <2>2. Others(t) /\ Mine(t) = {}
      BY <2>1 DEF Pops, Mine
    <2>3. e \notin Implicit /\ Kind[e] = "topic"
      BY <1>6 DEF MustDefer, AllowChildren
    <2>4. /\ \A x \in Entities : x # e => hdl'[x] = hdl[x]
          /\ hdl'[e].closing <=> hdl[e].closing
      <3>1. hdl'[e] = Defer(hdl[e]) /\ \A x \in Entities : x # e => hdl'[x] = hdl[x]
        BY <1>1, <1>2, <1>6 DEF TypeOK
      <3> QED
        BY <1>2, <3>1, HandleFields
    <2>5. \A x \in Implicit : ~Saves(f, x)
      BY <1>4, <2>3
    <2>6. \A x \in Entities : hdl'[x].deferred => hdl[x].deferred \/ Kind[x] = "topic"
      BY <2>3, <2>4
    <2>7. \A x \in Entities : (hdl'[x].closing <=> hdl[x].closing)
      BY <2>4
    <2> QED
      BY <1>1, <1>2, <1>3, <2>2, <2>5, <2>6, <2>7, NeededStep
  <1>7. CASE hdl' = [hdl EXCEPT ![e] = PinAndClose(@, imp)] /\ Goto(t, "lock")
    <2> DEFINE g == [f EXCEPT !.pc = "lock"]
    <2>1. stack' = With(t, g)
      BY <1>7 DEF Goto, GotoPc
    <2>2. g \in Frame /\ g.pc = "lock" /\ g.e = e /\ g.how = f.how
      BY <1>2, GotoFrame DEF Deleting, BeforeLeaving
    <2> HIDE DEF g
    <2>3. Moves(t, g)
      BY <1>1, <2>1, <2>2, WithMoves
    <2>4. Others(t) /\ Mine(t) = {Last(t)} /\ call'[Last(t)] = g
      BY <2>3 DEF Moves, Mine
    <2>5. /\ \A x \in Entities : x # e => hdl'[x] = hdl[x]
          /\ hdl'[e].closing /\ (hdl'[e].deferred <=> hdl[e].deferred)
      <3>1. imp \in BOOLEAN
        OBVIOUS
      <3> HIDE DEF imp
      <3>2. hdl'[e] = PinAndClose(hdl[e], imp) /\ \A x \in Entities : x # e => hdl'[x] = hdl[x]
        BY <1>1, <1>2, <1>7 DEF TypeOK
      <3> QED
        BY <1>2, <3>1, <3>2, HandleFields
    <2>6. FrameNeeds(g, stage', hdl')
      <3>1. FrameNeeds(f, stage, hdl)
        BY <1>2 DEF Needed, FramesNeed
      <3> QED
        BY <1>1, <2>2, <2>5, <3>1 DEF FrameNeeds
    <2>7. Responsible(g, e)
      BY <2>2 DEF Responsible, Deleting, BeforeLeaving, Left
    <2>8. \A x \in Entities : hdl'[x].deferred => hdl[x].deferred \/ Kind[x] = "topic"
      BY <2>5
    <2>9. \A x \in Entities : stage[x] # "unborn" => stage'[x] # "unborn" /\ (hdl[x].closing => hdl'[x].closing)
      BY <1>1, <2>5
    <2>10. \A x \in Entities : stage'[x] = "live" /\ hdl'[x].closing =>
              (\E y \in Mine(t) : Responsible(call'[y], x)) \/ (stage[x] = "live" /\ hdl[x].closing)
      BY <1>1, <2>4, <2>5, <2>7
    <2>11. \A x \in Implicit : stage'[x] = "live" /\ children'[x] = {} =>
              hdl'[x].closing \/ (stage[x] = "live" /\ children[x] = {} /\ ~Saves(f, x))
      BY <1>1, <1>4, <2>5
    <2> QED
      BY <1>1, <1>2, <1>3, <2>4, <2>6, <2>8, <2>9, <2>10, <2>11, NeededStep
  <1> QED
    BY <1>5, <1>6, <1>7 DEF DeletePin

LEMMA NeededHandleDelete ==
    ASSUME IInv, Needed, NEW t \in Threads, UNCHANGED app, HandleDelete(t)
    PROVE  Needed'
  <1> DEFINE f == Top(t)  e == f.e  g == [f EXCEPT !.pc = "parent", !.arg = 0]
  <1>1. /\ ~Idle(t) /\ f.pc = "handle" /\ TypeOK /\ UNCHANGED <<app, hdl, children>>
        /\ stage' = [stage EXCEPT ![e] = "unlinked"] /\ stack' = With(t, g)
    BY DEF HandleDelete, At, IInv
  <1>2. f \in Frame /\ e \in Entities /\ Last(t) \in Pos /\ call[Last(t)] = f /\ Next1(t) \notin Pos
    BY <1>1, TopFrame
  <1>3. "parent" \in Deleting /\ 0 \in Nat
    BY DEF Deleting, BeforeLeaving
  <1>4. stage'[e] = "unlinked" /\ \A x \in Entities : x # e => stage'[x] = stage[x]
    BY <1>1, <1>2 DEF TypeOK
  <1>5. FrameNeeds(f, stage, hdl)
    BY <1>2 DEF Needed, FramesNeed
  <1>6. \A x \in Entities : x # e => ~Responsible(f, x)
    BY <1>1 DEF Responsible, AfterLeaving
  <1>7. \A x : ~Saves(f, x)
    BY <1>1 DEF Saves, Awaiting
  <1> HIDE DEF f
  <1>8. g \in Frame
    BY <1>2, <1>3, Zenon DEF Frame
  <1>9. g.pc = "parent" /\ g.e = e /\ g.how = f.how
    BY <1>2 DEF Frame
  <1> HIDE DEF g
  <1>10. Moves(t, g)
    BY <1>1, <1>8, WithMoves
  <1>11. Others(t) /\ Mine(t) = {Last(t)} /\ call'[Last(t)] = g
    BY <1>10 DEF Moves, Mine
  <1>12. FrameNeeds(g, stage', hdl')
    BY <1>1, <1>4, <1>5, <1>9 DEF FrameNeeds
  <1>13. \A x \in Implicit : x \in Entities
    BY <1>1, ImplicitType
  <1>14. \A x \in Entities : stage'[x] = "live" => stage[x] = "live" /\ x # e
    BY <1>4
  <1>15. \A x \in Entities : stage[x] # "unborn" => stage'[x] # "unborn" /\ (hdl[x].closing => hdl'[x].closing)
    BY <1>1, <1>4
  <1> QED
    BY <1>1, <1>2, <1>6, <1>7, <1>11, <1>12, <1>13, <1>14, <1>15, NeededStep

\* dds_handle_drop_childref_and_pin: the last child of an implicit subscriber
\* drops its last reference, so that it takes the subscriber with it, unless
\* the subscriber's deletion is what deleted it.
LEMMA NeededLeaveParent ==
    ASSUME IInv, Needed, NEW t \in Threads, UNCHANGED app, LeaveParent(t)
    PROVE  Needed'
  <1> DEFINE f == Top(t)  e == f.e  p == Parent[e]  dropped == DropRef(hdl[p])
             last == DeletesParent(hdl[p], p \in Implicit, f.how # "from_parent")
  <1>1. /\ ~Idle(t) /\ f.pc = "parent" /\ TypeOK /\ RefsOK /\ p # 0 /\ UNCHANGED <<app, stage>>
        /\ children' = [children EXCEPT ![p] = @ \ {e}]
    BY DEF LeaveParent, At, IInv
  <1>2. f \in Frame /\ e \in Entities /\ Last(t) \in Pos /\ call[Last(t)] = f /\ Next1(t) \notin Pos
        /\ FrameTrue(f, stage, hdl, children)
    BY <1>1, TopFrame
  <1>3. p \in Entities /\ hdl[p] \in CntFlags /\ e \in children[p]
    BY <1>1, <1>2, Tree DEF TypeOK, FrameTrue
  <1>4. children'[p] = children[p] \ {e} /\ \A x \in Entities : x # p => children'[x] = children[x]
    BY <1>1, <1>3 DEF TypeOK
  <1>5. FrameNeeds(f, stage, hdl)
    BY <1>2 DEF Needed, FramesNeed
  <1>6. \A x : ~Responsible(f, x) /\ ~Saves(f, x)
    BY <1>1 DEF Responsible, Saves, Awaiting, Left, AfterLeaving
  <1>7. /\ \A x \in Entities : (hdl'[x].closing <=> hdl[x].closing) /\ (hdl'[x].deferred <=> hdl[x].deferred)
    <2>1. PICK h \in {dropped, Pin(dropped)} : hdl' = [hdl EXCEPT ![p] = h]
      BY DEF LeaveParent
    <2>2. (h.closing <=> hdl[p].closing) /\ (h.deferred <=> hdl[p].deferred)
      BY <1>3, <2>1 DEF Pin, DropRef, CntFlags
    <2>3. hdl'[p] = h /\ \A x \in Entities : x # p => hdl'[x] = hdl[x]
      BY <1>1, <1>3, <2>1 DEF TypeOK
    <2> QED
      BY <2>2, <2>3
  <1>8. PICK pc \in {"closeparent", "deriver"} :
            /\ (pc = "closeparent") <=> last
            /\ stack' = With(t, [f EXCEPT !.pc = pc]) \/ stack' = Broadcast(With(t, [f EXCEPT !.pc = pc]), p)
    BY DEF LeaveParent, Goto, GotoPc
  <1> DEFINE g == [f EXCEPT !.pc = pc]
  <1>9. g \in Frame /\ g.pc = pc /\ g.e = e /\ g.how = f.how
    BY <1>2, GotoFrame DEF Deleting, BeforeLeaving, AfterLeaving
  <1>10. Moves(t, g)
    BY <1>1, <1>8, <1>9, WithMoves, BroadcastMoves
  <1> HIDE DEF g
  <1>11. Others(t) /\ Mine(t) = {Last(t)} /\ call'[Last(t)] = g
    BY <1>10 DEF Moves, Mine
  <1>12. FrameNeeds(g, stage', hdl')
    BY <1>1, <1>5, <1>7, <1>9 DEF FrameNeeds
  <1>13. ASSUME p \in Implicit, children'[p] = {}, ~hdl[p].closing PROVE Saves(g, p)
    <2>1. children[p] = {e}
      BY <1>3, <1>4, <1>13
    <2>2. topicUsers[p] = {}
      <3>1. Kind[p] = "subscriber"
        BY <1>1, <1>13, ImplicitKind
      <3>2. \A r \in Readers : TopicOf[r] # p
        BY <3>1, Tree
      <3> QED
        BY <1>3, <3>2 DEF topicUsers, users
    <2>3. Cardinality(children[p]) = 1 /\ Cardinality(topicUsers[p]) = 0
      BY <2>1, <2>2, FS_Singleton, FS_EmptySet
    <2>4. hdl[p].ref = 0 + 1 + 0
      BY <1>1, <1>3, <1>13, <2>3 DEF RefsOK, Own
    <2>5. f.how # "from_parent"
      BY <1>5, <1>13 DEF FrameNeeds
    <2>6. last
      BY <1>13, <2>4, <2>5 DEF DeletesParent
    <2> QED
      BY <1>8, <1>9, <2>6 DEF Saves
  <1>14. \A x \in Implicit : x \in Entities
    BY <1>1, ImplicitType
  <1> HIDE DEF f, e, p, last
  <1>15. \A x \in Entities : stage[x] # "unborn" => stage'[x] # "unborn" /\ (hdl[x].closing => hdl'[x].closing)
    BY <1>1, <1>7
  <1>16. \A x \in Entities : stage'[x] = "live" /\ hdl'[x].closing => stage[x] = "live" /\ hdl[x].closing
    BY <1>1, <1>7
  <1>17. ASSUME NEW x \in Implicit, stage'[x] = "live", children'[x] = {}
         PROVE  \/ hdl'[x].closing
                \/ \E y \in Mine(t) : Saves(call'[y], x)
                \/ stage[x] = "live" /\ children[x] = {}
    <2>1. CASE x = p
      BY <1>7, <1>11, <1>13, <1>14, <1>17, <2>1
    <2>2. CASE x # p
      BY <1>1, <1>4, <1>14, <1>17, <2>2
    <2> QED
      BY <2>1, <2>2
  <1>18. \A x \in Entities : hdl'[x].deferred => hdl[x].deferred \/ Kind[x] = "topic"
    BY <1>7
  <1> QED
    BY <1>1, <1>2, <1>6, <1>11, <1>12, <1>15, <1>16, <1>17, <1>18, NeededStep

LEMMA NeededCloseParent ==
    ASSUME IInv, Needed, NEW t \in Threads, UNCHANGED app, CloseParent(t)
    PROVE  Needed'
  <1> DEFINE f == Top(t)  p == Parent[f.e]  g == [f EXCEPT !.pc = "deriver", !.arg = p]
  <1>1. /\ ~Idle(t) /\ f.pc = "closeparent" /\ TypeOK /\ UNCHANGED <<app, stage, children>>
        /\ hdl' = [hdl EXCEPT ![p] = Close(@)] /\ stack' = Broadcast(With(t, g), p)
    BY DEF CloseParent, At, IInv
  <1>2. f \in Frame /\ Last(t) \in Pos /\ call[Last(t)] = f /\ Next1(t) \notin Pos /\ FrameOK(f, Implicit)
    BY <1>1, TopFrame
  <1>3. p \in Implicit /\ p \in Entities /\ p \in Nat /\ \A x \in Implicit : x \in Entities
    <2>1. p \in Implicit
      BY <1>1, <1>2 DEF FrameOK
    <2> QED
      BY <1>1, <2>1, ImplicitType, Tree
  <1>4. hdl'[p].closing /\ (hdl'[p].deferred <=> hdl[p].deferred) /\ \A x \in Entities : x # p => hdl'[x] = hdl[x]
    <2>1. hdl[p] \in CntFlags /\ hdl'[p] = Close(hdl[p]) /\ \A x \in Entities : x # p => hdl'[x] = hdl[x]
      BY <1>1, <1>3 DEF TypeOK
    <2> QED
      BY <2>1, HandleFields
  <1>5. FrameNeeds(f, stage, hdl)
    BY <1>2 DEF Needed, FramesNeed
  <1>6. \A x : ~Responsible(f, x) /\ (Saves(f, x) => x = p)
    BY <1>1 DEF Responsible, Saves, Awaiting, Left, AfterLeaving
  <1>7. "deriver" \in Deleting
    BY DEF Deleting, AfterLeaving
  <1> HIDE DEF f, p
  <1>8. g \in Frame
    BY <1>2, <1>3, <1>7, Zenon DEF Frame
  <1>9. g.pc = "deriver" /\ g.e = f.e /\ g.how = f.how /\ g.arg = p
    BY <1>2 DEF Frame
  <1> HIDE DEF g
  <1>10. Moves(t, g)
    BY <1>1, <1>8, <1>9, BroadcastMoves
  <1>11. Others(t) /\ Mine(t) = {Last(t)} /\ call'[Last(t)] = g
    BY <1>10 DEF Moves, Mine
  <1>12. FrameNeeds(g, stage', hdl')
    BY <1>1, <1>4, <1>5, <1>9 DEF FrameNeeds
  <1>13. Responsible(g, p)
    BY <1>9 DEF Responsible, AfterLeaving
  <1>14. \A x \in Entities : stage[x] # "unborn" => stage'[x] # "unborn" /\ (hdl[x].closing => hdl'[x].closing)
    BY <1>1, <1>4
  <1>15. \A x \in Entities : stage'[x] = "live" /\ hdl'[x].closing =>
            (\E y \in Mine(t) : Responsible(call'[y], x)) \/ (stage[x] = "live" /\ hdl[x].closing)
    BY <1>1, <1>4, <1>11, <1>13
  <1>16. \A x \in Implicit : stage'[x] = "live" /\ children'[x] = {} =>
            hdl'[x].closing \/ (stage[x] = "live" /\ children[x] = {} /\ ~Saves(f, x))
    BY <1>1, <1>4, <1>6
  <1>17. \A x \in Entities : hdl'[x].deferred => hdl[x].deferred \/ Kind[x] = "topic"
    BY <1>4
  <1> QED
    BY <1>1, <1>2, <1>6, <1>11, <1>12, <1>14, <1>15, <1>16, <1>17, NeededStep

LEMMA NeededFree ==
    ASSUME IInv, Needed, NEW t \in Threads, UNCHANGED app, Free(t)
    PROVE  Needed'
  <1> DEFINE f == Top(t)  e == f.e
  <1>1. /\ ~Idle(t) /\ f.pc = "free" /\ TypeOK /\ UNCHANGED <<app, hdl, children>>
        /\ stage' = [stage EXCEPT ![e] = "freed"]
    BY DEF Free, At, IInv
  <1>2. f \in Frame /\ e \in Entities /\ Last(t) \in Pos /\ call[Last(t)] = f /\ Next1(t) \notin Pos
        /\ FrameOK(f, Implicit)
    BY <1>1, TopFrame
  <1>3. stage'[e] = "freed" /\ \A x \in Entities : x # e => stage'[x] = stage[x]
    BY <1>1, <1>2 DEF TypeOK
  <1>4. \A x : ~Saves(f, x) /\ (Responsible(f, x) => f.arg = x)
    BY <1>1 DEF Responsible, Saves, Awaiting, Deleting, Left
  <1>5. \A x \in Implicit : x \in Entities
    BY <1>1, ImplicitType
  <1>6. 0 \notin Entities
    BY LifecycleAssumption
  <1>7. /\ Others(t)
        /\ \A y \in Mine(t) : FrameNeeds(call'[y], stage', hdl')
        /\ f.arg # 0 => \E y \in Mine(t) : Responsible(call'[y], f.arg)
    <2>1. CASE f.arg = 0 /\ Return(t, "ok")
      <3>1. Pops(t)
        BY <1>1, <2>1, ReturnPops DEF Return
      <3> QED
        BY <2>1, <3>1 DEF Pops, Mine
    <2>2. CASE f.arg # 0 /\ stack' = With(t, [Call(f.arg, "implicit") EXCEPT !.pc = "lock"])
      <3> DEFINE g == [Call(f.arg, "implicit") EXCEPT !.pc = "lock"]
      <3>1. g = [pc |-> "lock", e |-> f.arg, how |-> "implicit", arg |-> 0, pass |-> 1]
        BY DEF Call
      <3>2. f.arg \in Entities
        BY <1>1, <1>2, <1>5, <2>2 DEF FrameOK, AfterLeaving
      <3>3. g \in Frame /\ g.pc = "lock" /\ g.e = f.arg /\ g.how = "implicit"
        BY <3>1, <3>2 DEF Frame, Deleting, BeforeLeaving
      <3> HIDE DEF g
      <3>4. Moves(t, g)
        BY <1>1, <2>2, <3>3, WithMoves DEF g
      <3>5. Others(t) /\ Mine(t) = {Last(t)} /\ call'[Last(t)] = g
        BY <3>4 DEF Moves, Mine
      <3>6. FrameNeeds(g, stage', hdl')
        BY <3>3 DEF FrameNeeds
      <3>7. Responsible(g, f.arg)
        BY <3>3 DEF Responsible, Deleting, BeforeLeaving, Left
      <3> QED
        BY <3>5, <3>6, <3>7
    <2> QED
      BY <2>1, <2>2 DEF Free
  <1> HIDE DEF f, e
  <1>8. \A x \in Entities : stage[x] # "unborn" => stage'[x] # "unborn" /\ (hdl[x].closing => hdl'[x].closing)
    BY <1>1, <1>3
  <1>9. \A x \in Entities : stage'[x] = "live" => stage[x] = "live"
    BY <1>3
  <1>10. \A x \in Entities : stage'[x] = "live" /\ hdl'[x].closing =>
            \/ \E y \in Mine(t) : Responsible(call'[y], x)
            \/ stage[x] = "live" /\ hdl[x].closing /\ ~Responsible(f, x)
    BY <1>1, <1>4, <1>6, <1>7, <1>9
  <1>11. \A x \in Implicit : stage'[x] = "live" /\ children'[x] = {} =>
            stage[x] = "live" /\ children[x] = {} /\ ~Saves(f, x)
    BY <1>1, <1>4, <1>5, <1>9
  <1>12. \A x \in Entities : hdl'[x].deferred => hdl[x].deferred \/ Kind[x] = "topic"
    BY <1>1
  <1> QED
    BY <1>1, <1>2, <1>7, <1>8, <1>10, <1>11, <1>12, NeededStep

\* dds_entity_init, dds_entity_register_child: what is new is open.
LEMMA RegisterSets ==
    ASSUME TypeOK, NEW p \in Entities, NEW c \in Entities, p # c, RegisterChild(p, c)
    PROVE  /\ stage'[c] = "live" /\ \A x \in Entities : x # c => stage'[x] = stage[x]
           /\ children'[p] = children[p] \cup {c}
           /\ \A x \in Entities : x # p => children'[x] = children[x]
           /\ ~hdl'[c].closing /\ ~hdl'[c].deferred
           /\ \A x \in Entities : x # c =>
                 (hdl'[x].closing <=> hdl[x].closing) /\ (hdl'[x].deferred <=> hdl[x].deferred)
  <1>1. stage'[c] = "live" /\ \A x \in Entities : x # c => stage'[x] = stage[x]
    BY DEF TypeOK, RegisterChild
  <1>2. children'[p] = children[p] \cup {c} /\ \A x \in Entities : x # p => children'[x] = children[x]
    BY DEF TypeOK, RegisterChild
  <1>3. /\ hdl'[c] = Created(c \in Implicit) /\ hdl'[p] = AddRef(hdl[p])
        /\ \A x \in Entities : x # c /\ x # p => hdl'[x] = hdl[x]
    BY DEF TypeOK, RegisterChild
  <1>4. ~hdl'[c].closing /\ ~hdl'[c].deferred
    BY <1>3 DEF Created
  <1>5. (hdl'[p].closing <=> hdl[p].closing) /\ (hdl'[p].deferred <=> hdl[p].deferred)
    <2>1. hdl[p] \in CntFlags
      BY DEF TypeOK
    <2> QED
      BY <1>3, <2>1, HandleFields
  <1> QED
    BY <1>1, <1>2, <1>3, <1>4, <1>5

LEMMA NeededRegister ==
    ASSUME IInv, Needed, NEW t \in Threads, UNCHANGED app, ~Idle(t),
           NEW p \in Entities, NEW c \in Entities, p # c, RegisterChild(p, c), stage[c] = "unborn",
           NEW pc, <<Top(t).pc, pc>> \in {<<"plock", "punpin">>, <<"cregister", "ctopicdone">>}, Goto(t, pc),
           \A x \in Implicit : Saves(Top(t), x) => x = p,
           c \in Implicit => pc = "punpin" /\ Parent[Top(t).arg] = c
    PROVE  Needed'
  <1> DEFINE f == Top(t)  g == [f EXCEPT !.pc = pc]
  <1>1. TypeOK /\ f \in Frame /\ Last(t) \in Pos /\ call[Last(t)] = f /\ Next1(t) \notin Pos
    BY TopFrame DEF IInv
  <1>2. FrameNeeds(f, stage, hdl)
    BY <1>1 DEF Needed, FramesNeed
  <1>3. g \in Frame /\ g.pc = pc /\ g.e = f.e /\ g.how = f.how /\ g.arg = f.arg
    BY <1>1, GotoFrame DEF InCall
  <1>4. stack' = With(t, g)
    BY DEF Goto, GotoPc
  <1> HIDE DEF g
  <1>5. Moves(t, g)
    BY <1>1, <1>3, <1>4, WithMoves
  <1>6. Others(t) /\ Mine(t) = {Last(t)} /\ call'[Last(t)] = g
    BY <1>5 DEF Moves, Mine
  <1>7. /\ stage'[c] = "live" /\ \A x \in Entities : x # c => stage'[x] = stage[x]
        /\ children'[p] = children[p] \cup {c}
        /\ \A x \in Entities : x # p => children'[x] = children[x]
        /\ ~hdl'[c].closing /\ ~hdl'[c].deferred
        /\ \A x \in Entities : x # c =>
              (hdl'[x].closing <=> hdl[x].closing) /\ (hdl'[x].deferred <=> hdl[x].deferred)
    BY <1>1, RegisterSets
  <1>8. FrameNeeds(g, stage', hdl')
    <2>1. \A x \in Entities : stage[x] # "unborn" /\ hdl[x].closing => stage'[x] # "unborn" /\ hdl'[x].closing
      BY <1>7
    <2> QED
      BY <1>2, <1>3, <2>1 DEF FrameNeeds
  <1>9. c \in Implicit => Saves(g, c)
    <2>1. c \in Implicit => f.how = "create_implicit"
      BY <1>2 DEF FrameNeeds
    <2> QED
      BY <1>3, <2>1 DEF Saves, Awaiting
  <1>10. \A x : ~Responsible(f, x)
    BY DEF Responsible, Deleting, BeforeLeaving, AfterLeaving
  <1>11. \A x \in Implicit : x \in Entities
    BY <1>1, ImplicitType
  <1>12. \A x \in Entities : stage[x] # "unborn" => stage'[x] # "unborn" /\ (hdl[x].closing => hdl'[x].closing)
    BY <1>7
  <1>13. \A x \in Entities : hdl'[x].deferred => hdl[x].deferred \/ Kind[x] = "topic"
    BY <1>7
  <1>14. \A x \in Entities : stage'[x] = "live" /\ hdl'[x].closing => stage[x] = "live" /\ hdl[x].closing
    BY <1>7
  <1>15. ASSUME NEW x \in Implicit, stage'[x] = "live", children'[x] = {}
         PROVE  \/ \E y \in Mine(t) : Saves(call'[y], x)
                \/ stage[x] = "live" /\ children[x] = {} /\ ~Saves(f, x)
    <2>1. CASE x = c
      BY <1>6, <1>9, <1>15, <2>1
    <2>2. CASE x # c
      <3>1. x # p
        BY <1>7, <1>15
      <3> QED
        BY <1>7, <1>11, <1>15, <2>2, <3>1
    <2> QED
      BY <2>1, <2>2
  <1> QED
    BY <1>1, <1>6, <1>8, <1>10, <1>12, <1>13, <1>14, <1>15, NeededStep

LEMMA NeededCreating ==
    ASSUME IInv, Needed, NEW t \in Threads, UNCHANGED app, CreateSubscriber(t) \/ RegisterReader(t)
    PROVE  Needed'
  <1> DEFINE f == Top(t)  sub == Parent[f.arg]
  <1>1. ~Idle(t) /\ TypeOK /\ f.pc \in {"plock", "cregister"}
    BY DEF CreateSubscriber, RegisterReader, At, IInv
  <1>2. f \in Frame /\ f.e \in Entities /\ FrameOK(f, Implicit) /\ FrameTrue(f, stage, hdl, children)
    BY <1>1, TopFrame
  <1>3. /\ f.arg \in Readers /\ sub \in Entities
        /\ f.pc = "plock" => f.e = Parent[sub] /\ stage[sub] = "unborn" /\ Kind[sub] = "subscriber"
        /\ f.pc = "cregister" => f.e = sub
        /\ stage[f.arg] = "unborn"
    BY <1>1, <1>2, CreationFrame DEF Creations, Making, OfParticipant, FrameTrue
  <1>4. CASE CreateSubscriber(t)
    <2>1. f.pc = "plock" /\ Goto(t, "punpin")
      BY <1>4 DEF CreateSubscriber, At
    <2>2. CASE RegisterChild(f.e, sub)
      <3>1. f.e # sub
        BY <1>3, <2>1, Tree
      <3>2. \A x \in Implicit : ~Saves(f, x)
        BY <2>1 DEF Saves, Awaiting
      <3> HIDE DEF f, sub
      <3> QED
        BY <1>1, <1>2, <1>3, <2>1, <2>2, <3>1, <3>2, NeededRegister DEF f, sub
    <2>3. CASE UNCHANGED <<stage, children, hdl>>
      <3>1. Keeps
        BY <2>3, NothingKeeps
      <3>2. <<f.pc, "punpin">> \in Onwards
        BY <2>1 DEF Onwards, QuietMoves
      <3>3. stack' = With(t, [f EXCEPT !.pc = "punpin"])
        BY <2>1 DEF Goto, GotoPc
      <3> QED
        BY <1>1, <3>1, <3>2, <3>3, NeededNext
    <2> QED
      BY <1>4, <2>2, <2>3 DEF CreateSubscriber
  <1>5. CASE RegisterReader(t)
    <2>1. f.pc = "cregister" /\ Goto(t, "ctopicdone") /\ RegisterChild(f.e, f.arg)
      BY <1>5 DEF RegisterReader, At
    <2>2. f.arg \in Entities /\ f.e # f.arg /\ f.arg \notin Implicit
      BY <1>1, <1>3, <2>1, Tree, ImplicitKind
    <2>3. \A x \in Implicit : Saves(f, x) => x = f.e
      BY <1>3, <2>1 DEF Saves
    <2> QED
      BY <1>1, <1>2, <1>3, <2>1, <2>2, <2>3, NeededRegister
  <1> QED
    BY <1>4, <1>5

LEMMA InitOpen ==
    ASSUME Init, NEW e \in Entities
    PROVE  ~hdl[e].closing /\ ~hdl[e].deferred
  <1> DEFINE h == Created(e \in Implicit)
             r == h.ref + Cardinality(KidsOf(e) \ Unborn) + Cardinality(Users(e))
  <1>1. hdl[e] = [h EXCEPT !.ref = r]
    BY DEF Init
  <1>2. ~h.closing /\ ~h.deferred /\ DOMAIN h = {"pin", "ref", "closing", "deferred"}
    BY DEF Created
  <1> HIDE DEF h, r
  <1> QED
    BY <1>1, <1>2

LEMMA NeededInit == Init => Needed
  <1> SUFFICES ASSUME Init PROVE Needed
    OBVIOUS
  <1>1. /\ app \in Apps /\ stack = [t \in Threads |-> <<>>] /\ Implicit \in SUBSET Entities
        /\ stage = [e \in Entities |-> IF e \in Unborn THEN "unborn" ELSE "live"]
        /\ children = [e \in Entities |-> KidsOf(e) \ Unborn]
    BY LifecycleAssumption DEF Init, Implicit
  <1>2. Pos = {}
    BY <1>1 DEF Pos
  <1>3. \A e \in Entities : ~hdl[e].closing /\ ~hdl[e].deferred
    BY InitOpen
  <1>4. \A e \in Implicit : Live(e) => children[e] # {}
    <2> SUFFICES ASSUME NEW e \in Implicit, Live(e) PROVE KidsOf(e) \ Unborn # {}
      BY <1>1
    <2>1. e \in Entities /\ e \in app.implicit /\ e \notin Unborn
      BY <1>1 DEF Live, Implicit
    <2> QED
      BY <1>1, <2>1, TreeAssumption
  <1> QED
    BY <1>2, <1>3, <1>4 DEF Needed, OnlyTopics, FramesNeed, ClosedIsDeleted, ChildlessIsSaved

LEMMA NeededNextState == IInv /\ Needed /\ [Next]_vars => Needed'
  <1> SUFFICES ASSUME IInv, Needed, [Next]_vars PROVE Needed'
    OBVIOUS
  <1>1. ASSUME NEW t \in Threads, Begin(t) PROVE Needed'
    BY <1>1, NeededAtBegin
  <1>2. ASSUME NEW t \in Threads, Continue(t) PROVE Needed'
    <2>1. UNCHANGED app
      BY <1>2 DEF Continue
    <2>2. CASE Delete(t)
      BY <2>1, <2>2, NeededDeletePin, NeededInDelete, NeededNextChild, NeededHandleDelete,
         NeededLeaveParent, NeededCloseParent, NeededReaderDelete, NeededFree DEF Delete
    <2>3. CASE UseLock(t) \/ UseUnlock(t) \/ UseUnpin(t)
      BY <2>1, <2>3, NeededInUse
    <2>4. CASE Create(t)
      BY <2>1, <2>4, NeededCreating, NeededPinning, NeededInCreate DEF Create
    <2> QED
      BY <1>2, <2>2, <2>3, <2>4 DEF Continue
  <1>3. CASE UNCHANGED vars
    <2>1. UNCHANGED <<app, stage, hdl, children, stack>>
      BY <1>3 DEF vars
    <2>2. Pos' = Pos /\ Implicit' = Implicit
      BY <2>1 DEF Pos, Implicit
    <2>3. call' = call
      BY <2>1, <2>2 DEF call
    <2> QED
      BY <2>1, <2>2, <2>3 DEF Needed, OnlyTopics, FramesNeed, ClosedIsDeleted, ChildlessIsSaved, Live
  <1> QED
    BY <1>1, <1>2, <1>3 DEF Next

\* A subscriber that dds_create_reader made does not outlive its last reader,
\* nor a creation that failed: once every call has returned, one that is left
\* has a reader.
THEOREM ImplicitAreNeeded == Spec => []ImplicitIsNeeded
  <1>1. Spec => [](IInv /\ Needed)
    BY InitI, NextI, NeededInit, NeededNextState, PTL DEF Spec
  <1>2. IInv /\ Needed => ImplicitIsNeeded
    <2> SUFFICES ASSUME IInv, Needed, \A t \in Threads : Idle(t), NEW e \in Implicit, Live(e), children[e] = {}
                 PROVE  FALSE
      BY DEF ImplicitIsNeeded
    <2>1. Pos = {}
      BY DEF Idle, Pos
    <2>2. e \in Entities
      BY ImplicitType DEF IInv
    <2> QED
      BY <2>1, <2>2 DEF Needed, ClosedIsDeleted, ChildlessIsSaved
  <1> QED
    BY <1>1, <1>2, PTL

\* A handle that is closed is not forgotten: some call is deleting its entity,
\* or has closed it as its last child and deletes it next.  So no handle is
\* left closed in the table once every call has returned.
THEOREM ClosedAreBeingDeleted == Spec => []ClosedIsDeleted
  <1>1. Spec => [](IInv /\ Needed)
    BY InitI, NextI, NeededInit, NeededNextState, PTL DEF Spec
  <1>2. Needed => ClosedIsDeleted
    BY DEF Needed
  <1> QED
    BY <1>1, <1>2, PTL

----------------------------------------------------------------------------
(* A topic's deletion waits for its readers, if none is being created.      *)

\* A closed topic has no reference left, and no reader will be created.
Settled ==
    /\ \A e \in Entities : stage[e] # "unborn"
    /\ \A e \in Entities : Kind[e] = "topic" /\ hdl[e].closing => hdl[e].ref = 0

LEMMA SettledCreates ==
    ASSUME IInv, Settled, NEW t \in Threads, ~Idle(t)
    PROVE  Top(t).pc \notin Making
  <1>1. FrameOK(Top(t), Implicit) /\ FrameTrue(Top(t), stage, hdl, children)
    BY TopFrame
  <1> QED
    BY <1>1 DEF FrameOK, FrameTrue, Creations, Settled, Readers

LEMMA SettledStep ==
    ASSUME Settled, \A e \in Entities : stage'[e] # "unborn",
           \A e \in Entities : Kind[e] = "topic" /\ hdl'[e].closing =>
               hdl'[e].ref = 0 \/ (hdl[e].closing /\ hdl'[e].ref = hdl[e].ref)
    PROVE  Settled'
  BY DEF Settled

LEMMA SettledCount ==
    ASSUME TypeOK, Settled, UNCHANGED stage, NEW a \in Entities,
           \/ UNCHANGED hdl \/ hdl' = [hdl EXCEPT ![a] = Pin(@)] \/ hdl' = [hdl EXCEPT ![a] = Unpin(@)]
    PROVE  Settled'
  <1>1. hdl[a] \in CntFlags
    BY DEF TypeOK
  <1>2. PICK h \in {hdl[a], Pin(hdl[a]), Unpin(hdl[a])} : UNCHANGED hdl \/ hdl' = [hdl EXCEPT ![a] = h]
    OBVIOUS
  <1>3. (h.closing <=> hdl[a].closing) /\ h.ref = hdl[a].ref
    BY <1>1, <1>2, HandleFields
  <1>4. \A e \in Entities : hdl'[e] = hdl[e] \/ (e = a /\ hdl'[e] = h)
    BY <1>2 DEF TypeOK
  <1>5. \A e \in Entities : Kind[e] = "topic" /\ hdl'[e].closing => hdl[e].closing /\ hdl'[e].ref = hdl[e].ref
    BY <1>3, <1>4
  <1>6. \A e \in Entities : stage'[e] # "unborn"
    BY DEF Settled
  <1> QED
    BY <1>5, <1>6, SettledStep

\* dds_handle_pin_for_delete closes a topic with the last reference to it.
LEMMA SettledDeletePin ==
    ASSUME IInv, IInv', Settled, NEW t \in Threads, DeletePin(t)
    PROVE  Settled'
  <1> DEFINE e == Top(t).e  imp == e \in Implicit
  <1>1. ~Idle(t) /\ TypeOK /\ TypeOK' /\ UNCHANGED stage
    BY DEF DeletePin, At, IInv
  <1>2. e \in Entities /\ hdl[e] \in CntFlags /\ hdl'[e] \in CntFlags
    BY <1>1, TopFrame DEF TypeOK
  <1>3. CASE UNCHANGED hdl
    BY <1>1, <1>2, <1>3, SettledCount
  <1>4. CASE hdl' = [hdl EXCEPT ![e] = Defer(@)] /\ ~hdl[e].closing
    <2>1. hdl'[e] = Defer(hdl[e]) /\ \A x \in Entities : x # e => hdl'[x] = hdl[x]
      BY <1>1, <1>2, <1>4 DEF TypeOK
    <2>2. ~hdl'[e].closing
      BY <1>2, <1>4, <2>1, HandleFields
    <2> QED
      BY <1>1, <2>1, <2>2 DEF Settled
  <1>5. CASE /\ hdl' = [hdl EXCEPT ![e] = PinAndClose(@, imp)]
             /\ ~AlreadyDeleted(hdl[e]) /\ ~MustDefer(hdl[e], imp, AllowChildren(e))
    <2>1. hdl'[e] = PinAndClose(hdl[e], imp) /\ \A x \in Entities : x # e => hdl'[x] = hdl[x]
      BY <1>1, <1>2, <1>5 DEF TypeOK
    <2>2. hdl'[e].ref = IF hdl[e].deferred \/ imp THEN hdl[e].ref ELSE hdl[e].ref - 1
      <3>1. imp \in BOOLEAN
        OBVIOUS
      <3> HIDE DEF imp
      <3> QED
        BY <1>2, <2>1, <3>1, HandleFields
    <2>3. Kind[e] = "topic" => hdl'[e].ref = 0
      <3>1. Kind[e] = "topic" => ~imp
        BY <1>1, ImplicitKind
      <3>2. hdl[e].ref \in Nat /\ hdl'[e].ref \in Nat /\ hdl[e].deferred \in BOOLEAN
        BY <1>2 DEF CntFlags
      <3>3. hdl[e].deferred => ~(hdl[e].ref > 0)
        BY <1>5 DEF AlreadyDeleted
      <3>4. Kind[e] = "topic" /\ ~hdl[e].deferred => ~(hdl[e].ref > 1)
        BY <1>5, <3>1 DEF MustDefer, AllowChildren
      <3> QED
        BY <2>2, <3>1, <3>2, <3>3, <3>4
    <2>4. \A x \in Entities : Kind[x] = "topic" /\ hdl'[x].closing =>
              hdl'[x].ref = 0 \/ (hdl[x].closing /\ hdl'[x].ref = hdl[x].ref)
      BY <2>1, <2>3
    <2>5. \A x \in Entities : stage'[x] # "unborn"
      BY <1>1 DEF Settled
    <2> QED
      BY <2>4, <2>5, SettledStep
  <1> QED
    BY <1>3, <1>4, <1>5 DEF DeletePin

\* What an entity's children do to its handle is nothing to a topic's.
LEMMA SettledParent ==
    ASSUME IInv, Settled, NEW t \in Threads, LeaveParent(t) \/ CloseParent(t)
    PROVE  Settled'
  <1> DEFINE e == Top(t).e  p == Parent[e]
  <1>1. ~Idle(t) /\ TypeOK /\ UNCHANGED stage
    BY DEF LeaveParent, CloseParent, At, IInv
  <1>2. e \in Entities
    BY <1>1, TopFrame
  <1>3. p \in Entities => Kind[p] # "topic"
    BY <1>2, Tree
  <1>4. \A x \in Entities : x # p => hdl'[x] = hdl[x]
    BY <1>1 DEF LeaveParent, CloseParent, TypeOK
  <1> QED
    BY <1>1, <1>3, <1>4 DEF Settled

LEMMA SettledReaderDelete ==
    ASSUME IInv, IInv', Settled, NEW t \in Threads, ReaderDelete(t)
    PROVE  Settled'
  <1> DEFINE a == TopicOf[Top(t).e]
  <1>1. TypeOK /\ TypeOK' /\ UNCHANGED stage /\ Top(t).e \in Readers
        /\ hdl' = [hdl EXCEPT ![a] = DropRef(@)]
    BY DEF ReaderDelete, IInv
  <1>2. a \in Entities /\ Kind[a] = "topic"
    BY <1>1, Tree
  <1>3. hdl[a] \in CntFlags /\ hdl'[a] \in CntFlags /\ hdl'[a] = DropRef(hdl[a])
        /\ \A x \in Entities : x # a => hdl'[x] = hdl[x]
    BY <1>1, <1>2 DEF TypeOK
  <1>4. hdl'[a].ref = hdl[a].ref - 1 /\ (hdl'[a].closing <=> hdl[a].closing)
    BY <1>3, HandleFields
  <1>5. ~hdl'[a].closing
    <2>1. hdl'[a].ref \in Nat
      BY <1>3 DEF CntFlags
    <2>2. hdl[a].ref # 0
      <3>1. hdl[a].ref \in Nat
        BY <1>3 DEF CntFlags
      <3> QED
        BY <1>4, <2>1, <3>1
    <2> QED
      BY <1>2, <1>4, <2>2 DEF Settled
  <1> QED
    BY <1>1, <1>3, <1>5 DEF Settled

LEMMA SettledEnds ==
    ASSUME TypeOK, Settled, NEW t \in Threads, HandleDelete(t) \/ Free(t)
    PROVE  Settled'
  <1>1. UNCHANGED hdl
    BY DEF HandleDelete, Free
  <1>2. \A x \in Entities : stage'[x] # "unborn"
    BY DEF HandleDelete, Free, TypeOK, Settled
  <1> QED
    BY <1>1, <1>2, SettledStep

LEMMA SettledQuiet ==
    ASSUME IInv, Settled, NEW t \in Threads,
           \/ Begin(t)
           \/ Interrupt(t) \/ CloseWait(t) \/ DeriverClose(t) \/ NextChild(t) \/ Recheck(t)
           \/ NoParent(t) \/ OtherDelete(t) \/ Dropped(t)
           \/ UseLock(t) \/ UseUnlock(t) \/ UseUnpin(t) \/ Create(t)
    PROVE  Settled'
  <1>1. TypeOK
    BY DEF IInv
  <1>2. CASE Begin(t)
    <2>1. UNCHANGED stage
      BY <1>2 DEF Begin, UserDelete, UsePin, CreateReader
    <2>2. CASE UserDelete(t)
      BY <2>2, <2>1 DEF UserDelete, Settled
    <2>3. CASE UsePin(t)
      <3>1. PICK e \in app.usable : Enter(t, [Call(e, "use") EXCEPT !.pc = "uselock"])
        BY <2>3 DEF UsePin
      <3>2. e \in Entities
        BY <1>1, LifecycleAssumption DEF TypeOK
      <3>3. hdl' = [hdl EXCEPT ![e] = Pin(@)]
        BY <3>1 DEF Enter, Call
      <3> QED
        BY <1>1, <2>1, <3>2, <3>3, SettledCount
    <2>4. CASE CreateReader(t)
      BY <2>4 DEF CreateReader, Settled, Readers
    <2> QED
      BY <1>2, <2>2, <2>3, <2>4 DEF Begin
  <1>3. CASE \/ Interrupt(t) \/ CloseWait(t) \/ DeriverClose(t) \/ NextChild(t) \/ Recheck(t)
             \/ NoParent(t) \/ OtherDelete(t) \/ Dropped(t) \/ UseLock(t) \/ UseUnlock(t)
    <2>1. UNCHANGED <<stage, hdl>>
      BY <1>3 DEF Interrupt, CloseWait, DeriverClose, NextChild, Recheck, NoParent, OtherDelete,
         Dropped, UseLock, UseUnlock
    <2> QED
      BY <2>1 DEF Settled
  <1>4. CASE UseUnpin(t) \/ Create(t)
    <2>1. ~Idle(t)
      BY <1>4 DEF UseUnpin, Create, CreateSubscriber, ParticipantUnpin, PinSubscriber, LockSubscriber,
         PinTopic, DeferSetQos, AddTopicRef, RegisterReader, UnpinTopic, UnlockSubscriber, UndoSubscriber, At
    <2>2. Top(t).pc \notin Making
      BY <2>1, SettledCreates
    <2>3. UseUnpin(t) \/ UnpinTopic(t) \/ UnlockSubscriber(t) \/ UndoSubscriber(t)
      BY <1>4, <2>2 DEF Create, CreateSubscriber, ParticipantUnpin, PinSubscriber, LockSubscriber,
         PinTopic, DeferSetQos, AddTopicRef, RegisterReader, At, Making
    <2>4. CASE UnpinTopic(t)
      <3>1. Top(t).pc \in Creations /\ UNCHANGED stage /\ hdl' = [hdl EXCEPT ![TopicOf[Top(t).arg]] = Unpin(@)]
        BY <2>4 DEF UnpinTopic, At, Creations
      <3>2. TopicOf[Top(t).arg] \in Entities
        BY <2>1, <3>1, TopFrame, CreationFrame
      <3> QED
        BY <1>1, <3>1, <3>2, SettledCount
    <2>5. CASE UnlockSubscriber(t)
      BY <2>5 DEF UnlockSubscriber, Settled
    <2>6. CASE UseUnpin(t) \/ UndoSubscriber(t)
      <3>1. Top(t).e \in Entities
        BY <2>1, TopFrame
      <3>2. UNCHANGED stage /\ hdl' = [hdl EXCEPT ![Top(t).e] = Unpin(@)]
        BY <2>6 DEF UseUnpin, UndoSubscriber
      <3> QED
        BY <1>1, <3>1, <3>2, SettledCount
    <2> QED
      BY <2>3, <2>4, <2>5, <2>6
  <1> QED
    BY <1>2, <1>3, <1>4

LEMMA SettledNext == IInv /\ Settled /\ [Next]_vars => Settled'
  <1> SUFFICES ASSUME IInv, Settled, [Next]_vars PROVE Settled'
    OBVIOUS
  <1>1. IInv'
    BY NextI
  <1>2. ASSUME NEW t \in Threads, Begin(t) \/ Continue(t) PROVE Settled'
    BY <1>1, <1>2, SettledDeletePin, SettledParent, SettledReaderDelete, SettledEnds, SettledQuiet
       DEF Continue, Delete, IInv
  <1>3. CASE UNCHANGED vars
    BY <1>3 DEF vars, Settled
  <1> QED
    BY <1>2, <1>3 DEF Next

\* A reader that has yet to give its topic up has one that is open: dds_delete
\* of a topic is put off until then.  A reader being created is the exception,
\* dds_create_reader takes its reference to a topic that may be closed by then.
TopicsOutliveReaders ==
    \A r \in Readers : HasTopic(r) => Live(TopicOf[r]) /\ ~hdl[TopicOf[r]].closing

LEMMA SettledInit == Unborn = {} /\ Init => Settled
  <1> SUFFICES ASSUME Unborn = {}, Init PROVE Settled
    OBVIOUS
  <1>1. \A e \in Entities : stage[e] = "live"
    BY DEF Init
  <1>2. \A e \in Entities : ~hdl[e].closing
    BY InitOpen
  <1> QED
    BY <1>1, <1>2 DEF Settled

\* The reader's reference keeps the topic open.
LEMMA TopicsOutlive == IInv /\ Settled => TopicsOutliveReaders
  <1> SUFFICES ASSUME IInv, Settled, NEW r \in Readers, HasTopic(r)
               PROVE  Live(TopicOf[r]) /\ ~hdl[TopicOf[r]].closing
    BY DEF TopicsOutliveReaders
  <1> DEFINE a == TopicOf[r]
  <1>1. a \in Entities /\ Kind[a] = "topic"
    BY Tree
  <1>2. r \in topicUsers[a]
    BY <1>1 DEF topicUsers, users
  <1>3. hdl[a].ref \in Nat \ {0}
    BY <1>1, <1>2, RefsPositive
  <1>4. ~hdl[a].closing
    BY <1>1, <1>3 DEF Settled
  <1>5. stage[a] \in {"unborn", "live", "unlinked", "freed"} /\ stage[a] # "unborn"
    BY <1>1 DEF Settled, IInv, TypeOK
  <1> QED
    BY <1>1, <1>4, <1>5 DEF IInv, TreeOK, Live

\* Where no reader is being created dds_delete of a topic waits for its readers:
\* one that still has to give its topic up never finds it closed, let alone freed.
THEOREM TopicsOutliveTheirReaders == Unborn = {} => (Spec => []TopicsOutliveReaders)
  <1> SUFFICES ASSUME Unborn = {} PROVE Spec => []TopicsOutliveReaders
    OBVIOUS
  <1>1. Init => IInv /\ Settled
    BY InitI, SettledInit
  <1>2. IInv /\ Settled => TopicsOutliveReaders
    BY TopicsOutlive
  <1>3. IInv /\ Settled /\ [Next]_vars => (IInv /\ Settled)'
    BY NextI, SettledNext
  <1> QED
    BY <1>1, <1>2, <1>3, PTL DEF Spec

----------------------------------------------------------------------------
(* A parent waits for its children, where few of them are deleted by others *)
(* at the same time.                                                        *)

\* delete_children waits once for a child that another thread is deleting, and
\* is woken by the departure of any child (dds_entity.c:341), so that it passes
\* over the one it waited for if a third one goes.  In its second round, which
\* includes the topics, it deletes children that the first passed over, but it
\* has no third.  It deletes them all if at most two children of what is deleted
\* leave on their own account, by a dds_delete or, a topic, with the last of its
\* readers, and one of them at most is a topic.
Leavers(a, e) == {c \in KidsOf(e) : c \in a.deletable \/ Kind[c] = "topic"}
Doomed(a, e) == e \in a.deletable \/ Parent[e] \in a.deletable

\* No reader is being created, and no implicit subscriber is deleted but by its
\* last reader.  The applications of MCEntityLifecycle's Readers2 are such ones.
FewLeave ==
    /\ Unborn = {}
    /\ \A a \in Apps, e \in Entities : Doomed(a, e) =>
          /\ e \notin a.implicit
          /\ \A b, c, d \in Leavers(a, e) : b = c \/ b = d \/ c = d
          /\ \A b, c \in KidsOf(e) : Kind[b] = "topic" /\ Kind[c] = "topic" => b = c

\* The call made from one, and the one it is made from.
Up(x) == <<x[1], x[2] + 1>>
Down(x) == <<x[1], x[2] - 1>>
Looping == {"children", "recheck", "sleep"}

\* Who calls dds_delete_impl for what.
HowOK(f) ==
    /\ f.pc \notin Creations \cup {"pinsub"}
    /\ f.how = "user" => f.e \in app.deletable
    /\ f.how = "implicit" => f.e \in Implicit /\ f.pc # "pin"
    /\ f.how = "explicit" => Kind[f.e] = "topic"
HowsOK == \A x \in Pos : HowOK(call[x])

\* delete_children calls dds_delete_impl, and nothing else is called from it.
Linked ==
    \A x \in Pos :
        /\ call[x].how = "from_parent" =>
              /\ Down(x) \in Pos /\ call[Down(x)].pc = "recheck"
              /\ call[Down(x)].arg = call[x].e /\ call[Down(x)].e = Parent[call[x].e]
        /\ call[x].pc = "recheck" /\ Up(x) \in Pos => call[Up(x)].how = "from_parent"
        /\ call[x].pc = "sleep" => Up(x) \notin Pos

\* A child passed over in the first round is the only one of the leavers
\* that is left; in the second there is one child at most and it is to come.
PassedOver(f, c) == c < f.arg \/ (c = f.arg /\ f.pc = "children")
CursorOK(f, kids) ==
    /\ f.pc \in Looping /\ f.pass = 1 =>
          \A c \in kids : PassedOver(f, c) /\ Kind[c] # "topic" =>
              c \in Leavers(app, f.e) /\ \A d \in kids : d \in Leavers(app, f.e) => d = c
    /\ f.pc \in Looping /\ f.pass = 2 =>
          \A c \in kids : ~PassedOver(f, c) /\ \A d \in kids : d = c
    /\ f.pc = "handle" => kids = {}
CursorsOK == \A x \in Pos : CursorOK(call[x], children[call[x].e])

\* What is waited for is deleted by others.
Waits ==
    \A x \in Pos :
        /\ call[x].pc \in {"recheck", "sleep"} /\ Up(x) \notin Pos
        /\ call[x].arg \in children[call[x].e]
        => call[x].arg \in Leavers(app, call[x].e)

\* Entities leave the table without children, and their parent's children
\* before they are freed.
Emptied ==
    /\ \A e \in Entities : stage[e] \in {"unlinked", "freed"} => children[e] = {}
    /\ \A c \in Entities : Parent[c] # 0 /\ c \in children[Parent[c]] /\ stage[c] # "live" =>
          \E x \in Pos : call[x].pc = "parent" /\ call[x].e = c
    /\ \A x \in Pos : call[x].pc \in Left /\ Parent[call[x].e] # 0 =>
          call[x].e \notin children[Parent[call[x].e]]

\* One call at most is to delete an implicit subscriber, after its last child.
Concerns(f, e) ==
    \/ f.pc \in Deleting /\ f.e = e
    \/ f.pc = "closeparent" /\ Parent[f.e] = e
    \/ f.pc \in AfterLeaving /\ f.arg = e
OneConcern ==
    \A e \in Implicit : \A x \in Pos : Concerns(call[x], e) =>
        children[e] = {} /\ \A y \in Pos : Concerns(call[y], e) => x = y

Orderly == HowsOK /\ Linked /\ CursorsOK /\ Waits /\ Emptied /\ OneConcern

\* The calls of others stay as they are, but for those that W wakes.
Awakes(t, W) ==
    \A y \in Pos : y # Last(t) =>
        /\ y \in Pos' /\ y # Next1(t)
        /\ \/ call'[y] = call[y]
           \/ /\ call[y].pc = "sleep" /\ call[y].e \in W
              /\ call'[y] = [call[y] EXCEPT !.pc = "children"]

LEMMA Neighbours ==
    /\ \A x \in Pos : /\ x = <<x[1], x[2]>> /\ x[1] \in Threads /\ x[2] \in Nat \ {0}
                      /\ Up(Down(x)) = x /\ Down(Up(x)) = x /\ Up(x) # x /\ Down(x) # x
    /\ \A t : Up(Last(t)) = Next1(t)
    /\ TypeOK => \A t \in Threads : Down(Next1(t)) = Last(t)
  <1>1. ASSUME NEW x \in Pos
        PROVE  /\ x = <<x[1], x[2]>> /\ x[1] \in Threads /\ x[2] \in Nat \ {0}
               /\ Up(Down(x)) = x /\ Down(Up(x)) = x /\ Up(x) # x /\ Down(x) # x
    <2>1. x = <<x[1], x[2]>> /\ x[1] \in Threads /\ x[2] \in Nat /\ x[2] \in 1..Len(stack[x[1]])
      BY DEF Pos
    <2>2. PICK u \in Threads, k \in Nat : x = <<u, k>> /\ k # 0 /\ x[1] = u /\ x[2] = k
      BY <2>1
    <2>3. k - 1 + 1 = k /\ k + 1 - 1 = k /\ k + 1 # k /\ k - 1 # k
      BY <2>2
    <2> QED
      BY <2>1, <2>2, <2>3 DEF Up, Down
  <1>2. TypeOK => \A t \in Threads : Len(stack[t]) \in Nat
    BY DEF TypeOK
  <1> QED
    BY <1>1, <1>2 DEF Up, Down, Last, Next1

\* A call that has another one above it is not the last of its thread.
LEMMA BelowTop ==
    ASSUME TypeOK, NEW y \in Pos, NEW t \in Threads, y # Last(t), y[1] = t
    PROVE  Up(y) \in Pos
  <1>1. PICK k \in Nat : y = <<t, k>> /\ k \in 1..Len(stack[t])
    BY Neighbours DEF Pos
  <1>2. Len(stack[t]) \in Nat /\ k # Len(stack[t])
    BY <1>1 DEF TypeOK, Last
  <1>3. k + 1 \in Nat /\ k + 1 \in 1..Len(stack[t])
    BY <1>1, <1>2
  <1> QED
    BY <1>1, <1>3 DEF Pos, Up

LEMMA OthersStay ==
    ASSUME TypeOK, Linked, NEW t \in Threads, Others(t), Next1(t) \notin Pos,
           \A u \in Threads : u # t => stack'[u] = stack[u]
    PROVE  Awakes(t, {})
  <1> SUFFICES ASSUME NEW y \in Pos, y # Last(t)
               PROVE  y \in Pos' /\ y # Next1(t) /\ call'[y] = call[y]
    BY DEF Awakes
  <1>1. y # Next1(t) /\ y \in Pos' /\ Same(call[y], call'[y])
    BY DEF Others
  <1>2. CASE y[1] = t
    <2>1. Up(y) \in Pos
      BY <1>2, BelowTop
    <2>2. call[y].pc # "sleep"
      BY <2>1 DEF Linked
    <2> QED
      BY <1>1, <2>2 DEF Same
  <1>3. CASE y[1] # t
    <2>1. y[1] \in Threads /\ stack'[y[1]] = stack[y[1]]
      BY <1>3, Neighbours
    <2> QED
      BY <1>1, <2>1 DEF call
  <1> QED
    BY <1>2, <1>3

LEMMA BroadcastAwakes ==
    ASSUME TypeOK, Linked, NEW t \in Threads, ~Idle(t), Others(t), Next1(t) \notin Pos,
           NEW g, NEW p, stack' = Broadcast(With(t, g), p)
    PROVE  Awakes(t, {p})
  <1> SUFFICES ASSUME NEW y \in Pos, y # Last(t)
               PROVE  /\ y \in Pos' /\ y # Next1(t)
                      /\ \/ call'[y] = call[y]
                         \/ /\ call[y].pc = "sleep" /\ call[y].e = p
                            /\ call'[y] = [call[y] EXCEPT !.pc = "children"]
    BY DEF Awakes
  <1>1. y # Next1(t) /\ y \in Pos' /\ Same(call[y], call'[y])
    BY DEF Others
  <1> SUFFICES ASSUME call[y].pc = "sleep", call'[y] # call[y] PROVE call[y].e = p
    BY <1>1 DEF Same
  <1>2. Up(y) \notin Pos
    BY DEF Linked
  <1> DEFINE u == y[1]
  <1>3. u \in Threads /\ u # t
    BY <1>2, BelowTop, Neighbours
  <1>4. y = Last(u)
    BY <1>2, <1>3, BelowTop
  <1>5. With(t, g)[u] = stack[u]
    BY <1>3 DEF With, TypeOK
  <1>6. stack'[u] = IF stack[u] # <<>> /\ Head(stack[u]).pc = "sleep" /\ Head(stack[u]).e = p
                    THEN <<[Head(stack[u]) EXCEPT !.pc = "children"]>> \o Tail(stack[u])
                    ELSE stack[u]
    BY <1>3, <1>5 DEF Broadcast
  <1>7. stack'[u] # stack[u]
    <2> SUFFICES ASSUME stack'[u] = stack[u] PROVE FALSE
      OBVIOUS
    <2>1. call'[y] = call[y]
      BY <1>1 DEF call
    <2> QED
      BY <2>1
  <1>8. ~Idle(u) /\ Head(stack[u]).e = p
    BY <1>6, <1>7 DEF Idle
  <1> QED
    BY <1>3, <1>4, <1>8, TopIsLast DEF Top

LEMMA AwakesOthers ==
    ASSUME TypeOK, NEW t, NEW W, Awakes(t, W), NEW y \in Pos, y # Last(t)
    PROVE  /\ y \in Pos' /\ y # Next1(t)
           /\ call'[y].e = call[y].e /\ call'[y].how = call[y].how
           /\ call'[y].arg = call[y].arg /\ call'[y].pass = call[y].pass
           /\ call'[y].pc = call[y].pc \/ (call[y].pc = "sleep" /\ call'[y].pc = "children")
  <1>1. call[y] \in Frame
    BY CallType
  <1> QED
    BY <1>1 DEF Awakes, Frame

\* The calls there are after a step of t.
Only(t) == \A y \in Pos' : y = Last(t) \/ y = Next1(t) \/ y \in Pos

LEMMA HowsStep ==
    ASSUME TypeOK, HowsOK, UNCHANGED app, NEW t, NEW W, Awakes(t, W), Only(t), Next1(t) \notin Pos,
           \A y \in Mine(t) : HowOK(call'[y])
    PROVE  HowsOK'
  <1> SUFFICES ASSUME NEW y \in Pos' PROVE HowOK(call'[y])
    BY DEF HowsOK, HowOK, Implicit
  <1>1. CASE y = Last(t) \/ y = Next1(t)
    BY <1>1 DEF Mine
  <1>2. CASE y # Last(t) /\ y # Next1(t)
    <2>1. y \in Pos /\ HowOK(call[y])
      BY <1>2 DEF Only, HowsOK
    <2>2. /\ call'[y].e = call[y].e /\ call'[y].how = call[y].how
          /\ call'[y].pc = call[y].pc \/ call'[y].pc = "children"
      BY <1>2, <2>1, AwakesOthers
    <2> QED
      BY <2>1, <2>2 DEF HowOK, Creations, Making, OfParticipant
  <1> QED
    BY <1>1, <1>2

\* Linked, of one call.
LinkOK(x, c, P) ==
    /\ c[x].how = "from_parent" =>
          /\ Down(x) \in P /\ c[Down(x)].pc = "recheck"
          /\ c[Down(x)].arg = c[x].e /\ c[Down(x)].e = Parent[c[x].e]
    /\ c[x].pc = "recheck" /\ Up(x) \in P => c[Up(x)].how = "from_parent"
    /\ c[x].pc = "sleep" => Up(x) \notin P

\* The call on top goes on for the entity it is for, or has none below it.
LEMMA LinkedMove ==
    ASSUME TypeOK, Linked, NEW t \in Threads, NEW W, Awakes(t, W), Only(t),
           Last(t) \in Pos, Last(t) \in Pos', Next1(t) \notin Pos, Next1(t) \notin Pos',
           \/ call'[Last(t)].how = call[Last(t)].how /\ call'[Last(t)].e = call[Last(t)].e
           \/ Down(Last(t)) \notin Pos /\ call'[Last(t)].how # "from_parent"
    PROVE  Linked'
  <1> SUFFICES ASSUME NEW x \in Pos' PROVE LinkOK(x, call', Pos')
    BY DEF Linked, LinkOK
  <1>1. x \in Pos /\ LinkOK(x, call, Pos) /\ (\A y : y \in Pos' <=> y \in Pos)
    BY DEF Only, Awakes, Linked, LinkOK
  <1>2. Up(Last(t)) = Next1(t) /\ \A y \in Pos : Up(Down(y)) = y /\ Down(Up(y)) = y /\ Up(y) # y /\ Down(y) # y
    BY Neighbours
  <1>3. CASE x = Last(t)
    <2>1. Up(x) \notin Pos'
      BY <1>2, <1>3
    <2>2. CASE call'[x].how = "from_parent"
      <3>1. call[x].how = "from_parent" /\ call'[x].e = call[x].e
        BY <1>1, <1>3, <2>2 DEF LinkOK
      <3>2. Down(x) \in Pos /\ Down(x) # Last(t) /\ call[Down(x)].pc = "recheck"
        BY <1>1, <1>2, <1>3, <3>1 DEF LinkOK
      <3>3. call'[Down(x)] = call[Down(x)]
        BY <3>2 DEF Awakes
      <3> QED
        BY <1>1, <2>1, <3>1, <3>2, <3>3 DEF LinkOK
    <2> QED
      BY <2>1, <2>2 DEF LinkOK
  <1>4. CASE x # Last(t)
    <2>1. /\ call'[x].e = call[x].e /\ call'[x].how = call[x].how
          /\ call'[x].pc = call[x].pc \/ (call[x].pc = "sleep" /\ call'[x].pc = "children")
      BY <1>1, <1>4, AwakesOthers
    <2>2. ASSUME call'[x].how = "from_parent"
          PROVE  /\ Down(x) \in Pos' /\ call'[Down(x)].pc = "recheck"
                 /\ call'[Down(x)].arg = call'[x].e /\ call'[Down(x)].e = Parent[call'[x].e]
      <3>1. Down(x) \in Pos /\ call[Down(x)].pc = "recheck"
        BY <1>1, <2>1, <2>2 DEF LinkOK
      <3>2. Down(x) # Last(t)
        BY <1>1, <1>2
      <3>3. call'[Down(x)] = call[Down(x)]
        BY <3>1, <3>2 DEF Awakes
      <3> QED
        BY <1>1, <2>1, <2>2, <3>1, <3>3 DEF LinkOK
    <2>3. ASSUME call'[x].pc = "recheck", Up(x) \in Pos' PROVE call'[Up(x)].how = "from_parent"
      <3>1. Up(x) \in Pos /\ call[Up(x)].how = "from_parent"
        BY <1>1, <2>1, <2>3 DEF LinkOK
      <3>2. CASE Up(x) = Last(t)
        BY <1>1, <1>2, <3>1, <3>2
      <3>3. CASE Up(x) # Last(t)
        BY <3>1, <3>3, AwakesOthers
      <3> QED
        BY <3>2, <3>3
    <2>4. ASSUME call'[x].pc = "sleep" PROVE Up(x) \notin Pos'
      BY <1>1, <2>1, <2>4 DEF LinkOK
    <2> QED
      BY <2>2, <2>3, <2>4 DEF LinkOK
  <1> QED
    BY <1>3, <1>4

LEMMA LinkedPop ==
    ASSUME TypeOK, Linked, NEW t \in Threads, NEW W, Awakes(t, W), Only(t),
           Last(t) \in Pos, Last(t) \notin Pos', Next1(t) \notin Pos, Next1(t) \notin Pos'
    PROVE  Linked'
  <1> SUFFICES ASSUME NEW x \in Pos' PROVE LinkOK(x, call', Pos')
    BY DEF Linked, LinkOK
  <1>1. x \in Pos /\ x # Last(t) /\ LinkOK(x, call, Pos) /\ (\A y : y \in Pos' => y \in Pos)
    BY DEF Only, Linked, LinkOK
  <1>2. Up(Last(t)) = Next1(t) /\ \A y \in Pos : Up(Down(y)) = y /\ Down(Up(y)) = y /\ Up(y) # y /\ Down(y) # y
    BY Neighbours
  <1>3. /\ call'[x].e = call[x].e /\ call'[x].how = call[x].how
        /\ call'[x].pc = call[x].pc \/ (call[x].pc = "sleep" /\ call'[x].pc = "children")
    BY <1>1, AwakesOthers
  <1>4. ASSUME call'[x].how = "from_parent"
        PROVE  /\ Down(x) \in Pos' /\ call'[Down(x)].pc = "recheck"
               /\ call'[Down(x)].arg = call'[x].e /\ call'[Down(x)].e = Parent[call'[x].e]
    <2>1. Down(x) \in Pos /\ call[Down(x)].pc = "recheck"
      BY <1>1, <1>3, <1>4 DEF LinkOK
    <2>2. Down(x) # Last(t)
      BY <1>1, <1>2
    <2>3. call'[Down(x)] = call[Down(x)] /\ Down(x) \in Pos'
      BY <2>1, <2>2 DEF Awakes
    <2> QED
      BY <1>1, <1>3, <1>4, <2>1, <2>3 DEF LinkOK
  <1>5. ASSUME call'[x].pc = "recheck", Up(x) \in Pos' PROVE call'[Up(x)].how = "from_parent"
    <2>1. Up(x) \in Pos /\ call[Up(x)].how = "from_parent" /\ Up(x) # Last(t)
      BY <1>1, <1>3, <1>5 DEF LinkOK
    <2> QED
      BY <2>1, AwakesOthers
  <1>6. ASSUME call'[x].pc = "sleep" PROVE Up(x) \notin Pos'
    BY <1>1, <1>3, <1>6 DEF LinkOK
  <1> QED
    BY <1>4, <1>5, <1>6 DEF LinkOK

\* A call is made, from delete_children for the child that it is at.
LEMMA LinkedPush ==
    ASSUME TypeOK, Linked, NEW t \in Threads, NEW W, Awakes(t, W), Only(t),
           Next1(t) \notin Pos, Next1(t) \in Pos', Last(t) \in Pos <=> Last(t) \in Pos',
           Last(t) \in Pos => /\ call'[Last(t)].how = call[Last(t)].how
                              /\ call'[Last(t)].e = call[Last(t)].e
                              /\ call'[Last(t)].pc # "sleep",
           call'[Next1(t)].pc \notin {"recheck", "sleep"},
           call'[Next1(t)].how = "from_parent" =>
              /\ Last(t) \in Pos /\ call'[Last(t)].pc = "recheck"
              /\ call'[Last(t)].arg = call'[Next1(t)].e
              /\ call'[Last(t)].e = Parent[call'[Next1(t)].e],
           Last(t) \in Pos /\ call'[Last(t)].pc = "recheck" => call'[Next1(t)].how = "from_parent"
    PROVE  Linked'
  <1> SUFFICES ASSUME NEW x \in Pos' PROVE LinkOK(x, call', Pos')
    BY DEF Linked, LinkOK
  <1>1. Up(Last(t)) = Next1(t) /\ Down(Next1(t)) = Last(t)
        /\ \A y \in Pos : Up(Down(y)) = y /\ Down(Up(y)) = y /\ Up(y) # y /\ Down(y) # y
    BY Neighbours
  <1>2. \A y \in Pos : y \in Pos' /\ LinkOK(y, call, Pos)
    BY DEF Awakes, Linked, LinkOK
  <1>3. CASE x = Next1(t)
    BY <1>1, <1>3 DEF LinkOK
  <1>4. CASE x # Next1(t)
    <2>1. x \in Pos
      BY <1>4 DEF Only
    <2>2. ASSUME call'[x].how = "from_parent"
          PROVE  /\ Down(x) \in Pos' /\ call'[Down(x)].pc = "recheck"
                 /\ call'[Down(x)].arg = call'[x].e /\ call'[Down(x)].e = Parent[call'[x].e]
      <3>1. call[x].how = "from_parent" /\ call'[x].e = call[x].e
        BY <2>1, <2>2, AwakesOthers
      <3>2. Down(x) \in Pos /\ call[Down(x)].pc = "recheck"
        BY <1>2, <2>1, <3>1 DEF LinkOK
      <3>3. Down(x) # Last(t)
        BY <1>1, <2>1
      <3>4. call'[Down(x)] = call[Down(x)]
        BY <3>2, <3>3 DEF Awakes
      <3> QED
        BY <1>2, <2>1, <3>1, <3>2, <3>4 DEF LinkOK
    <2>3. ASSUME call'[x].pc = "recheck", Up(x) \in Pos' PROVE call'[Up(x)].how = "from_parent"
      <3>1. CASE x = Last(t)
        BY <1>1, <2>1, <2>3, <3>1
      <3>2. CASE x # Last(t)
        <4>1. call[x].pc = "recheck"
          BY <2>1, <2>3, <3>2, AwakesOthers
        <4>2. Up(x) # Next1(t)
          BY <1>1, <2>1, <3>2
        <4>3. Up(x) \in Pos
          BY <2>3, <4>2, <1>1 DEF Only
        <4>4. call[Up(x)].how = "from_parent"
          BY <1>2, <2>1, <4>1, <4>3 DEF LinkOK
        <4>5. CASE Up(x) = Last(t)
          BY <4>3, <4>4, <4>5
        <4>6. CASE Up(x) # Last(t)
          BY <4>3, <4>4, <4>6, AwakesOthers
        <4> QED
          BY <4>5, <4>6
      <3> QED
        BY <3>1, <3>2
    <2>4. ASSUME call'[x].pc = "sleep" PROVE Up(x) \notin Pos'
      <3>1. x # Last(t)
        BY <2>1, <2>4
      <3>2. call[x].pc = "sleep"
        BY <2>1, <2>4, <3>1, AwakesOthers
      <3>3. Up(x) \notin Pos
        BY <1>2, <2>1, <3>2 DEF LinkOK
      <3>4. Up(x) # Next1(t)
        BY <1>1, <2>1, <3>1
      <3>5. Last(t) \in Pos' => Last(t) \in Pos
        OBVIOUS
      <3> QED
        BY <3>3, <3>4, <3>5 DEF Only
    <2> QED
      BY <2>2, <2>3, <2>4 DEF LinkOK
  <1> QED
    BY <1>3, <1>4

LEMMA CursorShrinks ==
    ASSUME NEW f, NEW K, NEW L, L \subseteq K, CursorOK(f, K)
    PROVE  CursorOK(f, L)
  BY DEF CursorOK

\* Nothing is created.
Shrinks == \A e \in Entities : children'[e] \subseteq children[e]

LEMMA CursorsStep ==
    ASSUME TypeOK, CursorsOK, UNCHANGED app, Shrinks, NEW t, NEW W, Awakes(t, W), Only(t), Next1(t) \notin Pos,
           \A y \in Mine(t) : CursorOK(call'[y], children'[call'[y].e]),
           \A y \in Pos : y # Last(t) /\ call[y].pc = "sleep" /\ call[y].e \in W =>
               CursorOK([call[y] EXCEPT !.pc = "children"], children'[call[y].e])
    PROVE  CursorsOK'
  <1> SUFFICES ASSUME NEW y \in Pos' PROVE CursorOK(call'[y], children'[call'[y].e])
    BY DEF CursorsOK, CursorOK
  <1>1. CASE y = Last(t) \/ y = Next1(t)
    BY <1>1 DEF Mine
  <1>2. CASE y # Last(t) /\ y # Next1(t)
    <2>1. y \in Pos /\ call[y].e \in Entities /\ CursorOK(call[y], children[call[y].e])
      BY <1>2, CallType DEF Only, CursorsOK, Frame
    <2>2. call'[y].e = call[y].e
      BY <1>2, <2>1, AwakesOthers
    <2>3. CASE call'[y] = call[y]
      BY <2>1, <2>3, CursorShrinks DEF Shrinks
    <2>4. CASE /\ call[y].pc = "sleep" /\ call[y].e \in W
               /\ call'[y] = [call[y] EXCEPT !.pc = "children"]
      BY <1>2, <2>1, <2>2, <2>4
    <2> QED
      BY <1>2, <2>1, <2>3, <2>4 DEF Awakes
  <1> QED
    BY <1>1, <1>2

LEMMA WaitsStep ==
    ASSUME TypeOK, Linked, Waits, UNCHANGED app, Shrinks,
           NEW t \in Threads, NEW W, Awakes(t, W), Only(t), Next1(t) \notin Pos,
           \A y \in Mine(t) : call'[y].pc \notin {"recheck", "sleep"}
                              \/ Up(y) \in Pos'
                              \/ call'[y].arg \notin children'[call'[y].e]
                              \/ call'[y].arg \in Leavers(app, call'[y].e),
           Last(t) \in Pos /\ Last(t) \notin Pos' /\ call[Last(t)].how = "from_parent" =>
               \/ call[Last(t)].e \in Leavers(app, Parent[call[Last(t)].e])
               \/ call[Last(t)].e \notin children'[Parent[call[Last(t)].e]]
    PROVE  Waits'
  <1> SUFFICES ASSUME NEW y \in Pos', call'[y].pc \in {"recheck", "sleep"}, Up(y) \notin Pos',
                      call'[y].arg \in children'[call'[y].e]
               PROVE  call'[y].arg \in Leavers(app, call'[y].e)
    BY DEF Waits
  <1>1. CASE y = Last(t) \/ y = Next1(t)
    BY <1>1 DEF Mine
  <1>2. CASE y # Last(t) /\ y # Next1(t)
    <2>1. y \in Pos /\ call[y].e \in Entities
      BY <1>2, CallType DEF Only, Frame
    <2>2. /\ call'[y].e = call[y].e /\ call'[y].arg = call[y].arg
          /\ call[y].pc = call'[y].pc
      BY <1>2, <2>1, AwakesOthers
    <2>3. call[y].arg \in children[call[y].e]
      BY <2>1, <2>2 DEF Shrinks
    <2>4. CASE Up(y) \notin Pos
      BY <2>1, <2>2, <2>3, <2>4 DEF Waits
    <2>5. CASE Up(y) \in Pos
      <3>1. Up(y) = Last(t) /\ Last(t) \in Pos /\ Last(t) \notin Pos'
        BY <2>5 DEF Awakes
      <3>2. call[y].pc = "recheck" /\ call[Up(y)].how = "from_parent"
        BY <2>1, <2>2, <2>5 DEF Linked
      <3>3. Down(Up(y)) = y
        BY <2>1, Neighbours
      <3>4. call[y].arg = call[Up(y)].e /\ call[y].e = Parent[call[Up(y)].e]
        BY <2>5, <3>2, <3>3 DEF Linked
      <3> QED
        BY <2>2, <3>1, <3>2, <3>4
    <2> QED
      BY <2>4, <2>5
  <1> QED
    BY <1>1, <1>2

LEMMA EmptiedStep ==
    ASSUME TypeOK, Emptied, Shrinks, NEW t, NEW W, Awakes(t, W), Only(t), Next1(t) \notin Pos,
           \A e \in Entities : stage'[e] \in {"unlinked", "freed"} =>
               stage[e] \in {"unlinked", "freed"} \/ children'[e] = {},
           \A c \in Entities : Parent[c] # 0 /\ c \in children'[Parent[c]] /\ stage'[c] # "live" =>
               \/ stage[c] # "live" /\ (Last(t) \in Pos /\ call[Last(t)].pc = "parent" => call[Last(t)].e # c)
               \/ \E y \in Mine(t) : call'[y].pc = "parent" /\ call'[y].e = c,
           \A y \in Mine(t) : call'[y].pc \in Left /\ Parent[call'[y].e] # 0 =>
               call'[y].e \notin children'[Parent[call'[y].e]]
    PROVE  Emptied'
  <1>1. \A e \in Entities : stage'[e] \in {"unlinked", "freed"} => children'[e] = {}
    BY DEF Emptied, Shrinks
  <1>2. ASSUME NEW c \in Entities, Parent[c] # 0, c \in children'[Parent[c]], stage'[c] # "live"
        PROVE  \E x \in Pos' : call'[x].pc = "parent" /\ call'[x].e = c
    <2>0. Parent[c] \in Entities
      BY <1>2, LifecycleAssumption
    <2>1. CASE \E y \in Mine(t) : call'[y].pc = "parent" /\ call'[y].e = c
      BY <2>1 DEF Mine
    <2>2. CASE stage[c] # "live" /\ (Last(t) \in Pos /\ call[Last(t)].pc = "parent" => call[Last(t)].e # c)
      <3>1. c \in children[Parent[c]]
        BY <1>2, <2>0 DEF Shrinks
      <3>2. PICK x \in Pos : call[x].pc = "parent" /\ call[x].e = c
        BY <1>2, <2>2, <3>1 DEF Emptied
      <3>3. x # Last(t)
        BY <2>2, <3>2
      <3>4. x \in Pos' /\ call'[x].pc = "parent" /\ call'[x].e = c
        BY <3>2, <3>3, AwakesOthers
      <3> QED
        BY <3>4
    <2> QED
      BY <1>2, <2>1, <2>2
  <1>3. ASSUME NEW x \in Pos', call'[x].pc \in Left, Parent[call'[x].e] # 0
        PROVE  call'[x].e \notin children'[Parent[call'[x].e]]
    <2>1. CASE x = Last(t) \/ x = Next1(t)
      BY <1>3, <2>1 DEF Mine
    <2>2. CASE x # Last(t) /\ x # Next1(t)
      <3>1. x \in Pos /\ call[x].e \in Entities
        BY <2>2, CallType DEF Only, Frame
      <3>2. call'[x].e = call[x].e /\ call[x].pc \in Left
        BY <1>3, <2>2, <3>1, AwakesOthers DEF Left
      <3>3. Parent[call[x].e] # 0 /\ Parent[call[x].e] \in Entities
        <4>1. \A e \in Entities : Parent[e] # 0 => Parent[e] \in Entities
          BY LifecycleAssumption
        <4> QED
          BY <1>3, <3>1, <3>2, <4>1
      <3>4. call[x].e \notin children[Parent[call[x].e]]
        BY <3>1, <3>2, <3>3 DEF Emptied
      <3> QED
        BY <3>2, <3>3, <3>4 DEF Shrinks
    <2> QED
      BY <2>1, <2>2
  <1> QED
    BY <1>1, <1>2, <1>3 DEF Emptied

LEMMA ConcernStep ==
    ASSUME TypeOK, OneConcern, Shrinks, UNCHANGED app, NEW t, NEW W, Awakes(t, W), Only(t), Next1(t) \notin Pos,
           Next1(t) \in Pos' => \A e \in Implicit : ~Concerns(call'[Next1(t)], e),
           Last(t) \in Pos' => \A e \in Implicit : Concerns(call'[Last(t)], e) =>
               \/ Last(t) \in Pos /\ Concerns(call[Last(t)], e)
               \/ children[e] # {} /\ children'[e] = {}
    PROVE  OneConcern'
  <1>0. Implicit' = Implicit /\ \A e \in Implicit : e \in Entities
    BY ImplicitType DEF Implicit
  <1>1. ASSUME NEW e \in Implicit, NEW x \in Pos', Concerns(call'[x], e)
        PROVE  \/ x \in Pos /\ Concerns(call[x], e)
               \/ x = Last(t) /\ children[e] # {} /\ children'[e] = {}
    <2>1. CASE x = Last(t) \/ x = Next1(t)
      BY <1>1, <2>1
    <2>2. CASE x # Last(t) /\ x # Next1(t)
      <3>1. x \in Pos
        BY <2>2 DEF Only
      <3>2. /\ call'[x].e = call[x].e /\ call'[x].arg = call[x].arg
            /\ call'[x].pc = call[x].pc \/ (call[x].pc = "sleep" /\ call'[x].pc = "children")
        BY <2>2, <3>1, AwakesOthers
      <3>3. Concerns(call[x], e)
        BY <1>1, <3>2 DEF Concerns, Deleting, BeforeLeaving, AfterLeaving
      <3> QED
        BY <3>1, <3>3
    <2> QED
      BY <2>1, <2>2
  <1>2. ASSUME NEW e \in Implicit, NEW x \in Pos', Concerns(call'[x], e),
               NEW y \in Pos', Concerns(call'[y], e)
        PROVE  children'[e] = {} /\ x = y
    BY <1>0, <1>1, <1>2 DEF OneConcern, Shrinks
  <1> QED
    BY <1>0, <1>2 DEF OneConcern, Concerns

----------------------------------------------------------------------------
(* Who may be in the way of a parent that waits.                            *)

Whole == IInv /\ Needed /\ Settled /\ Orderly

LEMMA FewLeaveNow ==
    ASSUME FewLeave, TypeOK, NEW e \in Entities, Doomed(app, e)
    PROVE  /\ e \notin Implicit
           /\ \A b, c, d \in Leavers(app, e) : b = c \/ b = d \/ c = d
           /\ \A b, c \in KidsOf(e) : Kind[b] = "topic" /\ Kind[c] = "topic" => b = c
  BY DEF FewLeave, TypeOK, Implicit

LEMMA DeleterFrame ==
    ASSUME Whole, NEW x \in Pos, call[x].pc \in Deleting
    PROVE  /\ call[x] \in Frame /\ call[x].e \in Entities
           /\ call[x].how \in {"user", "from_parent", "implicit", "explicit"}
           /\ HowOK(call[x]) /\ FrameOK(call[x], Implicit)
           /\ call[x].how = "from_parent" =>
                 /\ Down(x) \in Pos /\ call[Down(x)].pc = "recheck" /\ call[Down(x)].pc \in Deleting
                 /\ call[Down(x)].arg = call[x].e /\ call[Down(x)].e = Parent[call[x].e]
  <1>1. TypeOK /\ FramesOK /\ HowsOK /\ Linked
    BY DEF Whole, IInv, Orderly
  <1>2. call[x] \in Frame
    BY <1>1, CallType
  <1>3. FrameOK(call[x], Implicit) /\ HowOK(call[x])
    BY <1>1 DEF FramesOK, HowsOK
  <1>4. "recheck" \in Deleting
    BY DEF Deleting, BeforeLeaving
  <1> QED
    BY <1>1, <1>2, <1>3, <1>4 DEF Frame, FrameOK, Linked

\* A participant is deleted by an application, ...
LEMMA ParticipantDeleter ==
    ASSUME Whole, NEW x \in Pos, call[x].pc \in Deleting, Kind[call[x].e] = "participant"
    PROVE  call[x].e \in app.deletable
  <1>1. TypeOK
    BY DEF Whole, IInv
  <1>2. call[x].how # "explicit"
    BY DeleterFrame DEF HowOK
  <1>3. call[x].how # "implicit"
    BY <1>1, DeleterFrame, ImplicitKind DEF HowOK
  <1>4. call[x].how # "from_parent"
    <2> SUFFICES ASSUME call[x].how = "from_parent" PROVE FALSE
      OBVIOUS
    <2>1. Down(x) \in Pos /\ call[Down(x)].e = Parent[call[x].e]
      BY DeleterFrame
    <2>2. call[Down(x)].e \in Entities
      BY <1>1, <2>1, CallType DEF Frame
    <2> QED
      BY <2>1, <2>2, DeleterFrame, Tree
  <1> QED
    BY <1>2, <1>3, <1>4, DeleterFrame DEF HowOK

\* ... which has then no implicit subscriber below it, ...
LEMMA NoImplicitBelow ==
    ASSUME Whole, FewLeave, NEW z \in Pos, call[z].pc \in Deleting, NEW m \in Implicit, Parent[m] = call[z].e
    PROVE  FALSE
  <1>1. TypeOK
    BY DEF Whole, IInv
  <1>2. m \in Entities /\ Kind[Parent[m]] = "participant"
    BY <1>1, ImplicitKind, Tree
  <1>3. Parent[m] \in app.deletable
    BY <1>2, ParticipantDeleter
  <1>4. Doomed(app, m)
    BY <1>3 DEF Doomed
  <1> QED
    BY <1>1, <1>2, <1>4, FewLeaveNow

\* ... and what has children is deleted by one, or with its participant.
LEMMA LoopIsDoomed ==
    ASSUME Whole, FewLeave, NEW z \in Pos, call[z].pc \in Deleting, children[call[z].e] # {}
    PROVE  call[z].e \notin Implicit /\ Doomed(app, call[z].e)
  <1> DEFINE p == call[z].e
  <1>1. TypeOK /\ TreeOK /\ OneConcern
    BY DEF Whole, IInv, Orderly
  <1>2. p \in Entities
    BY DeleterFrame
  <1>3. p \notin Implicit
    BY <1>1 DEF OneConcern, Concerns
  <1>4. PICK c \in Entities : c \in children[p]
    BY <1>1, <1>2 DEF TypeOK
  <1>5. Parent[c] = p
    BY <1>1, <1>2, <1>4 DEF TreeOK
  <1>6. Kind[p] \in {"participant", "subscriber"}
    BY <1>2, <1>5, Tree
  <1>7. CASE call[z].how = "user"
    BY <1>3, <1>7, DeleterFrame DEF Doomed, HowOK
  <1>8. CASE call[z].how = "from_parent"
    <2>1. Down(z) \in Pos /\ call[Down(z)].pc \in Deleting /\ call[Down(z)].e = Parent[p]
      BY <1>8, DeleterFrame
    <2>2. Parent[p] \in Entities
      BY <2>1, DeleterFrame
    <2>3. Kind[Parent[p]] = "participant"
      BY <1>2, <1>6, <2>2, Tree
    <2>4. Parent[p] \in app.deletable
      BY <2>1, <2>3, ParticipantDeleter
    <2> QED
      BY <1>3, <2>4 DEF Doomed
  <1>9. call[z].how # "implicit" /\ call[z].how # "explicit"
    BY <1>3, <1>6, DeleterFrame DEF HowOK
  <1> QED
    BY <1>7, <1>8, <1>9, DeleterFrame

\* Others that delete a child of what is being deleted are applications', or
\* its last reader's if it is a topic.
LEMMA OthersLeave ==
    ASSUME Whole, FewLeave, NEW z \in Pos, call[z].pc \in Deleting,
           NEW m \in children[call[z].e], NEW x \in Pos, x # Up(z), Concerns(call[x], m)
    PROVE  m \in Leavers(app, call[z].e)
  <1> DEFINE p == call[z].e
  <1>1. TypeOK /\ TreeOK /\ Single
    BY DEF Whole, IInv
  <1>2. p \in Entities /\ m \in Entities /\ Parent[m] = p /\ m \in KidsOf(p)
    BY <1>1, DeleterFrame DEF TypeOK, TreeOK, KidsOf
  <1>3. m \notin Implicit
    BY <1>2, NoImplicitBelow
  <1>4. call[x].pc \in Deleting
    BY DEF Concerns, Deleting, BeforeLeaving
  <1>5. call[x].e = m
    <2>1. m # 0 /\ FrameOK(call[x], Implicit)
      BY <1>2, <1>4, DeleterFrame, Tree
    <2> QED
      BY <1>3, <2>1 DEF Concerns, FrameOK
  <1>6. call[x].how # "from_parent"
    <2> SUFFICES ASSUME call[x].how = "from_parent" PROVE FALSE
      OBVIOUS
    <2>1. Down(x) \in Pos /\ call[Down(x)].pc \in Deleting /\ call[Down(x)].e = p
      BY <1>2, <1>4, <1>5, DeleterFrame
    <2>2. p \notin Implicit
      BY LoopIsDoomed
    <2>3. Down(x) = z
      BY <1>1, <2>1, <2>2 DEF Single
    <2> QED
      BY <2>3, Neighbours
  <1>7. call[x].how # "implicit"
    BY <1>3, <1>4, <1>5, DeleterFrame DEF HowOK
  <1> QED
    BY <1>2, <1>4, <1>5, <1>6, <1>7, DeleterFrame DEF HowOK, Leavers

\* An entity that dds_handle_pin_for_delete finds gone or closing has a deleter.
LEMMA BusyChild ==
    ASSUME Whole, NEW m \in Entities, Parent[m] # 0, m \in children[Parent[m]], ~Live(m) \/ hdl[m].closing
    PROVE  \E x \in Pos : Concerns(call[x], m) /\ call[x].pc # "pin"
  <1>1. CASE ~Live(m)
    <2>1. PICK x \in Pos : call[x].pc = "parent" /\ call[x].e = m
      BY <1>1 DEF Whole, Orderly, Emptied, Live
    <2> QED
      BY <2>1 DEF Concerns, Deleting, BeforeLeaving
  <1>2. CASE Live(m) /\ hdl[m].closing
    <2>1. PICK x \in Pos : Responsible(call[x], m)
      BY <1>2 DEF Whole, Needed, ClosedIsDeleted
    <2> QED
      BY <2>1 DEF Responsible, Concerns, Deleting, BeforeLeaving, AfterLeaving
  <1> QED
    BY <1>1, <1>2

----------------------------------------------------------------------------
(* What the steps of a call keep.                                           *)

LEMMA MoveOnly == ASSUME NEW t, NEW g, Moves(t, g) PROVE Only(t) /\ Mine(t) = {Last(t)} /\ call'[Last(t)] = g
  BY DEF Moves, Others, Only, Mine
LEMMA PopOnly == ASSUME NEW t, Pops(t) PROVE Only(t) /\ Mine(t) = {}
  BY DEF Pops, Others, Only, Mine

\* The call on top goes on and nothing else changes but what is said here.
LEMMA OrderlyMove ==
    ASSUME Whole, UNCHANGED app, Shrinks, NEW t \in Threads, ~Idle(t), NEW g, Moves(t, g),
           NEW W, Awakes(t, W), HowOK(g),
           \/ g.how = Top(t).how /\ g.e = Top(t).e
           \/ Top(t).arg # 0 /\ Top(t).pc \in AfterLeaving /\ g.how # "from_parent",
           CursorOK(g, children'[g.e]),
           \A y \in Pos : y # Last(t) /\ call[y].pc = "sleep" /\ call[y].e \in W =>
               CursorOK([call[y] EXCEPT !.pc = "children"], children'[call[y].e]),
           \/ g.pc \notin {"recheck", "sleep"}
           \/ g.arg \notin children'[g.e]
           \/ g.arg \in Leavers(app, g.e),
           \A e \in Entities : stage'[e] \in {"unlinked", "freed"} =>
               stage[e] \in {"unlinked", "freed"} \/ children'[e] = {},
           \A c \in Entities : Parent[c] # 0 /\ c \in children'[Parent[c]] /\ stage'[c] # "live" =>
               \/ stage[c] # "live" /\ (Top(t).pc = "parent" => Top(t).e # c)
               \/ g.pc = "parent" /\ g.e = c,
           g.pc \in Left /\ Parent[g.e] # 0 => g.e \notin children'[Parent[g.e]],
           \A e \in Implicit : Concerns(g, e) =>
               Concerns(Top(t), e) \/ (children[e] # {} /\ children'[e] = {})
    PROVE  Orderly'
  <1>1. TypeOK /\ HowsOK /\ Linked /\ CursorsOK /\ Waits /\ Emptied /\ OneConcern
    BY DEF Whole, IInv, Orderly
  <1>2. Last(t) \in Pos /\ Next1(t) \notin Pos /\ call[Last(t)] = Top(t) /\ Last(t) \in Pos' /\ Next1(t) \notin Pos'
        /\ DepthAt(Last(t), Top(t))
    BY TopFrame DEF Whole, Moves
  <1>3. Only(t) /\ Mine(t) = {Last(t)} /\ call'[Last(t)] = g
    BY MoveOnly
  <1>4. HowsOK'
    BY <1>1, <1>2, <1>3, HowsStep
  <1>5. Linked'
    <2>1. CASE Top(t).arg # 0 /\ Top(t).pc \in AfterLeaving /\ g.how # "from_parent"
      <3>1. ~(Last(t)[2] > 1)
        BY <1>2, <2>1 DEF DepthAt
      <3>2. Last(t)[2] \in Nat \ {0}
        BY <1>2, Neighbours
      <3>3. Last(t)[2] = 1
        BY <3>1, <3>2
      <3>4. Down(Last(t)) = <<Last(t)[1], 0>>
        BY <3>3 DEF Down
      <3>5. Down(Last(t)) \notin Pos
        BY <3>4 DEF Pos
      <3> QED
        BY <1>1, <1>2, <1>3, <2>1, <3>5, LinkedMove
    <2>2. CASE g.how = Top(t).how /\ g.e = Top(t).e
      BY <1>1, <1>2, <1>3, <2>2, LinkedMove
    <2> QED
      BY <2>1, <2>2
  <1>6. CursorsOK'
    BY <1>1, <1>2, <1>3, CursorsStep
  <1>7. Waits'
    BY <1>1, <1>2, <1>3, WaitsStep
  <1>8. Emptied'
    BY <1>1, <1>2, <1>3, EmptiedStep
  <1>9. OneConcern'
    BY <1>1, <1>2, <1>3, ConcernStep
  <1> QED
    BY <1>4, <1>5, <1>6, <1>7, <1>8, <1>9 DEF Orderly

\* A call returns: to delete_children, when the child has gone or others delete it.
LEMMA OrderlyPop ==
    ASSUME Whole, UNCHANGED <<app, children>>, NEW t \in Threads, ~Idle(t), Pops(t), Awakes(t, {}),
           Top(t).pc # "parent",
           \A e \in Entities : stage'[e] \in {"unlinked", "freed"} => stage[e] \in {"unlinked", "freed"},
           \A c \in Entities : Parent[c] # 0 /\ c \in children[Parent[c]] /\ stage'[c] # "live" => stage[c] # "live",
           Top(t).how = "from_parent" =>
               \/ Top(t).e \in Leavers(app, Parent[Top(t).e])
               \/ Top(t).e \notin children[Parent[Top(t).e]]
    PROVE  Orderly'
  <1>1. TypeOK /\ HowsOK /\ Linked /\ CursorsOK /\ Waits /\ Emptied /\ OneConcern /\ Shrinks
    BY DEF Whole, IInv, Orderly, Shrinks
  <1>2. Last(t) \in Pos /\ Next1(t) \notin Pos /\ call[Last(t)] = Top(t) /\ Last(t) \notin Pos' /\ Next1(t) \notin Pos'
    BY TopFrame DEF Whole, Pops
  <1>3. Only(t) /\ Mine(t) = {}
    BY PopOnly
  <1>4. HowsOK'
    BY <1>1, <1>2, <1>3, HowsStep
  <1>5. Linked'
    BY <1>1, <1>2, <1>3, LinkedPop
  <1>6. CursorsOK'
    BY <1>1, <1>2, <1>3, CursorsStep
  <1>7. Waits'
    BY <1>1, <1>2, <1>3, WaitsStep
  <1>8. Emptied'
    BY <1>1, <1>2, <1>3, EmptiedStep
  <1>9. OneConcern'
    BY <1>1, <1>2, <1>3, ConcernStep
  <1> QED
    BY <1>4, <1>5, <1>6, <1>7, <1>8, <1>9 DEF Orderly

\* A call is made.
LEMMA OrderlyCall ==
    ASSUME Whole, UNCHANGED <<app, stage, children>>, NEW t \in Threads, Awakes(t, {}), Only(t),
           Next1(t) \notin Pos, Next1(t) \in Pos', Last(t) \in Pos <=> Last(t) \in Pos',
           NEW a, a = call'[Next1(t)], a.pc \in {"pin", "uselock"}, HowOK(a),
           a.how = "from_parent" =>
              /\ Last(t) \in Pos /\ call'[Last(t)].pc = "recheck"
              /\ call'[Last(t)].arg = a.e /\ call'[Last(t)].e = Parent[a.e],
           Last(t) \in Pos =>
              /\ call[Last(t)].pc # "parent"
              /\ call'[Last(t)].how = call[Last(t)].how /\ call'[Last(t)].e = call[Last(t)].e
              /\ call'[Last(t)].pc # "sleep" /\ HowOK(call'[Last(t)])
              /\ call'[Last(t)].pc = "recheck" => a.how = "from_parent"
              /\ CursorOK(call'[Last(t)], children[call[Last(t)].e])
              /\ call'[Last(t)].pc \in Left => call[Last(t)].pc \in Left
              /\ \A e \in Implicit : Concerns(call'[Last(t)], e) => Concerns(call[Last(t)], e)
    PROVE  Orderly'
  <1>1. TypeOK /\ HowsOK /\ Linked /\ CursorsOK /\ Waits /\ Emptied /\ OneConcern /\ Shrinks
    BY DEF Whole, IInv, Orderly, Shrinks
  <1>2. \A y \in Mine(t) : y = Next1(t) \/ (y = Last(t) /\ Last(t) \in Pos)
    BY DEF Mine
  <1>3. HowsOK'
    BY <1>1, <1>2, HowsStep
  <1>4. Linked'
    BY <1>1, LinkedPush
  <1>5. CursorsOK'
    <2>1. CursorOK(a, children'[a.e])
      BY DEF CursorOK, Looping
    <2>2. Last(t) \in Pos => CursorOK(call'[Last(t)], children'[call'[Last(t)].e])
      OBVIOUS
    <2>3. \A y \in Mine(t) : CursorOK(call'[y], children'[call'[y].e])
      BY <1>2, <2>1, <2>2
    <2> QED
      BY <1>1, <2>3, CursorsStep
  <1>6. Waits'
    <2>1. Up(Last(t)) = Next1(t)
      BY Neighbours
    <2>2. \A y \in Mine(t) : call'[y].pc \notin {"recheck", "sleep"} \/ Up(y) \in Pos'
      BY <1>2, <2>1
    <2> QED
      BY <1>1, <2>2, WaitsStep
  <1>7. Emptied'
    <2>1. \A y \in Mine(t) : call'[y].pc \in Left /\ Parent[call'[y].e] # 0 =>
               call'[y].e \notin children'[Parent[call'[y].e]]
      BY <1>1, <1>2 DEF Emptied, Left
    <2> QED
      BY <1>1, <2>1, EmptiedStep
  <1>8. OneConcern'
    <2>1. \A e : ~Concerns(a, e)
      BY DEF Concerns, Deleting, BeforeLeaving, AfterLeaving
    <2> QED
      BY <1>1, <2>1, ConcernStep
  <1> QED
    BY <1>3, <1>4, <1>5, <1>6, <1>7, <1>8 DEF Orderly

LEMMA StackStays ==
    ASSUME TypeOK, NEW t \in Threads, NEW s, stack' = [stack EXCEPT ![t] = s]
    PROVE  \A u \in Threads : u # t => stack'[u] = stack[u]
  BY DEF TypeOK

\* The call on top goes on, or returns, and wakes nobody.
LEMMA WithAwakes ==
    ASSUME Whole, NEW t \in Threads, ~Idle(t), NEW g \in Frame, stack' = With(t, g)
    PROVE  Moves(t, g) /\ Awakes(t, {})
  <1>1. TypeOK /\ Linked
    BY DEF Whole, IInv, Orderly
  <1>2. Moves(t, g)
    BY <1>1, WithMoves
  <1>3. \A u \in Threads : u # t => stack'[u] = stack[u]
    BY <1>1, StackStays DEF With
  <1> QED
    BY <1>1, <1>2, <1>3, OthersStay DEF Moves

LEMMA OrderlyGoto ==
    ASSUME Whole, UNCHANGED <<app, stage, children>>, NEW t \in Threads, ~Idle(t),
           NEW g \in Frame, stack' = With(t, g), g.how = Top(t).how, g.e = Top(t).e,
           g.pc \notin Creations \cup {"pinsub", "pin"},
           CursorOK(g, children[g.e]),
           \/ g.pc \notin {"recheck", "sleep"}
           \/ g.arg \notin children[g.e]
           \/ g.arg \in Leavers(app, g.e),
           Top(t).pc = "parent" => Parent[g.e] = 0,
           g.pc \in Left => Top(t).pc \in Left \/ Parent[g.e] = 0,
           \A e \in Implicit : Concerns(g, e) => Concerns(Top(t), e)
    PROVE  Orderly'
  <1>1. Moves(t, g) /\ Awakes(t, {})
    BY WithAwakes
  <1>2. Last(t) \in Pos /\ call[Last(t)] = Top(t) /\ HowsOK /\ Emptied
    BY TopFrame DEF Whole, Orderly
  <1>3. HowOK(g)
    BY <1>2 DEF HowsOK, HowOK
  <1>4. g.pc \in Left /\ Parent[g.e] # 0 => g.e \notin children'[Parent[g.e]]
    BY <1>2 DEF Emptied
  <1>5. Shrinks /\ children' = children
    BY DEF Shrinks
  <1>6. \A c \in Entities : Parent[c] # 0 /\ c \in children'[Parent[c]] /\ stage'[c] # "live" =>
               stage[c] # "live" /\ (Top(t).pc = "parent" => Top(t).e # c)
    OBVIOUS
  <1>7. \A e \in Entities : stage'[e] \in {"unlinked", "freed"} => stage[e] \in {"unlinked", "freed"}
    OBVIOUS
  <1> QED
    BY <1>1, <1>3, <1>4, <1>5, <1>6, <1>7, OrderlyMove

\* The steps from one place to the next that touch no cursor.
Straight == {
    <<"lock", "wait">>, <<"wait", "close">>, <<"parent", "deriver">>, <<"deriver", "free">>,
    <<"dropped", "free">>, <<"uselock", "using">>, <<"using", "unpin">>}

LEMMA OrderlyStraight ==
    ASSUME Whole, UNCHANGED <<app, stage, children>>, NEW t \in Threads, ~Idle(t),
           NEW pc, Goto(t, pc), <<Top(t).pc, pc>> \in Straight,
           Top(t).pc = "parent" => Parent[Top(t).e] = 0
    PROVE  Orderly'
  <1> DEFINE f == Top(t)  g == [f EXCEPT !.pc = pc]
  <1>1. f \in Frame /\ FrameOK(f, Implicit) /\ IInv
    BY TopFrame DEF Whole
  <1>2. f.pc \in {"lock", "wait", "parent", "deriver", "dropped", "uselock", "using"}
        /\ pc \in {"wait", "close", "deriver", "free", "using", "unpin"}
    BY DEF Straight
  <1>3. stack' = With(t, g)
    BY DEF Goto, GotoPc
  <1>4. g \in Frame /\ g.pc = pc /\ g.e = f.e /\ g.how = f.how /\ g.arg = f.arg
    BY <1>1, <1>2, GotoFrame DEF Deleting, BeforeLeaving, AfterLeaving, InCall
  <1> HIDE DEF g
  <1>5. CursorOK(g, children[g.e])
    BY <1>2, <1>4 DEF CursorOK, Looping
  <1>6. g.pc \in Left => f.pc \in Left \/ Parent[g.e] = 0
    BY <1>2, <1>4 DEF Left, Straight
  <1>7. ASSUME NEW e \in Implicit, Concerns(g, e) PROVE Concerns(f, e)
    <2>1. e # 0
      BY <1>1, ImplicitKind DEF IInv
    <2>2. f.pc = "parent" => f.arg = 0
      BY <1>1 DEF FrameOK
    <2> QED
      BY <1>2, <1>4, <1>7, <2>1, <2>2 DEF Concerns, Deleting, BeforeLeaving, AfterLeaving, Straight
  <1>8. g.pc \notin Creations \cup {"pinsub", "pin"} /\ g.pc \notin {"recheck", "sleep"}
    BY <1>2, <1>4 DEF Creations, Making, OfParticipant
  <1> QED
    BY <1>3, <1>4, <1>5, <1>6, <1>7, <1>8, OrderlyGoto

LEMMA OrderlyOnward ==
    ASSUME Whole, NEW t \in Threads, UNCHANGED app,
           \/ Interrupt(t) \/ CloseWait(t) \/ NoParent(t) \/ OtherDelete(t) \/ Dropped(t)
           \/ UseLock(t) \/ UseUnlock(t)
    PROVE  Orderly'
  <1>1. ~Idle(t) /\ UNCHANGED <<app, stage, children>>
    BY DEF Interrupt, CloseWait, NoParent, OtherDelete, Dropped, UseLock, UseUnlock, At
  <1>2. \E pc : Goto(t, pc) /\ <<Top(t).pc, pc>> \in Straight
    BY DEF Interrupt, CloseWait, NoParent, OtherDelete, Dropped, UseLock, UseUnlock, At, Straight
  <1>3. Top(t).pc = "parent" => Parent[Top(t).e] = 0
    BY DEF Interrupt, CloseWait, NoParent, OtherDelete, Dropped, UseLock, UseUnlock, At
  <1> QED
    BY <1>1, <1>2, <1>3, OrderlyStraight

LEMMA OrderlyDeriverClose ==
    ASSUME Whole, NEW t \in Threads, UNCHANGED app, DeriverClose(t)
    PROVE  Orderly'
  <1> DEFINE f == Top(t)  g == [f EXCEPT !.pc = "children", !.arg = 0, !.pass = 1]
  <1>1. ~Idle(t) /\ f.pc = "close" /\ UNCHANGED <<app, stage, children>> /\ stack' = With(t, g) /\ TypeOK
    BY DEF DeriverClose, At, Whole, IInv
  <1>2. f \in Frame /\ f.e \in Entities
    BY <1>1, TopFrame DEF Whole
  <1>3. "children" \in Deleting /\ 0 \in Nat /\ 1 \in 1..2
    BY DEF Deleting, BeforeLeaving
  <1> HIDE DEF f
  <1>4. g \in Frame
    BY <1>2, <1>3, Zenon DEF Frame
  <1>5. g.pc = "children" /\ g.e = f.e /\ g.how = f.how /\ g.arg = 0 /\ g.pass = 1
    BY <1>2 DEF Frame
  <1> HIDE DEF g
  <1>6. \A c \in children[g.e] : ~PassedOver(g, c)
    <2>1. \A c \in children[g.e] : c \in Nat /\ c # 0
      BY <1>1, <1>2, <1>5, Tree DEF TypeOK
    <2> QED
      BY <1>5, <2>1 DEF PassedOver
  <1>7. CursorOK(g, children[g.e])
    BY <1>5, <1>6 DEF CursorOK
  <1>8. \A e \in Implicit : Concerns(g, e) => Concerns(f, e)
    BY <1>1, <1>5 DEF Concerns, Deleting, BeforeLeaving, AfterLeaving
  <1>9. g.pc \notin Creations \cup {"pinsub", "pin"} /\ g.pc \notin Left
    BY <1>5 DEF Creations, Making, OfParticipant, Left
  <1> QED
    BY <1>1, <1>4, <1>5, <1>7, <1>8, <1>9, OrderlyGoto DEF f

LEMMA OrderlyRecheck ==
    ASSUME Whole, NEW t \in Threads, UNCHANGED app, Recheck(t)
    PROVE  Orderly'
  <1> DEFINE f == Top(t)
  <1>1. ~Idle(t) /\ f.pc = "recheck" /\ UNCHANGED <<app, stage, children>> /\ CursorsOK /\ Waits
    BY DEF Recheck, At, Whole, Orderly
  <1>2. f \in Frame /\ Last(t) \in Pos /\ call[Last(t)] = f /\ Next1(t) \notin Pos
    BY <1>1, TopFrame DEF Whole
  <1>3. PICK pc \in {"sleep", "children"} : Goto(t, pc) /\ (pc = "sleep" <=> f.arg \in children[f.e])
    BY DEF Recheck, StillThere
  <1> DEFINE g == [f EXCEPT !.pc = pc]
  <1>4. stack' = With(t, g)
    BY <1>3 DEF Goto, GotoPc
  <1>5. g \in Frame /\ g.pc = pc /\ g.e = f.e /\ g.how = f.how /\ g.arg = f.arg /\ g.pass = f.pass
    BY <1>2, GotoFrame DEF Deleting, BeforeLeaving
  <1> HIDE DEF g, f
  <1>6. CursorOK(f, children[f.e])
    BY <1>1, <1>2 DEF CursorsOK
  <1>7. \A c \in children[f.e] : PassedOver(g, c) <=> PassedOver(f, c)
    BY <1>1, <1>3, <1>5 DEF PassedOver
  <1>8. CursorOK(g, children[g.e])
    BY <1>1, <1>3, <1>5, <1>6, <1>7 DEF CursorOK, Looping
  <1>9. g.arg \in children[g.e] => g.arg \in Leavers(app, g.e)
    <2>1. Up(Last(t)) = Next1(t)
      BY Neighbours
    <2> QED
      BY <1>1, <1>2, <1>5, <2>1 DEF Waits
  <1>10. \A e \in Implicit : Concerns(g, e) => Concerns(f, e)
    BY <1>1, <1>3, <1>5 DEF Concerns, Deleting, BeforeLeaving, AfterLeaving
  <1>11. g.pc \notin Creations \cup {"pinsub", "pin"} /\ g.pc \notin Left
    BY <1>3, <1>5 DEF Creations, Making, OfParticipant, Left
  <1> QED
    BY <1>1, <1>4, <1>5, <1>8, <1>9, <1>10, <1>11, OrderlyGoto DEF f

----------------------------------------------------------------------------
(* The rounds of delete_children.                                           *)

\* What a cursor says of the children of what is deleted.
LEMMA CursorFacts ==
    ASSUME Whole, NEW t \in Threads, ~Idle(t), Top(t).pc = "children"
    PROVE  /\ Top(t) \in Frame /\ Top(t).e \in Entities /\ Last(t) \in Pos /\ call[Last(t)] = Top(t)
           /\ Next1(t) \notin Pos /\ HowOK(Top(t)) /\ CursorOK(Top(t), children[Top(t).e])
           /\ \A c \in children[Top(t).e] : /\ c \in Entities /\ c \in Nat \ {0}
                                            /\ Parent[c] = Top(t).e /\ c \in KidsOf(Top(t).e)
                                            /\ c <= Top(t).arg <=> PassedOver(Top(t), c)
  <1>1. TypeOK /\ TreeOK /\ CursorsOK /\ HowsOK
    BY DEF Whole, IInv, Orderly
  <1>2. Top(t) \in Frame /\ Top(t).e \in Entities /\ Last(t) \in Pos /\ call[Last(t)] = Top(t) /\ Next1(t) \notin Pos
    BY TopFrame DEF Whole
  <1>3. Top(t).arg \in Nat
    BY <1>2 DEF Frame
  <1>4. ASSUME NEW c \in children[Top(t).e]
        PROVE  /\ c \in Entities /\ c \in Nat \ {0} /\ Parent[c] = Top(t).e /\ c \in KidsOf(Top(t).e)
               /\ c <= Top(t).arg <=> PassedOver(Top(t), c)
    <2>1. c \in Entities /\ Parent[c] = Top(t).e
      BY <1>1, <1>2 DEF TypeOK, TreeOK
    <2>2. c \in Nat \ {0}
      BY <2>1, Tree
    <2> QED
      BY <1>3, <2>1, <2>2 DEF PassedOver, KidsOf
  <1> QED
    BY <1>1, <1>2, <1>4 DEF HowsOK, CursorsOK

LEMMA OrderlyNextChild ==
    ASSUME Whole, FewLeave, NEW t \in Threads, UNCHANGED app, NextChild(t)
    PROVE  Orderly'
  <1> DEFINE f == Top(t)  K == children[f.e]
             rest == {c \in K : c > f.arg /\ Allowed(f, c)}
             g == [f EXCEPT !.pass = 2, !.arg = 0]
             h == [f EXCEPT !.pc = "handle"]
  <1>1. ~Idle(t) /\ f.pc = "children" /\ UNCHANGED <<app, stage, children>> /\ TypeOK /\ Linked
    BY DEF NextChild, At, Whole, IInv, Orderly
  <1>2. /\ f \in Frame /\ f.e \in Entities /\ Last(t) \in Pos /\ call[Last(t)] = f /\ Next1(t) \notin Pos
        /\ HowOK(f) /\ CursorOK(f, K)
        /\ \A c \in K : /\ c \in Entities /\ c \in Nat \ {0} /\ Parent[c] = f.e /\ c \in KidsOf(f.e)
                        /\ c <= f.arg <=> PassedOver(f, c)
    BY <1>1, CursorFacts
  <1>3. f.arg \in Nat /\ f.pass \in {1, 2} /\ f.pc \in Looping
    BY <1>1, <1>2 DEF Frame, Looping
  <1>4. \A c \in K : c \in rest <=> ~PassedOver(f, c) /\ (f.pass = 1 => Kind[c] # "topic")
    BY <1>2, <1>3 DEF Allowed
  <1>5. CASE /\ rest # {}
             /\ stack' = [stack EXCEPT ![t] =
                   <<Call(Min(rest), "from_parent"), [f EXCEPT !.pc = "recheck", !.arg = Min(rest)]>> \o Tail(@)]
    <2> DEFINE c == Min(rest)  a == Call(c, "from_parent")  b == [f EXCEPT !.pc = "recheck", !.arg = c]
    <2>1. rest \subseteq Entities
      BY <1>2
    <2>2. c \in rest /\ \A d \in rest : c <= d
      BY <1>5, <2>1, LeastChild
    <2>3. c \in K /\ c \in Entities /\ c \in Nat
      BY <1>2, <2>2
    <2>4. Calls(t, a, b)
      BY <1>5 DEF Calls
    <2> HIDE DEF rest, c
    <2>5. a \in Frame /\ a.how = "from_parent" /\ a.pc = "pin" /\ a.e = c
      BY <2>3, CallFits
    <2>6. "recheck" \in Deleting
      BY DEF Deleting, BeforeLeaving
    <2> HIDE DEF f, a
    <2>7. b \in Frame
      BY <1>2, <2>3, <2>6, Zenon DEF Frame
    <2>8. b.pc = "recheck" /\ b.e = f.e /\ b.how = f.how /\ b.arg = c /\ b.pass = f.pass
      BY <1>2 DEF Frame
    <2> HIDE DEF b
    <2>9. Pushes(t, a, b)
      BY <1>1, <2>4, <2>5, <2>7, CallPushes
    <2>10. Awakes(t, {}) /\ Only(t)
      BY <1>1, <2>4, <2>9, StackStays, OthersStay DEF Calls, Pushes, Others, Only
    <2>11. \A d \in K : PassedOver(b, d) => ~(c <= d)
      BY <1>2, <2>3, <2>8 DEF PassedOver
    <2>12. \A d \in K : PassedOver(b, d) => PassedOver(f, d) \/ (f.pass = 1 /\ Kind[d] = "topic")
      BY <1>4, <2>2, <2>11
    <2>13. CursorOK(b, K)
      BY <1>2, <1>3, <2>8, <2>12 DEF CursorOK, Looping
    <2>14. HowOK(a) /\ HowOK(b)
      BY <1>2, <2>5, <2>8 DEF HowOK, Creations, Making, OfParticipant
    <2>15. \A e \in Implicit : Concerns(b, e) => Concerns(f, e)
      BY <1>1, <2>8 DEF Concerns, Deleting, BeforeLeaving, AfterLeaving, f
    <2>16. b.pc \notin Left
      BY <2>8 DEF Left
    <2> QED
      BY <1>1, <1>2, <2>3, <2>5, <2>8, <2>9, <2>10, <2>13, <2>14, <2>15, <2>16, OrderlyCall DEF Pushes, f
  <1>6. CASE rest = {} /\ f.pass = 1 /\ stack' = With(t, g)
    <2>1. 2 \in 1..2 /\ 0 \in Nat
      OBVIOUS
    <2>2. \A x \in K, y \in K : x = y
      <3> SUFFICES ASSUME NEW x \in K, NEW y \in K PROVE x = y
        OBVIOUS
      <3>1. Doomed(app, f.e)
        BY <1>1, <1>2, LoopIsDoomed DEF Deleting, BeforeLeaving
      <3>2. \A d \in K : Kind[d] # "topic" => d \in Leavers(app, f.e) /\ \A q \in K : q \in Leavers(app, f.e) => q = d
        BY <1>2, <1>3, <1>4, <1>6 DEF CursorOK
      <3>3. \A d \in K : d \in Leavers(app, f.e)
        BY <1>2, <3>2 DEF Leavers
      <3>4. CASE Kind[x] = "topic" /\ Kind[y] = "topic"
        BY <1>1, <1>2, <3>1, <3>4, FewLeaveNow
      <3> QED
        BY <3>2, <3>3, <3>4
    <2> HIDE DEF f, rest
    <2>3. g \in Frame
      BY <1>2, <2>1, Zenon DEF Frame
    <2>4. g.pc = f.pc /\ g.e = f.e /\ g.how = f.how /\ g.arg = 0 /\ g.pass = 2
      BY <1>2 DEF Frame
    <2> HIDE DEF g
    <2>5. \A d \in K : ~PassedOver(g, d)
      BY <1>2, <2>4 DEF PassedOver
    <2>6. CursorOK(g, K)
      BY <1>1, <2>2, <2>4, <2>5 DEF CursorOK, f
    <2>7. \A e \in Implicit : Concerns(g, e) => Concerns(f, e)
      BY <1>1, <2>4 DEF Concerns, AfterLeaving, f
    <2>8. g.pc \notin Creations \cup {"pinsub", "pin"} /\ g.pc \notin Left
      BY <1>1, <2>4 DEF Creations, Making, OfParticipant, Left, f
    <2> QED
      BY <1>1, <1>6, <2>3, <2>4, <2>6, <2>7, <2>8, OrderlyGoto DEF f
  <1>7. CASE rest = {} /\ f.pass = 2 /\ Goto(t, "handle")
    <2>1. K = {}
      BY <1>2, <1>3, <1>4, <1>7 DEF CursorOK
    <2>2. stack' = With(t, h)
      BY <1>7 DEF Goto, GotoPc
    <2>3. h \in Frame /\ h.pc = "handle" /\ h.e = f.e /\ h.how = f.how /\ h.arg = f.arg
      BY <1>2, GotoFrame DEF Deleting, BeforeLeaving
    <2> HIDE DEF h, f, rest
    <2>4. CursorOK(h, K)
      BY <2>1, <2>3 DEF CursorOK
    <2>5. \A e \in Implicit : Concerns(h, e) => Concerns(f, e)
      BY <1>1, <2>3 DEF Concerns, Deleting, BeforeLeaving, AfterLeaving, f
    <2>6. h.pc \notin Creations \cup {"pinsub", "pin"} /\ h.pc \notin Left
      BY <2>3 DEF Creations, Making, OfParticipant, Left
    <2> QED
      BY <1>1, <2>2, <2>3, <2>4, <2>5, <2>6, OrderlyGoto DEF f
  <1> QED
    BY <1>5, <1>6, <1>7 DEF NextChild

----------------------------------------------------------------------------
(* The steps that return, leave or begin.                                   *)

LEMMA ReturnAwakes ==
    ASSUME Whole, NEW t \in Threads, ~Idle(t), stack' = [stack EXCEPT ![t] = Tail(@)]
    PROVE  Pops(t) /\ Awakes(t, {})
  <1>1. TypeOK /\ Linked
    BY DEF Whole, IInv, Orderly
  <1>2. Pops(t)
    BY <1>1, ReturnPops
  <1>3. \A u \in Threads : u # t => stack'[u] = stack[u]
    BY <1>1, StackStays
  <1> QED
    BY <1>1, <1>2, <1>3, OthersStay DEF Pops

\* A child for which dds_delete_impl does nothing is deleted by others.
LEMMA PinLeaves ==
    ASSUME Whole, FewLeave, NEW t \in Threads, ~Idle(t), Top(t).pc = "pin", Top(t).how = "from_parent",
           Top(t).e \in children[Parent[Top(t).e]],
           ~Live(Top(t).e) \/ hdl[Top(t).e].closing \/ Kind[Top(t).e] = "topic"
    PROVE  Top(t).e \in Leavers(app, Parent[Top(t).e])
  <1> DEFINE e == Top(t).e  z == Down(Last(t))
  <1>1. Last(t) \in Pos /\ call[Last(t)] = Top(t) /\ e \in Entities /\ Linked /\ TypeOK
    BY TopFrame DEF Whole, IInv, Orderly
  <1>2. z \in Pos /\ call[z].pc = "recheck" /\ call[z].e = Parent[e]
    BY <1>1 DEF Linked
  <1>3. call[z].pc \in Deleting
    BY <1>2 DEF Deleting, BeforeLeaving
  <1>4. Parent[e] \in Entities /\ Parent[e] # 0
    BY <1>2, <1>3, DeleterFrame, Tree
  <1>5. CASE Kind[e] = "topic"
    BY <1>1, <1>5 DEF Leavers, KidsOf
  <1>6. CASE ~Live(e) \/ hdl[e].closing
    <2>1. PICK x \in Pos : Concerns(call[x], e) /\ call[x].pc # "pin"
      BY <1>1, <1>4, <1>6, BusyChild
    <2>2. x # Up(z)
      BY <1>1, <2>1, Neighbours
    <2> QED
      BY <1>2, <1>3, <2>1, <2>2, OthersLeave
  <1> QED
    BY <1>5, <1>6

\* Nobody calls dds_delete_impl for an implicit subscriber.
LEMMA PinExplicit ==
    ASSUME Whole, FewLeave, NEW t \in Threads, ~Idle(t), Top(t).pc = "pin"
    PROVE  Top(t).e \notin Implicit
  <1> DEFINE e == Top(t).e  z == Down(Last(t))
  <1> SUFFICES ASSUME e \in Implicit PROVE FALSE
    OBVIOUS
  <1>1. /\ Last(t) \in Pos /\ call[Last(t)] = Top(t) /\ e \in Entities /\ Linked /\ TypeOK
        /\ HowOK(Top(t)) /\ FrameOK(Top(t), Implicit)
    BY TopFrame DEF Whole, IInv, Orderly, HowsOK
  <1>2. Kind[e] # "topic" /\ Top(t).how # "implicit" /\ Top(t).how # "explicit"
    BY <1>1, ImplicitKind DEF HowOK
  <1>3. CASE Top(t).how = "user"
    <2>1. Doomed(app, e)
      BY <1>1, <1>3 DEF HowOK, Doomed
    <2> QED
      BY <1>1, <2>1, FewLeaveNow
  <1>4. CASE Top(t).how = "from_parent"
    <2>1. z \in Pos /\ call[z].pc = "recheck" /\ call[z].e = Parent[e]
      BY <1>1, <1>4 DEF Linked
    <2>2. call[z].pc \in Deleting
      BY <2>1 DEF Deleting, BeforeLeaving
    <2> QED
      BY <2>1, <2>2, NoImplicitBelow
  <1> QED
    BY <1>1, <1>2, <1>3, <1>4 DEF FrameOK

LEMMA OrderlyDeletePin ==
    ASSUME Whole, FewLeave, NEW t \in Threads, UNCHANGED app, DeletePin(t)
    PROVE  Orderly'
  <1> DEFINE f == Top(t)  e == f.e  g == [f EXCEPT !.pc = "lock"]
  <1>1. ~Idle(t) /\ f.pc = "pin" /\ UNCHANGED <<app, stage, children>> /\ IInv /\ Needed /\ TypeOK
    BY DEF DeletePin, At, Whole, IInv
  <1>2. f \in Frame /\ e \in Entities
    BY <1>1, TopFrame
  <1>3. CASE /\ stack' = [stack EXCEPT ![t] = Tail(@)]
             /\ ~Live(e) \/ hdl[e].closing \/ Kind[e] = "topic"
    BY <1>1, <1>3, ReturnAwakes, PinLeaves, OrderlyPop
  <1>4. CASE Goto(t, "lock")
    <2>1. stack' = With(t, g)
      BY <1>4 DEF Goto, GotoPc
    <2>2. g \in Frame /\ g.pc = "lock" /\ g.e = e /\ g.how = f.how /\ g.arg = f.arg
      BY <1>2, GotoFrame DEF Deleting, BeforeLeaving
    <2> HIDE DEF g
    <2>3. \A m \in Implicit : ~Concerns(g, m)
      BY <1>1, <2>2, PinExplicit DEF Concerns, AfterLeaving
    <2>4. CursorOK(g, children[g.e])
      BY <2>2 DEF CursorOK, Looping
    <2>5. g.pc \notin Creations \cup {"pinsub", "pin"} /\ g.pc \notin Left
      BY <2>2 DEF Creations, Making, OfParticipant, Left
    <2> QED
      BY <1>1, <2>1, <2>2, <2>3, <2>4, <2>5, OrderlyGoto
  <1>5. AlreadyDeleted(hdl[e]) => Kind[e] = "topic"
    BY <1>1, <1>2 DEF AlreadyDeleted, Needed, OnlyTopics
  <1>6. MustDefer(hdl[e], e \in Implicit, AllowChildren(e)) => Kind[e] = "topic"
    BY DEF MustDefer, AllowChildren
  <1> QED
    BY <1>3, <1>4, <1>5, <1>6 DEF DeletePin, Return

LEMMA OrderlyHandleDelete ==
    ASSUME Whole, NEW t \in Threads, UNCHANGED app, HandleDelete(t)
    PROVE  Orderly'
  <1> DEFINE f == Top(t)  e == f.e  g == [f EXCEPT !.pc = "parent", !.arg = 0]
  <1>1. /\ ~Idle(t) /\ f.pc = "handle" /\ TypeOK /\ UNCHANGED <<app, children>> /\ Shrinks
        /\ stage' = [stage EXCEPT ![e] = "unlinked"] /\ stack' = With(t, g)
    BY DEF HandleDelete, At, Whole, IInv, Shrinks
  <1>2. f \in Frame /\ e \in Entities /\ Last(t) \in Pos /\ call[Last(t)] = f /\ HowOK(f) /\ CursorOK(f, children[e])
    BY <1>1, TopFrame DEF Whole, Orderly, HowsOK, CursorsOK
  <1>3. stage'[e] = "unlinked" /\ \A x \in Entities : x # e => stage'[x] = stage[x]
    BY <1>1, <1>2 DEF TypeOK
  <1>4. children'[e] = {}
    BY <1>1, <1>2 DEF CursorOK
  <1>5. "parent" \in Deleting /\ 0 \in Nat
    BY DEF Deleting, BeforeLeaving
  <1> HIDE DEF f
  <1>6. g \in Frame
    BY <1>2, <1>5, Zenon DEF Frame
  <1>7. g.pc = "parent" /\ g.e = e /\ g.how = f.how /\ g.arg = 0
    BY <1>2 DEF Frame
  <1> HIDE DEF g, e
  <1>8. Moves(t, g) /\ Awakes(t, {})
    BY <1>1, <1>6, WithAwakes
  <1>9. HowOK(g) /\ CursorOK(g, children'[g.e]) /\ g.pc \notin Left
    BY <1>2, <1>7 DEF HowOK, Creations, Making, OfParticipant, CursorOK, Looping, Left, e
  <1>10. \A x \in Implicit : Concerns(g, x) => Concerns(f, x)
    BY <1>1, <1>7 DEF Concerns, Deleting, BeforeLeaving, AfterLeaving, e
  <1>11. \A x \in Entities : stage'[x] \in {"unlinked", "freed"} =>
             stage[x] \in {"unlinked", "freed"} \/ children'[x] = {}
    BY <1>3, <1>4
  <1>12. \A c \in Entities : Parent[c] # 0 /\ c \in children'[Parent[c]] /\ stage'[c] # "live" =>
             stage[c] # "live" \/ (g.pc = "parent" /\ g.e = c)
    BY <1>3, <1>7
  <1> QED
    BY <1>1, <1>7, <1>8, <1>9, <1>10, <1>11, <1>12, OrderlyMove DEF f, e

\* A parent that another child's departure wakes has at most one leaver left
\* before the place where it slept.
LEMMA WokenCursor ==
    ASSUME Whole, FewLeave, NEW y \in Pos, call[y].pc = "sleep", NEW x \in Pos, x # y,
           NEW e \in children[call[y].e], Concerns(call[x], e)
    PROVE  CursorOK([call[y] EXCEPT !.pc = "children"], children[call[y].e] \ {e})
  <1> DEFINE h == call[y]  h2 == [h EXCEPT !.pc = "children"]  p == h.e  K == children[p]
  <1>1. TypeOK /\ TreeOK /\ Linked /\ CursorsOK /\ Waits
    BY DEF Whole, IInv, Orderly
  <1>2. h \in Frame /\ h.pc \in Deleting /\ p \in Entities
    BY <1>1, CallType DEF Deleting, BeforeLeaving, Frame
  <1>3. h2.pc = "children" /\ h2.e = p /\ h2.arg = h.arg /\ h2.pass = h.pass
    BY <1>2 DEF Frame
  <1>4. Up(y) \notin Pos /\ CursorOK(h, K)
    BY <1>1 DEF Linked, CursorsOK
  <1>5. e \in Leavers(app, p)
    BY <1>2, <1>4, OthersLeave
  <1>6. Doomed(app, p)
    BY <1>2, LoopIsDoomed
  <1>7. \A b, c, d \in Leavers(app, p) : b = c \/ b = d \/ c = d
    BY <1>1, <1>2, <1>6, FewLeaveNow
  <1>8. e \in K /\ (h.arg \in K => h.arg \in Leavers(app, p))
    BY <1>1, <1>4 DEF Waits
  <1> HIDE DEF h2, h
  <1>9. \A c \in K : PassedOver(h2, c) => PassedOver(h, c) \/ c = h.arg
    BY <1>3 DEF PassedOver
  <1>10. h.pc = "sleep"
    BY DEF h
  <1>11. ASSUME h.pass = 1, NEW c \in K \ {e}, PassedOver(h2, c), Kind[c] # "topic"
         PROVE  c \in Leavers(app, p) /\ \A d \in K \ {e} : d \in Leavers(app, p) => d = c
    <2>1. ~PassedOver(h, c)
      BY <1>4, <1>5, <1>8, <1>10, <1>11 DEF CursorOK, Looping
    <2>2. c = h.arg
      BY <1>9, <1>11, <2>1
    <2>3. c \in Leavers(app, p)
      BY <1>8, <1>11, <2>2
    <2> QED
      BY <1>5, <1>7, <1>11, <2>3
  <1>12. ASSUME h.pass = 2 PROVE K \ {e} = {}
    BY <1>4, <1>8, <1>10, <1>12 DEF CursorOK, Looping
  <1> QED
    BY <1>3, <1>11, <1>12 DEF CursorOK, h, h2

\* The last reference of an implicit subscriber is its last child's.
LEMMA LastChild ==
    ASSUME IInv, NEW p \in Implicit, NEW e \in children[p], ~hdl[p].closing, hdl[p].ref = 1
    PROVE  children[p] = {e}
  <1>1. TypeOK /\ RefsOK /\ p \in Entities /\ Kind[p] = "subscriber"
    BY ImplicitKind DEF IInv
  <1>2. topicUsers[p] = {}
    <2>1. \A r \in Readers : TopicOf[r] # p
      BY <1>1, Tree
    <2> QED
      BY <1>1, <2>1 DEF topicUsers, users
  <1>3. IsFiniteSet(children[p])
    <2>1. children[p] \subseteq Entities
      BY <1>1 DEF TypeOK
    <2> QED
      BY <2>1, LifecycleAssumption, FS_Subset
  <1>4. Cardinality(children[p]) \in Nat /\ Cardinality(topicUsers[p]) = 0
    BY <1>2, <1>3, FS_CardinalityType, FS_EmptySet
  <1>5. ~hdl[p].deferred => Cardinality(children[p]) = 1
    BY <1>1, <1>4 DEF RefsOK, Own
  <1>6. Own(hdl, Implicit, p) = 0
    BY DEF Own
  <1>7. Cardinality(children[p]) = 1
    BY <1>1, <1>4, <1>6 DEF RefsOK
  <1> QED
    BY <1>3, <1>7, FS_Singleton

LEMMA OrderlyLeaveParent ==
    ASSUME Whole, FewLeave, NEW t \in Threads, UNCHANGED app, LeaveParent(t)
    PROVE  Orderly'
  <1> DEFINE f == Top(t)  e == f.e  p == Parent[e]
             last == DeletesParent(hdl[p], p \in Implicit, f.how # "from_parent")
  <1>1. /\ ~Idle(t) /\ f.pc = "parent" /\ TypeOK /\ Linked /\ p # 0 /\ UNCHANGED <<app, stage>>
        /\ children' = [children EXCEPT ![p] = @ \ {e}]
    BY DEF LeaveParent, At, Whole, IInv, Orderly
  <1>2. f \in Frame /\ e \in Entities /\ Last(t) \in Pos /\ call[Last(t)] = f /\ Next1(t) \notin Pos
        /\ FrameTrue(f, stage, hdl, children) /\ FrameOK(f, Implicit) /\ HowOK(f)
    BY <1>1, TopFrame DEF Whole, Orderly, HowsOK
  <1>3. p \in Entities /\ e \in children[p] /\ f.arg = 0
    BY <1>1, <1>2, Tree DEF FrameTrue, FrameOK
  <1>4. children'[p] = children[p] \ {e} /\ \A x \in Entities : x # p => children'[x] = children[x]
    BY <1>1, <1>3 DEF TypeOK
  <1>5. Shrinks
    BY <1>4 DEF Shrinks
  <1>6. PICK pc \in {"closeparent", "deriver"} :
            \/ /\ pc = "closeparent" /\ last
               /\ stack' = With(t, [f EXCEPT !.pc = pc])
            \/ /\ pc = "deriver"
               /\ stack' = Broadcast(With(t, [f EXCEPT !.pc = pc]), p)
    BY DEF LeaveParent, Goto, GotoPc
  <1> DEFINE g == [f EXCEPT !.pc = pc]
  <1>7. g \in Frame /\ g.pc = pc /\ g.e = e /\ g.how = f.how /\ g.arg = 0
    BY <1>2, <1>3, GotoFrame DEF Deleting, BeforeLeaving, AfterLeaving
  <1>8. PICK W : Moves(t, g) /\ Awakes(t, W) /\ W \subseteq {p}
    <2>1. CASE stack' = With(t, g)
      BY <1>1, <1>7, <2>1, WithAwakes
    <2>2. CASE stack' = Broadcast(With(t, g), p)
      <3>1. Moves(t, g)
        BY <1>1, <1>7, <2>2, BroadcastMoves
      <3>2. Awakes(t, {p})
        BY <1>1, <1>2, <2>2, <3>1, BroadcastAwakes DEF Moves
      <3> QED
        BY <3>1, <3>2
    <2> QED
      BY <1>6, <2>1, <2>2
  <1> HIDE DEF g
  <1>9. last => p \in Implicit /\ children'[p] = {}
    <2> SUFFICES ASSUME last PROVE p \in Implicit /\ children'[p] = {}
      OBVIOUS
    <2>1. p \in Implicit /\ ~hdl[p].closing /\ hdl[p].ref = 1
      BY DEF DeletesParent
    <2> QED
      BY <1>3, <1>4, <2>1, LastChild DEF Whole
  <1>10. Concerns(f, e)
    BY <1>1 DEF Concerns, Deleting, BeforeLeaving
  <1>11. \A x \in Implicit : Concerns(g, x) => Concerns(f, x) \/ (children[x] # {} /\ children'[x] = {})
    <2> SUFFICES ASSUME NEW x \in Implicit, Concerns(g, x), x # e PROVE children[x] # {} /\ children'[x] = {}
      BY <1>10
    <2>1. x # 0
      BY <1>1, ImplicitKind
    <2>2. pc = "closeparent" /\ x = p
      BY <1>7, <2>1 DEF Concerns, AfterLeaving
    <2> QED
      BY <1>3, <1>6, <1>9, <2>2
  <1>12. ASSUME NEW y \in Pos, y # Last(t), call[y].pc = "sleep", call[y].e \in W
         PROVE  CursorOK([call[y] EXCEPT !.pc = "children"], children'[call[y].e])
    BY <1>2, <1>3, <1>4, <1>8, <1>10, <1>12, WokenCursor
  <1>13. HowOK(g) /\ CursorOK(g, children'[g.e]) /\ g.pc \notin {"recheck", "sleep"}
    BY <1>2, <1>7 DEF HowOK, Creations, Making, OfParticipant, CursorOK, Looping
  <1>14. \A c \in Entities : Parent[c] # 0 /\ c \in children'[Parent[c]] /\ stage'[c] # "live" =>
             stage[c] # "live" /\ (f.pc = "parent" => e # c)
    BY <1>1, <1>4
  <1>15. g.e \notin children'[Parent[g.e]]
    BY <1>4, <1>7
  <1> HIDE DEF f, e, p, last
  <1> QED
    BY <1>1, <1>5, <1>7, <1>8, <1>11, <1>12, <1>13, <1>14, <1>15, OrderlyMove DEF f, e

LEMMA OrderlyCloseParent ==
    ASSUME Whole, NEW t \in Threads, UNCHANGED app, CloseParent(t)
    PROVE  Orderly'
  <1> DEFINE f == Top(t)  p == Parent[f.e]  g == [f EXCEPT !.pc = "deriver", !.arg = p]
  <1>1. /\ ~Idle(t) /\ f.pc = "closeparent" /\ TypeOK /\ Linked /\ UNCHANGED <<app, stage, children>> /\ Shrinks
        /\ stack' = Broadcast(With(t, g), p)
    BY DEF CloseParent, At, Whole, IInv, Orderly, Shrinks
  <1>2. /\ f \in Frame /\ f.e \in Entities /\ Last(t) \in Pos /\ call[Last(t)] = f /\ Next1(t) \notin Pos
        /\ FrameOK(f, Implicit) /\ HowOK(f) /\ Emptied /\ OneConcern
    BY <1>1, TopFrame DEF Whole, Orderly, HowsOK
  <1>3. p \in Implicit /\ p \in Entities /\ p \in Nat /\ p # 0
    <2>1. p \in Implicit
      BY <1>1, <1>2 DEF FrameOK
    <2> QED
      BY <1>1, <2>1, ImplicitKind, Tree
  <1>4. Concerns(f, p) /\ Concerns(f, f.e)
    BY <1>1 DEF Concerns, Deleting, BeforeLeaving
  <1>5. children[p] = {}
    BY <1>2, <1>3, <1>4 DEF OneConcern
  <1>6. f.e \notin children[p]
    BY <1>5
  <1>7. "deriver" \in Deleting
    BY DEF Deleting, AfterLeaving
  <1> HIDE DEF f, p
  <1>8. g \in Frame
    BY <1>2, <1>3, <1>7, Zenon DEF Frame
  <1>9. g.pc = "deriver" /\ g.e = f.e /\ g.how = f.how /\ g.arg = p
    BY <1>2 DEF Frame
  <1> HIDE DEF g
  <1>10. Moves(t, g)
    BY <1>1, <1>8, <1>9, BroadcastMoves
  <1>11. Awakes(t, {p})
    BY <1>1, <1>10, BroadcastAwakes DEF Moves
  <1>12. \A x \in Implicit : Concerns(g, x) => Concerns(f, x)
    BY <1>4, <1>9 DEF Concerns
  <1>13. HowOK(g) /\ CursorOK(g, children'[g.e]) /\ g.pc \notin {"recheck", "sleep"}
    BY <1>2, <1>9 DEF HowOK, Creations, Making, OfParticipant, CursorOK, Looping
  <1>14. ASSUME NEW y \in Pos, call[y].e \in {p}
         PROVE  CursorOK([call[y] EXCEPT !.pc = "children"], children'[call[y].e])
    BY <1>1, <1>5, <1>14 DEF CursorOK
  <1>15. g.e \notin children'[Parent[g.e]]
    BY <1>1, <1>6, <1>9 DEF p
  <1>16. \A c \in Entities : Parent[c] # 0 /\ c \in children'[Parent[c]] /\ stage'[c] # "live" => stage[c] # "live"
    BY <1>1
  <1>17. \A e \in Entities : stage'[e] \in {"unlinked", "freed"} => stage[e] \in {"unlinked", "freed"}
    BY <1>1
  <1> QED
    BY <1>1, <1>9, <1>10, <1>11, <1>12, <1>13, <1>14, <1>15, <1>16, <1>17, OrderlyMove DEF f

LEMMA OrderlyReaderDelete ==
    ASSUME Whole, NEW t \in Threads, UNCHANGED app, ReaderDelete(t)
    PROVE  Orderly'
  <1> DEFINE f == Top(t)  tp == TopicOf[f.e]  a == Call(tp, "explicit")  b == [f EXCEPT !.pc = "dropped"]
  <1>1. ~Idle(t) /\ f.pc = "deriver" /\ f.e \in Readers /\ UNCHANGED <<app, stage, children>> /\ TypeOK /\ Linked
    BY DEF ReaderDelete, At, Whole, IInv, Orderly
  <1>2. f \in Frame /\ Last(t) \in Pos /\ call[Last(t)] = f /\ Next1(t) \notin Pos /\ HowOK(f)
    BY <1>1, TopFrame DEF Whole, Orderly, HowsOK
  <1>3. CASE Goto(t, "free")
    BY <1>1, <1>3, OrderlyStraight DEF Straight
  <1>4. CASE stack' = [stack EXCEPT ![t] = <<a, b>> \o Tail(@)]
    <2>1. Calls(t, a, b)
      BY <1>4 DEF Calls
    <2>2. tp \in Entities /\ Kind[tp] = "topic"
      BY <1>1, Tree
    <2>3. a \in Frame /\ a.pc = "pin" /\ a.e = tp /\ a.how = "explicit"
      BY <2>2, CallFits
    <2>4. b \in Frame /\ b.pc = "dropped" /\ b.e = f.e /\ b.how = f.how /\ b.arg = f.arg
      BY <1>2, GotoFrame DEF Deleting, AfterLeaving
    <2> HIDE DEF a, b
    <2>5. Pushes(t, a, b)
      BY <1>1, <2>1, <2>3, <2>4, CallPushes
    <2>6. Awakes(t, {}) /\ Only(t)
      BY <1>1, <2>1, <2>5, StackStays, OthersStay DEF Calls, Pushes, Others, Only
    <2>7. HowOK(a) /\ HowOK(b)
      BY <1>2, <2>2, <2>3, <2>4 DEF HowOK, Creations, Making, OfParticipant
    <2>8. \A e \in Implicit : Concerns(b, e) => Concerns(f, e)
      BY <1>1, <2>4 DEF Concerns, Deleting, BeforeLeaving, AfterLeaving
    <2>9. CursorOK(b, children[f.e]) /\ f.pc \in Left
      BY <1>1, <2>4 DEF CursorOK, Looping, Left
    <2> QED
      BY <1>1, <1>2, <2>3, <2>4, <2>5, <2>6, <2>7, <2>8, <2>9, OrderlyCall DEF Pushes
  <1> QED
    BY <1>3, <1>4 DEF ReaderDelete

LEMMA OrderlyFree ==
    ASSUME Whole, NEW t \in Threads, UNCHANGED app, Free(t)
    PROVE  Orderly'
  <1> DEFINE f == Top(t)  e == f.e
  <1>1. /\ ~Idle(t) /\ f.pc = "free" /\ TypeOK /\ UNCHANGED <<app, children>> /\ Shrinks
        /\ stage' = [stage EXCEPT ![e] = "freed"]
    BY DEF Free, At, Whole, IInv, Shrinks
  <1>2. /\ f \in Frame /\ e \in Entities /\ Last(t) \in Pos /\ call[Last(t)] = f /\ FrameOK(f, Implicit)
        /\ FrameTrue(f, stage, hdl, children) /\ HowOK(f) /\ Emptied /\ Linked
    BY <1>1, TopFrame DEF Whole, Orderly, HowsOK
  <1>3. stage'[e] = "freed" /\ stage[e] = "unlinked" /\ \A x \in Entities : x # e => stage'[x] = stage[x]
    BY <1>1, <1>2 DEF TypeOK, FrameTrue, Left
  <1>4. \A x \in Entities : stage'[x] \in {"unlinked", "freed"} => stage[x] \in {"unlinked", "freed"}
    BY <1>3
  <1>5. \A c \in Entities : Parent[c] # 0 /\ c \in children[Parent[c]] /\ stage'[c] # "live" => stage[c] # "live"
    BY <1>3
  <1>6. CASE f.arg = 0 /\ stack' = [stack EXCEPT ![t] = Tail(@)]
    <2>1. Pops(t) /\ Awakes(t, {})
      BY <1>1, <1>6, ReturnAwakes
    <2>2. f.how = "from_parent" => e \notin children[Parent[e]]
      <3> SUFFICES ASSUME f.how = "from_parent" PROVE e \notin children[Parent[e]]
        OBVIOUS
      <3>1. Down(Last(t)) \in Pos /\ call[Down(Last(t))].e = Parent[e]
        BY <1>2 DEF Linked
      <3>2. Parent[e] \in Entities /\ Parent[e] # 0
        BY <1>1, <3>1, CallType, Tree DEF Frame
      <3> QED
        BY <1>1, <1>2, <3>2 DEF Emptied, Left
    <2> QED
      BY <1>1, <1>4, <1>5, <2>1, <2>2, OrderlyPop
  <1>7. CASE f.arg # 0 /\ stack' = With(t, [Call(f.arg, "implicit") EXCEPT !.pc = "lock"])
    <2> DEFINE g == [Call(f.arg, "implicit") EXCEPT !.pc = "lock"]
    <2>1. g = [pc |-> "lock", e |-> f.arg, how |-> "implicit", arg |-> 0, pass |-> 1]
      BY DEF Call
    <2>2. f.arg \in Implicit /\ f.arg \in Entities
      BY <1>1, <1>2, <1>7, ImplicitKind DEF FrameOK, AfterLeaving
    <2>3. g \in Frame /\ g.pc = "lock" /\ g.e = f.arg /\ g.how = "implicit"
      BY <2>1, <2>2 DEF Frame, Deleting, BeforeLeaving
    <2> HIDE DEF g
    <2>4. Moves(t, g) /\ Awakes(t, {})
      BY <1>1, <1>7, <2>3, WithAwakes DEF g
    <2>5. HowOK(g) /\ CursorOK(g, children'[g.e]) /\ g.pc \notin Left
      BY <1>1, <2>2, <2>3 DEF HowOK, Creations, Making, OfParticipant, CursorOK, Looping, Left, Implicit
    <2>6. \A x \in Implicit : Concerns(g, x) => Concerns(f, x)
      BY <1>1, <2>3 DEF Concerns, AfterLeaving
    <2>7. f.pc \in AfterLeaving
      BY <1>1 DEF AfterLeaving
    <2> HIDE DEF f, e
    <2> QED
      BY <1>1, <1>4, <1>5, <1>7, <2>3, <2>4, <2>5, <2>6, <2>7, OrderlyMove DEF f
  <1> QED
    BY <1>6, <1>7 DEF Free, Return

LEMMA OrderlyBegin ==
    ASSUME Whole, FewLeave, NEW t \in Threads, Begin(t)
    PROVE  Orderly'
  <1>1. TypeOK /\ Linked /\ Idle(t) /\ UNCHANGED <<app, stage, children>>
    BY DEF Begin, UserDelete, UsePin, CreateReader, Whole, IInv, Orderly
  <1>2. PICK f \in Frame : /\ stack' = [stack EXCEPT ![t] = <<f>>]
                           /\ f.pc \in {"pin", "uselock"} /\ HowOK(f) /\ f.how # "from_parent"
    <2>1. CASE UserDelete(t)
      <3>1. PICK e \in app.deletable : stack' = [stack EXCEPT ![t] = <<Call(e, "user")>>]
        BY <2>1 DEF UserDelete
      <3>2. e \in Entities
        BY <1>1, LifecycleAssumption DEF TypeOK
      <3> DEFINE f == Call(e, "user")
      <3>3. f \in Frame /\ f.pc = "pin" /\ f.how = "user" /\ f.e = e
        BY <3>2, CallFits
      <3> HIDE DEF f
      <3>4. HowOK(f)
        BY <3>3 DEF HowOK, Creations, Making, OfParticipant
      <3> QED
        BY <3>1, <3>3, <3>4 DEF f
    <2>2. CASE UsePin(t)
      <3>1. PICK e \in app.usable : Enter(t, [Call(e, "use") EXCEPT !.pc = "uselock"])
        BY <2>2 DEF UsePin
      <3>2. e \in Entities
        BY <1>1, LifecycleAssumption DEF TypeOK
      <3> DEFINE f == [Call(e, "use") EXCEPT !.pc = "uselock"]
      <3>3. f = [pc |-> "uselock", e |-> e, how |-> "use", arg |-> 0, pass |-> 1]
        BY DEF Call
      <3>4. f \in Frame /\ f.pc = "uselock" /\ f.how = "use"
        BY <3>2, <3>3 DEF Frame, InCall
      <3> HIDE DEF f
      <3>5. HowOK(f)
        BY <3>4 DEF HowOK, Creations, Making, OfParticipant
      <3> QED
        BY <3>1, <3>4, <3>5 DEF Enter, f
    <2>3. ~CreateReader(t)
      BY DEF CreateReader, FewLeave
    <2> QED
      BY <2>1, <2>2, <2>3 DEF Begin
  <1>3. Begins(t, f)
    BY <1>1, <1>2, EnterBegins
  <1>4. Awakes(t, {}) /\ Only(t)
    BY <1>1, <1>2, <1>3, StackStays, OthersStay DEF Begins, Others, Only
  <1> QED
    BY <1>1, <1>2, <1>3, <1>4, OrderlyCall DEF Begins

LEMMA OrderlyUseUnpin ==
    ASSUME Whole, NEW t \in Threads, UNCHANGED app, UseUnpin(t)
    PROVE  Orderly'
  <1>1. ~Idle(t) /\ Top(t).pc = "unpin" /\ UNCHANGED <<app, stage, children>> /\ stack' = [stack EXCEPT ![t] = Tail(@)]
    BY DEF UseUnpin, At, Return
  <1>2. Top(t).how # "from_parent"
    BY <1>1, TopFrame DEF Whole, FrameOK
  <1>3. Pops(t) /\ Awakes(t, {})
    BY <1>1, ReturnAwakes
  <1> QED
    BY <1>1, <1>2, <1>3, OrderlyPop

LEMMA NoCreate ==
    ASSUME Whole, NEW t \in Threads, Create(t)
    PROVE  FALSE
  <1>1. ~Idle(t) /\ Top(t).pc \in Creations \cup {"pinsub"}
    BY DEF Create, CreateSubscriber, ParticipantUnpin, PinSubscriber, LockSubscriber, PinTopic, DeferSetQos,
       AddTopicRef, RegisterReader, UnpinTopic, UnlockSubscriber, UndoSubscriber, At, Creations, Making, OfParticipant
  <1> QED
    BY <1>1, TopFrame DEF Whole, Orderly, HowsOK, HowOK

LEMMA OrderlyInit ==
    ASSUME FewLeave, Init
    PROVE  Orderly
  <1>1. stack = [t \in Threads |-> <<>>] /\ \A e \in Entities : stage[e] = "live"
    BY DEF Init, FewLeave
  <1>2. Pos = {}
    BY <1>1 DEF Pos
  <1> QED
    BY <1>1, <1>2 DEF Orderly, HowsOK, Linked, CursorsOK, Waits, Emptied, OneConcern

LEMMA OrderlyNext ==
    ASSUME FewLeave, Whole, [Next]_vars
    PROVE  Orderly'
  <1>1. ASSUME NEW t \in Threads, Begin(t) PROVE Orderly'
    BY <1>1, OrderlyBegin
  <1>2. ASSUME NEW t \in Threads, Continue(t) PROVE Orderly'
    <2>1. UNCHANGED app /\ ~Create(t)
      BY <1>2, NoCreate DEF Continue
    <2>2. CASE Delete(t)
      BY <2>1, <2>2, OrderlyDeletePin, OrderlyOnward, OrderlyDeriverClose, OrderlyNextChild, OrderlyRecheck,
         OrderlyHandleDelete, OrderlyLeaveParent, OrderlyCloseParent, OrderlyReaderDelete, OrderlyFree DEF Delete
    <2>3. CASE UseLock(t) \/ UseUnlock(t) \/ UseUnpin(t)
      BY <2>1, <2>3, OrderlyOnward, OrderlyUseUnpin
    <2> QED
      BY <1>2, <2>1, <2>2, <2>3 DEF Continue
  <1>3. CASE UNCHANGED vars
    <2>1. UNCHANGED <<app, stage, children, stack>>
      BY <1>3 DEF vars
    <2>2. Pos' = Pos /\ Implicit' = Implicit
      BY <2>1 DEF Pos, Implicit
    <2>3. call' = call
      BY <2>1, <2>2 DEF call
    <2>4. Orderly
      BY DEF Whole
    <2>5. HowsOK' /\ Linked' /\ Emptied' /\ OneConcern'
      BY <2>1, <2>2, <2>3, <2>4 DEF Orderly, HowsOK, HowOK, Linked, Emptied, OneConcern
    <2>6. CursorsOK' /\ Waits'
      BY <2>1, <2>2, <2>3, <2>4 DEF Orderly, CursorsOK, CursorOK, Waits
    <2> QED
      BY <2>5, <2>6 DEF Orderly
  <1> QED
    BY <1>1, <1>2, <1>3 DEF Next

LEMMA AlwaysWhole == FewLeave => (Spec => []Whole)
  <1> SUFFICES ASSUME FewLeave PROVE Spec => []Whole
    OBVIOUS
  <1>1. Init => Whole
    BY InitI, NeededInit, SettledInit, OrderlyInit DEF Whole, FewLeave
  <1>2. Whole /\ [Next]_vars => Whole'
    BY NextI, NeededNextState, SettledNext, OrderlyNext DEF Whole
  <1> QED
    BY <1>1, <1>2, PTL DEF Spec

\* dds_handle_delete's assertions: a handle leaves the table closed, pinned by
\* its deleter only, without references and without children.
THEOREM HandlesLeaveClean == FewLeave => (Spec => []DeletedClean)
  <1> SUFFICES ASSUME FewLeave PROVE Spec => []DeletedClean
    OBVIOUS
  <1>1. Whole => DeletedClean
    <2> SUFFICES ASSUME Whole, NEW f \in Frames, f.pc = "handle"
                 PROVE  /\ hdl[f.e].closing /\ hdl[f.e].pin = 1 /\ hdl[f.e].ref = 0
                        /\ children[f.e] = {}
      BY DEF DeletedClean
    <2> DEFINE e == f.e
    <2>1. TypeOK /\ RefsOK /\ Settled /\ CursorsOK /\ IInv
      BY DEF Whole, IInv, Orderly
    <2>2. PICK x \in Pos : f = call[x]
      BY <2>1, FramesAre
    <2>3. e \in Entities
      BY <2>1, <2>2, CallType DEF Frame
    <2>4. hdl[e].closing /\ hdl[e].pin = 1
      BY <2>1, HandleAlone DEF ClosedAndAlone
    <2>5. children[e] = {}
      BY <2>1, <2>2 DEF CursorsOK, CursorOK
    <2>6. CASE Kind[e] = "topic"
      BY <2>1, <2>3, <2>4, <2>5, <2>6 DEF Settled
    <2>7. CASE Kind[e] # "topic"
      <3>1. topicUsers[e] = {}
        <4>1. \A r \in Readers : TopicOf[r] # e
          BY <2>7, Tree
        <4> QED
          BY <2>3, <4>1 DEF topicUsers, users
      <3>2. hdl[e].ref = 0 + 0 + 0
        BY <2>1, <2>3, <2>4, <2>5, <3>1, FS_EmptySet DEF RefsOK, Own
      <3> QED
        BY <2>4, <2>5, <3>2
    <2> QED
      BY <2>6, <2>7
  <1>2. Spec => []Whole
    BY AlwaysWhole
  <1> QED
    BY <1>1, <1>2, PTL

\* No call finds what it uses freed: not what it has pinned, not the parent of
\* what it deletes, not the topic of a reader before the reader's reference to
\* it is dropped (the read of its handle after that is no part of MemorySafe).
THEOREM NothingUsedIsFreed == FewLeave => (Spec => []MemorySafe)
  <1> SUFFICES ASSUME FewLeave PROVE Spec => []MemorySafe
    OBVIOUS
  <1>1. Whole => MemorySafe
    <2> SUFFICES ASSUME Whole, NEW f \in Frames, NEW e \in Touches(f) PROVE stage[e] # "freed"
      BY DEF MemorySafe
    <2>1. TypeOK /\ FramesOK /\ TreeOK /\ Settled /\ Emptied /\ IInv
      BY DEF Whole, IInv, Orderly
    <2>2. PICK x \in Pos : f = call[x]
      BY <2>1, FramesAre
    <2>3. f \in Frame /\ f.e \in Entities /\ FrameOK(f, Implicit) /\ FrameTrue(f, stage, hdl, children)
      BY <2>1, <2>2, CallType DEF Frame, FramesOK
    <2>4. CASE e \in Pinned(f)
      BY <2>3, <2>4 DEF FrameTrue
    <2>5. CASE f.pc \in BeforeLeaving /\ e = Parent[f.e] /\ e # 0
      <3>1. e \in Entities
        BY <2>3, <2>5, Tree
      <3>2. CASE f.pc = "closeparent"
        BY <2>3, <2>5, <3>2 DEF FrameTrue
      <3>3. CASE f.pc # "closeparent"
        <4>1. f.pc = "parent" \/ f.pc \in Deleting \ (Left \cup {"parent"})
          BY <2>5, <3>3 DEF BeforeLeaving, Deleting, Left
        <4>2. f.e \in children[e]
          BY <2>1, <2>3, <2>5, <4>1 DEF FrameTrue, TreeOK
        <4> QED
          BY <2>1, <3>1, <4>2 DEF Emptied
      <3> QED
        BY <3>2, <3>3
    <2>6. CASE f.pc = "deriver" /\ f.e \in Readers /\ e = TopicOf[f.e]
      BY <2>1, <2>2, <2>6, LeaverUses, TopicsOutlive DEF TopicsOutliveReaders, Live
    <2>7. \/ e \in Pinned(f)
          \/ f.pc \in BeforeLeaving /\ e = Parent[f.e] /\ e # 0
          \/ f.pc = "deriver" /\ f.e \in Readers /\ e = TopicOf[f.e]
      <3>1. CASE f.pc \in BeforeLeaving
        <4>1. e \in {f.e, Parent[f.e]} \ {0}
          BY <3>1 DEF Touches, BeforeLeaving, AfterLeaving, WithTopic, InCall
        <4>2. f.e \in Pinned(f)
          BY <2>1, <2>3, <3>1, PinnedType, ImplicitType DEF Deleting
        <4> QED
          BY <3>1, <4>1, <4>2
      <3>2. CASE f.pc \in AfterLeaving
        <4>1. e \in {f.e, f.arg, IF f.pc = "deriver" /\ f.e \in Readers THEN TopicOf[f.e] ELSE 0} \ {0}
          BY <3>2 DEF Touches, BeforeLeaving, AfterLeaving, WithTopic, InCall
        <4>2. Pinned(f) = {f.e, f.arg} \ {0}
          BY <3>2, PinnedIs
        <4> QED
          BY <4>1, <4>2
      <3>3. CASE f.pc \in InCall
        <4>1. Pinned(f) = Touches(f)
          BY <3>3, PinnedIs DEF Touches, BeforeLeaving, AfterLeaving, WithTopic, InCall
        <4> QED
          BY <4>1
      <3>4. CASE f.pc \in {"pin", "pinsub"}
        BY <3>4 DEF Touches, BeforeLeaving, AfterLeaving, WithTopic, InCall
      <3> QED
        BY <2>3, <3>1, <3>2, <3>3, <3>4 DEF Frame, Deleting
    <2> QED
      BY <2>4, <2>5, <2>6, <2>7
  <1>2. Spec => []Whole
    BY AlwaysWhole
  <1> QED
    BY <1>1, <1>2, PTL

\* dds_delete "will also automatically delete all its children, childrens'
\* children, etc": when an entity is freed, no handle below it is left.
THEOREM DeletionIsDeep == FewLeave => (Spec => []DeletedDeep)
  <1> SUFFICES ASSUME FewLeave PROVE Spec => []DeletedDeep
    OBVIOUS
  <1>1. Whole => DeletedDeep
    <2> SUFFICES ASSUME Whole, NEW e \in Entities, stage[e] = "freed", NEW c \in Below(e), Live(c) PROVE FALSE
      BY DEF DeletedDeep
    <2>1. TypeOK /\ TreeOK /\ Settled /\ Emptied
      BY DEF Whole, IInv, Orderly
    <2>2. c \in Entities /\ (Parent[c] = e \/ (Parent[c] # 0 /\ Parent[Parent[c]] = e))
      BY DEF Below
    <2>3. Parent[c] # 0 /\ Parent[c] \in Entities /\ e # 0
      BY <2>2, LifecycleAssumption
    <2>4. c \in children[Parent[c]]
      BY <2>1, <2>2, <2>3 DEF TreeOK, Live
    <2>5. children[e] = {} /\ stage[Parent[c]] \notin {"unlinked", "freed"}
      BY <2>1, <2>3, <2>4 DEF Emptied
    <2>6. stage[Parent[c]] = "live"
      BY <2>1, <2>3, <2>5 DEF Settled, TypeOK
    <2>7. Parent[Parent[c]] = e
      BY <2>2, <2>4, <2>5
    <2>8. Parent[c] \in children[e]
      BY <2>1, <2>3, <2>6, <2>7 DEF TreeOK
    <2> QED
      BY <2>5, <2>8
  <1>2. Spec => []Whole
    BY AlwaysWhole
  <1> QED
    BY <1>1, <1>2, PTL

\* "Only one thread may call close_wait on a given handle", that of an implicit
\* subscriber as well: its last child closes it after nobody can call dds_delete
\* for it.
THEOREM OneCallDeletes == FewLeave => (Spec => []OneDeleter)
  <1> SUFFICES ASSUME FewLeave PROVE Spec => []OneDeleter
    OBVIOUS
  <1>1. Whole => OneDeleter
    <2> SUFFICES ASSUME Whole, NEW t \in Threads, NEW u \in Threads,
                        NEW i \in DOMAIN stack[t], NEW j \in DOMAIN stack[u],
                        stack[t][i].e = stack[u][j].e,
                        stack[t][i].pc \in Deleting, stack[u][j].pc \in Deleting
                 PROVE  t = u /\ i = j
      BY DEF OneDeleter
    <2>1. TypeOK /\ Single /\ OneConcern
      BY DEF Whole, IInv, Orderly
    <2>2. PICK x, y \in Pos : call[x] = stack[t][i] /\ call[y] = stack[u][j] /\ (x = y => t = u /\ i = j)
      BY <2>1, SamePlace
    <2>3. CASE call[x].e \in Implicit
      <3>1. Concerns(call[x], call[x].e) /\ Concerns(call[y], call[x].e)
        BY <2>2 DEF Concerns
      <3> QED
        BY <2>1, <2>2, <2>3, <3>1 DEF OneConcern
    <2>4. CASE call[x].e \notin Implicit
      BY <2>1, <2>2, <2>4 DEF Single
    <2> QED
      BY <2>3, <2>4
  <1>2. Spec => []Whole
    BY AlwaysWhole
  <1> QED
    BY <1>1, <1>2, PTL

=============================================================================
