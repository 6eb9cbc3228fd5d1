---------------------- MODULE GarbageCollectionProofs ----------------------
(***************************************************************************)
(* The garbage collector's promises for any number of threads and          *)
(* entities, any width of the virtual time and any number of operations:   *)
(* an entity is never freed under a thread that has a pointer to it, it is *)
(* handed over once, and the shutdown, which deletes what there is, ends   *)
(* with nothing left.                                                      *)
(*                                                                         *)
(* The argument: the dds_writer's pins keep every application thread that  *)
(* writes, asleep or awake, away from a writer that is being deleted       *)
(* (Stages).  Whoever else has a pointer got it from the index before the  *)
(* entity left it, has been awake and at the same virtual time since, and  *)
(* is therefore still to be looked at or among those the request waits for *)
(* (Covered).  A time is not later than itself, whatever W is, so that the *)
(* collector never strikes such a thread off.                              *)
(*                                                                         *)
(* For the shutdown: a request that has been begun is in one place         *)
(* (OneRequest) and nowhere lost (Underway), wherever it is it is counted  *)
(* (AllCounted), and who makes one at that time is either the thread that  *)
(* waits for the count (Phases) or the collector for the participant that  *)
(* is waited for before (Referenced).                                      *)
(***************************************************************************)
EXTENDS GarbageCollection, TLAPS

\* The deleting thread before the writer changes its state, and after.
Early == {"interrupt", "closewait", "close"}
Late == {"linger", "closed", "waitgone", "expired", "gather"}

Live(w) == wr[w].state \in {"OPERATIONAL", "INTERRUPT"}

\* How far the deletion of a writer is, as seen by the threads about it.
Stages ==
    /\ \A w \in Writers :
          /\ life[w] = "indexed" <=> wr[w].state # "DELETING"
          /\ Live(w) => ~wr[w].timer /\ Free(w, Late)
          /\ ~Live(w) => (wr[w].closing \/ main # "running") /\ Free(w, HasPin)
    /\ \A t \in Threads, w \in Writers : thr[t].w = w =>
          /\ thr[t].at \in Early => Live(w) /\ wr[w].closing
          /\ thr[t].at = "close" => Free(w, HasPin)
    /\ \A t, u \in Threads :
          thr[t].w = thr[u].w /\ thr[t].at \in Early /\ thr[u].at \in Early => t = u
    /\ \A t \in Threads :
          thr[t].at \in (HasPin \cup Early \cup Late \cup {"found"}) \ {"gather"} =>
          thr[t].w \in Writers

\* Where a thread is protected by its virtual time, and where it is awake.
ByTime == {"found", "expired", "gather", "handled", "close", "linger", "closed"}
Awakened == ByTime \cup {"awake", "stopping", "callback", "builtins", "done"}

\* A request has still to look at the thread, or waits for it as it is now.
Counted(t, e) ==
    \/ t \in req[e].todo /\ (req[e].loaded = {} \/ NextSlot(req[e].todo) # t)
    \/ <<t, thr[t].vtime>> \in req[e].loaded
    \/ <<t, thr[t].vtime>> \in req[e].ivs

Covered ==
    /\ \A t \in Threads : thr[t].at \in Awakened => thr[t].awake /\ thr[t].gv = "here"
    /\ \A t \in Threads, e \in Entities :
          thr[t].w = e /\ thr[t].at \in ByTime /\ life[e] # "indexed" => Counted(t, e)
    /\ \A e \in Entities : \A p \in req[e].loaded :
          req[e].todo # {} /\ p[1] = NextSlot(req[e].todo)

\* One thread makes the request.
Gathering ==
    /\ \A t \in Threads : thr[t].at = "gather" =>
          thr[t].w \in Entities /\ life[thr[t].w] = "deleting"
    /\ \A t, u \in Threads :
          thr[t].w = thr[u].w /\ thr[t].at = "gather" /\ thr[u].at = "gather" => t = u

\* A request that has been handed over is complete.
Handed(e) == life[e] # "indexed" /\ req[e].todo = {} /\ Free(e, {"gather"})
Pending(e) == life[e] \in {"deleting", "bubble"}

\* It is in one place, until it has been carried out.
OneRequest ==
    \A e \in Entities :
        /\ \A i \in DOMAIN queue : queue[i] = e => Handed(e) /\ Pending(e) /\ e # cur
        /\ \A i \in DOMAIN dqueue : dqueue[i] = e => Handed(e) /\ Pending(e) /\ e # cur
        /\ \A i, j \in DOMAIN queue : queue[i] = e /\ queue[j] = e => i = j
        /\ \A i, j \in DOMAIN dqueue : dqueue[i] = e /\ dqueue[j] = e => i = j
        /\ \A i \in DOMAIN queue, j \in DOMAIN dqueue : queue[i] = e => dqueue[j] # e
        /\ cur = e => Handed(e)
        /\ CalledBack(e) => Handed(e) /\ req[e].ivs = {}
        /\ life[e] = "gone" /\ e # Local => cur = e

\* Nor is it lost on its way.
Underway ==
    \A e \in Entities : Pending(e) =>
        \/ \E t \in Threads : thr[t].w = e /\ thr[t].at = "gather"
        \/ \E i \in DOMAIN queue : queue[i] = e
        \/ \E i \in DOMAIN dqueue : dqueue[i] = e
        \/ cur = e

InHand == cur # None /\ thr[Gc].at = "idle"

\* Every request is counted, from gcreq_new to gcreq_free.
AllCounted ==
    count = Len(queue) + Len(dqueue) + (IF InHand THEN 1 ELSE 0)
            + (IF main = "freeing" THEN 1 ELSE 0)

\* The collector's thread, and what it has in hand.
Collecting ==
    /\ thr[Gc].at \in {"idle"} \cup GcPlaces
    /\ thr[Gc].at = "idle" => cur \in {None, NoOp} \/ Pending(cur)
    /\ thr[Gc].at # "idle" => cur \in Entities /\ CalledBack(cur)
    /\ thr[Gc].at = "gather" => thr[Gc].w \in Builtins
    /\ \A t \in Threads \ {Gc} : thr[t].at \notin {"callback", "builtins", "done"}

\* Who has been called back has given up the participant.
Referenced ==
    /\ \A e \in Ours \ refs : CalledBack(e)
    /\ \A e \in refs : CalledBack(e) => cur = e /\ thr[Gc].at = "callback"
    /\ thr[Gc].at = "callback" /\ cur \in Ours => cur \in refs
    /\ Freed(Local) <=> refs = {}
    /\ thr[Gc].at \in {"gather", "builtins"} => dying
    /\ ~dying => \A b \in Builtins : life[b] = "indexed"

\* The shutdown, and what is over in each of its phases.
Draining == {"draining", "drained", "freeing", "joining", "joined"}
Waited == Draining \cup {"waiting"}
Shutting == {"stopping", "gather", "stopped"}

Phases ==
    /\ main = "running" => \A t \in Threads : thr[t].at \notin {"stopping", "stopped"}
    /\ main = "running" => \A t \in Threads \ {Gc} : thr[t].at = "gather" => thr[t].w \in Writers
    /\ main # "running" => \A t \in Receivers \cup Timers : thr[t].at \in {"idle", "elsewhere"}
    /\ main # "running" => \A t \in Threads \ {Gc} : thr[t].at \in {"idle", "elsewhere"} \cup Shutting
    /\ main # "running" => \A t, u \in Threads \ {Gc} :
          thr[t].at \in Shutting /\ thr[u].at \in Shutting => t = u
    /\ main \in Waited => \A t \in Threads \ {Gc} : thr[t].at \notin {"stopping", "gather"}
    /\ main \in Waited \cup {"writers", "participants"} => \A e \in Proxies : life[e] # "indexed"
    /\ main \in Waited \cup {"participants"} => \A w \in Writers : life[w] # "indexed"
    /\ main \in Waited => life[Local] # "indexed"
    /\ main \in Draining => Freed(Local)
    /\ main \in Draining \ {"draining"} => \A e \in Entities : CalledBack(e)
    /\ main = "joined" => count = 0 /\ cur = None
    /\ terminate => main \in {"freeing", "joining", "joined"}

IInv ==
    /\ TypeOK /\ Stages /\ Covered /\ Gathering /\ OneRequest /\ Underway
    /\ AllCounted /\ Collecting /\ Referenced /\ Phases
----------------------------------------------------------------------------
\* No time is later than itself.
LEMMA NotLater == ASSUME NEW v \in Times PROVE ~vtime_gt(v, v)
<1>1. (v - v) % W = 0
  BY GCAssumption DEF Times
<1> QED BY <1>1 DEF vtime_gt

\* Virtual times stay within their width.
LEMMA NextTime == ASSUME NEW v \in Times PROVE (v + 1) % W \in Times
  BY GCAssumption DEF Times

\* Every place has its name, and every thread one of them.
LEMMA PlacesAre ==
  /\ {"idle", "awake", "found", "expired", "gather", "handled"} \subseteq Places
  /\ {"pinned", "writing", "throttled", "storing", "interrupt", "closewait", "close",
      "linger", "closed", "waitgone", "elsewhere", "stopping", "stopped"} \subseteq Places
  /\ {"callback", "builtins", "done"} \subseteq Places
  BY DEF Places, InternalPlaces, AppPlaces, GcPlaces, HasPin, HasMutex

\* What a move of one thread does to the others: nothing.
LEMMA MoveFacts ==
  ASSUME thr \in [Threads -> ThreadState], NEW t \in Threads,
         NEW at \in Places, NEW w \in Entities \cup {None}, NEW awake \in BOOLEAN,
         NEW vtime \in Times, NEW gv \in {"here", "elsewhere"},
         Becomes(t, at, w, awake, vtime, gv)
  PROVE  /\ thr' \in [Threads -> ThreadState]
         /\ thr'[t].at = at /\ thr'[t].w = w /\ thr'[t].awake = awake
         /\ thr'[t].vtime = vtime /\ thr'[t].gv = gv
         /\ \A u \in Threads : u # t => thr'[u] = thr[u]
  BY DEF Becomes, ThreadState

\* The same for the ways in which the code moves a thread.
LEMMA AwakeFacts ==
  ASSUME thr \in [Threads -> ThreadState], NEW t \in Threads,
         NEW at \in Places, NEW w \in Entities \cup {None},
         NEW gv \in {"here", "elsewhere"}, thread_state_awake(t, at, w, gv)
  PROVE  /\ thr' \in [Threads -> ThreadState]
         /\ thr'[t].at = at /\ thr'[t].w = w /\ thr'[t].awake
         /\ thr'[t].vtime = thr[t].vtime /\ thr'[t].gv = gv
         /\ \A u \in Threads : u # t => thr'[u] = thr[u]
<1>1. thr[t].vtime \in Times  BY DEF ThreadState
<1> QED BY <1>1 DEF thread_state_awake, Becomes, ThreadState

LEMMA AsleepFacts ==
  ASSUME thr \in [Threads -> ThreadState], NEW t \in Threads,
         NEW at \in Places, NEW w \in Entities \cup {None}, thread_state_asleep(t, at, w)
  PROVE  /\ thr' \in [Threads -> ThreadState]
         /\ thr'[t].at = at /\ thr'[t].w = w /\ ~thr'[t].awake
         /\ \A u \in Threads : u # t => thr'[u] = thr[u]
<1>1. thr[t].vtime \in Times /\ thr[t].gv \in {"here", "elsewhere"}  BY DEF ThreadState
<1>2. (thr[t].vtime + 1) % W \in Times  BY <1>1, NextTime
<1> QED BY <1>1, <1>2 DEF thread_state_asleep, Becomes, ThreadState

LEMMA AwakeToAwakeFacts ==
  ASSUME thr \in [Threads -> ThreadState], NEW t \in Threads,
         thread_state_awake_to_awake(t)
  PROVE  /\ thr' \in [Threads -> ThreadState]
         /\ thr'[t].at = "awake" /\ thr'[t].w = None
         /\ thr'[t].awake = thr[t].awake /\ thr'[t].gv = thr[t].gv
         /\ \A u \in Threads : u # t => thr'[u] = thr[u]
<1>1. /\ thr[t].awake \in BOOLEAN /\ thr[t].vtime \in Times
      /\ thr[t].gv \in {"here", "elsewhere"}
  BY DEF ThreadState
<1>2. (thr[t].vtime + 1) % W \in Times  BY <1>1, NextTime
<1>3. "awake" \in Places  BY PlacesAre
<1> QED BY <1>1, <1>2, <1>3 DEF thread_state_awake_to_awake, Becomes, ThreadState

LEMMA GotoFacts ==
  ASSUME thr \in [Threads -> ThreadState], NEW t \in Threads,
         NEW at \in Places, NEW w \in Entities \cup {None}, GotoWith(t, at, w)
  PROVE  /\ thr' \in [Threads -> ThreadState]
         /\ thr'[t].at = at /\ thr'[t].w = w /\ thr'[t].awake = thr[t].awake
         /\ thr'[t].vtime = thr[t].vtime /\ thr'[t].gv = thr[t].gv
         /\ \A u \in Threads : u # t => thr'[u] = thr[u]
<1>1. /\ thr[t].awake \in BOOLEAN /\ thr[t].vtime \in Times
      /\ thr[t].gv \in {"here", "elsewhere"}
  BY DEF ThreadState
<1> QED BY <1>1, MoveFacts DEF GotoWith

\* The kinds of entities are disjoint.
LEMMA Kinds ==
  /\ Writers \subseteq Entities /\ Builtins \subseteq Entities /\ Proxies \subseteq Entities
  /\ Ours \subseteq Entities /\ Local \in Ours
  /\ Local \notin Writers /\ Local \notin Builtins /\ Local \notin Proxies
  /\ Writers \cap Builtins = {} /\ Writers \cap Proxies = {} /\ Builtins \cap Proxies = {}
  /\ None \notin Entities /\ NoOp \notin Entities /\ None # NoOp
  /\ Gc \in Threads /\ Gc \notin Apps /\ Gc \notin Receivers \cup Timers
  /\ Entities = Ours \cup Proxies
  BY GCAssumption, EntityAssumption DEF Entities, Ours, Users, Threads

\* While a thread is about a writer the shutdown has not begun.
LEMMA StillRunning ==
  ASSUME Phases, NEW t \in Threads, t # Gc,
         thr[t].at \notin {"idle", "elsewhere"} \cup Shutting
  PROVE  main = "running"
  BY DEF Phases

\* A thread other than the collector's moves, a writer perhaps changes, and no
\* request begins.
LEMMA ThreadStep ==
  ASSUME IInv, NEW t \in Threads, t # Gc,
         thr' \in [Threads -> ThreadState], \A u \in Threads : u # t => thr'[u] = thr[u],
         wr' \in [Writers -> WriterState], UNCHANGED <<life, req, gcq>>,
         thr[t].at \notin Shutting,
         thr'[t].at \notin Shutting \cup {"callback", "builtins", "done"},
         main = "running" \/ thr'[t].at \in {"idle", "elsewhere"},
         thr'[t].at \in Awakened => thr'[t].awake /\ thr'[t].gv = "here",
         \A e \in Entities :
             thr'[t].w = e /\ thr'[t].at \in ByTime /\ life[e] # "indexed" =>
             thr[t].w = e /\ thr[t].at \in ByTime /\ thr'[t].vtime = thr[t].vtime
  PROVE  /\ TypeOK' /\ Covered' /\ Gathering' /\ OneRequest' /\ Underway'
         /\ AllCounted' /\ Collecting' /\ Referenced' /\ Phases'
<1> USE DEF IInv
<1>0. /\ refs' = refs /\ dying' = dying /\ queue' = queue /\ cur' = cur /\ count' = count
      /\ terminate' = terminate /\ dqueue' = dqueue /\ main' = main
      /\ life' = life /\ req' = req /\ thr'[Gc] = thr[Gc]
  BY Kinds DEF gcq
<1>1. TypeOK'  BY <1>0 DEF TypeOK
<1>2. Covered'
  <2>1. ASSUME NEW u \in Threads, NEW e \in Entities,
               thr'[u].w = e /\ thr'[u].at \in ByTime /\ life[e] # "indexed"
        PROVE  Counted(u, e)'
    <3>1. CASE u # t  BY <1>0, <2>1, <3>1 DEF Covered, Counted
    <3>2. CASE u = t  BY <1>0, <2>1, <3>2 DEF Covered, Counted
    <3> QED BY <3>1, <3>2
  <2>2. \A u \in Threads : thr'[u].at \in Awakened => thr'[u].awake /\ thr'[u].gv = "here"
    BY DEF Covered
  <2> QED BY <1>0, <2>1, <2>2 DEF Covered
<1>3. \A u \in Threads : /\ thr'[u].at = "gather" <=> thr[u].at = "gather"
                         /\ thr[u].at = "gather" => thr'[u] = thr[u]
  BY DEF Shutting
<1>4. Gathering'  BY <1>0, <1>3 DEF Gathering
<1>5. \A e \in Entities : Free(e, {"gather"}) => Free(e, {"gather"})'
  BY <1>3 DEF Free
<1>6. OneRequest'  BY <1>0, <1>5 DEF OneRequest, Handed, Pending, CalledBack
<1>7. Underway'  BY <1>0, <1>3 DEF Underway, Pending
<1>8. AllCounted' /\ Collecting' /\ Referenced'
  BY <1>0 DEF AllCounted, InHand, Collecting, Pending, CalledBack, Referenced, Freed
<1>9. Phases'
  <2>1. \A u \in Receivers \cup Timers : u \in Threads \ {Gc}
    BY Kinds DEF Threads
  <2>2. CASE main = "running"
    BY <1>0, <1>3, <2>2 DEF Phases, Shutting, Waited, Draining
  <2>3. CASE main # "running" /\ thr'[t].at \in {"idle", "elsewhere"}
    BY <1>0, <2>1, <2>3 DEF Phases, Shutting, Freed, CalledBack
  <2> QED BY <2>2, <2>3
<1> QED BY <1>1, <1>2, <1>4, <1>6, <1>7, <1>8, <1>9

\* The same, when the thread is about a writer before and no writer changes.
LEMMA MoveStep ==
  ASSUME IInv, NEW t \in Threads, t # Gc,
         thr' \in [Threads -> ThreadState], \A u \in Threads : u # t => thr'[u] = thr[u],
         UNCHANGED <<ents, gcq>>, thr[t].at \notin Shutting,
         thr'[t].at \notin Shutting \cup {"callback", "builtins", "done"},
         main = "running" \/ thr'[t].at \in {"idle", "elsewhere"},
         thr'[t].at \in Awakened => thr'[t].awake /\ thr'[t].gv = "here",
         \A e \in Entities :
             thr'[t].w = e /\ thr'[t].at \in ByTime /\ life[e] # "indexed" =>
             thr[t].w = e /\ thr[t].at \in ByTime /\ thr'[t].vtime = thr[t].vtime
  PROVE  /\ TypeOK' /\ Covered' /\ Gathering' /\ OneRequest' /\ Underway'
         /\ AllCounted' /\ Collecting' /\ Referenced' /\ Phases'
<1>1. wr' \in [Writers -> WriterState] /\ UNCHANGED <<life, req, gcq>>
  BY DEF IInv, TypeOK, ents
<1> QED BY <1>1, ThreadStep

\* What setting a field of one writer leaves alone.
LEMMA UnackedFacts ==
  ASSUME wr \in [Writers -> WriterState], NEW w \in Writers,
         wr' = [wr EXCEPT ![w].unacked = TRUE] \/ wr' = [wr EXCEPT ![w].unacked = FALSE]
  PROVE  /\ wr' \in [Writers -> WriterState]
         /\ \A v \in Writers : /\ wr'[v].state = wr[v].state /\ wr'[v].timer = wr[v].timer
                               /\ wr'[v].closing = wr[v].closing
<1>1. wr'[w] = [wr[w] EXCEPT !.unacked = TRUE] \/ wr'[w] = [wr[w] EXCEPT !.unacked = FALSE]
  OBVIOUS
<1>2. \A v \in Writers : v # w => wr'[v] = wr[v]
  OBVIOUS
<1>3. wr[w] \in WriterState /\ wr'[w] \in WriterState
  BY <1>1 DEF WriterState
<1>4. wr' \in [Writers -> WriterState]
  BY <1>2, <1>3
<1>5. /\ wr'[w].state = wr[w].state /\ wr'[w].timer = wr[w].timer
      /\ wr'[w].closing = wr[w].closing
  BY <1>1, <1>3 DEF WriterState
<1> QED BY <1>2, <1>4, <1>5

LEMMA TimerFacts ==
  ASSUME wr \in [Writers -> WriterState], NEW w \in Writers,
         wr' = [wr EXCEPT ![w].timer = TRUE] \/ wr' = [wr EXCEPT ![w].timer = FALSE]
  PROVE  /\ wr' \in [Writers -> WriterState]
         /\ \A v \in Writers : /\ wr'[v].state = wr[v].state
                               /\ wr'[v].closing = wr[v].closing
                               /\ v # w => wr'[v].timer = wr[v].timer
<1>1. wr'[w] = [wr[w] EXCEPT !.timer = TRUE] \/ wr'[w] = [wr[w] EXCEPT !.timer = FALSE]
  OBVIOUS
<1>2. \A v \in Writers : v # w => wr'[v] = wr[v]
  OBVIOUS
<1>3. wr[w] \in WriterState /\ wr'[w] \in WriterState
  BY <1>1 DEF WriterState
<1>4. wr' \in [Writers -> WriterState]
  BY <1>2, <1>3
<1>5. wr'[w].state = wr[w].state /\ wr'[w].closing = wr[w].closing
  BY <1>1, <1>3 DEF WriterState
<1> QED BY <1>2, <1>4, <1>5

LEMMA ClosingFacts ==
  ASSUME wr \in [Writers -> WriterState], NEW w \in Writers,
         wr' = [wr EXCEPT ![w].closing = TRUE]
  PROVE  /\ wr' \in [Writers -> WriterState]
         /\ \A v \in Writers : /\ wr'[v].state = wr[v].state /\ wr'[v].timer = wr[v].timer
                               /\ v # w => wr'[v].closing = wr[v].closing
         /\ wr'[w].closing
<1>1. wr'[w] = [wr[w] EXCEPT !.closing = TRUE]
  OBVIOUS
<1>2. \A v \in Writers : v # w => wr'[v] = wr[v]
  OBVIOUS
<1>3. wr[w] \in WriterState /\ wr'[w] \in WriterState
  BY <1>1 DEF WriterState
<1>4. wr' \in [Writers -> WriterState]
  BY <1>2, <1>3
<1>5. wr'[w].state = wr[w].state /\ wr'[w].timer = wr[w].timer /\ wr'[w].closing
  BY <1>1, <1>3 DEF WriterState
<1> QED BY <1>2, <1>4, <1>5

LEMMA StateFacts ==
  ASSUME wr \in [Writers -> WriterState], NEW w \in Writers,
         NEW s \in {"INTERRUPT", "LINGERING", "DELETING"},
         wr' = [wr EXCEPT ![w].state = s]
  PROVE  /\ wr' \in [Writers -> WriterState]
         /\ \A v \in Writers : /\ wr'[v].timer = wr[v].timer
                               /\ wr'[v].closing = wr[v].closing
                               /\ v # w => wr'[v].state = wr[v].state
         /\ wr'[w].state = s
<1>1. wr'[w] = [wr[w] EXCEPT !.state = s]
  OBVIOUS
<1>2. \A v \in Writers : v # w => wr'[v] = wr[v]
  OBVIOUS
<1>3. wr[w] \in WriterState /\ wr'[w] \in WriterState
  BY <1>1 DEF WriterState
<1>4. wr' \in [Writers -> WriterState]
  BY <1>2, <1>3
<1>5. wr'[w].timer = wr[w].timer /\ wr'[w].closing = wr[w].closing /\ wr'[w].state = s
  BY <1>1, <1>3 DEF WriterState
<1> QED BY <1>2, <1>4, <1>5

\* A thread that is about a writer is not the collector's, and the domain is
\* not being shut down.
LEMMA User ==
  ASSUME IInv, NEW t \in Threads,
         thr[t].at \in HasPin \cup Early \cup (Late \ {"gather"}) \cup
                       {"awake", "found", "handled"}
  PROVE  t # Gc /\ main = "running" /\ thr[t].at \notin Shutting
<1>1. t # Gc
  BY DEF IInv, Collecting, GcPlaces, HasPin, HasMutex, Early, Late
<1>2. thr[t].at \notin {"idle", "elsewhere"} \cup Shutting
  BY DEF HasPin, HasMutex, Early, Late, Shutting
<1> QED BY <1>1, <1>2, StillRunning DEF IInv

\* A writer that is written stays as it is for the others.
LEMMA PinnedMove ==
  ASSUME Stages, NEW t \in Threads, \A u \in Threads : u # t => thr'[u] = thr[u],
         thr[t].at \in HasPin, thr'[t].at \in HasPin, thr'[t].w = thr[t].w,
         UNCHANGED <<wr, life, main>>
  PROVE  Stages'
<1>1. \A w \in Writers : /\ Free(w, HasPin) => Free(w, HasPin)'
                         /\ Free(w, Late) => Free(w, Late)'
  BY DEF Free, Late, HasPin, HasMutex
<1>2. thr'[t].at \notin Early /\ thr'[t].at # "gather" /\ thr'[t].at # "close"
  BY DEF Early, HasPin, HasMutex
<1>3. thr'[t].w \in Writers
  BY DEF Stages, HasPin, HasMutex
<1> QED BY <1>1, <1>2, <1>3 DEF Stages, Live

\* A thread leaves for a place that plays no part in a deletion.
Neutral == {"idle", "awake", "handled", "elsewhere", "stopping", "stopped",
            "callback", "builtins", "done"}

LEMMA NeutralMove ==
  ASSUME Stages, NEW t \in Threads, \A u \in Threads : u # t => thr'[u] = thr[u],
         thr'[t].at \in Neutral, UNCHANGED <<wr, life, main>>
  PROVE  Stages'
<1>1. \A w \in Writers : /\ Free(w, HasPin) => Free(w, HasPin)'
                         /\ Free(w, Late) => Free(w, Late)'
  BY DEF Free, Late, HasPin, HasMutex, Neutral
<1>2. thr'[t].at \notin HasPin \cup Early \cup Late \cup {"found"}
  BY DEF Neutral, HasPin, HasMutex, Early, Late
<1>3. \A u \in Threads : thr'[u].at \in HasPin \cup Early \cup Late \cup {"found"} =>
         u # t /\ thr'[u] = thr[u]
  BY <1>2
<1>4. \A u \in Threads : thr'[u].at = "close" => thr'[u].at \in Early
  BY DEF Early
<1> QED BY <1>1, <1>3, <1>4 DEF Stages, Live

----------------------------------------------------------------------------
(* The actions that only move a thread.                                     *)

LEMMA AwakeStep == ASSUME IInv, NEW t \in Threads, main = "running", Awake(t) PROVE IInv'
<1>1. None \in Entities \cup {None} /\ "awake" \in Places /\ t # Gc
  BY PlacesAre, Kinds DEF Awake
<1>2. /\ thr' \in [Threads -> ThreadState] /\ \A u \in Threads : u # t => thr'[u] = thr[u]
      /\ thr'[t].at = "awake" /\ thr'[t].w = None
      /\ thr'[t].awake /\ thr'[t].vtime = thr[t].vtime /\ thr'[t].gv = "here"
  BY <1>1, AwakeFacts DEF Awake, IInv, TypeOK
<1>3. thr[t].at = "idle" /\ UNCHANGED <<ents, gcq>>
  BY DEF Awake
<1>4. Stages'
  BY <1>2, <1>3, NeutralMove DEF IInv, ents, gcq, Neutral
<1> QED BY <1>1, <1>2, <1>3, <1>4, MoveStep DEF IInv, ByTime, Shutting

LEMMA LookupStep ==
  ASSUME IInv, NEW t \in Threads, NEW w \in Writers, main = "running", Lookup(t, w) PROVE IInv'
<1>1. w \in Entities \cup {None} /\ "found" \in Places /\ t # Gc
  BY PlacesAre, Kinds DEF Lookup
<1>2. /\ thr' \in [Threads -> ThreadState] /\ \A u \in Threads : u # t => thr'[u] = thr[u]
      /\ thr'[t].at = "found" /\ thr'[t].w = w
      /\ thr'[t].awake = thr[t].awake /\ thr'[t].vtime = thr[t].vtime /\ thr'[t].gv = thr[t].gv
  BY <1>1, GotoFacts DEF Lookup, IInv, TypeOK
<1>3. thr[t].at = "awake" /\ UNCHANGED <<ents, gcq>> /\ life[w] = "indexed"
  BY DEF Lookup, index
<1>4. thr[t].awake /\ thr[t].gv = "here"
  BY <1>3 DEF IInv, Covered, Awakened
<1>5. Stages'
  BY <1>2, <1>3 DEF IInv, Stages, ents, gcq, Live, Free, Early, Late, HasPin, HasMutex
<1> QED BY <1>1, <1>2, <1>3, <1>4, <1>5, MoveStep DEF IInv, Shutting

LEMMA WritePinStep ==
  ASSUME IInv, NEW t \in Threads, NEW w \in Writers, main = "running", WritePin(t, w) PROVE IInv'
<1>1. w \in Entities \cup {None} /\ "pinned" \in Places /\ t # Gc
  BY PlacesAre, Kinds DEF WritePin
<1>2. /\ thr' \in [Threads -> ThreadState] /\ \A u \in Threads : u # t => thr'[u] = thr[u]
      /\ thr'[t].at = "pinned" /\ thr'[t].w = w
  BY <1>1, GotoFacts DEF WritePin, IInv, TypeOK
<1>3. thr[t].at = "idle" /\ UNCHANGED <<ents, gcq>> /\ ~wr[w].closing
  BY DEF WritePin
<1>4. Stages'
  BY <1>2, <1>3 DEF IInv, Stages, ents, gcq, Live, Free, Early, Late, HasPin, HasMutex
<1> QED BY <1>1, <1>2, <1>3, <1>4, MoveStep DEF IInv, ByTime, Awakened, Shutting

LEMMA WriteLockStep == ASSUME IInv, NEW t \in Threads, WriteLock(t) PROVE IInv'
<1>1. thr[t].at = "pinned" /\ UNCHANGED <<ents, gcq>>
  BY DEF WriteLock
<1>2. t # Gc /\ main = "running" /\ "writing" \in Places /\ thr[t].w \in Entities \cup {None}
  BY <1>1, User, PlacesAre DEF HasPin, IInv, TypeOK, ThreadState
<1>3. /\ thr' \in [Threads -> ThreadState] /\ \A u \in Threads : u # t => thr'[u] = thr[u]
      /\ thr'[t].at = "writing" /\ thr'[t].w = thr[t].w
  BY <1>2, AwakeFacts DEF WriteLock, IInv, TypeOK
<1>4. Stages'
  BY <1>1, <1>3, PinnedMove DEF IInv, ents, gcq, HasPin, HasMutex
<1> QED BY <1>1, <1>2, <1>3, <1>4, MoveStep DEF IInv, ByTime, Awakened, Shutting

LEMMA ThrottleStep == ASSUME IInv, NEW t \in Threads, Throttle(t) PROVE IInv'
<1>1. thr[t].at = "writing" /\ UNCHANGED <<ents, gcq>>
  BY DEF Throttle
<1>2. t # Gc /\ main = "running" /\ "throttled" \in Places /\ thr[t].w \in Entities \cup {None}
  BY <1>1, User, PlacesAre DEF HasPin, HasMutex, IInv, TypeOK, ThreadState
<1>3. /\ thr' \in [Threads -> ThreadState] /\ \A u \in Threads : u # t => thr'[u] = thr[u]
      /\ thr'[t].at = "throttled" /\ thr'[t].w = thr[t].w
  BY <1>2, AsleepFacts DEF Throttle, IInv, TypeOK
<1>4. Stages'
  BY <1>1, <1>3, PinnedMove DEF IInv, ents, gcq, HasPin, HasMutex
<1> QED BY <1>1, <1>2, <1>3, <1>4, MoveStep DEF IInv, ByTime, Awakened, Shutting

LEMMA UnthrottleStep == ASSUME IInv, NEW t \in Threads, Unthrottle(t) PROVE IInv'
<1>1. thr[t].at = "throttled" /\ UNCHANGED <<ents, gcq>>
  BY DEF Unthrottle
<1>2. t # Gc /\ main = "running" /\ "storing" \in Places /\ thr[t].w \in Entities \cup {None}
  BY <1>1, User, PlacesAre DEF HasPin, HasMutex, IInv, TypeOK, ThreadState
<1>3. /\ thr' \in [Threads -> ThreadState] /\ \A u \in Threads : u # t => thr'[u] = thr[u]
      /\ thr'[t].at = "storing" /\ thr'[t].w = thr[t].w
  BY <1>2, AwakeFacts DEF Unthrottle, IInv, TypeOK
<1>4. Stages'
  BY <1>1, <1>3, PinnedMove DEF IInv, ents, gcq, HasPin, HasMutex
<1> QED BY <1>1, <1>2, <1>3, <1>4, MoveStep DEF IInv, ByTime, Awakened, Shutting

LEMMA CloseStep == ASSUME IInv, NEW t \in Threads, Close(t) PROVE IInv'
<1>1. thr[t].at = "closewait" /\ UNCHANGED <<ents, gcq>> /\ Free(thr[t].w, HasPin)
  BY DEF Close, CloseWait
<1>2. t # Gc /\ main = "running" /\ "close" \in Places /\ thr[t].w \in Entities \cup {None}
  BY <1>1, User, PlacesAre DEF Early, IInv, TypeOK, ThreadState
<1>3. /\ thr' \in [Threads -> ThreadState] /\ \A u \in Threads : u # t => thr'[u] = thr[u]
      /\ thr'[t].at = "close" /\ thr'[t].w = thr[t].w /\ thr'[t].awake /\ thr'[t].gv = "here"
  BY <1>2, AwakeFacts DEF Close, IInv, TypeOK
<1>4. thr[t].w \in Writers /\ Live(thr[t].w) /\ life[thr[t].w] = "indexed"
  BY <1>1 DEF IInv, Stages, Early, Live
<1>5. Stages'
  BY <1>1, <1>3 DEF IInv, Stages, ents, gcq, Live, Free, Early, Late, HasPin, HasMutex
<1>6. \A e \in Entities : thr'[t].w = e => life[e] = "indexed"
  BY <1>3, <1>4
<1> QED BY <1>1, <1>2, <1>3, <1>5, <1>6, MoveStep DEF IInv, Shutting

LEMMA ClosedStep == ASSUME IInv, NEW t \in Threads, Closed(t) PROVE IInv'
<1>1. thr[t].at = "closed" /\ UNCHANGED <<ents, gcq>>
  BY DEF Closed
<1>2. t # Gc /\ main = "running" /\ "waitgone" \in Places /\ thr[t].w \in Entities \cup {None}
  BY <1>1, User, PlacesAre DEF Late, IInv, TypeOK, ThreadState
<1>3. /\ thr' \in [Threads -> ThreadState] /\ \A u \in Threads : u # t => thr'[u] = thr[u]
      /\ thr'[t].at = "waitgone" /\ thr'[t].w = thr[t].w
  BY <1>2, AsleepFacts DEF Closed, IInv, TypeOK
<1>4. Stages'
  BY <1>1, <1>3 DEF IInv, Stages, ents, gcq, Live, Free, Early, Late, HasPin, HasMutex
<1> QED BY <1>1, <1>2, <1>3, <1>4, MoveStep DEF IInv, ByTime, Awakened, Shutting

LEMMA GoneStep == ASSUME IInv, NEW t \in Threads, Gone(t) PROVE IInv'
<1>1. thr[t].at = "waitgone" /\ UNCHANGED <<ents, gcq>>
  BY DEF Gone
<1>2. t # Gc /\ main = "running" /\ "idle" \in Places
  BY <1>1, User, PlacesAre DEF Late
<1>3. /\ thr' \in [Threads -> ThreadState] /\ \A u \in Threads : u # t => thr'[u] = thr[u]
      /\ thr'[t].at = "idle" /\ thr'[t].w = None
  BY <1>2, GotoFacts DEF Gone, IInv, TypeOK
<1>4. Stages'
  BY <1>1, <1>3, NeutralMove DEF IInv, ents, gcq, Neutral
<1> QED BY <1>1, <1>2, <1>3, <1>4, MoveStep DEF IInv, ByTime, Awakened, Shutting

LEMMA MoveOnStep == ASSUME IInv, NEW t \in Threads, MoveOn(t) PROVE IInv'
<1>1. thr[t].at \in {"awake", "handled"} /\ UNCHANGED <<ents, gcq>>
  BY DEF MoveOn
<1>2. t # Gc /\ main = "running" /\ "idle" \in Places /\ thr[t].awake /\ thr[t].gv = "here"
  BY <1>1, User, PlacesAre DEF IInv, Covered, Awakened, ByTime
<1>3. /\ thr' \in [Threads -> ThreadState] /\ \A u \in Threads : u # t => thr'[u] = thr[u]
      /\ \/ thr'[t].at = "idle"
         \/ thr'[t].at = "awake" /\ thr'[t].awake /\ thr'[t].gv = "here"
      /\ thr'[t].w = None
  <2>1. CASE thread_state_asleep(t, "idle", None)
    BY <1>2, <2>1, AsleepFacts DEF IInv, TypeOK
  <2>2. CASE thread_state_awake_to_awake(t)
    BY <1>2, <2>2, AwakeToAwakeFacts DEF IInv, TypeOK
  <2> QED BY <2>1, <2>2 DEF MoveOn
<1>4. Stages'
  BY <1>1, <1>3, NeutralMove DEF IInv, ents, gcq, Neutral
<1> QED BY <1>1, <1>2, <1>3, <1>4, MoveStep DEF IInv, ByTime, Awakened, Shutting

LEMMA ElsewhereStep == ASSUME IInv, NEW t \in Threads, Elsewhere(t) PROVE IInv'
<1>1. thr[t].at \in {"idle", "elsewhere"} /\ UNCHANGED <<ents, gcq>> /\ t # Gc
  BY Kinds DEF Elsewhere
<1>2. /\ thr' \in [Threads -> ThreadState] /\ \A u \in Threads : u # t => thr'[u] = thr[u]
      /\ thr'[t].at \in {"idle", "elsewhere"} /\ thr'[t].w = None
  <2>1. CASE thread_state_awake(t, "elsewhere", None, "elsewhere")
    BY <2>1, AwakeFacts, PlacesAre DEF IInv, TypeOK
  <2>2. CASE thread_state_asleep(t, "idle", None)
    BY <2>2, AsleepFacts, PlacesAre DEF IInv, TypeOK
  <2> QED BY <2>1, <2>2 DEF Elsewhere
<1>3. Stages'
  BY <1>1, <1>2, NeutralMove DEF IInv, ents, gcq, Neutral
<1> QED BY <1>1, <1>2, <1>3, MoveStep DEF IInv, ByTime, Awakened, Shutting

----------------------------------------------------------------------------
(* The actions that change a writer.                                        *)

LEMMA WriteStep == ASSUME IInv, NEW t \in Threads, Write(t) PROVE IInv'
<1>1. thr[t].at \in {"writing", "storing"} /\ UNCHANGED <<life, req, gcq>>
  BY DEF Write
<1>2. t # Gc /\ main = "running" /\ thr[t].at \notin Shutting /\ thr[t].w \in Writers
  BY <1>1, User DEF HasPin, HasMutex, IInv, Stages
<1>3. /\ thr' \in [Threads -> ThreadState] /\ \A u \in Threads : u # t => thr'[u] = thr[u]
      /\ thr'[t].at = "idle" /\ thr'[t].w = None
  BY AsleepFacts, PlacesAre DEF Write, IInv, TypeOK
<1>4. /\ wr' \in [Writers -> WriterState]
      /\ \A v \in Writers : /\ wr'[v].state = wr[v].state /\ wr'[v].timer = wr[v].timer
                            /\ wr'[v].closing = wr[v].closing
  <2>1. CASE UNCHANGED wr  BY <2>1 DEF IInv, TypeOK
  <2>2. CASE wr' = [wr EXCEPT ![thr[t].w].unacked = TRUE]
    BY <1>2, <2>2, UnackedFacts DEF IInv, TypeOK
  <2> QED BY <2>1, <2>2 DEF Write
<1>5. Stages'
  BY <1>1, <1>3, <1>4 DEF IInv, Stages, gcq, Live, Free, Early, Late, HasPin, HasMutex
<1> QED BY <1>1, <1>2, <1>3, <1>4, <1>5, ThreadStep DEF IInv, ByTime, Awakened, Shutting

LEMMA DeletePinStep ==
  ASSUME IInv, NEW t \in Threads, NEW w \in Writers, main = "running", DeletePin(t, w)
  PROVE  IInv'
<1>1. /\ thr[t].at = "idle" /\ UNCHANGED <<life, req, gcq>> /\ ~wr[w].closing
      /\ w \in Entities \cup {None} /\ t # Gc /\ "interrupt" \in Places
  BY Kinds, PlacesAre DEF DeletePin
<1>2. /\ thr' \in [Threads -> ThreadState] /\ \A u \in Threads : u # t => thr'[u] = thr[u]
      /\ thr'[t].at = "interrupt" /\ thr'[t].w = w
  BY <1>1, GotoFacts DEF DeletePin, IInv, TypeOK
<1>3. /\ wr' \in [Writers -> WriterState]
      /\ \A v \in Writers : /\ wr'[v].state = wr[v].state /\ wr'[v].timer = wr[v].timer
                            /\ v # w => wr'[v].closing = wr[v].closing
      /\ wr'[w].closing
  BY ClosingFacts DEF DeletePin, IInv, TypeOK
<1>4. Stages'
  BY <1>1, <1>2, <1>3 DEF IInv, Stages, gcq, Live, Free, Early, Late, HasPin, HasMutex
<1> QED BY <1>1, <1>2, <1>3, <1>4, ThreadStep DEF IInv, ByTime, Awakened, Shutting

LEMMA InterruptStep == ASSUME IInv, NEW t \in Threads, Interrupt(t) PROVE IInv'
<1>1. thr[t].at = "interrupt" /\ UNCHANGED <<life, req, gcq>> /\ Free(thr[t].w, HasMutex)
  BY DEF Interrupt
<1>2. /\ t # Gc /\ main = "running" /\ thr[t].at \notin Shutting
      /\ thr[t].w \in Writers /\ Live(thr[t].w)
  BY <1>1, User DEF Early, IInv, Stages
<1>3. /\ thr' \in [Threads -> ThreadState] /\ \A u \in Threads : u # t => thr'[u] = thr[u]
      /\ thr'[t].at = "closewait" /\ thr'[t].w = thr[t].w
  BY <1>2, AsleepFacts, PlacesAre, Kinds DEF Interrupt, IInv, TypeOK
<1>4. /\ wr' \in [Writers -> WriterState]
      /\ \A v \in Writers : /\ wr'[v].timer = wr[v].timer /\ wr'[v].closing = wr[v].closing
                            /\ v # thr[t].w => wr'[v].state = wr[v].state
      /\ wr'[thr[t].w].state = "INTERRUPT"
  BY <1>2, StateFacts DEF Interrupt, IInv, TypeOK
<1>5. Stages'
  BY <1>1, <1>2, <1>3, <1>4 DEF IInv, Stages, gcq, Live, Free, Early, Late, HasPin, HasMutex
<1> QED BY <1>1, <1>2, <1>3, <1>4, <1>5, ThreadStep DEF IInv, ByTime, Awakened, Shutting

LEMMA ScheduleDeleteStep == ASSUME IInv, NEW t \in Threads, ScheduleDelete(t) PROVE IInv'
<1>1. thr[t].at = "linger" /\ UNCHANGED <<life, req, gcq>>
  BY DEF ScheduleDelete
<1>2. /\ t # Gc /\ main = "running" /\ thr[t].at \notin Shutting
      /\ thr[t].w \in Writers /\ ~Live(thr[t].w)
  BY <1>1, User DEF Late, IInv, Stages, Free
<1>3. thr[t].awake /\ thr[t].gv = "here"
  BY <1>1 DEF IInv, Covered, Awakened, ByTime
<1>4. /\ thr' \in [Threads -> ThreadState] /\ \A u \in Threads : u # t => thr'[u] = thr[u]
      /\ thr'[t].at = "closed" /\ thr'[t].w = thr[t].w /\ thr'[t].awake = thr[t].awake
      /\ thr'[t].vtime = thr[t].vtime /\ thr'[t].gv = thr[t].gv
  BY <1>2, GotoFacts, PlacesAre, Kinds DEF ScheduleDelete, Goto, IInv, TypeOK
<1>5. /\ wr' \in [Writers -> WriterState]
      /\ \A v \in Writers : /\ wr'[v].state = wr[v].state /\ wr'[v].closing = wr[v].closing
                            /\ v # thr[t].w => wr'[v].timer = wr[v].timer
  BY <1>2, TimerFacts DEF ScheduleDelete, qxev_delete_writer, IInv, TypeOK
<1>6. Stages'
  BY <1>1, <1>2, <1>4, <1>5
     DEF IInv, Stages, gcq, Live, Free, Early, Late, HasPin, HasMutex
<1>7. thr[t].at \in ByTime /\ thr'[t].at \notin Shutting \cup {"callback", "builtins", "done"}
  BY <1>1, <1>4 DEF ByTime, Shutting
<1> QED BY <1>1, <1>2, <1>3, <1>4, <1>5, <1>6, <1>7, ThreadStep DEF IInv

LEMMA LingerStep ==
  ASSUME IInv, NEW t \in Threads, NEW w \in Writers, Linger(t, w) PROVE IInv'
<1> DEFINE at == IF w \in index THEN "expired" ELSE "handled"
           v == IF w \in index THEN w ELSE None
<1>1. /\ thr[t].at = "idle" /\ UNCHANGED <<life, req, gcq>> /\ main = "running" /\ t # Gc
      /\ wr[w].timer
  BY Kinds DEF Linger
<1>2. ~Live(w)
  BY <1>1 DEF IInv, Stages
<1>3. /\ thr' \in [Threads -> ThreadState] /\ \A u \in Threads : u # t => thr'[u] = thr[u]
      /\ thr'[t].at = at /\ thr'[t].w = v /\ thr'[t].awake /\ thr'[t].gv = "here"
  <2>1. at \in Places /\ v \in Entities \cup {None}
    BY PlacesAre, Kinds
  <2>2. thread_state_awake(t, at, v, "here")
    BY DEF Linger
  <2> HIDE DEF at, v
  <2> QED BY <2>1, <2>2, AwakeFacts DEF IInv, TypeOK
<1>4. /\ wr' \in [Writers -> WriterState]
      /\ \A x \in Writers : /\ wr'[x].state = wr[x].state /\ wr'[x].closing = wr[x].closing
                            /\ x # w => wr'[x].timer = wr[x].timer
  BY TimerFacts DEF Linger, IInv, TypeOK
<1>5. w \in index <=> life[w] = "indexed"
  BY Kinds DEF index
<1>6. Stages'
  BY <1>1, <1>2, <1>3, <1>4 DEF IInv, Stages, gcq, Live, Free, Early, Late, HasPin, HasMutex
<1>7. /\ thr'[t].at \notin Shutting \cup {"callback", "builtins", "done"}
      /\ thr[t].at \notin Shutting
      /\ \A e \in Entities : thr'[t].w = e => life[e] = "indexed"
  BY <1>1, <1>3, <1>5, Kinds DEF Shutting
<1> HIDE DEF at, v
<1> QED BY <1>1, <1>3, <1>4, <1>6, <1>7, ThreadStep DEF IInv

\* A request is begun by whoever is awake, for an entity in the index.
LEMMA RequestStep ==
  ASSUME IInv, NEW t \in Threads, NEW e \in Entities, gcreq_new(t, e), UNCHANGED gcq,
         life[e] = "indexed", wr' \in [Writers -> WriterState],
         thr[t].at \in Awakened, thr[t].at # "gather",
         \/ t # Gc /\ main = "running" /\ e \in Writers
         \/ t # Gc /\ thr[t].at = "stopping" /\ e \notin Builtins
         \/ t = Gc /\ thr[t].at = "builtins" /\ e \in Builtins
  PROVE  /\ thr' \in [Threads -> ThreadState] /\ \A u \in Threads : u # t => thr'[u] = thr[u]
         /\ thr'[t].at = "gather" /\ thr'[t].w = e
         /\ life' = [life EXCEPT ![e] = "deleting"] /\ life'[e] = "deleting"
         /\ \A x \in Entities : x # e => life'[x] = life[x]
         /\ TypeOK' /\ Covered' /\ Gathering' /\ OneRequest' /\ Underway'
         /\ AllCounted' /\ Collecting' /\ Referenced' /\ Phases'
<1> USE DEF IInv
<1>0. /\ refs' = refs /\ dying' = dying /\ queue' = queue /\ cur' = cur /\ count' = count
      /\ terminate' = terminate /\ dqueue' = dqueue /\ main' = main
  BY DEF gcq
<1>1. /\ thr' \in [Threads -> ThreadState] /\ \A u \in Threads : u # t => thr'[u] = thr[u]
      /\ thr'[t].at = "gather" /\ thr'[t].w = e /\ thr'[t].awake = thr[t].awake
      /\ thr'[t].vtime = thr[t].vtime /\ thr'[t].gv = thr[t].gv
  BY GotoFacts, PlacesAre DEF gcreq_new, TypeOK
<1>2. /\ life' = [life EXCEPT ![e] = "deleting"] /\ life'[e] = "deleting"
      /\ \A x \in Entities : x # e => life'[x] = life[x]
      /\ life' \in [Entities -> {"indexed", "deleting", "bubble", "gone", "freed"}]
  BY DEF gcreq_new, TypeOK
<1>3. /\ req' \in [Entities -> Request]
      /\ req'[e].todo = Threads /\ req'[e].loaded = {} /\ req'[e].ivs = {}
      /\ \A x \in Entities : x # e => req'[x] = req[x]
  BY DEF gcreq_new, TypeOK, Request
<1>4. \A u \in Threads : thr[u].at = "gather" => thr[u].w # e /\ u # t
  BY DEF Gathering
<1>5. ~CalledBack(e) /\ ~Pending(e) /\ cur # e /\ ~Handed(e)
  BY Kinds DEF CalledBack, Pending, Collecting, Handed
<1>6. TypeOK'  BY <1>0, <1>1, <1>2, <1>3 DEF TypeOK
<1>7. Covered'
  <2>1. ASSUME NEW u \in Threads, NEW x \in Entities,
               thr'[u].w = x /\ thr'[u].at \in ByTime /\ life'[x] # "indexed"
        PROVE  Counted(u, x)'
    <3>1. CASE x = e  BY <1>3, <3>1 DEF Counted
    <3>2. CASE x # e
      <4>1. thr'[u] = thr[u] /\ life'[x] = life[x] /\ req'[x] = req[x]
        BY <1>1, <1>2, <1>3, <2>1, <3>2
      <4>2. Counted(u, x)  BY <2>1, <4>1 DEF Covered
      <4> QED BY <4>1, <4>2 DEF Counted
    <3> QED BY <3>1, <3>2
  <2>2. \A u \in Threads : thr'[u].at \in Awakened => thr'[u].awake /\ thr'[u].gv = "here"
    BY <1>1 DEF Covered
  <2>3. \A x \in Entities : \A q \in req'[x].loaded :
           req'[x].todo # {} /\ q[1] = NextSlot(req'[x].todo)
    BY <1>3 DEF Covered
  <2> QED BY <2>1, <2>2, <2>3 DEF Covered
<1>8. Gathering'  BY <1>1, <1>2, <1>4 DEF Gathering
<1>9. \A x \in Entities : x # e =>
         /\ Handed(x) => Handed(x)'
         /\ Pending(x)' <=> Pending(x)
         /\ CalledBack(x)' <=> CalledBack(x)
  BY <1>1, <1>2, <1>3 DEF Handed, Free, Pending, CalledBack
<1>10. OneRequest'
  <2>1. ASSUME NEW x \in Entities, x # e
        PROVE  /\ \A i \in DOMAIN queue' : queue'[i] = x => Handed(x)' /\ Pending(x)' /\ x # cur'
               /\ \A i \in DOMAIN dqueue' : dqueue'[i] = x => Handed(x)' /\ Pending(x)' /\ x # cur'
               /\ cur' = x => Handed(x)'
               /\ CalledBack(x)' => Handed(x)' /\ req'[x].ivs = {}
               /\ life'[x] = "gone" /\ x # Local => cur' = x
    BY <1>0, <1>2, <1>3, <1>9, <2>1 DEF OneRequest
  <2>2. /\ \A i \in DOMAIN queue' : queue'[i] # e
        /\ \A i \in DOMAIN dqueue' : dqueue'[i] # e
        /\ ~CalledBack(e)' /\ cur' # e
    BY <1>0, <1>2, <1>5 DEF OneRequest, CalledBack
  <2>3. \A x \in Entities :
           /\ \A i, j \in DOMAIN queue' : queue'[i] = x /\ queue'[j] = x => i = j
           /\ \A i, j \in DOMAIN dqueue' : dqueue'[i] = x /\ dqueue'[j] = x => i = j
           /\ \A i \in DOMAIN queue', j \in DOMAIN dqueue' : queue'[i] = x => dqueue'[j] # x
    BY <1>0 DEF OneRequest
  <2>4. life'[e] # "gone"  BY <1>2
  <2> QED BY <2>1, <2>2, <2>3, <2>4 DEF OneRequest
<1>11. Underway'
  <2>1. \A x \in Entities : x # e /\ Pending(x)' =>
           \/ \E u \in Threads : thr'[u].w = x /\ thr'[u].at = "gather"
           \/ \E i \in DOMAIN queue' : queue'[i] = x
           \/ \E i \in DOMAIN dqueue' : dqueue'[i] = x
           \/ cur' = x
    BY <1>0, <1>1, <1>4, <1>9 DEF Underway
  <2> QED BY <1>1, <2>1 DEF Underway
<1>12. Collecting'
  <2>1. CASE t = Gc
    <3>1. cur \in Entities /\ CalledBack(cur)  BY <2>1 DEF Collecting
    <3> QED BY <1>0, <1>1, <1>5, <1>9, <2>1, <3>1, Kinds DEF Collecting, GcPlaces
  <2>2. CASE t # Gc
    <3>1. thr'[Gc] = thr[Gc]  BY <1>1, <2>2, Kinds
    <3>2. cur \in {None, NoOp} \/ (cur \in Entities /\ cur # e)
      BY <1>5 DEF TypeOK
    <3>3. Pending(cur) /\ cur \in Entities => Pending(cur)'
      BY <1>0, <1>9, <3>2, Kinds
    <3>4. CalledBack(cur) /\ cur \in Entities => CalledBack(cur)'
      BY <1>0, <1>9, <3>2, Kinds
    <3>5. \A u \in Threads \ {Gc} : thr'[u].at \notin {"callback", "builtins", "done"}
      BY <1>1 DEF Collecting
    <3> QED BY <1>0, <3>1, <3>2, <3>3, <3>4, <3>5 DEF Collecting
  <2> QED BY <2>1, <2>2
<1>13. AllCounted'
  <2>1. InHand' <=> InHand
    BY <1>0, <1>1, Kinds DEF InHand, Awakened, ByTime
  <2> QED BY <1>0, <2>1 DEF AllCounted
<1>14. Referenced'
  <2>1. /\ thr'[Gc].at = "callback" <=> thr[Gc].at = "callback"
        /\ thr'[Gc].at \in {"gather", "builtins"} <=> thr[Gc].at \in {"gather", "builtins"}
    <3>1. CASE t = Gc  BY <1>1, <3>1
    <3>2. CASE t # Gc  BY <1>1, <3>2, Kinds
    <3> QED BY <3>1, <3>2
  <2>2. \A x \in Ours : CalledBack(x)' <=> CalledBack(x)
    BY <1>2, <1>5, <1>9, Kinds DEF CalledBack
  <2>3. Freed(Local)' <=> Freed(Local)
    BY <1>2, Kinds DEF Freed
  <2>4. refs \subseteq Ours  BY DEF TypeOK
  <2>5. ~dying => \A b \in Builtins : life'[b] = "indexed"
    BY <1>2, Kinds DEF Referenced
  <2> QED BY <1>0, <2>1, <2>2, <2>3, <2>4, <2>5 DEF Referenced
<1>15. Phases'
  <2>1. \A x \in Entities : life[x] # "indexed" => life'[x] # "indexed"
    BY <1>2
  <2>2. \A x \in Entities : CalledBack(x) => CalledBack(x)'
    BY <1>5, <1>9
  <2>3. Freed(Local) => Freed(Local)'  BY <1>2, Kinds DEF Freed
  <2>0. \A u \in Receivers \cup Timers : u \in Threads \ {Gc}
    BY Kinds DEF Threads
  <2>4. CASE t = Gc  BY <1>0, <1>1, <2>0, <2>1, <2>2, <2>3, <2>4, Kinds DEF Phases
  <2>5. CASE t # Gc /\ main = "running" /\ e \in Writers
    BY <1>0, <1>1, <2>5 DEF Phases, Waited, Draining
  <2>6. CASE t # Gc /\ thr[t].at = "stopping"
    <3>1. main # "running" /\ main \notin Waited  BY <2>6 DEF Phases
    <3>2. \A u \in Threads \ {Gc} : thr'[u].at \in Shutting => thr[u].at \in Shutting
      BY <1>1, <2>6 DEF Shutting
    <3>3. \A u \in Threads \ {Gc} : thr'[u].at \in {"idle", "elsewhere"} \cup Shutting
      BY <1>1, <2>6, <3>1 DEF Phases, Shutting
    <3>4. \A u \in Receivers \cup Timers : thr'[u].at \in {"idle", "elsewhere"}
      BY <1>1, <2>0, <2>6, <3>1 DEF Phases
    <3> QED BY <1>0, <2>1, <3>1, <3>2, <3>3, <3>4, Kinds DEF Phases, Waited, Draining
  <2> QED BY <2>4, <2>5, <2>6
<1> QED BY <1>1, <1>2, <1>6, <1>7, <1>8, <1>10, <1>11, <1>12, <1>13, <1>14, <1>15

\* Deleting a writer for good, by whichever of the four: the writer is in the
\* hands of the thread that deletes it, and no other has it pinned.
LEMMA DeletingStages ==
  ASSUME IInv, NEW t \in Threads, NEW w \in Writers, UNCHANGED main,
         thr[t].at # "gather", life[w] = "indexed", Free(w, HasPin),
         wr[w].closing \/ main # "running",
         \A u \in Threads : u # t /\ thr[u].w = w => thr[u].at \notin Early,
         wr' = [wr EXCEPT ![w].state = "DELETING"],
         \A u \in Threads : u # t => thr'[u] = thr[u],
         thr'[t].at = "gather", thr'[t].w = w,
         life'[w] = "deleting", \A x \in Entities : x # w => life'[x] = life[x]
  PROVE  wr' \in [Writers -> WriterState] /\ Stages'
<1> USE DEF IInv
<1>1. /\ wr' \in [Writers -> WriterState]
      /\ \A v \in Writers : /\ wr'[v].timer = wr[v].timer /\ wr'[v].closing = wr[v].closing
                            /\ v # w => wr'[v].state = wr[v].state
      /\ wr'[w].state = "DELETING"
  BY StateFacts DEF TypeOK
<1>2. \A v \in Writers : /\ (life[v] = "indexed" <=> wr[v].state # "DELETING")'
                         /\ (Live(v) => ~wr[v].timer /\ Free(v, Late))'
                         /\ (~Live(v) => (wr[v].closing \/ main # "running") /\ Free(v, HasPin))'
  <2>1. /\ (life[w] = "indexed" <=> wr[w].state # "DELETING")' /\ ~Live(w)'
        /\ (wr[w].closing \/ main # "running")' /\ Free(w, HasPin)'
    BY <1>1 DEF Live, Free, HasPin, HasMutex
  <2>2. ASSUME NEW v \in Writers, v # w
        PROVE  /\ Live(v)' <=> Live(v)
               /\ wr'[v].timer = wr[v].timer /\ wr'[v].closing = wr[v].closing
               /\ wr'[v].state = wr[v].state /\ life'[v] = life[v]
               /\ Free(v, Late) => Free(v, Late)'
               /\ Free(v, HasPin) => Free(v, HasPin)'
    BY <1>1, <2>2, Kinds DEF Free, Live
  <2> QED BY <2>1, <2>2 DEF Stages
<1>3. \A u \in Threads, v \in Writers : thr'[u].w = v =>
         /\ (thr[u].at \in Early => Live(v) /\ wr[v].closing)'
         /\ (thr[u].at = "close" => Free(v, HasPin))'
  BY <1>1 DEF Stages, Live, Free, Early, HasPin, HasMutex
<1>4. \A x, u \in Threads :
         thr'[x].w = thr'[u].w /\ thr'[x].at \in Early /\ thr'[u].at \in Early => x = u
  BY DEF Stages, Early
<1>5. \A u \in Threads :
         thr'[u].at \in (HasPin \cup Early \cup Late \cup {"found"}) \ {"gather"} =>
         thr'[u].w \in Writers
  BY DEF Stages
<1> QED BY <1>1, <1>2, <1>3, <1>4, <1>5 DEF Stages

\* One finds it deleted already, or takes it out of the index and begins the
\* request.
LEMMA NoLingerStep ==
  ASSUME IInv, NEW t \in Threads, NEW w \in Writers,
         NEW done \in {"closed", "handled", "stopping"}, thr[t].w = w \/ done = "stopping",
         \/ thr[t].at = "close" /\ done = "closed"
         \/ thr[t].at \in {"found", "expired"} /\ done = "handled" /\ ~Live(w)
         \/ thr[t].at = "stopping" /\ done = "stopping" /\ life[w] = "indexed" /\ t # Gc,
         delete_writer_nolinger_locked(t, w, done), UNCHANGED gcq
  PROVE  IInv'
<1> USE DEF IInv
<1>0. main' = main /\ w \in Entities
  BY Kinds DEF gcq
<1>1. /\ thr[t].at \in Awakened /\ thr[t].awake /\ thr[t].gv = "here"
      /\ thr[t].at \notin {"gather", "builtins"}
  BY DEF Covered, ByTime, Awakened
<1>2. \/ t # Gc /\ main = "running" /\ done # "stopping" /\ thr[t].at \notin Shutting
      \/ t # Gc /\ thr[t].at = "stopping" /\ done = "stopping" /\ main # "running"
  BY User DEF Early, Late, Phases
<1>3. CASE AlreadyDeleting(w) /\ Goto(t, done) /\ UNCHANGED ents
  <2>1. done = "handled" /\ thr[t].at \in {"found", "expired"} /\ thr[t].w = w
    BY <1>3 DEF AlreadyDeleting, Stages, Early, Live
  <2>2. /\ thr' \in [Threads -> ThreadState] /\ \A u \in Threads : u # t => thr'[u] = thr[u]
        /\ thr'[t].at = "handled" /\ thr'[t].w = w /\ thr'[t].awake = thr[t].awake
        /\ thr'[t].vtime = thr[t].vtime /\ thr'[t].gv = thr[t].gv
    BY <1>0, <1>3, <2>1, GotoFacts, PlacesAre DEF Goto, TypeOK
  <2>3. Stages'
    BY <1>0, <1>3, <2>2, NeutralMove DEF ents, Neutral
  <2>4. /\ thr[t].at \notin Shutting /\ thr[t].at \in ByTime
        /\ thr'[t].at \notin Shutting \cup {"callback", "builtins", "done"}
    BY <2>1, <2>2 DEF Shutting, ByTime
  <2>5. t # Gc /\ main = "running" /\ UNCHANGED <<ents, gcq>>
    BY <1>2, <1>3, <2>1
  <2>6. /\ thr'[t].at \in Awakened => thr'[t].awake /\ thr'[t].gv = "here"
        /\ \A e \in Entities :
              thr'[t].w = e /\ thr'[t].at \in ByTime /\ life[e] # "indexed" =>
              thr[t].w = e /\ thr[t].at \in ByTime /\ thr'[t].vtime = thr[t].vtime
    BY <1>1, <2>1, <2>2, <2>4
  <2> QED BY <2>2, <2>3, <2>4, <2>5, <2>6, MoveStep
<1>4. CASE /\ ~AlreadyDeleting(w) /\ wr' = [wr EXCEPT ![w].state = "DELETING"]
           /\ gcreq_new(t, w)
  <2>1. life[w] = "indexed"
    BY <1>4 DEF AlreadyDeleting, Stages
  <2>2. /\ Free(w, HasPin)
        /\ wr[w].closing \/ main # "running"
        /\ \A u \in Threads : u # t /\ thr[u].w = w => thr[u].at \notin Early
    <3>1. CASE thr[t].at = "close" /\ thr[t].w = w
      <4>1. thr[t].at \in Early  BY <3>1 DEF Early
      <4> QED BY <3>1, <4>1 DEF Stages
    <3>2. CASE ~Live(w)
      BY <3>2 DEF Stages
    <3>3. CASE thr[t].at = "stopping" /\ main # "running"
      <4>1. \A u \in Threads : thr[u].at \notin HasPin \cup Early
        <5>1. \A u \in Threads : thr[u].at \in HasPin \cup Early => FALSE
          BY <3>3, User DEF HasPin
        <5> QED BY <5>1
      <4> QED BY <3>3, <4>1 DEF Free
    <3> QED BY <1>2, <3>1, <3>2, <3>3
  <2>3. wr' \in [Writers -> WriterState]
    BY <1>4, StateFacts DEF TypeOK
  <2>4. \/ t # Gc /\ main = "running" /\ w \in Writers
        \/ t # Gc /\ thr[t].at = "stopping" /\ w \notin Builtins
    BY <1>2, Kinds
  <2>5. /\ thr' \in [Threads -> ThreadState] /\ \A u \in Threads : u # t => thr'[u] = thr[u]
        /\ thr'[t].at = "gather" /\ thr'[t].w = w
        /\ life'[w] = "deleting" /\ \A x \in Entities : x # w => life'[x] = life[x]
        /\ TypeOK' /\ Covered' /\ Gathering' /\ OneRequest' /\ Underway'
        /\ AllCounted' /\ Collecting' /\ Referenced' /\ Phases'
    BY <1>0, <1>1, <1>4, <2>1, <2>3, <2>4, RequestStep
  <2>6. Stages'
    BY <1>0, <1>1, <1>4, <2>1, <2>2, <2>5, DeletingStages
  <2> QED BY <2>5, <2>6
<1> QED BY <1>3, <1>4 DEF delete_writer_nolinger_locked

LEMMA AckNackStep == ASSUME IInv, NEW t \in Threads, AckNack(t) PROVE IInv'
<1> USE DEF IInv
<1> DEFINE w == thr[t].w
<1>1. w \in Writers /\ thr[t].at = "found" /\ UNCHANGED gcq
  BY DEF AckNack, Stages
<1>2. CASE wr[w].state = "LINGERING" /\ delete_writer_nolinger_locked(t, w, "handled")
  BY <1>1, <1>2, NoLingerStep DEF Live
<1>3. CASE /\ Goto(t, "handled") /\ UNCHANGED <<life, req>>
           /\ UNCHANGED wr \/ wr' = [wr EXCEPT ![w].unacked = FALSE]
  <2>1. /\ thr' \in [Threads -> ThreadState] /\ \A u \in Threads : u # t => thr'[u] = thr[u]
        /\ thr'[t].at = "handled" /\ thr'[t].w = w /\ thr'[t].awake = thr[t].awake
        /\ thr'[t].vtime = thr[t].vtime /\ thr'[t].gv = thr[t].gv
    <3>1. GotoWith(t, "handled", w) /\ w \in Entities  BY <1>1, <1>3, Kinds DEF Goto
    <3> HIDE DEF w
    <3> QED BY <3>1, GotoFacts, PlacesAre DEF TypeOK
  <2>2. /\ wr' \in [Writers -> WriterState]
        /\ \A v \in Writers : /\ wr'[v].state = wr[v].state /\ wr'[v].timer = wr[v].timer
                              /\ wr'[v].closing = wr[v].closing
    <3>1. CASE UNCHANGED wr  BY <3>1 DEF TypeOK
    <3>2. CASE wr' = [wr EXCEPT ![w].unacked = FALSE]
      BY <1>1, <3>2, UnackedFacts DEF TypeOK
    <3> QED BY <1>3, <3>1, <3>2
  <2>3. /\ thr[t].at \in ByTime /\ thr[t].awake /\ thr[t].gv = "here"
        /\ thr[t].at \notin Shutting /\ t # Gc /\ main = "running"
    BY <1>1, User DEF Covered, ByTime, Awakened, Shutting
  <2>4. Stages'
    BY <1>1, <1>3, <2>1, <2>2 DEF Stages, gcq, Live, Free, Early, Late, HasPin, HasMutex
  <2>5. /\ thr'[t].at \notin Shutting \cup {"callback", "builtins", "done"}
        /\ \A e \in Entities :
              thr'[t].w = e /\ thr'[t].at \in ByTime /\ life[e] # "indexed" =>
              thr[t].w = e /\ thr[t].at \in ByTime /\ thr'[t].vtime = thr[t].vtime
        /\ thr'[t].awake /\ thr'[t].gv = "here" /\ UNCHANGED <<life, req, gcq>>
    BY <1>1, <1>3, <2>1, <2>3 DEF Shutting
  <2> HIDE DEF w
  <2> QED BY <2>1, <2>2, <2>3, <2>4, <2>5, ThreadStep
<1>4. AckNack(t) => \/ wr[w].state = "LINGERING" /\ delete_writer_nolinger_locked(t, w, "handled")
                    \/ /\ Goto(t, "handled") /\ UNCHANGED <<life, req>>
                       /\ UNCHANGED wr \/ wr' = [wr EXCEPT ![w].unacked = FALSE]
  BY DEF AckNack, ents
<1> QED BY <1>2, <1>3, <1>4

LEMMA LingerDeleteStep == ASSUME IInv, NEW t \in Threads, LingerDelete(t) PROVE IInv'
<1>1. thr[t].w \in Writers /\ ~Live(thr[t].w) /\ thr[t].at = "expired"
  BY DEF IInv, LingerDelete, Stages, Late, Free
<1>2. delete_writer_nolinger_locked(t, thr[t].w, "handled") /\ UNCHANGED gcq
  BY DEF LingerDelete
<1> QED BY <1>1, <1>2, NoLingerStep

LEMMA DeleteWriterStep == ASSUME IInv, NEW t \in Threads, DeleteWriter(t) PROVE IInv'
<1> USE DEF IInv
<1> DEFINE w == thr[t].w
<1>1. /\ w \in Writers /\ Live(w) /\ wr[w].closing /\ Free(w, HasPin)
      /\ thr[t].at = "close" /\ UNCHANGED gcq
  BY DEF DeleteWriter, Stages, Early
<1>2. CASE delete_writer_nolinger_locked(t, w, "closed")
  BY <1>1, <1>2, NoLingerStep
<1>3. CASE wr' = [wr EXCEPT ![w].state = "LINGERING"] /\ Goto(t, "linger") /\ UNCHANGED <<life, req>>
  <2>1. /\ thr' \in [Threads -> ThreadState] /\ \A u \in Threads : u # t => thr'[u] = thr[u]
        /\ thr'[t].at = "linger" /\ thr'[t].w = w /\ thr'[t].awake = thr[t].awake
        /\ thr'[t].vtime = thr[t].vtime /\ thr'[t].gv = thr[t].gv
    <3>1. GotoWith(t, "linger", w) /\ w \in Entities  BY <1>1, <1>3, Kinds DEF Goto
    <3> HIDE DEF w
    <3> QED BY <3>1, GotoFacts, PlacesAre DEF TypeOK
  <2>2. /\ wr' \in [Writers -> WriterState] /\ wr'[w].state = "LINGERING"
        /\ \A v \in Writers : /\ wr'[v].timer = wr[v].timer /\ wr'[v].closing = wr[v].closing
                              /\ v # w => wr'[v].state = wr[v].state
    BY <1>1, <1>3, StateFacts DEF TypeOK
  <2>3. /\ thr[t].at \in ByTime /\ thr[t].awake /\ thr[t].gv = "here"
        /\ thr[t].at \notin Shutting /\ t # Gc /\ main = "running"
    BY <1>1, User DEF Covered, ByTime, Awakened, Shutting, Early
  <2>4. Stages'
    <3>1. \A u \in Threads : u # t /\ thr[u].w = w => thr[u].at \notin Early
      BY <1>1 DEF Stages, Early
    <3> QED BY <1>1, <1>3, <2>1, <2>2, <3>1
            DEF Stages, gcq, Live, Free, Early, Late, HasPin, HasMutex
  <2>5. /\ thr'[t].at \notin Shutting \cup {"callback", "builtins", "done"}
        /\ \A e \in Entities :
              thr'[t].w = e /\ thr'[t].at \in ByTime /\ life[e] # "indexed" =>
              thr[t].w = e /\ thr[t].at \in ByTime /\ thr'[t].vtime = thr[t].vtime
        /\ thr'[t].awake /\ thr'[t].gv = "here" /\ UNCHANGED <<life, req, gcq>>
    BY <1>1, <1>3, <2>1, <2>3 DEF Shutting
  <2> HIDE DEF w
  <2> QED BY <2>1, <2>2, <2>3, <2>4, <2>5, ThreadStep
<1> QED BY <1>2, <1>3 DEF DeleteWriter

----------------------------------------------------------------------------
(* The actions that change a request.                                       *)

\* Only the request changes, and what has been handed over stays so.
LEMMA QuietStep ==
  ASSUME IInv, UNCHANGED <<thr, wr, life, gcq>>, req' \in [Entities -> Request], Covered',
         \A e \in Entities : Handed(e) => req'[e].todo = {},
         \A e \in Entities : Handed(e) /\ CalledBack(e) => req'[e].ivs = req[e].ivs
  PROVE  IInv'
<1> USE DEF IInv
<1>0. /\ refs' = refs /\ dying' = dying /\ queue' = queue /\ cur' = cur /\ count' = count
      /\ terminate' = terminate /\ dqueue' = dqueue /\ main' = main
      /\ life' = life /\ thr' = thr /\ wr' = wr
  BY DEF gcq
<1>1. TypeOK'  BY <1>0 DEF TypeOK
<1>2. Stages'  BY <1>0 DEF Stages, Live, Free
<1>3. Gathering'  BY <1>0 DEF Gathering
<1>4. \A e \in Entities : Handed(e) => Handed(e)'
  BY <1>0 DEF Handed, Free
<1>5. OneRequest'  BY <1>0, <1>4 DEF OneRequest, Pending, CalledBack
<1>6. Underway'  BY <1>0 DEF Underway, Pending
<1>7. AllCounted' /\ Collecting' /\ Referenced' /\ Phases'
  BY <1>0 DEF AllCounted, InHand, Collecting, Pending, CalledBack, Referenced, Freed, Phases
<1> QED BY <1>1, <1>2, <1>3, <1>5, <1>6, <1>7

LEMMA NextSlotIn == ASSUME NEW S, S # {} PROVE NextSlot(S) \in S
  BY DEF NextSlot

LEMMA GatherVtimeStep == ASSUME IInv, NEW t \in Threads, GatherVtime(t) PROVE IInv'
<1> DEFINE w == thr[t].w
           u == NextSlot(req[w].todo)
<1>1. /\ w \in Entities /\ life[w] = "deleting" /\ req[w].todo # {} /\ req[w].loaded = {}
      /\ thr[t].at = "gather"
  BY DEF GatherVtime, IInv, Gathering
<1>2. req[w] \in Request /\ u \in req[w].todo /\ u \in Threads
  BY <1>1, NextSlotIn DEF IInv, TypeOK, Request
<1>3. thr[u].vtime \in Times
  BY <1>2 DEF IInv, TypeOK, ThreadState
<1>4. UNCHANGED <<thr, wr, life, gcq>>
  BY DEF GatherVtime
<1>5. /\ req' \in [Entities -> Request] /\ \A v \in Entities : v # w => req'[v] = req[v]
      /\ req'[w].ivs = req[w].ivs
      /\ \/ /\ thr[u].awake
            /\ req'[w].todo = req[w].todo /\ req'[w].loaded = {<<u, thr[u].vtime>>}
         \/ /\ ~thr[u].awake
            /\ req'[w].todo = req[w].todo \ {u} /\ req'[w].loaded = {}
  <2> HIDE DEF u
  <2>1. CASE thr[u].awake /\ req' = [req EXCEPT ![w].loaded = {<<u, thr[u].vtime>>}]
    <3>1. req'[w] = [req[w] EXCEPT !.loaded = {<<u, thr[u].vtime>>}]
      BY <1>1, <2>1 DEF IInv, TypeOK
    <3>2. {<<u, thr[u].vtime>>} \in SUBSET (Threads \X Times)
      BY <1>2, <1>3
    <3>3. req'[w] \in Request  BY <1>2, <3>1, <3>2 DEF Request
    <3>4. /\ req' \in [Entities -> Request]
          /\ \A v \in Entities : v # w => req'[v] = req[v]
      BY <1>1, <2>1, <3>3 DEF IInv, TypeOK
    <3> QED BY <1>2, <2>1, <3>1, <3>4 DEF Request
  <2>2. CASE ~thr[u].awake /\ req' = [req EXCEPT ![w].todo = @ \ {u}]
    BY <1>1, <1>2, <2>2 DEF IInv, TypeOK, Request
  <2> QED BY <2>1, <2>2 DEF GatherVtime, u
<1>6. Covered'
  <2>1. ASSUME NEW x \in Threads, NEW v \in Entities,
               thr[x].w = v /\ thr[x].at \in ByTime /\ life[v] # "indexed"
        PROVE  Counted(x, v)'
    <3>1. Counted(x, v) /\ thr[x].awake  BY <2>1 DEF IInv, Covered, Awakened
    <3>2. CASE v # w  BY <1>4, <1>5, <3>1, <3>2 DEF Counted
    <3>3. CASE v = w
      <4> HIDE DEF u
      <4>1. x \in req[w].todo \/ <<x, thr[x].vtime>> \in req[w].ivs
        BY <1>1, <3>1, <3>3 DEF Counted
      <4>2. CASE x = u
        BY <1>4, <1>5, <3>1, <3>3, <4>1, <4>2 DEF Counted
      <4>3. CASE x # u
        BY <1>4, <1>5, <3>3, <4>1, <4>3 DEF Counted, u
      <4> QED BY <4>2, <4>3
    <3> QED BY <3>2, <3>3
  <2>2. \A v \in Entities : \A q \in req'[v].loaded :
           req'[v].todo # {} /\ q[1] = NextSlot(req'[v].todo)
    <3>1. ASSUME NEW q \in req'[w].loaded
          PROVE  req'[w].todo # {} /\ q[1] = NextSlot(req'[w].todo)
      <4> HIDE DEF u
      <4>1. q = <<u, thr[u].vtime>> /\ req'[w].todo = req[w].todo  BY <1>5
      <4>2. q[1] = u  BY <4>1
      <4> QED BY <1>1, <4>1, <4>2 DEF u
    <3> HIDE DEF u, w
    <3> QED BY <1>5, <3>1 DEF IInv, Covered
  <2> QED BY <1>4, <2>1, <2>2 DEF IInv, Covered
<1>7. ~Handed(w)  BY <1>1 DEF Handed, Free
<1>8. \A e \in Entities : /\ Handed(e) => req'[e].todo = {}
                          /\ Handed(e) /\ CalledBack(e) => req'[e].ivs = req[e].ivs
  BY <1>5, <1>7 DEF Handed
<1> HIDE DEF u, w
<1> QED BY <1>4, <1>5, <1>6, <1>8, QuietStep

LEMMA GatherGvStep == ASSUME IInv, NEW t \in Threads, GatherGv(t) PROVE IInv'
<1> DEFINE w == thr[t].w
           u == NextSlot(req[w].todo)
           waited == IF thr[u].gv = "here" THEN req[w].ivs \cup req[w].loaded
                     ELSE req[w].ivs
<1>1. /\ w \in Entities /\ life[w] = "deleting" /\ req[w].todo # {} /\ req[w].loaded # {}
      /\ thr[t].at = "gather"
  BY DEF GatherGv, IInv, Gathering
<1>2. req[w] \in Request /\ u \in Threads
  BY <1>1, NextSlotIn DEF IInv, TypeOK, Request
<1>3. UNCHANGED <<thr, wr, life, gcq>>
  BY DEF GatherGv
<1>4. /\ req' \in [Entities -> Request] /\ \A v \in Entities : v # w => req'[v] = req[v]
      /\ req'[w].todo = req[w].todo \ {u} /\ req'[w].loaded = {} /\ req'[w].ivs = waited
  <2>1. req' = [req EXCEPT ![w] = [todo |-> req[w].todo \ {u}, loaded |-> {}, ivs |-> waited]]
    BY DEF GatherGv
  <2>2. waited \in SUBSET (Threads \X Times) /\ req[w].todo \in SUBSET Threads
    BY <1>2 DEF Request
  <2> HIDE DEF u, waited
  <2> QED BY <1>1, <2>1, <2>2 DEF IInv, TypeOK, Request
<1>5. Covered'
  <2>1. ASSUME NEW x \in Threads, NEW v \in Entities,
               thr[x].w = v /\ thr[x].at \in ByTime /\ life[v] # "indexed"
        PROVE  Counted(x, v)'
    <3>1. Counted(x, v) /\ thr[x].gv = "here"  BY <2>1 DEF IInv, Covered, Awakened
    <3>2. CASE v # w  BY <1>3, <1>4, <3>1, <3>2 DEF Counted
    <3>3. CASE v = w
      <4>1. CASE x \in req[w].todo /\ u # x
        BY <1>4, <3>3, <4>1 DEF Counted
      <4>2. CASE <<x, thr[x].vtime>> \in req[w].loaded
        <5>1. x = u  BY <1>1, <4>2 DEF IInv, Covered
        <5>2. <<x, thr[x].vtime>> \in waited  BY <3>1, <4>2, <5>1
        <5> QED BY <1>3, <1>4, <3>3, <5>2 DEF Counted
      <4>3. CASE <<x, thr[x].vtime>> \in req[w].ivs
        BY <1>3, <1>4, <3>3, <4>3 DEF Counted
      <4> QED BY <1>1, <3>1, <3>3, <4>1, <4>2, <4>3 DEF Counted
    <3> QED BY <3>2, <3>3
  <2>2. \A v \in Entities : \A q \in req'[v].loaded :
           req'[v].todo # {} /\ q[1] = NextSlot(req'[v].todo)
    BY <1>1, <1>4 DEF IInv, Covered
  <2> QED BY <1>3, <2>1, <2>2 DEF IInv, Covered
<1>6. ~Handed(w)  BY <1>1 DEF Handed, Free
<1>7. \A e \in Entities : /\ Handed(e) => req'[e].todo = {}
                          /\ Handed(e) /\ CalledBack(e) => req'[e].ivs = req[e].ivs
  BY <1>4, <1>6 DEF Handed
<1> HIDE DEF u, w, waited
<1> QED BY <1>3, <1>4, <1>5, <1>7, QuietStep

\* Only the requests that wait for a thread that has moved on wait no longer.
LEMMA GcCheckStep == ASSUME IInv, GcCheck PROVE IInv'
<1>1. PICK iv \in Waiting :
         /\ vtime_gt(thr[iv[1]].vtime, iv[2]) \/ thr[iv[1]].gv # "here"
         /\ req' = [req EXCEPT ![cur].ivs = @ \ {iv}]
         /\ UNCHANGED <<thr, wr, life, gcq>>
  BY DEF GcCheck
<1>2. cur \in Entities /\ iv \in req[cur].ivs
  BY DEF Waiting
<1>3. /\ req' \in [Entities -> Request] /\ \A v \in Entities : v # cur => req'[v] = req[v]
      /\ req'[cur].todo = req[cur].todo /\ req'[cur].loaded = req[cur].loaded
      /\ req'[cur].ivs = req[cur].ivs \ {iv}
  BY <1>1, <1>2 DEF IInv, TypeOK, Request
<1>4. Covered'
  <2>1. ASSUME NEW x \in Threads, NEW v \in Entities,
               thr[x].w = v /\ thr[x].at \in ByTime /\ life[v] # "indexed"
        PROVE  Counted(x, v)'
    <3>1. Counted(x, v) /\ thr[x].gv = "here"  BY <2>1 DEF IInv, Covered, Awakened
    <3>2. thr[x].vtime \in Times  BY DEF IInv, TypeOK, ThreadState
    <3>3. <<x, thr[x].vtime>> # iv
      <4> SUFFICES ASSUME <<x, thr[x].vtime>> = iv PROVE FALSE  OBVIOUS
      <4>1. iv[1] = x /\ iv[2] = thr[x].vtime  OBVIOUS
      <4> QED BY <1>1, <3>1, <3>2, <4>1, NotLater
    <3>4. CASE v # cur  BY <1>1, <1>3, <3>1, <3>4 DEF Counted
    <3>5. CASE v = cur  BY <1>1, <1>3, <3>1, <3>3, <3>5 DEF Counted
    <3> QED BY <3>4, <3>5
  <2>2. \A v \in Entities : \A q \in req'[v].loaded :
           req'[v].todo # {} /\ q[1] = NextSlot(req'[v].todo)
    BY <1>2, <1>3 DEF IInv, Covered
  <2> QED BY <1>1, <2>1, <2>2 DEF IInv, Covered
<1>5. \A e \in Entities : /\ Handed(e) => req'[e].todo = {}
                          /\ Handed(e) /\ CalledBack(e) => req'[e].ivs = req[e].ivs
  BY <1>2, <1>3 DEF Handed, IInv, OneRequest
<1> QED BY <1>1, <1>3, <1>4, <1>5, QuietStep

----------------------------------------------------------------------------
(* The queues.                                                              *)

\* What stands where after a request has been appended, ...
LEMMA Appended ==
  ASSUME NEW S, NEW q \in Seq(S), NEW e \in S, NEW r, r = Append(q, e)
  PROVE  /\ r \in Seq(S) /\ Len(q) \in Nat /\ Len(r) = Len(q) + 1
         /\ Len(q) + 1 \in DOMAIN r /\ r[Len(q) + 1] = e
         /\ \A i \in DOMAIN q : i \in DOMAIN r /\ r[i] = q[i]
         /\ \A i \in DOMAIN r : i = Len(q) + 1 \/ (i \in DOMAIN q /\ r[i] = q[i])
  OBVIOUS

\* ... and after the first has been taken.
LEMMA Taken ==
  ASSUME NEW S, NEW q \in Seq(S), q # <<>>, NEW r, r = Tail(q)
  PROVE  /\ r \in Seq(S) /\ Len(q) \in Nat /\ Len(q) > 0 /\ Len(r) = Len(q) - 1
         /\ 1 \in DOMAIN q /\ Head(q) = q[1] /\ Head(q) \in S
         /\ \A i \in DOMAIN r : /\ i \in Nat /\ i + 1 \in DOMAIN q /\ i + 1 # 1
                                /\ r[i] = q[i + 1]
         /\ \A i \in DOMAIN q : i = 1 \/ (i - 1 \in DOMAIN r /\ r[i - 1] = q[i])
  OBVIOUS

\* The request is complete, and its thread goes on.
LEMMA EnqueueStep == ASSUME IInv, NEW t \in Threads, gcreq_enqueue(t) PROVE IInv'
<1>0. PICK e \in Entities \cup {None} : thr[t].w = e
  BY DEF IInv, TypeOK, ThreadState
<1>1. /\ e \in Entities /\ life[e] = "deleting" /\ req[e].todo = {} /\ thr[t].at = "gather"
      /\ \A u \in Threads : u # t => ~(thr[u].w = e /\ thr[u].at = "gather")
  BY <1>0 DEF gcreq_enqueue, IInv, Gathering
<1>2. thr[t].awake /\ thr[t].gv = "here"
  BY <1>1 DEF IInv, Covered, ByTime, Awakened
<1>3. /\ queue' = Append(queue, e) /\ count' = count + 1
      /\ UNCHANGED <<wr, life, req, refs, dying, cur, terminate, dqueue, main>>
  BY <1>0 DEF gcreq_enqueue, ents
<1>4. /\ thr' \in [Threads -> ThreadState] /\ \A u \in Threads : u # t => thr'[u] = thr[u]
      /\ thr'[t].awake = thr[t].awake /\ thr'[t].vtime = thr[t].vtime /\ thr'[t].gv = thr[t].gv
      /\ \/ t = Gc /\ thr'[t].at = "builtins" /\ thr'[t].w = None
         \/ t # Gc /\ main = "running" /\ thr'[t].at = "closed" /\ thr'[t].w = e
         \/ t \in Apps \ {Gc} /\ main # "running" /\ thr'[t].at = "stopping" /\ thr'[t].w = None
         \/ t \in (Receivers \cup Timers) \ {Gc} /\ thr'[t].at = "handled" /\ thr'[t].w = e
  <2>0. thr \in [Threads -> ThreadState]  BY DEF IInv, TypeOK
  <2>1. CASE t = Gc /\ GotoWith(t, "builtins", None)
    BY <2>0, <2>1, GotoFacts, PlacesAre
  <2>2. CASE t \in Apps /\ main = "running" /\ GotoWith(t, "closed", e)
    <3>1. t # Gc  BY <2>2, Kinds
    <3> QED BY <1>1, <2>0, <2>2, <3>1, GotoFacts, PlacesAre
  <2>3. CASE t \in Apps /\ main # "running" /\ GotoWith(t, "stopping", None)
    BY <2>0, <2>3, GotoFacts, PlacesAre, Kinds
  <2>4. CASE t \in Receivers \cup Timers /\ GotoWith(t, "handled", e)
    <3>1. t # Gc  BY <2>4, Kinds
    <3> QED BY <1>1, <2>0, <2>4, <3>1, GotoFacts, PlacesAre
  <2> QED BY <1>0, <2>1, <2>2, <2>3, <2>4 DEF gcreq_enqueue, Resume, Goto
<1>5. /\ queue' \in Seq(Entities \cup {NoOp}) /\ Len(queue) \in Nat
      /\ Len(queue') = Len(queue) + 1
      /\ Len(queue) + 1 \in DOMAIN queue' /\ queue'[Len(queue) + 1] = e
      /\ \A i \in DOMAIN queue : i \in DOMAIN queue' /\ queue'[i] = queue[i]
      /\ \A i \in DOMAIN queue' :
            i = Len(queue) + 1 \/ (i \in DOMAIN queue /\ queue'[i] = queue[i])
  <2>1. queue \in Seq(Entities \cup {NoOp}) /\ e \in Entities \cup {NoOp}
    BY <1>1 DEF IInv, TypeOK
  <2> QED BY <1>3, <2>1, Appended
<1>6. t # Gc => /\ main = "running" => e \in Writers
                /\ main # "running" => t \notin Receivers \cup Timers
                /\ main \notin Waited
  BY <1>0, <1>1 DEF IInv, Phases
<1>7. t = Gc => thr[Gc].at = "gather"
  BY <1>1
<1>8. TypeOK'
  BY <1>3, <1>4, <1>5 DEF IInv, TypeOK
<1>9. Stages'
  <2>1. CASE thr'[t].at = "closed" /\ t # Gc /\ main = "running" /\ thr'[t].w = e
    BY <1>0, <1>1, <1>3, <1>4, <1>6, <2>1
       DEF IInv, Stages, Live, Free, Early, Late, HasPin, HasMutex
  <2>2. CASE thr'[t].at \in Neutral
    BY <1>3, <1>4, <2>2, NeutralMove DEF IInv
  <2> QED BY <1>4, <2>1, <2>2 DEF Neutral
<1>10. Covered'
  <2>1. ASSUME NEW x \in Threads, NEW v \in Entities,
               thr'[x].w = v /\ thr'[x].at \in ByTime /\ life[v] # "indexed"
        PROVE  Counted(x, v)'
    <3>1. thr[x].w = v /\ thr[x].at \in ByTime /\ thr'[x].vtime = thr[x].vtime
      BY <1>0, <1>1, <1>4, <2>1, Kinds DEF ByTime
    <3>2. Counted(x, v)  BY <2>1, <3>1 DEF IInv, Covered
    <3> QED BY <1>3, <3>1, <3>2 DEF Counted
  <2>2. \A x \in Threads : thr'[x].at \in Awakened => thr'[x].awake /\ thr'[x].gv = "here"
    BY <1>2, <1>4 DEF IInv, Covered
  <2> QED BY <1>3, <2>1, <2>2 DEF IInv, Covered
<1>11. \A u \in Threads : thr'[u].at = "gather" => u # t /\ thr[u].at = "gather" /\ thr'[u] = thr[u]
  BY <1>4
<1>12. Gathering'
  BY <1>3, <1>11 DEF IInv, Gathering
<1>13. ~Handed(e) /\ Handed(e)' /\ Pending(e)' /\ ~CalledBack(e)
  <2>1. ~Handed(e)  BY <1>0, <1>1 DEF Handed, Free
  <2>2. Free(e, {"gather"})'  BY <1>1, <1>11 DEF Free
  <2> QED BY <1>1, <1>3, <2>1, <2>2 DEF Handed, Pending, CalledBack
<1>14. \A x \in Entities : Handed(x) => Handed(x)'
  BY <1>3, <1>11 DEF Handed, Free
<1>15. cur # e /\ (\A i \in DOMAIN queue : queue[i] # e) /\ (\A i \in DOMAIN dqueue : dqueue[i] # e)
  BY <1>1, <1>13 DEF IInv, OneRequest
<1>16. OneRequest'
  <2>1. ASSUME NEW x \in Entities
        PROVE  /\ \A i \in DOMAIN queue' : queue'[i] = x => Handed(x)' /\ Pending(x)' /\ x # cur'
               /\ \A i, j \in DOMAIN queue' : queue'[i] = x /\ queue'[j] = x => i = j
               /\ \A i \in DOMAIN queue', j \in DOMAIN dqueue' : queue'[i] = x => dqueue'[j] # x
    <3>1. CASE x = e  BY <1>3, <1>5, <1>13, <1>15, <3>1
    <3>2. CASE x # e  BY <1>3, <1>5, <1>14, <3>2 DEF IInv, OneRequest, Pending
    <3> QED BY <3>1, <3>2
  <2>2. \A x \in Entities :
           /\ \A i \in DOMAIN dqueue' : dqueue'[i] = x => Handed(x)' /\ Pending(x)' /\ x # cur'
           /\ \A i, j \in DOMAIN dqueue' : dqueue'[i] = x /\ dqueue'[j] = x => i = j
           /\ cur' = x => Handed(x)'
           /\ CalledBack(x)' => Handed(x)' /\ req'[x].ivs = {}
           /\ life'[x] = "gone" /\ x # Local => cur' = x
    BY <1>3, <1>14 DEF IInv, OneRequest, Pending, CalledBack
  <2> QED BY <2>1, <2>2 DEF OneRequest
<1>17. Underway'
  <2>1. ASSUME NEW x \in Entities, x # e, Pending(x)
        PROVE  \/ \E u \in Threads : thr'[u].w = x /\ thr'[u].at = "gather"
               \/ \E i \in DOMAIN queue' : queue'[i] = x
               \/ \E i \in DOMAIN dqueue' : dqueue'[i] = x
               \/ cur' = x
    <3>1. CASE \E u \in Threads : thr[u].w = x /\ thr[u].at = "gather"
      BY <1>0, <1>4, <2>1, <3>1
    <3>2. CASE \E i \in DOMAIN queue : queue[i] = x
      BY <1>5, <3>2
    <3> QED BY <1>3, <2>1, <3>1, <3>2 DEF IInv, Underway
  <2>2. \E i \in DOMAIN queue' : queue'[i] = e
    BY <1>5
  <2> QED BY <1>3, <2>1, <2>2 DEF Underway, Pending
<1>18. AllCounted'
  <2>1. InHand' <=> InHand
    BY <1>1, <1>3, <1>4, Kinds DEF InHand
  <2>2. Len(dqueue) \in Nat /\ count \in Nat  BY DEF IInv, TypeOK
  <2> QED BY <1>3, <1>5, <2>1, <2>2 DEF IInv, AllCounted
<1>19. Collecting'
  <2>1. CASE t = Gc
    <3>1. cur \in Entities /\ CalledBack(cur)  BY <1>1, <2>1 DEF IInv, Collecting
    <3> QED BY <1>3, <1>4, <2>1, <3>1 DEF IInv, Collecting, CalledBack, GcPlaces
  <2>2. CASE t # Gc
    <3>1. thr'[Gc] = thr[Gc]  BY <1>4, <2>2, Kinds
    <3> QED BY <1>3, <1>4, <2>2, <3>1 DEF IInv, Collecting, CalledBack, Pending
  <2> QED BY <2>1, <2>2
<1>20. Referenced'
  <2>1. /\ thr'[Gc].at = "callback" <=> thr[Gc].at = "callback"
        /\ thr'[Gc].at \in {"gather", "builtins"} => thr[Gc].at \in {"gather", "builtins"}
    BY <1>1, <1>4, Kinds
  <2> QED BY <1>3, <2>1 DEF IInv, Referenced, CalledBack, Freed
<1>21. Phases'
  <2>0. \A u \in Receivers \cup Timers : u \in Threads \ {Gc}
    BY Kinds DEF Threads
  <2>1. \A u \in Threads \ {Gc} : thr'[u].at \in Shutting => thr[u].at \in Shutting
    BY <1>1, <1>4 DEF Shutting
  <2>2. CASE main = "running"
    BY <1>3, <1>4, <2>2 DEF IInv, Phases, Waited, Draining
  <2>3. CASE main # "running"
    <3>0. main # "joined"
      BY <1>6, <1>7, Kinds DEF Waited, Draining, IInv, Phases, Collecting
    <3>1. /\ \A u \in Threads \ {Gc} : thr'[u].at \in {"idle", "elsewhere"} \cup Shutting
          /\ \A u \in Receivers \cup Timers : thr'[u].at \in {"idle", "elsewhere"}
          /\ main \in Waited => \A u \in Threads \ {Gc} : thr'[u].at \notin {"stopping", "gather"}
      BY <1>4, <1>6, <2>0, <2>3 DEF IInv, Phases, Shutting
    <3> QED BY <1>3, <2>1, <2>3, <3>0, <3>1 DEF IInv, Phases, CalledBack, Freed
  <2> QED BY <2>2, <2>3
<1> QED BY <1>8, <1>9, <1>10, <1>12, <1>16, <1>17, <1>18, <1>19, <1>20, <1>21 DEF IInv

----------------------------------------------------------------------------
(* The collector: most of its steps leave the other threads alone and take  *)
(* nothing out of the index.                                                *)

GcMoves ==
    /\ thr' \in [Threads -> ThreadState] /\ \A u \in Threads : u # Gc => thr'[u] = thr[u]
    /\ thr[Gc].at # "gather" /\ thr'[Gc].at \in {"idle", "callback", "builtins", "done"}
    /\ thr'[Gc].at # "idle" => thr'[Gc].awake /\ thr'[Gc].gv = "here"
    /\ UNCHANGED <<wr, req, main>>
    /\ \A e \in Entities : life'[e] = "indexed" <=> life[e] = "indexed"

LEMMA GcStays ==
  ASSUME IInv, UNCHANGED <<thr, wr, req, main>>, thr[Gc].at \in {"idle", "callback", "builtins", "done"},
         \A e \in Entities : life'[e] = "indexed" <=> life[e] = "indexed"
  PROVE  GcMoves
<1>1. thr[Gc].at # "idle" => thr[Gc].awake /\ thr[Gc].gv = "here"
  BY Kinds DEF IInv, Covered, Awakened
<1> QED BY <1>1 DEF GcMoves, IInv, TypeOK

LEMMA GcStep ==
  ASSUME IInv, GcMoves
  PROVE  /\ Stages' /\ Covered'
         /\ \A e \in Entities : Handed(e) => Handed(e)'
         /\ \A u \in Threads : /\ thr'[u].at = "gather" <=> thr[u].at = "gather"
                               /\ thr[u].at = "gather" => thr'[u] = thr[u]
<1> USE DEF GcMoves
<1>1. Gc \in Threads /\ Writers \subseteq Entities  BY Kinds
<1>2. thr'[Gc].at \notin HasPin \cup Early \cup Late \cup {"found"} \cup ByTime
  BY DEF HasPin, HasMutex, Early, Late, ByTime
<1>3. Stages'
  <2>1. \A w \in Writers : /\ Free(w, HasPin) => Free(w, HasPin)'
                           /\ Free(w, Late) => Free(w, Late)'
    BY <1>2 DEF Free
  <2>2. \A u \in Threads : thr'[u].at \in HasPin \cup Early \cup Late \cup {"found"} =>
           thr'[u] = thr[u]
    BY <1>2
  <2>3. \A u \in Threads : thr'[u].at = "close" => thr'[u].at \in Early
    BY DEF Early
  <2> QED BY <1>1, <2>1, <2>2, <2>3 DEF IInv, Stages, Live
<1>4. Covered'
  <2>1. ASSUME NEW x \in Threads, NEW e \in Entities,
               thr'[x].w = e /\ thr'[x].at \in ByTime /\ life'[e] # "indexed"
        PROVE  Counted(x, e)'
    <3>1. thr'[x] = thr[x]  BY <1>2, <2>1
    <3>2. Counted(x, e)  BY <2>1, <3>1 DEF IInv, Covered
    <3> QED BY <3>1, <3>2 DEF Counted
  <2>2. \A x \in Threads : thr'[x].at \in Awakened => thr'[x].awake /\ thr'[x].gv = "here"
    BY DEF IInv, Covered, Awakened, ByTime
  <2> QED BY <2>1, <2>2 DEF IInv, Covered
<1>5. \A u \in Threads : /\ thr'[u].at = "gather" <=> thr[u].at = "gather"
                         /\ thr[u].at = "gather" => thr'[u] = thr[u]
  OBVIOUS
<1>6. \A e \in Entities : Handed(e) => Handed(e)'
  <2>1. \A e : Free(e, {"gather"}) => Free(e, {"gather"})'
    BY <1>5 DEF Free
  <2> QED BY <2>1 DEF Handed
<1> QED BY <1>3, <1>4, <1>5, <1>6

LEMMA GcTakeStep == ASSUME IInv, GcTake PROVE IInv'
<1>1. /\ cur = None /\ cur' = Head(queue) /\ queue' = Tail(queue) /\ queue # <<>>
      /\ UNCHANGED <<thr, wr, life, req, refs, dying, count, terminate, dqueue, main>>
  BY DEF GcTake, ents
<1>2. queue \in Seq(Entities \cup {NoOp})
  BY DEF IInv, TypeOK
<1>3. /\ queue' \in Seq(Entities \cup {NoOp})
      /\ Len(queue) \in Nat /\ Len(queue) > 0 /\ Len(queue') = Len(queue) - 1
      /\ cur' = queue[1] /\ 1 \in DOMAIN queue /\ cur' \in Entities \cup {NoOp}
      /\ \A i \in DOMAIN queue' : /\ i \in Nat /\ i + 1 \in DOMAIN queue /\ i + 1 # 1
                                  /\ queue'[i] = queue[i + 1]
      /\ \A i \in DOMAIN queue : i = 1 \/ (i - 1 \in DOMAIN queue' /\ queue'[i - 1] = queue[i])
  BY <1>1, <1>2, Taken
<1>4. thr[Gc].at = "idle"
  BY <1>1, Kinds DEF IInv, Collecting
<1>5. GcMoves
  BY <1>1, <1>4, GcStays
<1>6. TypeOK'
  BY <1>1, <1>3 DEF IInv, TypeOK
<1>7. /\ Stages' /\ Covered' /\ Gathering'
      /\ \A e \in Entities : Handed(e) => Handed(e)'
  BY <1>1, <1>5, GcStep DEF IInv, Gathering
<1>8. OneRequest'
  <2>1. ASSUME NEW e \in Entities
        PROVE  /\ \A i \in DOMAIN queue' : queue'[i] = e => Handed(e)' /\ Pending(e)' /\ e # cur'
               /\ \A i, j \in DOMAIN queue' : queue'[i] = e /\ queue'[j] = e => i = j
               /\ \A i \in DOMAIN queue', j \in DOMAIN dqueue' : queue'[i] = e => dqueue'[j] # e
    <3>1. \A i \in DOMAIN queue' : queue'[i] = e => Handed(e)' /\ Pending(e)'
      BY <1>1, <1>3, <1>7 DEF IInv, OneRequest, Pending
    <3>2. \A i \in DOMAIN queue' : queue'[i] = e => e # cur'
      BY <1>3 DEF IInv, OneRequest
    <3>3. ASSUME NEW i \in DOMAIN queue', NEW j \in DOMAIN queue', queue'[i] = e, queue'[j] = e
          PROVE  i = j
      <4>1. i + 1 = j + 1  BY <1>3, <3>3 DEF IInv, OneRequest
      <4>2. i \in Nat /\ j \in Nat  BY <1>3
      <4> QED BY <4>1, <4>2
    <3>4. \A i \in DOMAIN queue', j \in DOMAIN dqueue' : queue'[i] = e => dqueue'[j] # e
      BY <1>1, <1>3 DEF IInv, OneRequest
    <3> QED BY <3>1, <3>2, <3>3, <3>4
  <2>2. ASSUME NEW e \in Entities
        PROVE  /\ \A i \in DOMAIN dqueue' : dqueue'[i] = e => Handed(e)' /\ Pending(e)' /\ e # cur'
               /\ \A i, j \in DOMAIN dqueue' : dqueue'[i] = e /\ dqueue'[j] = e => i = j
               /\ cur' = e => Handed(e)'
               /\ CalledBack(e)' => Handed(e)' /\ req'[e].ivs = {}
               /\ life'[e] = "gone" /\ e # Local => cur' = e
    <3>1. cur # e  BY <1>1, Kinds
    <3> QED BY <1>1, <1>3, <1>7, <3>1 DEF IInv, OneRequest, Pending, CalledBack
  <2> QED BY <2>1, <2>2 DEF OneRequest
<1>9. Underway'
  <2>1. ASSUME NEW e \in Entities, Pending(e), \E i \in DOMAIN queue : queue[i] = e
        PROVE  (\E i \in DOMAIN queue' : queue'[i] = e) \/ cur' = e
    BY <1>3, <2>1
  <2>2. \A e \in Entities : cur # e  BY <1>1, Kinds
  <2> QED BY <1>1, <2>1, <2>2 DEF IInv, Underway, Pending
<1>10. AllCounted'
  <2>1. ~InHand  BY <1>1 DEF InHand
  <2>2. InHand'  BY <1>1, <1>3, <1>4, Kinds DEF InHand
  <2>3. Len(dqueue) \in Nat /\ count \in Nat  BY DEF IInv, TypeOK
  <2> QED BY <1>1, <1>3, <2>1, <2>2, <2>3 DEF IInv, AllCounted
<1>11. Collecting'
  <2>1. cur' = NoOp \/ Pending(cur')
    BY <1>3 DEF IInv, OneRequest
  <2> QED BY <1>1, <1>4, <2>1 DEF IInv, Collecting, Pending
<1>12. Referenced'
  <2>1. \A e \in refs : ~CalledBack(e)
    BY <1>1, <1>4 DEF IInv, Referenced
  <2> QED BY <1>1, <1>4, <2>1 DEF IInv, Referenced, CalledBack, Freed
<1>13. Phases'
  <2>1. main # "joined"
    <3>1. Len(dqueue) \in Nat  BY DEF IInv, TypeOK
    <3> QED BY <1>1, <1>3, <3>1 DEF IInv, Phases, AllCounted, InHand
  <2> QED BY <1>1, <2>1 DEF IInv, Phases, CalledBack, Freed
<1> QED BY <1>6, <1>7, <1>8, <1>9, <1>10, <1>11, <1>12, <1>13 DEF IInv

\* The request of a proxy writer makes its detour through the delivery queue,
\* still counted.
LEMMA GcDqueueStep == ASSUME IInv, GcDqueue PROVE IInv'
<1>1. /\ cur \in Proxies /\ cur \in Entities /\ life[cur] = "deleting" /\ thr[Gc].at = "idle"
      /\ dqueue' = Append(dqueue, cur) /\ cur' = None
      /\ life' = [life EXCEPT ![cur] = "bubble"]
      /\ UNCHANGED <<thr, wr, req, refs, dying, queue, count, terminate, main>>
  BY DEF GcDqueue, Ready, Delivering
<1>2. /\ life' \in [Entities -> {"indexed", "deleting", "bubble", "gone", "freed"}]
      /\ life'[cur] = "bubble" /\ \A e \in Entities : e # cur => life'[e] = life[e]
  BY <1>1 DEF IInv, TypeOK
<1>3. /\ dqueue' \in Seq(Proxies) /\ Len(dqueue) \in Nat /\ Len(dqueue') = Len(dqueue) + 1
      /\ Len(dqueue) + 1 \in DOMAIN dqueue' /\ dqueue'[Len(dqueue) + 1] = cur
      /\ \A i \in DOMAIN dqueue : i \in DOMAIN dqueue' /\ dqueue'[i] = dqueue[i]
      /\ \A i \in DOMAIN dqueue' :
            i = Len(dqueue) + 1 \/ (i \in DOMAIN dqueue /\ dqueue'[i] = dqueue[i])
  BY <1>1, Appended DEF IInv, TypeOK
<1>4. GcMoves
  BY <1>1, <1>2, GcStays
<1>5. /\ Stages' /\ Covered'
      /\ \A e \in Entities : Handed(e) => Handed(e)'
  BY <1>4, GcStep
<1>6. TypeOK'
  BY <1>1, <1>2, <1>3, Kinds DEF IInv, TypeOK
<1>7. /\ Handed(cur) /\ (\A i \in DOMAIN queue : queue[i] # cur)
      /\ \A i \in DOMAIN dqueue : dqueue[i] # cur
  BY <1>1 DEF IInv, OneRequest
<1>8. Gathering'
  <2>1. \A u \in Threads : thr[u].at = "gather" => thr[u].w # cur
    BY <1>7 DEF Handed, Free
  <2> QED BY <1>1, <1>2, <2>1 DEF IInv, Gathering
<1>9. \A e \in Entities : /\ Pending(e)' <=> Pending(e)
                          /\ CalledBack(e)' <=> CalledBack(e)
                          /\ life'[e] = "gone" <=> life[e] = "gone"
                          /\ Freed(e)' <=> Freed(e)
  BY <1>1, <1>2 DEF Pending, CalledBack, Freed
<1>10. Pending(cur) /\ ~CalledBack(cur) /\ cur # None /\ cur # Local
  BY <1>1, Kinds DEF Pending, CalledBack
<1>11. OneRequest'
  <2>1. ASSUME NEW e \in Entities
        PROVE  /\ \A i \in DOMAIN dqueue' : dqueue'[i] = e => Handed(e)' /\ Pending(e)' /\ e # cur'
               /\ \A i, j \in DOMAIN dqueue' : dqueue'[i] = e /\ dqueue'[j] = e => i = j
               /\ \A i \in DOMAIN queue', j \in DOMAIN dqueue' : queue'[i] = e => dqueue'[j] # e
    <3>0. e # cur'  BY <1>1, Kinds
    <3>1. CASE e = cur
      <4>1. Handed(e)' /\ Pending(e)'  BY <1>5, <1>7, <1>9, <1>10, <3>1
      <4> QED BY <1>1, <1>3, <1>7, <3>0, <3>1, <4>1
    <3>2. CASE e # cur  BY <1>1, <1>3, <1>5, <1>9, <3>0, <3>2 DEF IInv, OneRequest
    <3> QED BY <3>1, <3>2
  <2>2. ASSUME NEW e \in Entities
        PROVE  /\ \A i \in DOMAIN queue' : queue'[i] = e => Handed(e)' /\ Pending(e)' /\ e # cur'
               /\ \A i, j \in DOMAIN queue' : queue'[i] = e /\ queue'[j] = e => i = j
               /\ cur' = e => Handed(e)'
               /\ CalledBack(e)' => Handed(e)' /\ req'[e].ivs = {}
               /\ life'[e] = "gone" /\ e # Local => cur' = e
    <3>1. cur' # e  BY <1>1, Kinds
    <3> QED BY <1>1, <1>5, <1>9, <1>10, <3>1 DEF IInv, OneRequest
  <2> QED BY <2>1, <2>2 DEF OneRequest
<1>12. Underway'
  <2>1. ASSUME NEW e \in Entities, Pending(e)
        PROVE  \/ \E u \in Threads : thr[u].w = e /\ thr[u].at = "gather"
               \/ \E i \in DOMAIN queue : queue[i] = e
               \/ \E i \in DOMAIN dqueue' : dqueue'[i] = e
    <3>1. CASE e = cur  BY <1>3, <3>1
    <3>2. CASE e # cur  BY <1>3, <2>1, <3>2 DEF IInv, Underway
    <3> QED BY <3>1, <3>2
  <2> QED BY <1>1, <1>9, <2>1 DEF Underway
<1>13. AllCounted'
  <2>1. InHand /\ ~InHand'  BY <1>1, <1>10 DEF InHand
  <2>2. Len(queue) \in Nat /\ count \in Nat  BY DEF IInv, TypeOK
  <2> QED BY <1>1, <1>3, <2>1, <2>2 DEF IInv, AllCounted
<1>14. Collecting'
  BY <1>1 DEF IInv, Collecting
<1>15. Referenced'
  <2>1. refs \subseteq Entities /\ Local \in Entities  BY Kinds DEF IInv, TypeOK
  <2> QED BY <1>1, <1>9, <2>1, Kinds DEF IInv, Referenced
<1>16. Phases'
  <2>1. \A e \in Entities : life'[e] = "indexed" <=> life[e] = "indexed"
    BY <1>1, <1>2
  <2> QED BY <1>1, <1>9, <2>1, Kinds DEF IInv, Phases
<1> QED BY <1>5, <1>6, <1>8, <1>11, <1>12, <1>13, <1>14, <1>15, <1>16 DEF IInv

\* The delivery thread puts it back.
LEMMA RequeueStep == ASSUME IInv, gcreq_requeue PROVE IInv'
<1>1. /\ dqueue # <<>> /\ queue' = Append(queue, Head(dqueue)) /\ dqueue' = Tail(dqueue)
      /\ UNCHANGED <<thr, wr, life, req, refs, dying, cur, count, terminate, main>>
  BY DEF gcreq_requeue, ents
<1>2. /\ dqueue \in Seq(Proxies) /\ queue \in Seq(Entities \cup {NoOp})
      /\ Proxies \subseteq Entities \cup {NoOp}
  BY Kinds DEF IInv, TypeOK
<1>3. PICK p \in Proxies : p = Head(dqueue)
  BY <1>1, <1>2, Taken
<1>4. /\ dqueue' \in Seq(Proxies)
      /\ Len(dqueue) \in Nat /\ Len(dqueue) > 0 /\ Len(dqueue') = Len(dqueue) - 1
      /\ 1 \in DOMAIN dqueue /\ dqueue[1] = p
      /\ \A i \in DOMAIN dqueue' : /\ i \in Nat /\ i + 1 \in DOMAIN dqueue /\ i + 1 # 1
                                   /\ dqueue'[i] = dqueue[i + 1]
      /\ \A i \in DOMAIN dqueue :
            i = 1 \/ (i - 1 \in DOMAIN dqueue' /\ dqueue'[i - 1] = dqueue[i])
  BY <1>1, <1>2, <1>3, Taken
<1>5. /\ queue' \in Seq(Entities \cup {NoOp}) /\ Len(queue) \in Nat
      /\ Len(queue') = Len(queue) + 1
      /\ Len(queue) + 1 \in DOMAIN queue' /\ queue'[Len(queue) + 1] = p
      /\ \A i \in DOMAIN queue : i \in DOMAIN queue' /\ queue'[i] = queue[i]
      /\ \A i \in DOMAIN queue' :
            i = Len(queue) + 1 \/ (i \in DOMAIN queue /\ queue'[i] = queue[i])
  BY <1>1, <1>2, <1>3, Appended
<1>6. TypeOK'
  BY <1>1, <1>4, <1>5 DEF IInv, TypeOK
<1>7. /\ Stages' /\ Gathering'
      /\ \A e \in Entities : Handed(e) => Handed(e)'
  BY <1>1 DEF IInv, Stages, Live, Free, Gathering, Handed
<1>8. Covered'
  BY <1>1 DEF IInv, Covered, Counted
<1>9. /\ p \in Entities /\ Handed(p) /\ Pending(p) /\ p # cur
      /\ \A i \in DOMAIN queue : queue[i] # p
      /\ \A i \in DOMAIN dqueue' : dqueue'[i] # p
  <2>1. \A i \in DOMAIN queue : queue[i] # p
    BY <1>3, <1>4, Kinds DEF IInv, OneRequest
  <2>2. \A i \in DOMAIN dqueue' : dqueue'[i] # p
    BY <1>3, <1>4, Kinds DEF IInv, OneRequest
  <2> QED BY <1>3, <1>4, <2>1, <2>2, Kinds DEF IInv, OneRequest
<1>10. OneRequest'
  <2>1. ASSUME NEW e \in Entities
        PROVE  /\ \A i \in DOMAIN queue' : queue'[i] = e => Handed(e)' /\ Pending(e)' /\ e # cur'
               /\ \A i, j \in DOMAIN queue' : queue'[i] = e /\ queue'[j] = e => i = j
               /\ \A i \in DOMAIN queue', j \in DOMAIN dqueue' : queue'[i] = e => dqueue'[j] # e
    <3>1. CASE e = p
      <4>1. Pending(p)' /\ Handed(p)'  BY <1>1, <1>7, <1>9 DEF Pending
      <4> QED BY <1>1, <1>5, <1>9, <3>1, <4>1
    <3>2. CASE e # p
      BY <1>1, <1>4, <1>5, <1>7, <3>2 DEF IInv, OneRequest, Pending
    <3> QED BY <3>1, <3>2
  <2>2. ASSUME NEW e \in Entities
        PROVE  /\ \A i \in DOMAIN dqueue' : dqueue'[i] = e => Handed(e)' /\ Pending(e)' /\ e # cur'
               /\ \A i, j \in DOMAIN dqueue' : dqueue'[i] = e /\ dqueue'[j] = e => i = j
    <3>1. \A i \in DOMAIN dqueue' : dqueue'[i] = e => Handed(e)' /\ Pending(e)' /\ e # cur'
      BY <1>1, <1>4, <1>7 DEF IInv, OneRequest, Pending
    <3>2. ASSUME NEW i \in DOMAIN dqueue', NEW j \in DOMAIN dqueue', dqueue'[i] = e, dqueue'[j] = e
          PROVE  i = j
      <4>1. i + 1 = j + 1  BY <1>4, <3>2 DEF IInv, OneRequest
      <4>2. i \in Nat /\ j \in Nat  BY <1>4
      <4> QED BY <4>1, <4>2
    <3> QED BY <3>1, <3>2
  <2>3. \A e \in Entities :
           /\ cur' = e => Handed(e)'
           /\ CalledBack(e)' => Handed(e)' /\ req'[e].ivs = {}
           /\ life'[e] = "gone" /\ e # Local => cur' = e
    BY <1>1, <1>7 DEF IInv, OneRequest, CalledBack
  <2> QED BY <2>1, <2>2, <2>3 DEF OneRequest
<1>11. Underway'
  <2>1. ASSUME NEW e \in Entities, \E i \in DOMAIN dqueue : dqueue[i] = e
        PROVE  \/ \E i \in DOMAIN queue' : queue'[i] = e
               \/ \E i \in DOMAIN dqueue' : dqueue'[i] = e
    BY <1>4, <1>5, <2>1
  <2>2. ASSUME NEW e \in Entities, \E i \in DOMAIN queue : queue[i] = e
        PROVE  \E i \in DOMAIN queue' : queue'[i] = e
    BY <1>5, <2>2
  <2> QED BY <1>1, <2>1, <2>2 DEF IInv, Underway, Pending
<1>12. AllCounted'
  <2>1. InHand' <=> InHand  BY <1>1 DEF InHand
  <2>2. count \in Nat  BY DEF IInv, TypeOK
  <2> QED BY <1>1, <1>4, <1>5, <2>1, <2>2 DEF IInv, AllCounted
<1>13. Collecting' /\ Referenced' /\ Phases'
  BY <1>1 DEF IInv, Collecting, Referenced, Phases, Pending, CalledBack, Freed
<1> QED BY <1>6, <1>7, <1>8, <1>10, <1>11, <1>12, <1>13 DEF IInv

\* The request is counted out, and its gc_delete function called.
LEMMA GcCallbackStep == ASSUME IInv, GcCallback PROVE IInv'
<1>1. /\ cur \in Entities /\ req[cur].ivs = {} /\ count' = count - 1 /\ thr[Gc].at = "idle"
      /\ life' = [life EXCEPT ![cur] = "gone"]
      /\ thread_state_awake(Gc, "callback", None, "here")
      /\ UNCHANGED <<wr, req, refs, dying, queue, cur, terminate, dqueue, main>>
  BY DEF GcCallback, Ready, Waiting, gcreq_free
<1>2. /\ life' \in [Entities -> {"indexed", "deleting", "bubble", "gone", "freed"}]
      /\ life'[cur] = "gone" /\ \A e \in Entities : e # cur => life'[e] = life[e]
  BY <1>1 DEF IInv, TypeOK
<1>3. /\ thr' \in [Threads -> ThreadState] /\ \A u \in Threads : u # Gc => thr'[u] = thr[u]
      /\ thr'[Gc].at = "callback" /\ thr'[Gc].awake /\ thr'[Gc].gv = "here"
  BY <1>1, AwakeFacts, PlacesAre, Kinds DEF IInv, TypeOK
<1>4. Pending(cur) /\ cur # None /\ life[cur] # "indexed" /\ ~CalledBack(cur)
  BY <1>1, Kinds DEF IInv, Collecting, Pending, CalledBack
<1>5. GcMoves
  BY <1>1, <1>2, <1>3, <1>4 DEF GcMoves
<1>6. /\ Stages' /\ Covered'
      /\ \A e \in Entities : Handed(e) => Handed(e)'
      /\ \A u \in Threads : /\ thr'[u].at = "gather" <=> thr[u].at = "gather"
                            /\ thr[u].at = "gather" => thr'[u] = thr[u]
  BY <1>5, GcStep
<1>7. /\ Handed(cur) /\ (\A i \in DOMAIN queue : queue[i] # cur)
      /\ \A i \in DOMAIN dqueue : dqueue[i] # cur
  BY <1>1 DEF IInv, OneRequest
<1>8. InHand /\ ~InHand'
  BY <1>1, <1>3, <1>4 DEF InHand
<1>9. AllCounted' /\ count' \in Nat
  <2>1. Len(queue) \in Nat /\ Len(dqueue) \in Nat /\ count \in Nat  BY DEF IInv, TypeOK
  <2> QED BY <1>1, <1>8, <2>1 DEF IInv, AllCounted
<1>10. TypeOK'
  BY <1>1, <1>2, <1>3, <1>9 DEF IInv, TypeOK
<1>11. Gathering'
  <2>1. \A u \in Threads : thr[u].at = "gather" => thr[u].w # cur
    BY <1>7 DEF Handed, Free
  <2> QED BY <1>2, <1>6, <2>1 DEF IInv, Gathering
<1>12. \A e \in Entities : e # cur =>
          /\ Pending(e)' <=> Pending(e)
          /\ CalledBack(e)' <=> CalledBack(e)
          /\ life'[e] = life[e]
  BY <1>2 DEF Pending, CalledBack
<1>13. ~Pending(cur)' /\ CalledBack(cur)'
  BY <1>1, <1>2 DEF Pending, CalledBack
<1>14. OneRequest'
  <2>1. ASSUME NEW e \in Entities
        PROVE  /\ \A i \in DOMAIN queue' : queue'[i] = e => Handed(e)' /\ Pending(e)' /\ e # cur'
               /\ \A i \in DOMAIN dqueue' : dqueue'[i] = e => Handed(e)' /\ Pending(e)' /\ e # cur'
               /\ cur' = e => Handed(e)'
               /\ CalledBack(e)' => Handed(e)' /\ req'[e].ivs = {}
               /\ life'[e] = "gone" /\ e # Local => cur' = e
    <3>1. CASE e = cur  BY <1>1, <1>6, <1>7, <3>1
    <3>2. CASE e # cur  BY <1>1, <1>6, <1>12, <3>2 DEF IInv, OneRequest
    <3> QED BY <3>1, <3>2
  <2>2. \A e \in Entities :
           /\ \A i, j \in DOMAIN queue' : queue'[i] = e /\ queue'[j] = e => i = j
           /\ \A i, j \in DOMAIN dqueue' : dqueue'[i] = e /\ dqueue'[j] = e => i = j
           /\ \A i \in DOMAIN queue', j \in DOMAIN dqueue' : queue'[i] = e => dqueue'[j] # e
    BY <1>1 DEF IInv, OneRequest
  <2> QED BY <2>1, <2>2 DEF OneRequest
<1>15. Underway'
  BY <1>1, <1>6, <1>12, <1>13 DEF IInv, Underway
<1>16. Collecting'
  BY <1>1, <1>3, <1>13 DEF IInv, Collecting, GcPlaces
<1>17. Referenced'
  <2>1. refs \subseteq Entities /\ Ours \subseteq Entities /\ Local \in Entities
    BY Kinds DEF IInv, TypeOK
  <2>2. \A e \in Ours \ refs : CalledBack(e)'
    BY <1>1, <1>2, <1>12, <2>1 DEF IInv, Referenced, CalledBack
  <2>3. \A e \in refs : CalledBack(e)' => cur' = e /\ thr'[Gc].at = "callback"
    BY <1>1, <1>3, <1>12, <2>1 DEF IInv, Referenced
  <2>4. cur \in Ours => cur \in refs
    BY <1>4 DEF IInv, Referenced
  <2>5. Freed(Local)' <=> Freed(Local)
    BY <1>2, <1>4, <2>1 DEF Freed, CalledBack
  <2>6. ~dying => \A b \in Builtins : life'[b] = "indexed"
    BY <1>2, <1>4, Kinds DEF IInv, Referenced
  <2> QED BY <1>1, <1>3, <2>2, <2>3, <2>4, <2>5, <2>6 DEF IInv, Referenced
<1>18. Phases'
  <2>1. main # "joined"  BY <1>4 DEF IInv, Phases
  <2>2. \A e \in Entities : /\ life[e] # "indexed" => life'[e] # "indexed"
                            /\ CalledBack(e) => CalledBack(e)'
    BY <1>1, <1>2, <1>12 DEF CalledBack
  <2>3. Freed(Local) => Freed(Local)'
    BY <1>2, <1>4, Kinds DEF Freed, CalledBack
  <2>4. /\ \A e \in Proxies \cup Writers \cup {Local} : e \in Entities
        /\ \A u \in Receivers \cup Timers : u \in Threads \ {Gc}
    BY Kinds DEF Threads
  <2> QED BY <1>1, <1>3, <2>1, <2>2, <2>3, <2>4 DEF IInv, Phases
<1> QED BY <1>6, <1>9, <1>10, <1>11, <1>14, <1>15, <1>16, <1>17, <1>18 DEF IInv

\* The reference to the participant is given up: the last user's begins to
\* delete the built-in endpoints, the last of all frees the participant.
LEMMA GcUnrefStep == ASSUME IInv, GcUnref PROVE IInv'
<1> DEFINE left == refs \ {cur}
<1>1. /\ thr[Gc].at = "callback" /\ refs' = left
      /\ UNCHANGED <<wr, req, queue, cur, count, terminate, dqueue, main>>
  BY DEF GcUnref
<1>2. /\ cur \in Entities /\ CalledBack(cur) /\ cur # None
      /\ Ours \subseteq Entities /\ Local \in Ours /\ Builtins \subseteq Entities
      /\ Builtins \subseteq Ours
  BY <1>1, Kinds DEF IInv, Collecting, Ours
<1>3. /\ thr' \in [Threads -> ThreadState] /\ \A u \in Threads : u # Gc => thr'[u] = thr[u]
      /\ thr'[Gc].awake = thr[Gc].awake /\ thr'[Gc].gv = thr[Gc].gv
      /\ \/ /\ thr'[Gc].at = "builtins" /\ dying' = TRUE /\ UNCHANGED life
            /\ cur \in Ours /\ DeletesBuiltins(left)
         \/ /\ thr'[Gc].at = "done" /\ UNCHANGED dying
            /\ life' = IF left = {} THEN [life EXCEPT ![Local] = "freed"] ELSE life
            /\ ~(cur \in Ours /\ DeletesBuiltins(left))
  <2>0. thr \in [Threads -> ThreadState]  BY DEF IInv, TypeOK
  <2>1. CASE /\ cur \in Ours /\ DeletesBuiltins(left) /\ dying' = TRUE
             /\ GotoWith(Gc, "builtins", None) /\ UNCHANGED life
    BY <2>0, <2>1, GotoFacts, PlacesAre, Kinds
  <2>2. CASE /\ ~(cur \in Ours /\ DeletesBuiltins(left))
             /\ life' = IF left = {} THEN [life EXCEPT ![Local] = "freed"] ELSE life
             /\ GotoWith(Gc, "done", None) /\ UNCHANGED dying
    BY <2>0, <2>2, GotoFacts, PlacesAre, Kinds
  <2> HIDE DEF left
  <2> QED BY <2>1, <2>2 DEF GcUnref, left
<1>4. \A e \in Ours : e \notin left => CalledBack(e)
  BY <1>2 DEF IInv, Referenced
<1>5. \A e \in left : ~CalledBack(e)
  BY <1>1 DEF IInv, Referenced
<1>6. ~dying => Builtins \subseteq left
  <2>1. \A b \in Builtins : ~dying => ~CalledBack(b)
    BY DEF IInv, Referenced, CalledBack
  <2> QED BY <1>2, <1>4, <2>1
<1>7. thr'[Gc].at = "builtins" => left # {}
  BY <1>3, <1>6 DEF DeletesBuiltins
<1>8. /\ life' \in [Entities -> {"indexed", "deleting", "bubble", "gone", "freed"}]
      /\ \A e \in Entities : e # Local => life'[e] = life[e]
      /\ left # {} => life' = life
      /\ left = {} => life'[Local] = "freed" /\ CalledBack(Local)
  <2>1. life \in [Entities -> {"indexed", "deleting", "bubble", "gone", "freed"}]
    BY DEF IInv, TypeOK
  <2>2. left = {} => life' = [life EXCEPT ![Local] = "freed"]
    BY <1>3, <1>7
  <2>3. left # {} => life' = life
    BY <1>3
  <2>4. left = {} => CalledBack(Local)
    BY <1>2, <1>4
  <2> HIDE DEF left
  <2> QED BY <1>2, <2>1, <2>2, <2>3, <2>4
<1> HIDE DEF left
<1>9. \A e \in Entities : /\ life'[e] = "indexed" <=> life[e] = "indexed"
                          /\ Pending(e)' <=> Pending(e)
                          /\ CalledBack(e)' <=> CalledBack(e)
                          /\ (life[e] = "gone" /\ e # Local)' <=> (life[e] = "gone" /\ e # Local)
  <2>1. CASE left # {}  BY <1>8, <2>1 DEF Pending, CalledBack
  <2>2. CASE left = {}
    <3>1. CASE life[Local] \in {"gone", "freed"} /\ life'[Local] = "freed"
      BY <1>8, <3>1 DEF Pending, CalledBack
    <3> QED BY <1>8, <2>2, <3>1 DEF CalledBack
  <2> QED BY <2>1, <2>2
<1>10. thr[Gc].awake /\ thr[Gc].gv = "here"
  BY <1>1, Kinds DEF IInv, Covered, Awakened
<1>11. GcMoves
  BY <1>1, <1>3, <1>9, <1>10 DEF GcMoves
<1>12. /\ Stages' /\ Covered'
       /\ \A e \in Entities : Handed(e) => Handed(e)'
       /\ \A u \in Threads : /\ thr'[u].at = "gather" <=> thr[u].at = "gather"
                             /\ thr[u].at = "gather" => thr'[u] = thr[u]
  BY <1>11, GcStep
<1>13. TypeOK'
  <2>1. refs' \in SUBSET Ours /\ dying' \in BOOLEAN
    BY <1>1, <1>3 DEF IInv, TypeOK, left
  <2> QED BY <1>1, <1>3, <1>8, <2>1 DEF IInv, TypeOK
<1>14. Gathering'
  <2>1. \A e \in Entities : life[e] = "deleting" => life'[e] = "deleting"
    BY <1>8, <1>9 DEF CalledBack
  <2> QED BY <1>12, <2>1 DEF IInv, Gathering
<1>15. OneRequest'
  BY <1>1, <1>9, <1>12 DEF IInv, OneRequest
<1>16. Underway'
  BY <1>1, <1>9, <1>12 DEF IInv, Underway
<1>17. AllCounted'
  <2>1. ~InHand /\ ~InHand'  BY <1>1, <1>3 DEF InHand
  <2> QED BY <1>1, <2>1 DEF IInv, AllCounted
<1>18. Collecting'
  <2>1. CalledBack(cur)'  BY <1>1, <1>2, <1>9 DEF CalledBack
  <2> QED BY <1>1, <1>2, <1>3, <2>1 DEF IInv, Collecting, GcPlaces
<1>19. Referenced'
  <2>1. left \subseteq Entities  BY <1>2 DEF IInv, TypeOK, left
  <2>2. /\ \A e \in Ours \ left : CalledBack(e)'
        /\ \A e \in left : ~CalledBack(e)'
    BY <1>2, <1>4, <1>5, <1>9, <2>1
  <2>3. Freed(Local)' <=> left = {}
    <3>1. CASE left # {}
      <4>1. refs # {} /\ ~Freed(Local)  BY <3>1 DEF left, IInv, Referenced
      <4> QED BY <1>8, <3>1, <4>1 DEF Freed
    <3>2. CASE left = {}  BY <1>8, <3>2 DEF Freed
    <3> QED BY <3>1, <3>2
  <2>4. ~dying' => \A b \in Builtins : life'[b] = "indexed"
    BY <1>2, <1>3, <1>9 DEF IInv, Referenced
  <2>5. thr'[Gc].at \in {"gather", "builtins"} => dying'
    BY <1>3
  <2>6. thr'[Gc].at # "callback"  BY <1>3
  <2> QED BY <1>1, <2>2, <2>3, <2>4, <2>5, <2>6 DEF Referenced
<1>20. Phases'
  <2>1. main # "joined"  BY <1>2 DEF IInv, Phases
  <2>2. Freed(Local) => Freed(Local)'
    BY <1>8 DEF Freed
  <2>3. /\ \A e \in Proxies \cup Writers \cup {Local} : e \in Entities
        /\ \A u \in Receivers \cup Timers : u \in Threads \ {Gc}
    BY Kinds DEF Threads
  <2> QED BY <1>1, <1>3, <1>9, <2>1, <2>2, <2>3 DEF IInv, Phases
<1> QED BY <1>12, <1>13, <1>14, <1>15, <1>16, <1>17, <1>18, <1>19, <1>20 DEF IInv

\* The memory is given back last.
LEMMA GcFreeStep == ASSUME IInv, GcFree PROVE IInv'
<1>1. /\ thr[Gc].at \in {"done", "builtins"} /\ cur' = None
      /\ life' = IF cur = Local THEN life ELSE [life EXCEPT ![cur] = "freed"]
      /\ thread_state_asleep(Gc, "idle", None)
      /\ UNCHANGED <<wr, req, refs, dying, queue, count, terminate, dqueue, main>>
  BY DEF GcFree
<1>2. cur \in Entities /\ CalledBack(cur) /\ cur # None
  BY <1>1, Kinds DEF IInv, Collecting
<1>3. /\ thr' \in [Threads -> ThreadState] /\ \A u \in Threads : u # Gc => thr'[u] = thr[u]
      /\ thr'[Gc].at = "idle"
  BY <1>1, AsleepFacts, PlacesAre, Kinds DEF IInv, TypeOK
<1>4. /\ life' \in [Entities -> {"indexed", "deleting", "bubble", "gone", "freed"}]
      /\ \A e \in Entities : e # cur => life'[e] = life[e]
      /\ cur # Local => life'[cur] = "freed"
      /\ cur = Local => life' = life
  BY <1>1, <1>2 DEF IInv, TypeOK
<1>5. \A e \in Entities : /\ life'[e] = "indexed" <=> life[e] = "indexed"
                          /\ Pending(e)' <=> Pending(e)
                          /\ CalledBack(e)' <=> CalledBack(e)
                          /\ Freed(e) => Freed(e)'
                          /\ life[e] = "deleting" => life'[e] = "deleting"
                          /\ life'[e] = "gone" => life[e] = "gone" /\ (e = Local \/ e # cur)
  <2>1. life[cur] \in {"gone", "freed"}  BY <1>2 DEF CalledBack
  <2> QED BY <1>4, <2>1 DEF Pending, CalledBack, Freed
<1>6. GcMoves
  BY <1>1, <1>3, <1>5 DEF GcMoves
<1>7. /\ Stages' /\ Covered'
      /\ \A e \in Entities : Handed(e) => Handed(e)'
      /\ \A u \in Threads : /\ thr'[u].at = "gather" <=> thr[u].at = "gather"
                            /\ thr[u].at = "gather" => thr'[u] = thr[u]
  BY <1>6, GcStep
<1>8. TypeOK'
  BY <1>1, <1>3, <1>4 DEF IInv, TypeOK
<1>9. Gathering'
  BY <1>5, <1>7 DEF IInv, Gathering
<1>10. OneRequest'
  <2>1. \A e \in Entities : cur' # e  BY <1>1, Kinds
  <2>2. \A e \in Entities : life'[e] = "gone" => e = Local
    BY <1>5 DEF IInv, OneRequest
  <2> QED BY <1>1, <1>5, <1>7, <2>1, <2>2 DEF IInv, OneRequest
<1>11. Underway'
  <2>1. ~Pending(cur)
    BY <1>2 DEF Pending, CalledBack
  <2> QED BY <1>1, <1>5, <1>7, <2>1 DEF IInv, Underway
<1>12. AllCounted'
  <2>1. ~InHand /\ ~InHand'  BY <1>1, <1>3 DEF InHand
  <2> QED BY <1>1, <2>1 DEF IInv, AllCounted
<1>13. Collecting'
  BY <1>1, <1>3 DEF IInv, Collecting
<1>14. Referenced'
  <2>1. refs \subseteq Entities /\ Ours \subseteq Entities /\ Local \in Entities
        /\ Builtins \subseteq Entities
    BY Kinds DEF IInv, TypeOK
  <2>2. \A e \in refs : ~CalledBack(e)
    BY <1>1 DEF IInv, Referenced
  <2>3. Freed(Local)' <=> Freed(Local)
    BY <1>4, <2>1 DEF Freed
  <2> QED BY <1>1, <1>3, <1>5, <2>1, <2>2, <2>3 DEF IInv, Referenced
<1>15. Phases'
  <2>1. main # "joined"  BY <1>2 DEF IInv, Phases
  <2>2. /\ \A e \in Proxies \cup Writers \cup {Local} : e \in Entities
        /\ \A u \in Receivers \cup Timers : u \in Threads \ {Gc}
    BY Kinds DEF Threads
  <2> QED BY <1>1, <1>3, <1>5, <2>1, <2>2 DEF IInv, Phases
<1> QED BY <1>7, <1>8, <1>9, <1>10, <1>11, <1>12, <1>13, <1>14, <1>15 DEF IInv

LEMMA GcNoOpStep == ASSUME IInv, GcNoOp PROVE IInv'
<1>1. /\ cur = NoOp /\ cur' = None /\ count' = count - 1
      /\ UNCHANGED <<thr, wr, life, req, refs, dying, queue, terminate, dqueue, main>>
  BY DEF GcNoOp, gcreq_free, ents
<1>2. thr[Gc].at = "idle" /\ cur # None
  BY <1>1, Kinds DEF IInv, Collecting
<1>3. GcMoves
  BY <1>1, <1>2, GcStays
<1>4. /\ Stages' /\ Covered' /\ Gathering'
      /\ \A e \in Entities : Handed(e) => Handed(e)'
  BY <1>1, <1>3, GcStep DEF IInv, Gathering
<1>5. AllCounted' /\ count' \in Nat
  <2>1. Len(queue) \in Nat /\ Len(dqueue) \in Nat /\ count \in Nat  BY DEF IInv, TypeOK
  <2>2. InHand /\ ~InHand'  BY <1>1, <1>2 DEF InHand
  <2> QED BY <1>1, <2>1, <2>2 DEF IInv, AllCounted
<1>6. TypeOK'
  BY <1>1, <1>5 DEF IInv, TypeOK
<1>7. \A e \in Entities : cur # e /\ cur' # e
  BY <1>1, Kinds
<1>8. OneRequest'
  BY <1>1, <1>4, <1>7 DEF IInv, OneRequest, Pending, CalledBack
<1>9. Underway'
  BY <1>1, <1>7 DEF IInv, Underway, Pending
<1>10. Collecting'
  BY <1>1, <1>2 DEF IInv, Collecting
<1>11. Referenced'
  <2>1. refs \subseteq Entities  BY Kinds DEF IInv, TypeOK
  <2> QED BY <1>1, <1>2, <1>7, <2>1 DEF IInv, Referenced, CalledBack, Freed
<1>12. Phases'
  BY <1>1, <1>2 DEF IInv, Phases, CalledBack, Freed
<1> QED BY <1>4, <1>5, <1>6, <1>8, <1>9, <1>10, <1>11, <1>12 DEF IInv

\* A request for an entity that is not a writer of the application's.
LEMMA OtherRequestStep ==
  ASSUME IInv, NEW t \in Threads, NEW e \in Entities \ Writers,
         gcreq_new(t, e), UNCHANGED <<wr, gcq>>, life[e] = "indexed",
         \/ t # Gc /\ thr[t].at = "stopping" /\ e \notin Builtins
         \/ t = Gc /\ thr[t].at = "builtins" /\ e \in Builtins
  PROVE  IInv'
<1>1. /\ thr' \in [Threads -> ThreadState] /\ \A u \in Threads : u # t => thr'[u] = thr[u]
      /\ thr'[t].at = "gather" /\ thr'[t].w = e
      /\ \A x \in Entities : x # e => life'[x] = life[x]
      /\ TypeOK' /\ Covered' /\ Gathering' /\ OneRequest' /\ Underway'
      /\ AllCounted' /\ Collecting' /\ Referenced' /\ Phases'
  <2>1. wr' \in [Writers -> WriterState] /\ UNCHANGED gcq /\ e \in Entities
    BY DEF IInv, TypeOK
  <2>2. thr[t].at \in Awakened /\ thr[t].at # "gather"
    BY DEF Awakened
  <2> QED BY <2>1, <2>2, RequestStep
<1>2. main' = main /\ wr' = wr
  BY DEF gcq
<1>3. \A w \in Writers : /\ life'[w] = life[w]
                         /\ Free(w, HasPin) => Free(w, HasPin)'
                         /\ Free(w, Late) => Free(w, Late)'
  BY <1>1, Kinds DEF Free
<1>4. thr'[t].at \notin HasPin \cup Early \cup {"found", "close"}
  BY <1>1 DEF HasPin, HasMutex, Early
<1>5. Stages'
  <2>1. \A w \in Writers : /\ (life[w] = "indexed" <=> wr[w].state # "DELETING")'
                           /\ (Live(w) => ~wr[w].timer /\ Free(w, Late))'
                           /\ (~Live(w) => (wr[w].closing \/ main # "running") /\ Free(w, HasPin))'
    BY <1>2, <1>3 DEF IInv, Stages, Live
  <2>2. \A u \in Threads, w \in Writers : thr'[u].w = w =>
           /\ (thr[u].at \in Early => Live(w) /\ wr[w].closing)'
           /\ (thr[u].at = "close" => Free(w, HasPin))'
    BY <1>1, <1>2, <1>3, <1>4 DEF IInv, Stages, Live
  <2>3. \A x, u \in Threads :
           thr'[x].w = thr'[u].w /\ thr'[x].at \in Early /\ thr'[u].at \in Early => x = u
    BY <1>1, <1>4 DEF IInv, Stages
  <2>4. \A u \in Threads :
           thr'[u].at \in (HasPin \cup Early \cup Late \cup {"found"}) \ {"gather"} =>
           thr'[u].w \in Writers
    BY <1>1 DEF IInv, Stages
  <2> QED BY <2>1, <2>2, <2>3, <2>4 DEF Stages
<1> QED BY <1>1, <1>5 DEF IInv

LEMMA BuiltinStep ==
  ASSUME IInv, NEW b \in Builtins, delete_builtin_endpoint(b) PROVE IInv'
<1>1. b \in Entities \ Writers /\ Gc \in Threads
  BY Kinds
<1>2. /\ thr[Gc].at = "builtins" /\ life[b] = "indexed" /\ gcreq_new(Gc, b)
      /\ UNCHANGED <<wr, gcq>>
  BY DEF delete_builtin_endpoint, index
<1> QED BY <1>1, <1>2, OtherRequestStep

----------------------------------------------------------------------------
(* The shutdown.                                                            *)

LEMMA DeletePptStep ==
  ASSUME IInv, NEW t \in Threads, NEW e \in Proxies, delete_ppt(t, e) PROVE IInv'
<1>1. e \in Entities \ Writers /\ e \notin Builtins
  BY Kinds
<1>2. /\ thr[t].at = "stopping" /\ life[e] = "indexed" /\ gcreq_new(t, e)
      /\ UNCHANGED <<wr, gcq>>
  BY DEF delete_ppt, Stopping, index
<1>3. t # Gc
  BY <1>2 DEF IInv, Collecting, GcPlaces
<1> QED BY <1>1, <1>2, <1>3, OtherRequestStep

LEMMA StoppedWriterStep ==
  ASSUME IInv, NEW t \in Threads, NEW w \in Writers, ddsi_delete_writer_nolinger(t, w)
  PROVE  IInv'
<1>1. /\ thr[t].at = "stopping" /\ life[w] = "indexed"
      /\ delete_writer_nolinger_locked(t, w, "stopping") /\ UNCHANGED gcq
  BY DEF ddsi_delete_writer_nolinger, Stopping, index
<1>2. t # Gc
  BY <1>1 DEF IInv, Collecting, GcPlaces
<1> QED BY <1>1, <1>2, NoLingerStep

LEMMA ParticipantStep ==
  ASSUME IInv, NEW t \in Threads, ddsi_delete_participant(t) PROVE IInv'
<1>1. Local \in Entities \ Writers /\ Local \notin Builtins
  BY Kinds
<1>2. /\ thr[t].at = "stopping" /\ life[Local] = "indexed" /\ gcreq_new(t, Local)
      /\ UNCHANGED <<wr, gcq>>
  BY DEF ddsi_delete_participant, Stopping, index
<1>3. t # Gc
  BY <1>2 DEF IInv, Collecting, GcPlaces
<1> QED BY <1>1, <1>2, <1>3, OtherRequestStep

\* The thread that stops the domain goes from one phase to the next.
Loops == {"running", "proxies", "writers", "participants"}

LEMMA PhaseStep ==
  ASSUME IInv, NEW t \in Threads, t # Gc, thr[t].at \in {"idle", "stopping"},
         thr' \in [Threads -> ThreadState], \A u \in Threads : u # t => thr'[u] = thr[u],
         thr'[t].at \in {"stopping", "stopped"},
         thr'[t].at = "stopping" => thr'[t].awake /\ thr'[t].gv = "here",
         main \in Loops, main' \in {"proxies", "writers", "participants", "waiting"},
         UNCHANGED <<life, req, refs, dying, queue, cur, count, terminate, dqueue>>,
         wr' \in [Writers -> WriterState],
         \A w \in Writers : /\ wr'[w].state = wr[w].state /\ wr'[w].closing = wr[w].closing
                            /\ wr'[w].timer => wr[w].timer,
         Phases'
  PROVE  IInv'
<1>0. thr'[Gc] = thr[Gc]
  BY Kinds
<1>1. TypeOK'
  BY DEF IInv, TypeOK
<1>2. thr'[t].at \notin HasPin \cup Early \cup Late \cup ByTime \cup {"callback", "builtins", "done"}
  BY DEF HasPin, HasMutex, Early, Late, ByTime
<1>3. Stages'
  <2>1. \A w \in Writers : /\ Live(w)' <=> Live(w)
                           /\ Free(w, HasPin) => Free(w, HasPin)'
                           /\ Free(w, Late) => Free(w, Late)'
    BY <1>2 DEF Free, Live
  <2>2. \A u \in Threads : thr'[u].at \in HasPin \cup Early \cup Late \cup {"found", "close"} =>
           u # t /\ thr'[u] = thr[u]
    BY <1>2 DEF ByTime
  <2>3. main' # "running"
    OBVIOUS
  <2> QED BY <2>1, <2>2, <2>3 DEF IInv, Stages
<1>4. Covered'
  <2>1. ASSUME NEW u \in Threads, NEW e \in Entities,
               thr'[u].w = e /\ thr'[u].at \in ByTime /\ life'[e] # "indexed"
        PROVE  Counted(u, e)'
    <3>1. thr'[u] = thr[u]  BY <1>2, <2>1
    <3>2. Counted(u, e)  BY <2>1, <3>1 DEF IInv, Covered
    <3> QED BY <3>1, <3>2 DEF Counted
  <2>2. \A u \in Threads : thr'[u].at \in Awakened => thr'[u].awake /\ thr'[u].gv = "here"
    BY <1>2 DEF IInv, Covered, Awakened
  <2> QED BY <2>1, <2>2 DEF IInv, Covered
<1>5. \A u \in Threads : /\ thr'[u].at = "gather" <=> thr[u].at = "gather"
                         /\ thr[u].at = "gather" => thr'[u] = thr[u]
  OBVIOUS
<1>6. \A e \in Entities : Handed(e) => Handed(e)'
  <2>1. \A e \in Entities : Free(e, {"gather"}) => Free(e, {"gather"})'
    BY <1>5 DEF Free
  <2> QED BY <2>1 DEF Handed
<1>7. Gathering' /\ OneRequest' /\ Underway'
  BY <1>5, <1>6 DEF IInv, Gathering, OneRequest, Underway, Pending, CalledBack
<1>8. AllCounted'
  <2>1. main # "freeing" /\ main' # "freeing" /\ (InHand' <=> InHand)
    BY <1>0 DEF Loops, InHand
  <2> QED BY <2>1 DEF IInv, AllCounted
<1>9. Collecting' /\ Referenced'
  BY <1>0, <1>2 DEF IInv, Collecting, Referenced, Pending, CalledBack, Freed
<1> QED BY <1>1, <1>3, <1>4, <1>7, <1>8, <1>9 DEF IInv

LEMMA StopStep == ASSUME IInv, NEW t \in Threads, Stop(t) PROVE IInv'
<1>1. /\ t \in Apps /\ t # Gc /\ thr[t].at = "idle" /\ main = "running" /\ main' = "proxies"
      /\ \A u \in Apps : thr[u].at \in {"idle", "elsewhere"}
      /\ \A u \in Receivers \cup Timers : thr[u].at = "idle"
      /\ wr' = [w \in Writers |-> [wr[w] EXCEPT !.timer = FALSE]]
      /\ UNCHANGED <<life, req, refs, dying, queue, cur, count, terminate, dqueue>>
  BY Kinds DEF Stop
<1>2. /\ thr' \in [Threads -> ThreadState] /\ \A u \in Threads : u # t => thr'[u] = thr[u]
      /\ thr'[t].at = "stopping" /\ thr'[t].awake /\ thr'[t].gv = "here"
  BY AwakeFacts, PlacesAre DEF Stop, IInv, TypeOK
<1>3. /\ wr' \in [Writers -> WriterState]
      /\ \A w \in Writers : /\ wr'[w].state = wr[w].state /\ wr'[w].closing = wr[w].closing
                            /\ ~wr'[w].timer
  <2>1. ASSUME NEW w \in Writers
        PROVE  /\ wr'[w] \in WriterState /\ ~wr'[w].timer
               /\ wr'[w].state = wr[w].state /\ wr'[w].closing = wr[w].closing
    <3>1. wr[w] \in WriterState /\ wr'[w] = [wr[w] EXCEPT !.timer = FALSE]
      BY <1>1 DEF IInv, TypeOK
    <3> QED BY <3>1 DEF WriterState
  <2> QED BY <1>1, <2>1
<1>4. Phases'
  <2>1. \A u \in Threads \ {Gc} : u # t => thr'[u].at \in {"idle", "elsewhere"}
    BY <1>1, <1>2 DEF Threads
  <2>2. \A u \in Receivers \cup Timers : u # t /\ thr'[u].at = "idle"
    BY <1>1, <1>2, GCAssumption DEF Threads
  <2>3. ~terminate
    BY <1>1 DEF IInv, Phases
  <2> QED BY <1>1, <1>2, <2>1, <2>2, <2>3 DEF Phases, Shutting, Waited, Draining
<1> QED BY <1>1, <1>2, <1>3, <1>4, PhaseStep DEF Loops

\* Nothing else is about while one thread stops the domain.
LEMMA Alone ==
  ASSUME IInv, NEW t \in Threads, thr[t].at \in {"stopping", "stopped"}
  PROVE  /\ t # Gc /\ main # "running"
         /\ \A u \in Threads \ {Gc} : u # t => thr[u].at \in {"idle", "elsewhere"}
         /\ t \notin Receivers \cup Timers
         /\ \A u \in Receivers \cup Timers : u \in Threads \ {Gc}
<1>1. t # Gc
  BY DEF IInv, Collecting, GcPlaces
<1>2. main # "running"
  BY DEF IInv, Phases
<1>3. \A u \in Threads \ {Gc} : u # t => thr[u].at \in {"idle", "elsewhere"}
  BY <1>1, <1>2 DEF IInv, Phases, Shutting
<1>4. t \notin Receivers \cup Timers
  BY <1>2 DEF IInv, Phases
<1> QED BY <1>1, <1>2, <1>3, <1>4, Kinds DEF Threads

LEMMA NextLoopStep == ASSUME IInv, NEW t \in Threads, NextLoop(t) PROVE IInv'
<1>1. /\ thr[t].at = "stopping"
      /\ \/ main = "proxies" /\ main' = "writers" /\ Proxies \cap index = {}
         \/ main = "writers" /\ main' = "participants" /\ Writers \cap index = {}
      /\ UNCHANGED <<wr, life, req, refs, dying, queue, cur, count, terminate, dqueue>>
  BY DEF NextLoop, Stopping, ents
<1>2. /\ t # Gc /\ \A u \in Threads \ {Gc} : u # t => thr[u].at \in {"idle", "elsewhere"}
      /\ t \notin Receivers \cup Timers
      /\ \A u \in Receivers \cup Timers : u \in Threads \ {Gc}
  BY <1>1, Alone
<1>3. /\ thr' \in [Threads -> ThreadState] /\ \A u \in Threads : u # t => thr'[u] = thr[u]
      /\ thr'[t].at = "stopping" /\ thr'[t].awake /\ thr'[t].gv = "here"
  <2>1. (thr[t].vtime + 1) % W \in Times
    BY NextTime DEF IInv, TypeOK, ThreadState
  <2>2. Becomes(t, "stopping", None, TRUE, (thr[t].vtime + 1) % W, "here")
    BY DEF NextLoop
  <2> QED BY <2>1, <2>2, MoveFacts, PlacesAre DEF IInv, TypeOK
<1>4. /\ main = "proxies" => \A e \in Proxies : life[e] # "indexed"
      /\ main = "writers" => \A w \in Writers : life[w] # "indexed"
  BY <1>1, Kinds DEF index
<1>5. Phases'
  BY <1>1, <1>2, <1>3, <1>4 DEF IInv, Phases, Shutting, Waited, Draining
<1>6. wr' \in [Writers -> WriterState]
  BY <1>1 DEF IInv, TypeOK
<1> QED BY <1>1, <1>2, <1>3, <1>5, <1>6, PhaseStep DEF Loops

LEMMA LoopsEndStep == ASSUME IInv, NEW t \in Threads, LoopsEnd(t) PROVE IInv'
<1>1. /\ thr[t].at = "stopping" /\ main = "participants" /\ main' = "waiting"
      /\ life[Local] # "indexed"
      /\ UNCHANGED <<wr, life, req, refs, dying, queue, cur, count, terminate, dqueue>>
  BY Kinds DEF LoopsEnd, Stopping, index, ents
<1>2. /\ t # Gc /\ \A u \in Threads \ {Gc} : u # t => thr[u].at \in {"idle", "elsewhere"}
      /\ t \notin Receivers \cup Timers
      /\ \A u \in Receivers \cup Timers : u \in Threads \ {Gc}
  BY <1>1, Alone
<1>3. /\ thr' \in [Threads -> ThreadState] /\ \A u \in Threads : u # t => thr'[u] = thr[u]
      /\ thr'[t].at = "stopped"
  BY AsleepFacts, PlacesAre DEF LoopsEnd, Asleep, IInv, TypeOK
<1>4. Phases'
  BY <1>1, <1>2, <1>3 DEF IInv, Phases, Shutting, Waited, Draining
<1>5. wr' \in [Writers -> WriterState]
  BY <1>1 DEF IInv, TypeOK
<1> QED BY <1>1, <1>2, <1>3, <1>4, <1>5, PhaseStep DEF Loops

\* From then on it waits for the collector.
LEMMA MainStep ==
  ASSUME IInv, UNCHANGED <<thr, ents, refs, dying, cur, dqueue>>,
         main # "running", main' # "running",
         TypeOK', AllCounted', Phases', UNCHANGED queue \/ queue' = Append(queue, NoOp)
  PROVE  IInv'
<1>1. wr' = wr /\ life' = life /\ req' = req
  BY DEF ents
<1>2. Stages' /\ Covered' /\ Gathering'
  BY <1>1 DEF IInv, Stages, Live, Free, Covered, Counted, Gathering
<1>3. \A e \in Entities : Handed(e) => Handed(e)'
  BY <1>1 DEF Handed, Free
<1>4. \A i \in DOMAIN queue' : \A e \in Entities :
         queue'[i] = e => i \in DOMAIN queue /\ queue[i] = e
  <2>1. queue \in Seq(Entities \cup {NoOp})  BY DEF IInv, TypeOK
  <2>2. CASE UNCHANGED queue  BY <2>2
  <2>3. CASE queue' = Append(queue, NoOp)
    <3>1. \A i \in DOMAIN queue' : queue'[i] = NoOp \/ (i \in DOMAIN queue /\ queue'[i] = queue[i])
      BY <2>1, <2>3, Appended
    <3> QED BY <3>1, Kinds
  <2> QED BY <2>2, <2>3
<1>5. \A i \in DOMAIN queue : i \in DOMAIN queue' /\ queue'[i] = queue[i]
  <2>1. queue \in Seq(Entities \cup {NoOp})  BY DEF IInv, TypeOK
  <2>2. CASE UNCHANGED queue  BY <2>2
  <2>3. CASE queue' = Append(queue, NoOp)  BY <2>1, <2>3, Appended
  <2> QED BY <2>2, <2>3
<1>6. OneRequest'
  BY <1>1, <1>3, <1>4 DEF IInv, OneRequest, Pending, CalledBack
<1>7. Underway'
  BY <1>1, <1>5 DEF IInv, Underway, Pending
<1>8. Collecting' /\ Referenced'
  BY <1>1 DEF IInv, Collecting, Referenced, Pending, CalledBack, Freed
<1> QED BY <1>2, <1>6, <1>7, <1>8 DEF IInv

\* The next phase, when the queue is as it was.
LEMMA WaitStep ==
  ASSUME IInv, Becalmed, main \in Waited \ {"freeing"}, main' \in Waited \ {"freeing"}, Phases'
  PROVE  IInv'
<1>1. main # "running" /\ main' # "running" /\ main # "freeing" /\ main' # "freeing"
  BY DEF Waited, Draining
<1>2. UNCHANGED <<thr, ents, refs, dying, queue, cur, count, terminate, dqueue>>
  BY DEF Becalmed
<1>3. TypeOK'
  BY <1>2 DEF IInv, TypeOK, ents, Waited, Draining
<1>4. AllCounted'
  BY <1>1, <1>2 DEF IInv, AllCounted, InHand
<1> QED BY <1>1, <1>2, <1>3, <1>4, MainStep

LEMMA NoParticipantsStep == ASSUME IInv, NEW t \in Threads, NoParticipants(t) PROVE IInv'
<1>1. main = "waiting" /\ main' = "draining" /\ Freed(Local) /\ Becalmed
  BY DEF NoParticipants, Waits
<1>2. Phases'
  BY <1>1 DEF IInv, Phases, Becalmed, ents, Waited, Draining, Freed, CalledBack
<1> QED BY <1>1, <1>2, WaitStep DEF Waited, Draining

\* No request is counted: then all have been carried out.  Who makes one is
\* not the thread that waits, nor the collector, whose participant is gone.
LEMMA DrainStep == ASSUME IInv, NEW t \in Threads, gcreq_queue_drain(t) PROVE IInv'
<1>1. main = "draining" /\ main' = "drained" /\ count = 0 /\ Becalmed
  BY DEF gcreq_queue_drain, Waits, Quiet
<1>2. Len(queue) = 0 /\ Len(dqueue) = 0 /\ ~InHand
  <2>1. Len(queue) \in Nat /\ Len(dqueue) \in Nat  BY DEF IInv, TypeOK
  <2> QED BY <1>1, <2>1 DEF IInv, AllCounted
<1>3. DOMAIN queue = {} /\ DOMAIN dqueue = {}
  BY <1>2 DEF IInv, TypeOK
<1>4. \A e \in Ours : CalledBack(e)
  <2>1. Freed(Local)
    BY <1>1 DEF IInv, Phases, Draining
  <2> QED BY <2>1 DEF IInv, Referenced
<1>5. \A e \in Proxies : CalledBack(e)
  <2>1. ASSUME NEW e \in Proxies PROVE ~Pending(e)
    <3>1. e \in Entities /\ e \notin Builtins /\ e # None  BY Kinds
    <3>2. \A u \in Threads : ~(thr[u].w = e /\ thr[u].at = "gather")
      <4>1. \A u \in Threads \ {Gc} : thr[u].at # "gather"
        BY <1>1 DEF IInv, Phases, Waited, Draining
      <4>2. thr[Gc].at = "gather" => thr[Gc].w # e
        BY <3>1 DEF IInv, Collecting
      <4> QED BY <4>1, <4>2
    <3>3. cur = e => ~Pending(e)
      <4>1. CASE thr[Gc].at = "idle"  BY <1>2, <3>1, <4>1 DEF InHand
      <4>2. CASE thr[Gc].at # "idle"
        BY <4>2 DEF IInv, Collecting, Pending, CalledBack
      <4> QED BY <4>1, <4>2
    <3> QED BY <1>3, <3>1, <3>2, <3>3 DEF IInv, Underway
  <2>2. \A e \in Proxies : life[e] # "indexed"
    BY <1>1 DEF IInv, Phases, Waited, Draining
  <2>3. \A e \in Proxies : life[e] \in {"indexed", "deleting", "bubble", "gone", "freed"}
    BY Kinds DEF IInv, TypeOK
  <2> QED BY <2>1, <2>2, <2>3 DEF Pending, CalledBack
<1>6. Phases'
  <2>1. \A e \in Entities : CalledBack(e)  BY <1>4, <1>5, Kinds
  <2> QED BY <1>1, <2>1 DEF IInv, Phases, Becalmed, ents, Waited, Draining, Freed, CalledBack
<1> QED BY <1>1, <1>6, WaitStep DEF Waited, Draining

LEMMA QueueFreeStep == ASSUME IInv, NEW t \in Threads, gcreq_queue_free(t) PROVE IInv'
<1>0. /\ queue \in Seq(Entities \cup {NoOp}) /\ Len(queue) \in Nat
      /\ Len(dqueue) \in Nat /\ count \in Nat
  BY DEF IInv, TypeOK
<1>1. CASE /\ main = "drained" /\ main' = "freeing" /\ terminate' = TRUE /\ count' = count + 1
           /\ UNCHANGED <<thr, ents, refs, dying, queue, cur, dqueue>>
  <2>1. TypeOK'  BY <1>0, <1>1 DEF IInv, TypeOK, ents
  <2>2. InHand' <=> InHand  BY <1>1 DEF InHand
  <2>3. AllCounted'  BY <1>0, <1>1, <2>2 DEF IInv, AllCounted
  <2>4. Phases'
    BY <1>1 DEF IInv, Phases, ents, Waited, Draining, Freed, CalledBack
  <2> QED BY <1>1, <2>1, <2>3, <2>4, MainStep
<1>2. CASE /\ main = "freeing" /\ main' = "joining" /\ queue' = Append(queue, NoOp)
           /\ UNCHANGED <<thr, ents, refs, dying, cur, count, terminate, dqueue>>
  <2>1. queue' \in Seq(Entities \cup {NoOp}) /\ Len(queue') = Len(queue) + 1
    BY <1>0, <1>2, Appended
  <2>2. TypeOK'  BY <1>2, <2>1 DEF IInv, TypeOK, ents
  <2>3. InHand' <=> InHand  BY <1>2 DEF InHand
  <2>4. AllCounted'  BY <1>0, <1>2, <2>1, <2>3 DEF IInv, AllCounted
  <2>5. Phases'
    BY <1>2 DEF IInv, Phases, ents, Waited, Draining, Freed, CalledBack
  <2> QED BY <1>2, <2>2, <2>4, <2>5, MainStep
<1> QED BY <1>1, <1>2 DEF gcreq_queue_free, Waits

LEMMA JoinStep == ASSUME IInv, NEW t \in Threads, Join(t) PROVE IInv'
<1>1. main = "joining" /\ main' = "joined" /\ count = 0 /\ cur = None /\ Becalmed
  BY DEF Join, Waits, LoopEnds
<1>2. Phases'
  BY <1>1 DEF IInv, Phases, Becalmed, ents, Waited, Draining, Freed, CalledBack
<1> QED BY <1>1, <1>2, WaitStep DEF Waited, Draining

----------------------------------------------------------------------------
(* The theorems.                                                            *)

LEMMA InvariantInit == Init => IInv
<1> SUFFICES ASSUME Init PROVE IInv  OBVIOUS
<1>1. 0 \in Times  BY GCAssumption DEF Times
<1>2. \A t \in Threads : thr[t].at = "idle" /\ thr[t].w = None
  BY DEF Init
<1>3. /\ \A e \in Entities : life[e] = "indexed" /\ req[e].loaded = {}
      /\ \A w \in Writers : wr[w].state = "OPERATIONAL" /\ ~wr[w].timer
      /\ refs = Ours /\ dying = FALSE /\ queue = <<>> /\ cur = None /\ count = 0
      /\ terminate = FALSE /\ dqueue = <<>> /\ main = "running"
  BY DEF Init
<1>4. TypeOK
  <2>1. thr \in [Threads -> ThreadState]  BY <1>1, PlacesAre DEF Init, ThreadState
  <2>2. wr \in [Writers -> WriterState]  BY DEF Init, WriterState
  <2>3. req \in [Entities -> Request]  BY DEF Init, Request
  <2>4. life \in [Entities -> {"indexed", "deleting", "bubble", "gone", "freed"}]
    BY DEF Init
  <2>5. queue \in Seq(Entities \cup {NoOp}) /\ dqueue \in Seq(Proxies)
    BY <1>3
  <2>6. /\ refs \in SUBSET Ours /\ dying \in BOOLEAN /\ cur \in Entities \cup {None, NoOp}
        /\ count \in Nat /\ terminate \in BOOLEAN /\ main = "running"
    BY <1>3
  <2> QED BY <2>1, <2>2, <2>3, <2>4, <2>5, <2>6 DEF TypeOK
<1>5. Stages
  BY <1>2, <1>3, Kinds DEF Stages, Live, Free, Early, Late, HasPin, HasMutex
<1>6. Covered /\ Gathering
  BY <1>2, <1>3 DEF Covered, ByTime, Awakened, Gathering
<1>7. \A e \in Entities : ~CalledBack(e) /\ ~Pending(e) /\ cur # e /\ life[e] # "gone"
  BY <1>3, Kinds DEF CalledBack, Pending
<1>8. OneRequest /\ Underway
  BY <1>3, <1>7 DEF OneRequest, Underway
<1>9. AllCounted
  BY <1>3 DEF AllCounted, InHand
<1>10. Collecting
  BY <1>2, <1>3, Kinds DEF Collecting
<1>11. Referenced
  BY <1>2, <1>3, <1>7, Kinds DEF Referenced, Freed
<1>12. Phases
  BY <1>2, <1>3, Kinds DEF Phases, Waited, Draining, Threads
<1> QED BY <1>4, <1>5, <1>6, <1>8, <1>9, <1>10, <1>11, <1>12 DEF IInv

LEMMA InvariantStep == IInv /\ [Next]_vars => IInv'
<1> SUFFICES ASSUME IInv, [Next]_vars PROVE IInv'  OBVIOUS
<1>1. ASSUME NEW t \in Threads, Begin(t) PROVE IInv'
  BY <1>1, AwakeStep, StopStep, LookupStep, WritePinStep, DeletePinStep DEF Begin
<1>2. ASSUME NEW t \in Threads, Continue(t) PROVE IInv'
  BY <1>2, AckNackStep, LingerDeleteStep, MoveOnStep, GatherVtimeStep, GatherGvStep,
     EnqueueStep, WriteLockStep, ThrottleStep, UnthrottleStep, WriteStep, InterruptStep,
     CloseStep, DeleteWriterStep, ScheduleDeleteStep, ClosedStep, GoneStep DEF Continue
<1>3. ASSUME NEW t \in Threads, Shutdown(t) PROVE IInv'
  BY <1>3, NextLoopStep, LoopsEndStep, DeletePptStep, StoppedWriterStep, ParticipantStep,
     NoParticipantsStep, DrainStep, QueueFreeStep, JoinStep DEF Shutdown
<1>4. CASE Collector
  BY <1>4, GcTakeStep, GcCheckStep, GcDqueueStep, GcCallbackStep, GcUnrefStep, GcFreeStep,
     GcNoOpStep, BuiltinStep DEF Collector
<1>5. ASSUME NEW t \in Threads, Step(t) PROVE IInv'
  BY <1>2, <1>3, <1>4, <1>5 DEF Step
<1>6. ASSUME NEW t \in Threads, Elsewhere(t) PROVE IInv'
  BY <1>6, ElsewhereStep
<1>7. ASSUME NEW t \in Threads, NEW w \in Writers, Linger(t, w) PROVE IInv'
  BY <1>7, LingerStep
<1>8. CASE gcreq_requeue
  BY <1>8, RequeueStep
<1>9. CASE UNCHANGED vars
  <2>1. /\ UNCHANGED <<thr, wr, life, gcq>> /\ req' = req
    BY <1>9 DEF vars, ents
  <2>2. req' \in [Entities -> Request]
    BY <2>1 DEF IInv, TypeOK
  <2>3. Covered'
    BY <2>1 DEF IInv, Covered, Counted
  <2>4. \A e \in Entities : /\ Handed(e) => req'[e].todo = {}
                            /\ Handed(e) /\ CalledBack(e) => req'[e].ivs = req[e].ivs
    BY <2>1 DEF Handed
  <2> QED BY <2>1, <2>2, <2>3, <2>4, QuietStep
<1> QED BY <1>1, <1>5, <1>6, <1>7, <1>8, <1>9 DEF Next

LEMMA Invariant == Spec => []IInv
  BY InvariantInit, InvariantStep, PTL DEF Spec

\* The collector and its users are type-correct, and the count of requests
\* never goes below zero: gcreq_free is called once per gcreq_new.
THEOREM GCTypeCorrect == Spec => []TypeOK
<1>1. IInv => TypeOK  BY DEF IInv
<1> QED BY <1>1, Invariant, PTL

\* No gc_delete function gives back the memory of an entity that a receive,
\* event or application thread has a pointer to, or of the participant of what
\* the collector has in hand, for any number of threads and entities, any width
\* of the virtual time and any number of operations.
THEOREM SafeReclamation == Spec => []NoUseAfterFree
<1>1. IInv => NoUseAfterFree
  <2> SUFFICES ASSUME IInv PROVE NoUseAfterFree  OBVIOUS
  <2>1. ASSUME NEW t \in Threads, NEW e \in Entities, Holds(t, e), Freed(e) PROVE FALSE
    <3>1. req[e].todo = {} /\ req[e].ivs = {} /\ life[e] # "indexed"
      BY <2>1 DEF IInv, OneRequest, Handed, Freed, CalledBack
    <3>2. req[e].loaded = {}
      BY <3>1 DEF IInv, Covered
    <3>3. CASE thr[t].at \in HasPin
      <4>1. e \in Writers
        BY <2>1, <3>3 DEF IInv, Stages, Holds, HasPin, HasMutex
      <4>2. ~Live(e)
        BY <3>1, <4>1 DEF IInv, Stages, Live
      <4> QED BY <2>1, <3>3, <4>1, <4>2 DEF IInv, Stages, Free, Holds
    <3>4. CASE thr[t].at \in ByTime
      <4>1. Counted(t, e)  BY <2>1, <3>1, <3>4 DEF IInv, Covered, Holds
      <4> QED BY <3>1, <3>2, <4>1 DEF Counted
    <3> QED BY <2>1, <3>3, <3>4 DEF Holds, Holding, ByTime
  <2>2. thr[Gc].at = "callback" /\ cur \in Ours => ~Freed(Local)
    BY DEF IInv, Referenced
  <2> QED BY <2>1, <2>2 DEF NoUseAfterFree
<1> QED BY <1>1, Invariant, PTL

\* Of dds_delete, the last acknowledgement, the end of the linger time and the
\* shutdown one hands an entity to the collector, and none after it.
THEOREM HandedOverOnce == Spec => []DeletedOnce
<1>1. IInv => DeletedOnce
  <2> SUFFICES ASSUME IInv, NEW e \in Entities
               PROVE  /\ \A i, j \in DOMAIN queue : queue[i] = e /\ queue[j] = e => i = j
                      /\ \A i, j \in DOMAIN dqueue : dqueue[i] = e /\ dqueue[j] = e => i = j
                      /\ \A i \in DOMAIN queue, j \in DOMAIN dqueue :
                            queue[i] = e => dqueue[j] # e
                      /\ CalledBack(e) \/ cur = e => Requests(e) = {}
                      /\ Requests(e) # {} \/ cur = e =>
                            \A t \in Threads : ~(thr[t].w = e /\ thr[t].at = "gather")
    BY DEF DeletedOnce
  <2>1. CalledBack(e) \/ cur = e => Requests(e) = {}
    <3>1. ASSUME Requests(e) # {} PROVE Pending(e) /\ cur # e
      BY <3>1 DEF Requests, IInv, OneRequest
    <3> QED BY <3>1 DEF Pending, CalledBack
  <2>2. Requests(e) # {} \/ cur = e => Handed(e)
    BY DEF Requests, IInv, OneRequest
  <2>3. Handed(e) => \A t \in Threads : ~(thr[t].w = e /\ thr[t].at = "gather")
    BY DEF Handed, Free
  <2> QED BY <2>1, <2>2, <2>3 DEF IInv, OneRequest
<1> QED BY <1>1, Invariant, PTL

\* When gcreq_queue_drain returns, nothing that the shutdown or the application
\* deleted waits for the collector any more, whether it had been queued, was in
\* the delivery queue or in hand when the draining began; when the collector's
\* thread has been joined its queue is empty and all memory has been given back.
THEOREM StopsEmpty == Spec => []NothingLeft
<1>1. IInv => NothingLeft
  <2> SUFFICES ASSUME IInv PROVE NothingLeft  OBVIOUS
  <2>1. main \in {"drained", "freeing", "joining", "joined"} =>
           (\A e \in Entities : CalledBack(e)) /\ Freed(Local)
    BY DEF IInv, Phases, Draining
  <2>2. ASSUME main = "joined" PROVE queue = <<>> /\ \A e \in Entities : Freed(e)
    <3>1. count = 0 /\ cur = None  BY <2>2 DEF IInv, Phases
    <3>2. queue = <<>>
      <4>1. /\ queue \in Seq(Entities \cup {NoOp}) /\ Len(queue) \in Nat
            /\ Len(dqueue) \in Nat
        BY DEF IInv, TypeOK
      <4>2. Len(queue) = 0  BY <3>1, <4>1, <2>2 DEF IInv, AllCounted, InHand
      <4> QED BY <4>1, <4>2
    <3>3. \A e \in Entities : Freed(e)
      BY <2>1, <2>2, <3>1, Kinds DEF IInv, OneRequest, CalledBack, Freed
    <3> QED BY <3>2, <3>3
  <2> QED BY <2>1, <2>2 DEF NothingLeft
<1> QED BY <1>1, Invariant, PTL
============================================================================
