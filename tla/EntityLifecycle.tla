-------------------------- MODULE EntityLifecycle --------------------------
(***************************************************************************)
(* Cyclone DDS, dds_entity.c: application threads use, create and delete   *)
(* the entities of one participant.  dds_delete is recursive and takes     *)
(* locks in between, so each thread has a stack of frames, the top one     *)
(* first, and a step is what the code does between two points where        *)
(* another thread may come in.                                             *)
(*                                                                         *)
(* An entity is a number, its m_iid: delete_children goes through the      *)
(* children in this order.  Listeners, waitsets and the DDSI entities      *)
(* behind the handles are not modelled.                                    *)
(***************************************************************************)
EXTENDS Handles, Sequences, FiniteSets, FiniteSetsExt

CONSTANTS
    Threads,
    Kind,        \* entity -> "participant", "subscriber", "reader", "topic"
    Parent,      \* entity -> entity, 0 for the participant
    TopicOf,     \* reader -> topic
    Unborn,      \* the entities that do not exist initially
    Apps,        \* what the application may do, see app
    MaxUses      \* how often it calls operations other than dds_delete

Entities == DOMAIN Kind
Readers == {e \in Entities : Kind[e] = "reader"}
KidsOf(e) == {c \in Entities : Parent[c] = e}
AllowChildren(e) == Kind[e] # "topic"

ASSUME LifecycleAssumption ==
    /\ Entities \subseteq Nat \ {0} /\ IsFiniteSet(Entities)
    /\ Kind \in [Entities -> {"participant", "subscriber", "reader", "topic"}]
    /\ Parent \in [Entities -> Entities \cup {0}]
    /\ TopicOf \in [Readers -> Entities]
    /\ Unborn \subseteq Entities
    /\ Apps \subseteq [implicit : SUBSET Entities, deletable : SUBSET Entities,
                      usable : SUBSET Entities]
    /\ MaxUses \in Nat
    /\ IsFiniteSet(Threads) /\ 0 \notin Threads

\* What the functions that create entities ask of a parent and of a topic; only
\* a subscriber is created implicitly, with a reader in it, and nothing is below
\* an unborn entity.
ParentKind == [subscriber |-> "participant", topic |-> "participant", reader |-> "subscriber"]

ASSUME TreeAssumption ==
    /\ \A e \in Entities :
          IF Kind[e] = "participant" THEN Parent[e] = 0
          ELSE Parent[e] # 0 /\ Kind[Parent[e]] = ParentKind[Kind[e]]
    /\ \A r \in Readers : Kind[TopicOf[r]] = "topic"
    /\ \A a \in Apps, e \in Entities : e \in a.implicit => Kind[e] = "subscriber"
    /\ \A e \in Entities : Parent[e] \in Unborn => e \in Unborn
    /\ \A a \in Apps, e \in Entities : e \in a.implicit => e \in Unborn \/ KidsOf(e) \ Unborn # {}

VARIABLES
    app,        \* the subscribers created implicitly, what dds_delete is called
                \* on and what other operations are called on; never changes
    stage,      \* unborn, live (in the handle table), unlinked, freed
    hdl,        \* the handle's cnt_flags
    children,   \* m_children
    mutex,      \* who holds m_mutex, 0 if nobody
    stack,      \* the calls each thread is in
    ret,        \* what its last call returned
    uses

vars == <<app, stage, hdl, children, mutex, stack, ret, uses>>

Implicit == app.implicit

\* participant, subscriber, reader and topic: the longest stack of calls.
MaxDepth == 4

\* A call of dds_delete_impl.
Call(e, how) == [pc |-> "pin", e |-> e, how |-> how, arg |-> 0, pass |-> 1]

Live(e) == stage[e] = "live"
Users(tp) == {r \in Readers \ Unborn : TopicOf[r] = tp}

Init ==
    /\ app \in Apps
    /\ stage = [e \in Entities |-> IF e \in Unborn THEN "unborn" ELSE "live"]
    /\ children = [e \in Entities |-> KidsOf(e) \ Unborn]
    /\ hdl = [e \in Entities |->
          [Created(e \in Implicit) EXCEPT
              !.ref = @ + Cardinality(KidsOf(e) \ Unborn) + Cardinality(Users(e))]]
    /\ mutex = [e \in Entities |-> 0]
    /\ stack = [t \in Threads |-> <<>>]
    /\ ret = [t \in Threads |-> "ok"]
    /\ uses = 0

----------------------------------------------------------------------------
(* Stacks, mutexes and condition variables.                                 *)

Idle(t) == stack[t] = <<>>
Top(t) == Head(stack[t])
At(t, pc) == ~Idle(t) /\ Top(t).pc = pc
Unlocked(e) == mutex[e] = 0

Frames == UNION {{stack[t][i] : i \in DOMAIN stack[t]} : t \in Threads}

\* A handle is known to others once its creator has unlocked the parent.
Creating(c) ==
    \E f \in Frames : /\ f.how \in {"create", "create_implicit"}
                      /\ f.arg = c /\ f.pc # "unpin"
Known(e) == stage[e] # "unborn" /\ ~Creating(e)

With(t, frame) == [stack EXCEPT ![t] = <<frame>> \o Tail(@)]
GotoPc(t, pc) == With(t, [Top(t) EXCEPT !.pc = pc])
Goto(t, pc) == stack' = GotoPc(t, pc)

Return(t, rc) ==
    /\ stack' = [stack EXCEPT ![t] = Tail(@)]
    /\ ret' = [ret EXCEPT ![t] = rc]

\* ddsrt_cond_broadcast of an entity's m_cond: its delete_children goes on.
NoBroadcast(stk, e) == stk
Broadcast(stk, e) ==
    [t \in Threads |->
        IF stk[t] # <<>> /\ Head(stk[t]).pc = "sleep" /\ Head(stk[t]).e = e
        THEN <<[Head(stk[t]) EXCEPT !.pc = "children"]>> \o Tail(stk[t])
        ELSE stk[t]]

----------------------------------------------------------------------------
(* dds_delete.                                                              *)

UserDelete(t) ==
    /\ Idle(t)
    /\ \E e \in app.deletable :
          /\ Known(e)
          /\ stack' = [stack EXCEPT ![t] = <<Call(e, "user")>>]
    /\ UNCHANGED <<stage, hdl, children, mutex, ret, uses>>

\* dds_delete_impl: dds_entity_pin_for_delete, by handle.
DeletePin(t) ==
    LET e == Top(t).e
        imp == e \in Implicit
        defer == MustDefer(hdl[e], imp, AllowChildren(e))
    IN  /\ At(t, "pin")
        /\ \/ /\ ~Live(e) \/ hdl[e].closing
              /\ Return(t, "bad_parameter")
              /\ UNCHANGED hdl
           \/ /\ Live(e) /\ ~hdl[e].closing /\ AlreadyDeleted(hdl[e])
              /\ Return(t, "already_deleted")
              /\ UNCHANGED hdl
           \/ /\ Live(e) /\ ~hdl[e].closing /\ defer
              /\ hdl' = [hdl EXCEPT ![e] = Defer(@)]
              /\ Return(t, "ok")
           \/ /\ Live(e) /\ ~hdl[e].closing /\ ~AlreadyDeleted(hdl[e]) /\ ~defer
              /\ hdl' = [hdl EXCEPT ![e] = PinAndClose(@, imp)]
              /\ Goto(t, "lock")
              /\ UNCHANGED ret
        /\ UNCHANGED <<stage, children, mutex, uses>>

\* dds_delete_impl_pinned takes the lock to interrupt blocked threads.
Interrupt(t) ==
    /\ At(t, "lock") /\ Unlocked(Top(t).e)
    /\ Goto(t, "wait")
    /\ UNCHANGED <<stage, hdl, children, mutex, ret, uses>>

CloseWait(t) ==
    /\ At(t, "wait") /\ OnlyPin(hdl[Top(t).e])
    /\ Goto(t, "close")
    /\ UNCHANGED <<stage, hdl, children, mutex, ret, uses>>

\* dds_entity_deriver_close; a topic's takes the lock of its participant.
DeriverClose(t) ==
    LET e == Top(t).e
    IN  /\ At(t, "close")
        /\ Unlocked(IF Kind[e] = "topic" THEN Parent[e] ELSE e)
        /\ stack' = With(t, [Top(t) EXCEPT !.pc = "children", !.arg = 0, !.pass = 1])
        /\ UNCHANGED <<stage, hdl, children, mutex, ret, uses>>

\* get_next_child: first all but the topics, then all, each time in order.
AllowedNoTopic(f, c) == Kind[c] # "topic"
Allowed(f, c) == f.pass = 1 => Kind[c] # "topic"

\* delete_children deletes the next child with its own lock released.
NextChild(t) ==
    LET f == Top(t)
        rest == {c \in children[f.e] : c > f.arg /\ Allowed(f, c)}
    IN  /\ At(t, "children") /\ Unlocked(f.e)
        /\ \/ /\ rest # {}
              /\ stack' = [stack EXCEPT ![t] =
                    <<Call(Min(rest), "from_parent"),
                      [f EXCEPT !.pc = "recheck", !.arg = Min(rest)]>> \o Tail(@)]
           \/ /\ rest = {} /\ f.pass = 1
              /\ stack' = With(t, [f EXCEPT !.pass = 2, !.arg = 0])
           \/ /\ rest = {} /\ f.pass = 2
              /\ Goto(t, "handle")
        /\ UNCHANGED <<stage, hdl, children, mutex, ret, uses>>

\* A child that is still there is being deleted by another thread: wait, once.
NotThere(f) == FALSE
StillThere(f) == f.arg \in children[f.e]

Recheck(t) ==
    LET f == Top(t)
    IN  /\ At(t, "recheck") /\ Unlocked(f.e)
        /\ Goto(t, IF StillThere(f) THEN "sleep" ELSE "children")
        /\ UNCHANGED <<stage, hdl, children, mutex, ret, uses>>

\* dds_handle_delete.
HandleDelete(t) ==
    /\ At(t, "handle")
    /\ stage' = [stage EXCEPT ![Top(t).e] = "unlinked"]
    /\ stack' = With(t, [Top(t) EXCEPT !.pc = "parent", !.arg = 0])
    /\ UNCHANGED <<hdl, children, mutex, ret, uses>>

\* The entity leaves its parent's children, under the parent's lock; the last
\* child of an implicit parent pins it ...
LeaveParent(t) ==
    LET f == Top(t)
        p == Parent[f.e]
        last == DeletesParent(hdl[p], p \in Implicit, f.how # "from_parent")
        dropped == DropRef(hdl[p])
    IN  /\ At(t, "parent") /\ p # 0 /\ Unlocked(p)
        /\ children' = [children EXCEPT ![p] = @ \ {f.e}]
        /\ \/ /\ last
              /\ hdl' = [hdl EXCEPT ![p] = Pin(dropped)]
              /\ mutex' = [mutex EXCEPT ![p] = t]
              /\ Goto(t, "closeparent")
           \/ /\ ~last
              /\ hdl' = [hdl EXCEPT ![p] = dropped]
              /\ stack' = Broadcast(GotoPc(t, "deriver"), p)
              /\ UNCHANGED mutex
        /\ UNCHANGED <<stage, ret, uses>>

NoParent(t) ==
    /\ At(t, "parent") /\ Parent[Top(t).e] = 0
    /\ Goto(t, "deriver")
    /\ UNCHANGED <<stage, hdl, children, mutex, ret, uses>>

\* ... and then closes it: dds_handle_close.
CloseParent(t) ==
    LET f == Top(t)
        p == Parent[f.e]
    IN  /\ At(t, "closeparent")
        /\ hdl' = [hdl EXCEPT ![p] = Close(@)]
        /\ mutex' = [mutex EXCEPT ![p] = 0]
        /\ stack' = Broadcast(With(t, [f EXCEPT !.pc = "deriver", !.arg = p]), p)
        /\ UNCHANGED <<stage, children, ret, uses>>

\* dds_reader_delete drops the reader's reference to its topic; the last one
\* of a topic whose deletion was put off deletes it now.
ReaderDelete(t) ==
    LET f == Top(t)
        tp == TopicOf[f.e]
        dropped == DropRef(hdl[tp])
    IN  /\ At(t, "deriver") /\ f.e \in Readers
        /\ hdl' = [hdl EXCEPT ![tp] = dropped]
        /\ \/ /\ dropped.ref > 0
              /\ Goto(t, "free")
           \/ /\ dropped.ref = 0
              /\ stack' = [stack EXCEPT ![t] =
                    <<Call(tp, "explicit"), [f EXCEPT !.pc = "dropped"]>> \o Tail(@)]
        /\ UNCHANGED <<stage, children, mutex, ret, uses>>

OtherDelete(t) ==
    /\ At(t, "deriver") /\ Top(t).e \notin Readers
    /\ Goto(t, "free")
    /\ UNCHANGED <<stage, hdl, children, mutex, ret, uses>>

\* dds_entity_drop_ref returns.
Dropped(t) ==
    /\ At(t, "dropped")
    /\ Goto(t, "free")
    /\ UNCHANGED <<stage, hdl, children, mutex, ret, uses>>

\* The memory is given back, and an implicit parent is deleted in turn.
Free(t) ==
    LET f == Top(t)
    IN  /\ At(t, "free")
        /\ stage' = [stage EXCEPT ![f.e] = "freed"]
        /\ \/ /\ f.arg = 0
              /\ Return(t, "ok")
           \/ /\ f.arg # 0
              /\ stack' = With(t, [Call(f.arg, "implicit") EXCEPT !.pc = "lock"])
              /\ UNCHANGED ret
        /\ UNCHANGED <<hdl, children, mutex, uses>>

Delete(t) ==
    \/ DeletePin(t) \/ Interrupt(t) \/ CloseWait(t) \/ DeriverClose(t)
    \/ NextChild(t) \/ Recheck(t) \/ HandleDelete(t)
    \/ LeaveParent(t) \/ NoParent(t) \/ CloseParent(t)
    \/ ReaderDelete(t) \/ OtherDelete(t) \/ Dropped(t) \/ Free(t)

----------------------------------------------------------------------------
(* Any other operation: dds_entity_lock, dds_entity_unlock.                 *)

Pinnable(e) == Live(e) /\ CanPin(hdl[e])

Enter(t, frame) ==
    /\ hdl' = [hdl EXCEPT ![frame.e] = Pin(@)]
    /\ stack' = [stack EXCEPT ![t] = <<frame>>]

UsePin(t) ==
    /\ Idle(t) /\ uses < MaxUses
    /\ \E e \in app.usable :
          /\ Known(e) /\ Pinnable(e)
          /\ Enter(t, [Call(e, "use") EXCEPT !.pc = "uselock"])
    /\ uses' = uses + 1
    /\ UNCHANGED <<stage, children, mutex, ret>>

UseLock(t) ==
    /\ At(t, "uselock") /\ Unlocked(Top(t).e)
    /\ mutex' = [mutex EXCEPT ![Top(t).e] = t]
    /\ Goto(t, "using")
    /\ UNCHANGED <<stage, hdl, children, ret, uses>>

UseUnlock(t) ==
    /\ At(t, "using")
    /\ mutex' = [mutex EXCEPT ![Top(t).e] = 0]
    /\ Goto(t, "unpin")
    /\ UNCHANGED <<stage, hdl, children, ret, uses>>

UseUnpin(t) ==
    /\ At(t, "unpin")
    /\ hdl' = [hdl EXCEPT ![Top(t).e] = Unpin(@)]
    /\ Return(t, "ok")
    /\ UNCHANGED <<stage, children, mutex, uses>>

----------------------------------------------------------------------------
(* dds_create_reader.  In a frame of it, arg is the reader, e the entity    *)
(* locked at present, how tells whether the subscriber was created with it. *)

CreateReader(t) ==
    /\ Idle(t)
    /\ \E r \in Readers \cap Unborn :
          LET sub == Parent[r]
              implicit == sub \in Implicit /\ stage[sub] = "unborn"
              e == IF implicit THEN Parent[sub] ELSE sub
          IN  /\ stage[r] = "unborn" /\ Pinnable(e)
              /\ \A c \in {r} \cup (IF implicit THEN KidsOf(sub) ELSE {}) : ~Creating(c)
              /\ Enter(t, [pc |-> IF implicit THEN "plock" ELSE "clock", e |-> e,
                           how |-> IF implicit THEN "create_implicit" ELSE "create",
                           arg |-> r, pass |-> 1])
    /\ UNCHANGED <<stage, children, mutex, ret, uses>>

\* dds_entity_init, dds_entity_register_child.
RegisterChild(p, c) ==
    /\ stage' = [stage EXCEPT ![c] = "live"]
    /\ children' = [children EXCEPT ![p] = @ \cup {c}]
    /\ hdl' = [hdl EXCEPT ![p] = AddRef(@), ![c] = Created(c \in Implicit)]

\* Given a participant: dds__create_subscriber_l under its lock, ...
CreateSubscriber(t) ==
    LET f == Top(t)
    IN  /\ At(t, "plock") /\ Unlocked(f.e)
        /\ \/ RegisterChild(f.e, Parent[f.arg])
           \/ UNCHANGED <<stage, children, hdl>>    \* its QoS is rejected
        /\ Goto(t, "punpin")
        /\ UNCHANGED <<mutex, ret, uses>>

ParticipantUnpin(t) ==
    LET f == Top(t)
    IN  /\ At(t, "punpin")
        /\ hdl' = [hdl EXCEPT ![f.e] = Unpin(@)]
        /\ stack' = With(t, [f EXCEPT !.pc = "pinsub", !.e = Parent[f.arg]])
        /\ UNCHANGED <<stage, children, mutex, ret, uses>>

\* ... then the new subscriber is locked by its handle.
PinSubscriber(t) ==
    LET f == Top(t)
    IN  /\ At(t, "pinsub")
        /\ \/ /\ Pinnable(f.e)
              /\ hdl' = [hdl EXCEPT ![f.e] = Pin(@)]
              /\ Goto(t, "clock")
              /\ UNCHANGED ret
           \/ /\ ~Pinnable(f.e)
              /\ Return(t, "bad_parameter")
              /\ UNCHANGED hdl
        /\ UNCHANGED <<stage, children, mutex, uses>>

LockSubscriber(t) ==
    /\ At(t, "clock") /\ Unlocked(Top(t).e)
    /\ mutex' = [mutex EXCEPT ![Top(t).e] = t]
    /\ Goto(t, "ctopic")
    /\ UNCHANGED <<stage, hdl, children, ret, uses>>

\* dds_topic_pin; a topic whose deletion is put off can be pinned.
PinTopic(t) ==
    LET tp == TopicOf[Top(t).arg]
    IN  /\ At(t, "ctopic")
        /\ \/ /\ Pinnable(tp)
              /\ hdl' = [hdl EXCEPT ![tp] = Pin(@)]
              /\ Goto(t, "cdefer")
           \/ /\ ~Pinnable(tp)
              /\ Goto(t, "cfailed")
              /\ UNCHANGED hdl
        /\ UNCHANGED <<stage, children, mutex, ret, uses>>

\* dds_topic_defer_set_qos, under the participant's lock.
DeferSetQos(t) ==
    /\ At(t, "cdefer") /\ Unlocked(Parent[TopicOf[Top(t).arg]])
    /\ Goto(t, "cref")
    /\ UNCHANGED <<stage, hdl, children, mutex, ret, uses>>

\* defer_set_qos counts the creations in between.
OthersDefer(t, tp) ==
    \E u \in Threads \ {t} :
        /\ ~Idle(u) /\ Top(u).pc \in {"cref", "cregister", "ctopicdone", "crejected"}
        /\ TopicOf[Top(u).arg] = tp

\* The QoS is rejected, or the reader takes its reference to the topic.
AddTopicRef(t) ==
    LET tp == TopicOf[Top(t).arg]
    IN  /\ At(t, "cref")
        /\ \/ /\ hdl' = [hdl EXCEPT ![tp] = AddRef(@)]
              /\ Goto(t, "cregister")
           \/ /\ Goto(t, "crejected")
              /\ UNCHANGED hdl
        /\ UNCHANGED <<stage, children, mutex, ret, uses>>

RegisterReader(t) ==
    LET f == Top(t)
    IN  /\ At(t, "cregister")
        /\ RegisterChild(f.e, f.arg)
        /\ Goto(t, "ctopicdone")
        /\ UNCHANGED <<mutex, ret, uses>>

\* dds_topic_allow_set_qos: the last signals the participant's condition
\* variable, on which its delete_children may wait as well.
UnpinTopic(t) ==
    LET f == Top(t)
        tp == TopicOf[f.arg]
        next == GotoPc(t, IF f.pc = "crejected" THEN "cfailed" ELSE "cunlock")
    IN  /\ At(t, "ctopicdone") \/ At(t, "crejected")
        /\ Unlocked(Parent[tp])
        /\ hdl' = [hdl EXCEPT ![tp] = Unpin(@)]
        /\ stack' = IF OthersDefer(t, tp) THEN next ELSE Broadcast(next, Parent[tp])
        /\ UNCHANGED <<stage, children, mutex, ret, uses>>

UnlockSubscriber(t) ==
    LET f == Top(t)
    IN  /\ At(t, "cunlock") \/ At(t, "cfailed")
        /\ mutex' = [mutex EXCEPT ![f.e] = 0]
        /\ Goto(t, IF f.pc = "cfailed" /\ f.how = "create_implicit"
                   THEN "cundo" ELSE "unpin")
        /\ UNCHANGED <<stage, hdl, children, ret, uses>>

\* An error undoes the creation of the subscriber: dds_delete.
UndoSubscriber(t) ==
    LET f == Top(t)
    IN  /\ At(t, "cundo")
        /\ hdl' = [hdl EXCEPT ![f.e] = Unpin(@)]
        /\ stack' = With(t, Call(f.e, "user"))
        /\ UNCHANGED <<stage, children, mutex, ret, uses>>

Create(t) ==
    \/ CreateSubscriber(t) \/ ParticipantUnpin(t) \/ PinSubscriber(t)
    \/ LockSubscriber(t) \/ PinTopic(t) \/ DeferSetQos(t) \/ AddTopicRef(t)
    \/ RegisterReader(t) \/ UnpinTopic(t) \/ UnlockSubscriber(t) \/ UndoSubscriber(t)

----------------------------------------------------------------------------
Begin(t) ==
    /\ UserDelete(t) \/ UsePin(t) \/ CreateReader(t)
    /\ UNCHANGED app
Continue(t) ==
    /\ Delete(t) \/ UseLock(t) \/ UseUnlock(t) \/ UseUnpin(t) \/ Create(t)
    /\ UNCHANGED app

Next == \E t \in Threads : Begin(t) \/ Continue(t)

\* A thread inside a call goes on when it can; nobody has to call.
Spec == Init /\ [][Next]_vars /\ \A t \in Threads : WF_vars(Continue(t))

----------------------------------------------------------------------------
\* Where a call may be between two steps: in dds_delete, or in another
\* operation with an entity pinned.
BeforeLeaving == {"lock", "wait", "close", "children", "recheck", "sleep",
                  "handle", "parent", "closeparent"}
AfterLeaving == {"deriver", "dropped", "free"}
Deleting == BeforeLeaving \cup AfterLeaving

WithTopic == {"cdefer", "cref", "cregister", "ctopicdone", "crejected"}
InCall == {"plock", "punpin", "clock", "ctopic", "cdefer", "cref", "cregister",
           "ctopicdone", "crejected", "cunlock", "cfailed", "cundo",
           "uselock", "using", "unpin"}

Frame == [pc : Deleting \cup InCall \cup {"pin", "pinsub"}, e : Entities,
          how : {"user", "from_parent", "implicit", "explicit", "use", "create", "create_implicit"},
          arg : Nat, pass : 1..2]

\* Stages, handles, children, locks and stacks have their types: no pin count
\* and no reference count of a handle goes below zero.
TypeOK ==
    /\ app \in Apps
    /\ stage \in [Entities -> {"unborn", "live", "unlinked", "freed"}]
    /\ hdl \in [Entities -> CntFlags]
    /\ children \in [Entities -> SUBSET Entities]
    /\ mutex \in [Entities -> Threads \cup {0}]
    /\ stack \in [Threads -> Seq(Frame)]
    /\ ret \in [Threads -> {"ok", "bad_parameter", "already_deleted"}]
    /\ uses \in 0..MaxUses

\* The entities whose memory the rest of a frame's code reads or writes.
Touches(f) ==
    CASE f.pc \in BeforeLeaving -> {f.e, Parent[f.e]} \ {0}
      [] f.pc \in AfterLeaving ->
            {f.e, f.arg, IF f.pc = "deriver" /\ f.e \in Readers THEN TopicOf[f.e] ELSE 0} \ {0}
      [] f.pc \in WithTopic -> {f.e, TopicOf[f.arg]}
      [] f.pc \in InCall \ WithTopic -> {f.e}
      [] OTHER -> {}

\* The entities a frame has pinned.
Pinned(f) ==
    CASE f.pc \in WithTopic -> {f.e, TopicOf[f.arg]}
      [] f.pc \in InCall \ WithTopic -> {f.e}
      [] f.pc \in BeforeLeaving \ {"closeparent"} -> {f.e}
      [] f.pc = "closeparent" -> {f.e, Parent[f.e]}
      [] f.pc \in AfterLeaving -> {f.e, f.arg} \ {0}
      [] OTHER -> {}

\* Every pin of an entity belongs to a thread that will release it: otherwise
\* dds_delete would wait for ever, or not wait for a thread that is inside.
PinsCounted ==
    \A e \in Entities : stage[e] # "freed" =>
        hdl[e].pin = Cardinality({ti \in Threads \X (1..MaxDepth) :
            ti[2] <= Len(stack[ti[1]]) /\ e \in Pinned(stack[ti[1]][ti[2]])})

\* A reader refers to its topic from its creation until dds_reader_delete.
HasTopic(r) ==
    \/ /\ stage[r] \in {"live", "unlinked"}
       /\ \A f \in Frames : f.e = r => f.pc \notin {"dropped", "free"}
    \/ \E f \in Frames : f.pc = "cregister" /\ f.arg = r

\* A handle's references are its own, its children's and, for a topic, its
\* readers': none is leaked and none dropped twice.
RefsCounted ==
    \A e \in Entities : Live(e) =>
        hdl[e].ref =
            (IF e \in Implicit \/ hdl[e].closing \/ hdl[e].deferred THEN 0 ELSE 1)
            + Cardinality(children[e])
            + Cardinality({r \in Readers : TopicOf[r] = e /\ HasTopic(r)})

\* A subscriber that was created for a reader does not outlive its last one,
\* nor a creation that failed.
ImplicitIsNeeded ==
    (\A t \in Threads : Idle(t)) =>
        \A e \in Implicit : Live(e) => children[e] # {}

\* No thread that has pinned an entity, or that removes an entity of which it
\* is the parent, finds it freed; nor does it the topic of a reader it removes,
\* up to the drop of the reader's reference.  The read of the topic's handle in
\* dds_entity_drop_ref after that drop is left out, and is not safe: a second
\* dds_delete of a topic whose deletion was put off may come first.
MemorySafe ==
    \A f \in Frames : \A e \in Touches(f) : stage[e] # "freed"

\* dds_handle_delete's assertions: a handle leaves the table closed, pinned by
\* its deleter only, without references and, so, without children.
DeletedClean ==
    \A f \in Frames : f.pc = "handle" =>
        /\ hdl[f.e].closing /\ hdl[f.e].pin = 1 /\ hdl[f.e].ref = 0
        /\ children[f.e] = {}

\* Of the calls that delete an entity one succeeds: "only one thread may call
\* close_wait on a given handle".
OneDeleter ==
    \A t, u \in Threads : \A i \in DOMAIN stack[t], j \in DOMAIN stack[u] :
        /\ stack[t][i].e = stack[u][j].e
        /\ stack[t][i].pc \in Deleting /\ stack[u][j].pc \in Deleting
        => t = u /\ i = j

Below(e) == {c \in Entities : \/ Parent[c] = e
                              \/ Parent[c] # 0 /\ Parent[Parent[c]] = e}

\* dds_delete "will also automatically delete all its children, childrens'
\* children, etc": when an entity is freed, no handle below it is left.
DeletedDeep == \A e \in Entities : stage[e] = "freed" => \A c \in Below(e) : ~Live(c)

\* Every call returns.
CallsReturn == \A t \in Threads : ~Idle(t) ~> Idle(t)
============================================================================
