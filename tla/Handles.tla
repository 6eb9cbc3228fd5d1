------------------------------ MODULE Handles ------------------------------
(***************************************************************************)
(* Cyclone DDS, dds_handles.c: the word cnt_flags of an entity's handle.   *)
(* pin counts the threads inside an operation on the entity, ref its own   *)
(* reference (an implicitly created entity has none) and its children or,  *)
(* for a topic, the readers that use it.  The word is changed by compare   *)
(* and swap, so each operator below is one atomic step.                    *)
(*                                                                         *)
(* PENDING is not represented: a handle is pending only while its creator  *)
(* is the only one to know it.  Nor is the branch of pin_for_delete for a  *)
(* call that is not explicit: nothing calls dds_delete_impl that way, the  *)
(* deletion of an implicit parent goes through drop_childref_and_pin.      *)
(***************************************************************************)
EXTENDS Integers

CntFlags == [pin : Nat, ref : Nat, closing : BOOLEAN, deferred : BOOLEAN]

\* dds_handle_create, dds_handle_unpend.
Created(implicit) ==
    [pin |-> 0, ref |-> IF implicit THEN 0 ELSE 1,
     closing |-> FALSE, deferred |-> FALSE]

\* dds_handle_pin_int fails on a handle that is closing.
CanPin(h) == ~h.closing
Pin(h) == [h EXCEPT !.pin = @ + 1]
KeepPin(h) == h
Unpin(h) == [h EXCEPT !.pin = @ - 1]
AddRef(h) == [h EXCEPT !.ref = @ + 1]
KeepRef(h) == h
DropRef(h) == [h EXCEPT !.ref = @ - 1]
Close(h) == [h EXCEPT !.closing = TRUE]

\* dds_handle_pin_for_delete, called explicitly: what it finds ...
AlreadyDeleted(h) == h.deferred /\ h.ref > 0
MustDefer(h, implicit, allowChildren) ==
    ~h.deferred /\ ~implicit /\ ~allowChildren /\ h.ref > 1
\* ... and what it does: put the deletion off until the last reference is
\* dropped, or drop the handle's own reference, pin and close.
Defer(h) == [h EXCEPT !.ref = @ - 1, !.deferred = TRUE]
DeferredNotClosed(h, implicit) ==
    [h EXCEPT !.pin = @ + 1, !.closing = ~h.deferred,
              !.ref = IF h.deferred \/ implicit THEN @ ELSE @ - 1]
PinAndClose(h, implicit) ==
    [h EXCEPT !.pin = @ + 1, !.closing = TRUE,
              !.ref = IF h.deferred \/ implicit THEN @ ELSE @ - 1]

\* dds_handle_drop_childref_and_pin: the last child of an implicit parent
\* takes the parent with it, unless the parent's deletion is what deleted it.
DeletesParentAtZero(h, implicit, mayDeleteParent) ==
    ~h.closing /\ implicit /\ h.ref = 0 /\ mayDeleteParent
DeletesParent(h, implicit, mayDeleteParent) ==
    ~h.closing /\ implicit /\ h.ref = 1 /\ mayDeleteParent

\* dds_handle_close_wait ends when the deleting thread's is the only pin.
AnyPins(h) == h.pin >= 1
OnlyPin(h) == h.pin = 1
============================================================================
