--------------------------- MODULE ScriptedPolicy ---------------------------
(***************************************************************************)
(* The scripted pick-and-place policy of exp/run_episode.py: class         *)
(* ScriptedPickPlace.  It executes against the object position it cached   *)
(* when it last planned.                                                   *)
(*                                                                         *)
(* Pos is a set of object positions that are pairwise further apart than   *)
(* retreat_thresh and than the gripper is wide: a perturbation moves the   *)
(* object by 5 to 10 cm, both are below 5 cm.  Heights of the end effector *)
(* are the three way points Low (GRASP_DZ), Hover (HOVER_H), High (LIFT_H).*)
(***************************************************************************)
EXTENDS Integers, Sequences

CONSTANTS
    Pos,         \* places on the table
    None,        \* Python's None
    Away,        \* the end effector is at no way point
    GraspSteps   \* control steps the gripper closes before lifting

ASSUME PolicyAssumption ==
    /\ GraspSteps \in Nat \ {0}
    /\ None \notin Pos /\ Away \notin Pos

VARIABLES
    state, target, grasp_counter, n_replans, replan_steps, phase_step,
    prev_state,
    action       \* what act returned: a way point and a gripper command

policyVars == <<state, target, grasp_counter, n_replans, replan_steps,
                phase_step, prev_state, action>>

Phases == {"APPROACH", "DESCEND", "GRASP", "LIFT", "DONE"}
Heights == {"Low", "Hover", "High"}
Places == [at : Pos \cup {Away}, h : Heights]
Stay == [at |-> Away, h |-> "Low"]     \* the zero displacement command
Commands == [goal : Places, grip : {"open", "close"}]

PHASE_ID == [APPROACH |-> 0, DESCEND |-> 1, GRASP |-> 2, LIFT |-> 3, DONE |-> 4]

----------------------------------------------------------------------------
\* reset, followed by the uncounted replan run_episode starts with.
PolicyInit(obj) ==
    /\ state = "APPROACH"
    /\ target = obj
    /\ grasp_counter = 0
    /\ n_replans = 0
    /\ replan_steps = <<>>
    /\ phase_step = 0
    /\ prev_state = None
    /\ action = [goal |-> Stay, grip |-> "open"]

\* replan(env, step): the target is refreshed in every state; only a moved
\* target seen before the grasp sends the arm back above it.
Replan(obj, step) ==
    /\ target' = obj
    /\ IF target # obj /\ state \in {"APPROACH", "DESCEND"}
       THEN state' = "APPROACH" /\ grasp_counter' = 0
       ELSE UNCHANGED <<state, grasp_counter>>
    /\ n_replans' = n_replans + 1
    /\ replan_steps' = Append(replan_steps, step)
    /\ UNCHANGED <<phase_step, prev_state, action>>

\* The state act works in: a failed grasp is retried, with the old target.
Retries(grasping) == state \in {"LIFT", "DONE"} /\ ~grasping
ActState(grasping) == IF Retries(grasping) THEN "APPROACH" ELSE state

\* The target it works with: a retry does not refresh it.
ActTargetRefreshed(where, grasping) ==
    IF target = None \/ Retries(grasping) THEN where ELSE target
ActTarget(where, grasping) == IF target = None THEN where ELSE target

\* The count of the grasp outside GRASP: a retry starts again from zero.
KeptCountStale(grasping) == grasp_counter
KeptCount(grasping) == IF Retries(grasping) THEN 0 ELSE grasp_counter

Command(tgt, h, grip) == [goal |-> [at |-> tgt, h |-> h], grip |-> grip]

Approach(tgt, eef) ==
    /\ action' = Command(tgt, "Hover", "open")
    /\ state' = IF eef = [at |-> tgt, h |-> "Hover"] THEN "DESCEND" ELSE "APPROACH"

Descend(tgt, eef) ==
    /\ action' = Command(tgt, "Low", "open")
    /\ state' = IF eef = [at |-> tgt, h |-> "Low"] THEN "GRASP" ELSE "DESCEND"

\* Lift until the hand has risen by lift_thresh, then hold.
Lift(tgt, eef) ==
    /\ action' = Command(tgt, "High", "close")
    /\ state' = IF eef.h = "High" THEN "DONE" ELSE "LIFT"

Hold(tgt) ==
    /\ action' = Command(tgt, "High", "close")
    /\ state' = "DONE"

GraspOneMore ==
    /\ action' = [goal |-> Stay, grip |-> "close"]
    /\ grasp_counter' = grasp_counter + 1
    /\ state' = IF grasp_counter' > GraspSteps THEN "LIFT" ELSE "GRASP"
Grasp ==
    /\ action' = [goal |-> Stay, grip |-> "close"]
    /\ grasp_counter' = grasp_counter + 1
    /\ state' = IF grasp_counter' >= GraspSteps THEN "LIFT" ELSE "GRASP"

\* act(env): one control step of the state machine.
Act(where, eef, grasping) ==
    LET s == ActState(grasping)
        tgt == ActTarget(where, grasping)
    IN  /\ phase_step' = IF s = prev_state THEN phase_step + 1 ELSE 0
        /\ prev_state' = s
        /\ target' = tgt
        /\ \/ s = "APPROACH" /\ Approach(tgt, eef)
           \/ s = "DESCEND" /\ Descend(tgt, eef)
           \/ s = "GRASP" /\ Grasp
           \/ s = "LIFT" /\ Lift(tgt, eef)
           \/ s = "DONE" /\ Hold(tgt)
        /\ s # "GRASP" => grasp_counter' = KeptCount(grasping)
        /\ UNCHANGED <<n_replans, replan_steps>>

PolicyTypeOK ==
    /\ state \in Phases
    /\ target \in Pos
    /\ grasp_counter \in 0..GraspSteps
    /\ n_replans \in Nat
    /\ replan_steps \in Seq(Nat)
    /\ phase_step \in Nat
    /\ prev_state \in Phases \cup {None}
    /\ action \in Commands
============================================================================
