----------------------- MODULE PerturbationScheduler -----------------------
(***************************************************************************)
(* exp/task_env.py: class PerturbationScheduler.  It teleports the object  *)
(* once, some steps into the DESCEND phase.                                *)
(***************************************************************************)
EXTENDS Integers

CONSTANTS
    DelayRange,  \* what delay_steps is drawn from
    MinStep      \* no perturbation before this control step

ASSUME SchedulerAssumption == DelayRange \subseteq Nat /\ MinStep \in Nat

VARIABLES enabled, delay_steps, sched_fired, fire_step, in_state

schedVars == <<enabled, delay_steps, sched_fired, fire_step, in_state>>

SchedInit ==
    /\ enabled \in BOOLEAN
    /\ delay_steps \in DelayRange
    /\ sched_fired = FALSE
    /\ fire_step = -1
    /\ in_state = 0

\* fire_state: the arm is above the object and coming down, the hand open.
InFireState(policy_state) == policy_state = "DESCEND"

\* Off, or the one perturbation has happened.
Spent ==
    /\ ~enabled \/ sched_fired
    /\ UNCHANGED schedVars

OutsideFireState(policy_state) ==
    /\ enabled /\ ~sched_fired
    /\ ~InFireState(policy_state)
    /\ in_state' = 0
    /\ UNCHANGED <<enabled, delay_steps, sched_fired, fire_step>>

CountDown(step, policy_state) ==
    /\ enabled /\ ~sched_fired
    /\ InFireState(policy_state)
    /\ in_state' = in_state + 1
    /\ in_state' <= delay_steps \/ step < MinStep
    /\ UNCHANGED <<enabled, delay_steps, sched_fired, fire_step>>

Perturb(step, policy_state) ==
    /\ enabled /\ ~sched_fired
    /\ InFireState(policy_state)
    /\ in_state' = in_state + 1
    /\ in_state' > delay_steps /\ step >= MinStep
    /\ sched_fired' = TRUE
    /\ fire_step' = step
    /\ UNCHANGED <<enabled, delay_steps>>

SchedTypeOK ==
    /\ enabled \in BOOLEAN
    /\ delay_steps \in DelayRange
    /\ sched_fired \in BOOLEAN
    /\ fire_step \in Nat \cup {-1}
    /\ in_state \in Nat
============================================================================
