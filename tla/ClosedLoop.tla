----------------------------- MODULE ClosedLoop -----------------------------
(***************************************************************************)
(* exp/run_episode.py: run_episode, the loop that composes the policy, the *)
(* perturbation scheduler, the simulated arm and, in one of the four       *)
(* conditions, the JEPA trigger.  A control step t is four actions, in the *)
(* order of the loop body: maybe_fire, the replan decision, act, env.step. *)
(*                                                                         *)
(* Beside it runs the recorder of exp/collect_data.py: collect_episode,    *)
(* the loop that produced the calibration data: rec_phase and rec_step are *)
(* what it would have logged for the same trajectory.                      *)
(***************************************************************************)
EXTENDS JepaTrigger, ScriptedPolicy, PerturbationScheduler

CONSTANTS
    Conditions,   \* the conditions of this instance
    FixedPeriod,  \* fixed: replan every so many steps
    MaxSteps,     \* length of an episode
    View(_)       \* the features a frame may have, by whether the object moved

AllConditions == {"no_replan", "fixed", "oracle", "jepa", "jepa_observe"}

ASSUME LoopAssumption ==
    /\ Conditions \subseteq AllConditions
    /\ FixedPeriod \in Nat \ {0} /\ MaxSteps \in Nat \ {0}
    /\ \A moved \in BOOLEAN : View(moved) \subseteq Feature

VARIABLES
    condition,      \* with observe_only folded in as "jepa_observe"
    t, pc,
    obj,            \* where the object is
    held, lifted,   \* between the fingers; more than 4 cm above the start
    eef,            \* where the end effector is
    do_replan, trigger_step, success,
    rec_phase, rec_step

envVars == <<obj, held, lifted, eef>>
loopVars == <<condition, do_replan, trigger_step, success>>
recVars == <<rec_phase, rec_step>>
vars == <<triggerVars, policyVars, schedVars, envVars, loopVars, recVars, t, pc>>

----------------------------------------------------------------------------
Init ==
    /\ condition \in Conditions
    /\ \E p \in Pos : obj = p /\ PolicyInit(p)
    /\ held = FALSE /\ lifted = FALSE
    /\ eef = [at |-> Away, h |-> "High"]
    /\ TriggerInit
    /\ SchedInit
    /\ do_replan = FALSE /\ trigger_step = -1 /\ success = FALSE
    /\ rec_phase = None /\ rec_step = 0
    /\ t = 0 /\ pc = "perturb"

\* collect_episode logs the phase after maybe_fire and before act.
Record ==
    /\ rec_step' = IF state = rec_phase THEN rec_step + 1 ELSE 0
    /\ rec_phase' = state

NoPerturbation ==
    /\ \/ Spent
       \/ OutsideFireState(state)
       \/ CountDown(t, state)
    /\ UNCHANGED obj

\* teleport_object puts the object somewhere else on the table.
Perturbation ==
    /\ Perturb(t, state)
    /\ obj' \in Pos \ {obj}

MaybeFire ==
    /\ pc = "perturb"
    /\ NoPerturbation \/ Perturbation
    /\ Record
    /\ pc' = "decide"
    /\ UNCHANGED <<triggerVars, policyVars, held, lifted, eef, loopVars, t>>

FiredLastStep == sched_fired /\ fire_step = t - 1
FiredNow == sched_fired /\ fire_step = t

\* What each condition answers to "replan now?"; only jepa and its
\* observe-only variant call the trigger, the latter discards its answer.
DecideScripted ==
    /\ do_replan' = CASE condition = "no_replan" -> FALSE
                      [] condition = "fixed" -> t > 0 /\ t % FixedPeriod = 0
                      [] condition = "oracle" -> FiredNow
    /\ UNCHANGED triggerVars

DecideJepaUnfiltered ==
    /\ \E frame \in View(sched_fired) :
          TriggerStep(t, frame, PHASE_ID[state], phase_step)
    /\ do_replan' = triggered'
DecideJepa ==
    /\ \E frame \in View(sched_fired) :
          TriggerStep(t, frame, PHASE_ID[state], phase_step)
    /\ do_replan' = (triggered' /\ condition = "jepa")

\* trigger_step is the first replan after the perturbation.
AnyReplanIsReaction == IF trigger_step = -1 THEN t ELSE trigger_step
FirstReaction == IF trigger_step = -1 /\ sched_fired THEN t ELSE trigger_step

Decide ==
    /\ pc = "decide"
    /\ \/ condition \in {"no_replan", "fixed", "oracle"} /\ DecideScripted
       \/ condition \in {"jepa", "jepa_observe"} /\ DecideJepa
    /\ IF do_replan'
       THEN Replan(obj, t) /\ trigger_step' = FirstReaction
       ELSE UNCHANGED <<policyVars, trigger_step>>
    /\ pc' = "act"
    /\ UNCHANGED <<schedVars, envVars, condition, success, recVars, t>>

PolicyAct ==
    /\ pc = "act"
    /\ Act(obj, eef, held)
    /\ pc' = "env"
    /\ UNCHANGED <<triggerVars, schedVars, envVars, loopVars, recVars, t>>

\* robosuite: the arm reaches the commanded way point in this step or is
\* still under way; closed fingers hold the object only if they closed around
\* it, and may lose it; a held object rises with the hand or slips in it.
Physics ==
    /\ eef' \in {eef} \cup (IF action.goal = Stay THEN {} ELSE {action.goal})
    /\ held' \in {FALSE} \cup
          (IF action.grip = "close" /\ (held \/ eef = [at |-> obj, h |-> "Low"])
           THEN {TRUE} ELSE {})
    /\ lifted' \in {FALSE} \cup (IF held' /\ eef'.h = "High" THEN {TRUE} ELSE {})
    /\ UNCHANGED obj

EnvStep ==
    /\ pc = "env"
    /\ Physics
    /\ success' = lifted'
    /\ IF lifted' \/ t + 1 = MaxSteps
       THEN pc' = "done" /\ UNCHANGED t
       ELSE pc' = "perturb" /\ t' = t + 1
    /\ UNCHANGED <<triggerVars, policyVars, schedVars, condition, do_replan,
                   trigger_step, recVars>>

EpisodeOver ==
    /\ pc = "done"
    /\ UNCHANGED vars

Next ==
    \/ MaybeFire
    \/ Decide
    \/ PolicyAct
    \/ EnvStep
    \/ EpisodeOver

Spec == Init /\ [][Next]_vars

----------------------------------------------------------------------------
\* The rings of the trigger keep their lengths, counters and buffers their ranges.
TypeOK ==
    /\ TriggerTypeOK
    /\ PolicyTypeOK
    /\ SchedTypeOK
    /\ condition \in Conditions
    /\ t \in 0..(MaxSteps - 1)
    /\ pc \in {"perturb", "decide", "act", "env", "done"}
    /\ obj \in Pos
    /\ held \in BOOLEAN /\ lifted \in BOOLEAN
    /\ eef \in Places
    /\ do_replan \in BOOLEAN /\ success \in BOOLEAN
    /\ trigger_step \in Nat \cup {-1}
    /\ rec_phase \in Phases \cup {None} /\ rec_step \in Nat

\* The control group stays blind: without a replan, a perturbed episode never
\* succeeds, however often act retries its empty grasp.
BlindNeverRecovers ==
    condition \in {"no_replan", "jepa_observe"} /\ sched_fired => ~success

\* A replan of the fixed or jepa condition before the perturbation is never
\* booked as the reaction to it: a reported latency is not negative, and the
\* step is one at which a replan was logged.  The oracle, the zero reference of
\* the comparison, has reacted once the step of the perturbation has decided.
LatencyOfAReaction ==
    /\ trigger_step # -1 =>
          /\ sched_fired
          /\ trigger_step >= fire_step
          /\ \E i \in 1..Len(replan_steps) : replan_steps[i] = trigger_step
    /\ condition = "oracle" /\ sched_fired /\ pc # "decide" =>
          trigger_step = fire_step

\* Every grasp attempt closes for the whole of GraspSteps: no count is left
\* over from an attempt that was broken off or lost, and the arm is lifted, and
\* stays up, with a full count only.  It is a count per attempt, not per target:
\* a replan in GRASP changes the target and lets the attempt go on.
FreshGrasp ==
    /\ state \in {"APPROACH", "DESCEND"} => grasp_counter = 0
    /\ state \in {"LIFT", "DONE"} => grasp_counter = GraspSteps

\* When the detector may fire.  Hysteresis is a refractory time: two replans of
\* the jepa condition are at least one re-arming evaluation and Consec high ones
\* apart; and the first needs 2K+1 latents after the warm-up and Consec values.
Refractory ==
    condition = "jepa" =>
        /\ \A i \in 1..(Len(replan_steps) - 1) :
              replan_steps[i + 1] - replan_steps[i] >= (Consec + 1) * EncodeStep
        /\ replan_steps # <<>> =>
              replan_steps[1] >= Warmup + (2 * K + Consec - 1) * EncodeStep

----------------------------------------------------------------------------
\* jepa_trigger.py demands the bucket of the online value to be the bucket the
\* calibration data was sorted into.
SameBucket ==
    pc = "decide" /\ EvalDue(t) =>
        Bucket(PHASE_ID[state], phase_step) = Bucket(PHASE_ID[rec_phase], rec_step)
============================================================================
