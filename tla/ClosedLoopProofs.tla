-------------------------- MODULE ClosedLoopProofs --------------------------
(***************************************************************************)
(* Proofs about ClosedLoop for every episode length, clip length, encoder, *)
(* calibration and rendering.                                              *)
(***************************************************************************)
EXTENDS ClosedLoop, SequenceTheorems, TLAPS

----------------------------------------------------------------------------
\* A bounded deque stays a bounded sequence, and is not empty after a push.
LEMMA PushType ==
    ASSUME NEW S, NEW s \in Seq(S), NEW x \in S, NEW n \in Nat \ {0}, Len(s) <= n
    PROVE  /\ Push(s, x, n) \in Seq(S)
           /\ Len(Push(s, x, n)) <= n
           /\ Len(Push(s, x, n)) >= 1
  <1>1. CASE Len(s) < n
    BY <1>1, AppendProperties DEF Push
  <1>2. CASE ~(Len(s) < n)
    <2>1. s # <<>> /\ Len(s) = n
      BY <1>2, EmptySeq
    <2>2. Tail(s) \in Seq(S) /\ Len(Tail(s)) = n - 1
      BY <2>1, HeadTailProperties
    <2>3. Append(Tail(s), x) \in Seq(S) /\ Len(Append(Tail(s), x)) = n
      BY <2>2, AppendProperties
    <2> QED
      BY <1>2, <2>3 DEF Push
  <1> QED
    BY <1>1, <1>2

\* Clamping keeps every index of a clip inside a buffer that is not empty.
LEMMA ClipType ==
    ASSUME NEW s \in Seq(Feature), Len(s) >= 1
    PROVE  BuildClip(s) \in [1..Frames -> Feature]
  <1> DEFINE j(i) == Len(s) - Stride * (Frames - i)
             idx(i) == IF j(i) < 1 THEN 1 ELSE j(i)
  <1>1. ASSUME NEW i \in 1..Frames
        PROVE  idx(i) \in 1..Len(s)
    <2>1. Frames - i \in Nat /\ Stride \in Nat /\ Len(s) \in Nat
      BY TriggerAssumption
    <2>2. Stride * (Frames - i) \in Nat
      BY <2>1
    <2> QED
      BY <2>1, <2>2
  <1>2. \A i \in 1..Frames : s[idx(i)] \in Feature
    BY <1>1, ElementOfSeq
  <1> QED
    BY <1>2 DEF BuildClip

LEMMA EncodeType ==
    ASSUME NEW s \in Seq(Feature), Len(s) >= 1
    PROVE  Encode(BuildClip(s)) \in Latent
  BY ClipType, EncodeAssumption

LEMMA EvaluateType ==
    ASSUME NEW b, NEW e, run \in 0..(Consec - 1), armed \in BOOLEAN, Evaluate(b, e)
    PROVE  run' \in 0..(Consec - 1) /\ armed' \in BOOLEAN /\ triggered' \in BOOLEAN
  <1>1. armed' \in BOOLEAN /\ triggered' \in BOOLEAN
    BY Zenon DEF Evaluate, Rearm, StayDisarmed, CountHigh, Fire, BreakRun
  <1>2. \/ run' = 0
        \/ run' = run
        \/ run' = run + 1 /\ run + 1 < Consec
    BY Zenon DEF Evaluate, Rearm, StayDisarmed, CountHigh, Fire, BreakRun
  <1>3. run' \in 0..(Consec - 1)
    BY <1>2, TriggerAssumption
  <1> QED
    BY <1>1, <1>3

\* One call of the trigger keeps its fields in their types.
LEMMA TriggerStepType ==
    ASSUME TriggerTypeOK, NEW n \in Nat, NEW f \in Feature, NEW ph, NEW ps,
           TriggerStep(n, f, ph, ps)
    PROVE  TriggerTypeOK'
  <1>1. Frames * Stride \in Nat \ {0} /\ 2 * K + 1 \in Nat \ {0}
    BY TriggerAssumption
  <1>2. buf' \in Seq(Feature) /\ Len(buf') <= Frames * Stride /\ Len(buf') >= 1
    BY <1>1, PushType DEF TriggerTypeOK, TriggerStep
  <1>3. CASE ~EvalDue(n)
    BY <1>2, <1>3 DEF TriggerTypeOK, TriggerStep
  <1>4. CASE EvalDue(n)
    <2>1. hist' \in Seq(Latent) /\ Len(hist') <= 2 * K + 1
      BY <1>1, <1>2, <1>4, EncodeType, PushType DEF TriggerTypeOK, TriggerStep
    <2>2. CASE Len(hist') < 2 * K + 1
      <3>1. Len(hist') # 2 * K + 1
        BY <1>1, <2>1, <2>2
      <3>2. triggered' = FALSE /\ UNCHANGED <<run, armed, last_eval>>
        BY <1>4, <3>1 DEF TriggerStep
      <3> QED
        BY <1>2, <2>1, <3>2 DEF TriggerTypeOK
    <2>3. CASE Len(hist') = 2 * K + 1
      <3> DEFINE b == Bucket(ph, ps)
                 e == Residual(hist')
      <3>1. last_eval' = n /\ Evaluate(b, e)
        BY <1>1, <1>4, <2>3 DEF TriggerStep
      <3>2. run' \in 0..(Consec - 1) /\ armed' \in BOOLEAN /\ triggered' \in BOOLEAN
        BY <3>1, EvaluateType DEF TriggerTypeOK
      <3> QED
        BY <1>2, <2>1, <3>1, <3>2 DEF TriggerTypeOK
    <2> QED
      BY <1>1, <2>1, <2>2, <2>3
  <1> QED
    BY <1>3, <1>4

----------------------------------------------------------------------------
(* Type correctness.  The grasp counter is bounded only because every       *)
(* attempt starts at zero, so FreshGrasp is part of the induction.          *)
CounterOK == state = "GRASP" => grasp_counter < GraspSteps

TInv == TypeOK /\ FreshGrasp /\ CounterOK

LEMMA InitT == Init => TInv
  <1> SUFFICES ASSUME Init PROVE TInv
    OBVIOUS
  <1>1. TriggerTypeOK
    <2>1. Frames * Stride \in Nat /\ 2 * K + 1 \in Nat /\ 0 \in 0..(Consec - 1)
      BY TriggerAssumption
    <2>2. /\ buf \in Seq(Feature) /\ Len(buf) = 0
          /\ hist \in Seq(Latent) /\ Len(hist) = 0
      BY EmptySeq DEF Init, TriggerInit
    <2>3. armed \in BOOLEAN /\ triggered \in BOOLEAN
      BY Zenon DEF Init, TriggerInit
    <2>4. run \in 0..(Consec - 1) /\ last_eval = -1
      BY <2>1 DEF Init, TriggerInit
    <2> QED
      BY <2>1, <2>2, <2>3, <2>4 DEF TriggerTypeOK
  <1>2. PolicyTypeOK
    BY PolicyAssumption, EmptySeq
       DEF Init, PolicyInit, PolicyTypeOK, Phases, Commands, Places, Heights, Stay
  <1>3. SchedTypeOK
    BY DEF Init, SchedInit, SchedTypeOK
  <1>4. state = "APPROACH" /\ grasp_counter = 0 /\ obj \in Pos
    BY DEF Init, PolicyInit
  <1>5. TypeOK
    <2>1. condition \in Conditions /\ t \in 0..(MaxSteps - 1) /\ trigger_step = -1
      BY LoopAssumption DEF Init
    <2>2. held \in BOOLEAN /\ lifted \in BOOLEAN /\ do_replan \in BOOLEAN
          /\ success \in BOOLEAN
      BY Zenon DEF Init
    <2>3. eef \in Places
      BY DEF Init, Places, Heights
    <2>4. rec_phase \in Phases \cup {None} /\ rec_step \in Nat
      BY DEF Init
    <2>5. pc = "perturb"
      BY DEF Init
    <2> QED
      BY <1>1, <1>2, <1>3, <1>4, <2>1, <2>2, <2>3, <2>4, <2>5 DEF TypeOK
  <1> QED
    BY <1>4, <1>5, PolicyAssumption DEF TInv, FreshGrasp, CounterOK

\* A replan leaves the policy well typed and its grasp counter fresh.
LEMMA ReplanType ==
    ASSUME PolicyTypeOK, FreshGrasp, CounterOK, obj \in Pos, t \in Nat, Replan(obj, t)
    PROVE  PolicyTypeOK' /\ FreshGrasp' /\ CounterOK'
  <1>1. replan_steps' \in Seq(Nat)
    BY AppendProperties DEF PolicyTypeOK, Replan
  <1>2. CASE target # obj /\ state \in {"APPROACH", "DESCEND"}
    BY <1>1, <1>2, PolicyAssumption
       DEF PolicyTypeOK, Replan, FreshGrasp, CounterOK, Phases
  <1>3. CASE ~(target # obj /\ state \in {"APPROACH", "DESCEND"})
    BY <1>1, <1>3 DEF PolicyTypeOK, Replan, FreshGrasp, CounterOK
  <1> QED
    BY <1>2, <1>3

\* So does one step of its state machine.
LEMMA ActType ==
    ASSUME PolicyTypeOK, FreshGrasp, CounterOK, eef \in Places, held \in BOOLEAN,
           obj \in Pos, Act(obj, eef, held)
    PROVE  PolicyTypeOK' /\ FreshGrasp' /\ CounterOK'
  <1> DEFINE s == ActState(held)
             tgt == ActTarget(obj, held)
  <1>0. tgt \in Pos /\ target' = tgt
    BY DEF PolicyTypeOK, Act, ActTarget
  <1>1. s \in Phases
    BY DEF PolicyTypeOK, ActState, Phases
  <1>2. phase_step' \in Nat /\ prev_state' \in Phases
    BY <1>1 DEF PolicyTypeOK, Act
  <1>3. target' \in Pos /\ n_replans' \in Nat /\ replan_steps' \in Seq(Nat)
    BY <1>0 DEF PolicyTypeOK, Act
  <1>4. s # "GRASP" => grasp_counter' \in 0..GraspSteps
                       /\ (Retries(held) => grasp_counter' = 0)
                       /\ (~Retries(held) => grasp_counter' = grasp_counter)
    BY PolicyAssumption DEF PolicyTypeOK, Act, KeptCount
  <1>5. \A h \in Heights, g \in {"open", "close"} : Command(tgt, h, g) \in Commands
    BY <1>0 DEF Command, Commands, Places
  <1>6. CASE s = "APPROACH"
    <2>1. Approach(tgt, eef)
      BY <1>6 DEF Act
    <2>2. action' \in Commands /\ state' \in {"APPROACH", "DESCEND"}
      BY <2>1, <1>5 DEF Approach, Heights
    <2>3. grasp_counter' = 0
      BY <1>6, <1>4 DEF ActState, FreshGrasp
    <2> QED
      BY <1>2, <1>3, <2>2, <2>3, PolicyAssumption
         DEF PolicyTypeOK, FreshGrasp, CounterOK, Phases
  <1>7. CASE s = "DESCEND"
    <2>1. Descend(tgt, eef)
      BY <1>7 DEF Act
    <2>2. action' \in Commands /\ state' \in {"DESCEND", "GRASP"}
      BY <2>1, <1>5 DEF Descend, Heights
    <2>3. grasp_counter' = 0
      BY <1>7, <1>4 DEF ActState, FreshGrasp
    <2> QED
      BY <1>2, <1>3, <2>2, <2>3, PolicyAssumption
         DEF PolicyTypeOK, FreshGrasp, CounterOK, Phases
  <1>8. CASE s = "GRASP"
    <2>1. Grasp /\ state = "GRASP"
      BY <1>8 DEF Act, ActState
    <2>2. action' \in Commands
      BY <2>1 DEF Grasp, Commands, Places, Stay, Heights
    <2>3. grasp_counter < GraspSteps
      BY <2>1 DEF CounterOK
    <2>4. /\ grasp_counter' \in 0..GraspSteps
          /\ \/ state' = "LIFT" /\ grasp_counter' = GraspSteps
             \/ state' = "GRASP" /\ grasp_counter' < GraspSteps
      BY <2>1, <2>3, PolicyAssumption DEF Grasp, PolicyTypeOK
    <2> QED
      BY <1>2, <1>3, <2>2, <2>4 DEF PolicyTypeOK, FreshGrasp, CounterOK, Phases
  <1>9. CASE s \in {"LIFT", "DONE"}
    <2>1. Lift(tgt, eef) \/ Hold(tgt)
      BY <1>9 DEF Act
    <2>2. action' \in Commands /\ state' \in {"LIFT", "DONE"}
      BY <2>1, <1>5 DEF Lift, Hold, Heights
    <2>3. grasp_counter' = GraspSteps
      BY <1>4, <1>9 DEF ActState, FreshGrasp
    <2> QED
      BY <1>2, <1>3, <1>4, <1>9, <2>2, <2>3 DEF PolicyTypeOK, FreshGrasp, CounterOK, Phases
  <1> QED
    BY <1>1, <1>6, <1>7, <1>8, <1>9 DEF Phases

LEMMA SchedStepType ==
    ASSUME SchedTypeOK, t \in Nat, obj \in Pos, NoPerturbation \/ Perturbation
    PROVE  SchedTypeOK' /\ obj' \in Pos
  <1>1. CASE Spent /\ UNCHANGED obj
    BY <1>1 DEF Spent, SchedTypeOK, schedVars
  <1>2. CASE OutsideFireState(state) /\ UNCHANGED obj
    BY <1>2 DEF OutsideFireState, SchedTypeOK
  <1>3. CASE CountDown(t, state) /\ UNCHANGED obj
    BY <1>3 DEF CountDown, SchedTypeOK
  <1>4. CASE Perturbation
    BY <1>4 DEF Perturbation, Perturb, SchedTypeOK
  <1> QED
    BY <1>1, <1>2, <1>3, <1>4 DEF NoPerturbation

LEMMA DecideType ==
    ASSUME TInv, Decide
    PROVE  TriggerTypeOK' /\ do_replan' \in BOOLEAN
  <1>1. CASE condition \in {"no_replan", "fixed", "oracle"} /\ DecideScripted
    <2>1. TriggerTypeOK'
      BY <1>1 DEF DecideScripted, TInv, TypeOK, TriggerTypeOK, triggerVars
    <2>2. do_replan' \in BOOLEAN
      BY <1>1 DEF DecideScripted, FiredNow, TInv, TypeOK, SchedTypeOK
    <2> QED
      BY <2>1, <2>2
  <1>2. CASE DecideJepa
    <2>1. PICK f \in View(sched_fired) : TriggerStep(t, f, PHASE_ID[state], phase_step)
      BY <1>2 DEF DecideJepa
    <2>2. f \in Feature /\ t \in Nat
      BY LoopAssumption DEF TInv, TypeOK, SchedTypeOK
    <2>3. TriggerTypeOK'
      BY <2>1, <2>2, TriggerStepType DEF TInv, TypeOK
    <2> QED
      BY <1>2, <2>3 DEF DecideJepa
  <1> QED
    BY <1>1, <1>2 DEF Decide

LEMMA NextT ==
    ASSUME TInv, [Next]_vars
    PROVE  TInv'
  <1>t. t \in Nat
    BY DEF TInv, TypeOK
  <1>1. CASE MaybeFire
    <2>1. SchedTypeOK' /\ obj' \in Pos
      BY <1>1, <1>t, SchedStepType DEF MaybeFire, TInv, TypeOK
    <2>2. TriggerTypeOK' /\ PolicyTypeOK' /\ FreshGrasp' /\ CounterOK'
      BY <1>1 DEF MaybeFire, TInv, TypeOK, TriggerTypeOK, PolicyTypeOK, FreshGrasp,
                  CounterOK, triggerVars, policyVars
    <2>3. rec_phase' \in Phases \cup {None} /\ rec_step' \in Nat
      BY <1>1 DEF MaybeFire, Record, TInv, TypeOK, PolicyTypeOK
    <2> QED
      BY <1>1, <2>1, <2>2, <2>3 DEF MaybeFire, TInv, TypeOK, loopVars
  <1>2. CASE Decide
    <2>1. TriggerTypeOK' /\ do_replan' \in BOOLEAN
      BY <1>2, DecideType
    <2>2. PolicyTypeOK' /\ FreshGrasp' /\ CounterOK' /\ trigger_step' \in Nat \cup {-1}
      <3>1. CASE do_replan'
        BY <1>2, <1>t, <3>1, ReplanType DEF Decide, FirstReaction, TInv, TypeOK
      <3>2. CASE ~do_replan'
        BY <1>2, <3>2 DEF Decide, TInv, TypeOK, PolicyTypeOK, FreshGrasp, CounterOK,
                          policyVars
      <3> QED
        BY <3>1, <3>2
    <2>3. SchedTypeOK'
      BY <1>2 DEF Decide, TInv, TypeOK, SchedTypeOK, schedVars
    <2> QED
      BY <1>2, <2>1, <2>2, <2>3 DEF Decide, TInv, TypeOK, envVars, recVars
  <1>3. CASE PolicyAct
    <2>1. PolicyTypeOK' /\ FreshGrasp' /\ CounterOK'
      BY <1>3, ActType DEF PolicyAct, TInv, TypeOK
    <2>2. TriggerTypeOK' /\ SchedTypeOK'
      BY <1>3 DEF PolicyAct, TInv, TypeOK, TriggerTypeOK, SchedTypeOK, triggerVars,
                  schedVars
    <2> QED
      BY <1>3, <2>1, <2>2 DEF PolicyAct, TInv, TypeOK, envVars, loopVars, recVars
  <1>4. CASE EnvStep
    <2>1. eef' \in Places /\ obj' \in Pos
      BY <1>4 DEF EnvStep, Physics, TInv, TypeOK, PolicyTypeOK, Commands
    <2>2. held' \in BOOLEAN /\ lifted' \in BOOLEAN /\ success' \in BOOLEAN
      BY <1>4 DEF EnvStep, Physics
    <2>3. t' \in 0..(MaxSteps - 1) /\ pc' \in {"perturb", "done"}
      BY <1>4, LoopAssumption DEF EnvStep, TInv, TypeOK
    <2>4. TriggerTypeOK' /\ PolicyTypeOK' /\ SchedTypeOK' /\ FreshGrasp' /\ CounterOK'
      BY <1>4 DEF EnvStep, TInv, TypeOK, TriggerTypeOK, PolicyTypeOK, SchedTypeOK,
                  FreshGrasp, CounterOK, triggerVars, policyVars, schedVars
    <2> QED
      BY <1>4, <2>1, <2>2, <2>3, <2>4 DEF EnvStep, TInv, TypeOK, recVars
  <1>5. CASE UNCHANGED vars
    BY <1>5 DEF TInv, TypeOK, TriggerTypeOK, PolicyTypeOK, SchedTypeOK, FreshGrasp,
                CounterOK, vars, triggerVars, policyVars, schedVars, envVars, loopVars,
                recVars
  <1> QED
    BY <1>1, <1>2, <1>3, <1>4, <1>5 DEF Next, EpisodeOver

\* Every episode keeps its bookkeeping in range, whatever the calibration says.
THEOREM TypeCorrect == Spec => []TypeOK
  <1>1. TInv => TypeOK
    BY DEF TInv
  <1> QED
    BY <1>1, InitT, NextT, PTL DEF Spec

\* No grasp starts with a count left over from a lost or broken-off attempt, and
\* the arm is lifted only after a full count of closing steps, whatever is
\* perturbed and replanned meanwhile.
THEOREM GraspIsFresh == Spec => []FreshGrasp
  <1>1. TInv => FreshGrasp
    BY DEF TInv
  <1> QED
    BY <1>1, InitT, NextT, PTL DEF Spec

----------------------------------------------------------------------------
(* Reactions.  What LatencyOfAReaction needs of the time of the             *)
(* perturbation: it has passed once the step it happened in has decided.    *)

FireTime ==
    sched_fired =>
        /\ fire_step \in Nat /\ fire_step <= t
        /\ pc = "perturb" => fire_step < t
OracleReacts ==
    condition = "oracle" /\ sched_fired =>
        \/ trigger_step = fire_step
        \/ pc = "decide" /\ fire_step = t /\ trigger_step = -1
LInv == FireTime /\ OracleReacts /\ LatencyOfAReaction

\* The scheduler fires at most once, in the step that is being decided.
LEMMA SchedStep ==
    ASSUME TInv, MaybeFire
    PROVE  \/ sched_fired' = sched_fired /\ fire_step' = fire_step /\ obj' = obj
           \/ /\ ~sched_fired /\ sched_fired' /\ fire_step' = t
              /\ state = "DESCEND" /\ obj' \in Pos \ {obj}
  <1>1. CASE NoPerturbation
    BY <1>1 DEF NoPerturbation, Spent, OutsideFireState, CountDown, schedVars
  <1>2. CASE Perturbation
    BY <1>2, Zenon DEF Perturbation, Perturb, InFireState
  <1> QED
    BY <1>1, <1>2 DEF MaybeFire

LEMMA InitL == Init => LInv
  <1> SUFFICES ASSUME Init PROVE LInv
    OBVIOUS
  <1>1. ~sched_fired /\ trigger_step = -1
    BY Zenon DEF Init, SchedInit
  <1> QED
    BY <1>1 DEF LInv, FireTime, OracleReacts, LatencyOfAReaction

LEMMA NextL ==
    ASSUME TInv, LInv, [Next]_vars
    PROVE  LInv'
  <1>t. /\ t \in Nat /\ trigger_step \in Nat \cup {-1} /\ replan_steps \in Seq(Nat)
        /\ pc \in {"perturb", "decide", "act", "env", "done"} /\ sched_fired \in BOOLEAN
    BY DEF TInv, TypeOK, PolicyTypeOK, SchedTypeOK
  <1>1. CASE MaybeFire
    <2>1. /\ pc = "perturb" /\ pc' = "decide"
          /\ UNCHANGED <<t, trigger_step, replan_steps, condition>>
      BY <1>1 DEF MaybeFire, policyVars, loopVars
    <2>2. CASE sched_fired' = sched_fired /\ fire_step' = fire_step
      <3>1. OracleReacts'
        BY <2>1, <2>2 DEF LInv, OracleReacts
      <3> QED
        BY <1>t, <2>1, <2>2, <3>1 DEF LInv, FireTime, LatencyOfAReaction
    <2>3. CASE ~sched_fired /\ sched_fired' /\ fire_step' = t
      <3>1. trigger_step = -1
        BY <2>3 DEF LInv, LatencyOfAReaction
      <3> QED
        BY <1>t, <2>1, <2>3, <3>1 DEF LInv, FireTime, OracleReacts, LatencyOfAReaction
    <2> QED
      BY <1>1, <2>2, <2>3, SchedStep
  <1>2. CASE Decide
    <2>1. pc = "decide" /\ pc' = "act" /\ UNCHANGED <<t, sched_fired, fire_step, condition>>
      BY <1>2 DEF Decide, schedVars
    <2>2. FireTime'
      BY <2>1 DEF LInv, FireTime
    <2>3. CASE ~do_replan'
      <3>1. UNCHANGED <<trigger_step, replan_steps>>
        BY <1>2, <2>3 DEF Decide, policyVars
      <3>2. condition = "oracle" /\ sched_fired => fire_step # t
        BY <1>2, <2>3 DEF Decide, DecideScripted, FiredNow
      <3>3. condition = "oracle" /\ sched_fired => trigger_step = fire_step
        BY <3>2 DEF LInv, OracleReacts
      <3> QED
        BY <2>1, <2>2, <3>1, <3>3 DEF LInv, OracleReacts, LatencyOfAReaction
    <2>4. CASE do_replan'
      <3>1. replan_steps' = Append(replan_steps, t) /\ trigger_step' = FirstReaction
        BY <1>2, <2>4 DEF Decide, Replan
      <3>2. /\ Len(replan_steps') = Len(replan_steps) + 1 /\ Len(replan_steps) \in Nat
            /\ replan_steps'[Len(replan_steps) + 1] = t
            /\ \A i \in 1..Len(replan_steps) : replan_steps'[i] = replan_steps[i]
        BY <1>t, <3>1, AppendProperties, LenProperties
      <3>3. \/ trigger_step' = t /\ trigger_step = -1 /\ sched_fired
            \/ trigger_step' = trigger_step /\ (trigger_step # -1 \/ ~sched_fired)
        BY <3>1 DEF FirstReaction
      <3>4. trigger_step' # -1 => \E i \in 1..Len(replan_steps') : replan_steps'[i] = trigger_step'
        <4>1. CASE trigger_step' = t
          <5>1. Len(replan_steps) + 1 \in 1..Len(replan_steps')
            BY <3>2
          <5> QED
            BY <3>2, <4>1, <5>1
        <4>2. CASE trigger_step' = trigger_step /\ trigger_step # -1
          <5>1. PICK i \in 1..Len(replan_steps) : replan_steps[i] = trigger_step
            BY <4>2 DEF LInv, LatencyOfAReaction
          <5>2. i \in 1..Len(replan_steps') /\ replan_steps'[i] = trigger_step'
            BY <3>2, <4>2, <5>1
          <5> QED
            BY <5>2
        <4> QED
          BY <3>3, <4>1, <4>2
      <3>5. trigger_step' # -1 => sched_fired /\ trigger_step' >= fire_step
        BY <1>t, <3>3 DEF LInv, FireTime, LatencyOfAReaction
      <3>6. condition = "oracle" /\ sched_fired => trigger_step' = fire_step
        <4>1. condition = "oracle" => FiredNow
          BY <1>2, <2>4 DEF Decide, DecideScripted
        <4>2. condition = "oracle" /\ sched_fired => fire_step = t /\ fire_step # -1
          BY <1>t, <4>1 DEF FiredNow
        <4> QED
          BY <1>t, <3>3, <4>2 DEF LInv, OracleReacts
      <3> QED
        BY <2>1, <2>2, <3>4, <3>5, <3>6 DEF LInv, OracleReacts, LatencyOfAReaction
    <2> QED
      BY <2>3, <2>4
  <1>3. CASE PolicyAct
    BY <1>3 DEF PolicyAct, Act, schedVars, loopVars,
                LInv, FireTime, OracleReacts, LatencyOfAReaction
  <1>4. CASE EnvStep
    <2>1. /\ pc = "env" /\ UNCHANGED <<sched_fired, fire_step, condition, trigger_step, replan_steps>>
          /\ \/ pc' = "done" /\ t' = t
             \/ pc' = "perturb" /\ t' = t + 1
      BY <1>4 DEF EnvStep, schedVars, policyVars
    <2>2. FireTime'
      BY <1>t, <2>1 DEF LInv, FireTime
    <2>3. OracleReacts' /\ LatencyOfAReaction'
      BY <2>1 DEF LInv, OracleReacts, LatencyOfAReaction
    <2> QED
      BY <2>2, <2>3 DEF LInv
  <1>5. CASE UNCHANGED vars
    BY <1>5 DEF vars, schedVars, loopVars, policyVars,
                LInv, FireTime, OracleReacts, LatencyOfAReaction
  <1> QED
    BY <1>1, <1>2, <1>3, <1>4, <1>5 DEF Next, EpisodeOver

\* A latency that run_episode reports is that of a replan it logged after the
\* perturbation, and the oracle's is zero, for every detector and calibration.
THEOREM LatencyIsOfAReaction == Spec => []LatencyOfAReaction
  <1>1. TInv /\ LInv /\ [Next]_vars => TInv' /\ LInv'
    BY NextT, NextL
  <1>2. LInv => LatencyOfAReaction
    BY DEF LInv
  <1> QED
    BY <1>1, <1>2, InitT, InitL, PTL DEF Spec

----------------------------------------------------------------------------
(* The control group.  The hand goes where the plan says, and the plan is   *)
(* where the object was; it is open when the object is moved away.          *)

Blind == condition \in {"no_replan", "jepa_observe"}
OpenHand ==
    state \in {"APPROACH", "DESCEND"} =>
        IF pc = "env" THEN action.grip = "open" ELSE ~held
FollowsPlan ==
    Blind => eef.at \in {Away, target} /\ action.goal.at \in {Away, target}
PlanIsStale ==
    Blind => IF sched_fired THEN target # obj /\ ~held /\ ~success ELSE target = obj
SuccessEnds == success => pc = "done"
BInv == OpenHand /\ FollowsPlan /\ PlanIsStale /\ SuccessEnds

LEMMA InitB == Init => BInv
  <1> SUFFICES ASSUME Init PROVE BInv
    OBVIOUS
  <1>1. ~sched_fired /\ ~held /\ ~success
    BY Zenon DEF Init, SchedInit
  <1>2. /\ target = obj /\ eef.at = Away /\ action.goal.at = Away /\ pc = "perturb"
    BY DEF Init, PolicyInit, Stay
  <1> QED
    BY <1>1, <1>2 DEF BInv, OpenHand, FollowsPlan, PlanIsStale, SuccessEnds

\* The blind conditions never replan.
LEMMA BlindDecides ==
    ASSUME Blind, Decide
    PROVE  UNCHANGED policyVars
  <1>1. ~do_replan'
    <2>1. CASE condition = "no_replan"
      BY <2>1 DEF Decide, DecideScripted
    <2>2. CASE condition = "jepa_observe"
      BY <2>2, Zenon DEF Decide, DecideJepa
    <2> QED
      BY <2>1, <2>2 DEF Blind
  <1> QED
    BY <1>1 DEF Decide

\* act keeps the target, and sends the hand there or nowhere; on the way to
\* the object the hand is open.
LEMMA ActGoes ==
    ASSUME TInv, PolicyAct
    PROVE  /\ target' = target /\ action'.goal.at \in {Away, target}
           /\ state' \in {"APPROACH", "DESCEND"} => action'.grip = "open"
  <1>1. Act(obj, eef, held) /\ target \in Pos /\ target # None /\ state \in Phases
    BY PolicyAssumption DEF PolicyAct, TInv, TypeOK, PolicyTypeOK
  <1> DEFINE s == ActState(held)
  <1>2. ActTarget(obj, held) = target /\ target' = target
    BY <1>1 DEF ActTarget, Act
  <1>3. \/ s = "APPROACH" /\ Approach(target, eef)
        \/ s = "DESCEND" /\ Descend(target, eef)
        \/ s = "GRASP" /\ Grasp
        \/ s = "LIFT" /\ Lift(target, eef)
        \/ s = "DONE" /\ Hold(target)
    BY <1>1, <1>2 DEF Act
  <1> QED
    BY <1>2, <1>3 DEF Approach, Descend, Grasp, Lift, Hold, Command, Stay

LEMMA NextB ==
    ASSUME TInv, BInv, [Next]_vars
    PROVE  BInv'
  <1>t. /\ target \in Pos /\ obj \in Pos /\ Away \notin Pos /\ state \in Phases
        /\ held \in BOOLEAN /\ sched_fired \in BOOLEAN /\ success \in BOOLEAN
        /\ eef \in Places /\ action \in Commands
    BY PolicyAssumption DEF TInv, TypeOK, PolicyTypeOK, SchedTypeOK
  <1>1. CASE MaybeFire
    <2>1. /\ pc = "perturb" /\ pc' = "decide"
          /\ UNCHANGED <<policyVars, held, eef, condition, success>>
      BY <1>1 DEF MaybeFire, loopVars
    <2>2. OpenHand' /\ FollowsPlan' /\ SuccessEnds'
      BY <2>1 DEF policyVars, BInv, OpenHand, FollowsPlan, SuccessEnds, Blind
    <2>3. PlanIsStale'
      <3>1. CASE sched_fired' = sched_fired /\ obj' = obj
        BY <2>1, <3>1 DEF policyVars, BInv, PlanIsStale, Blind
      <3>2. CASE ~sched_fired /\ sched_fired' /\ state = "DESCEND" /\ obj' \in Pos \ {obj}
        <4>1. ~held
          BY <2>1, <3>2 DEF BInv, OpenHand
        <4>2. ~success
          BY <2>1 DEF BInv, SuccessEnds
        <4> QED
          BY <2>1, <3>2, <4>1, <4>2 DEF policyVars, BInv, PlanIsStale, Blind
      <3> QED
        BY <1>1, <3>1, <3>2, SchedStep
    <2> QED
      BY <2>2, <2>3 DEF BInv
  <1>2. CASE Decide
    <2>1. /\ pc = "decide" /\ pc' = "act" /\ UNCHANGED <<schedVars, envVars, condition, success>>
          /\ state' \in {"APPROACH", "DESCEND"} => state \in {"APPROACH", "DESCEND"}
      BY <1>2 DEF Decide, Replan, policyVars
    <2>2. OpenHand' /\ SuccessEnds'
      BY <2>1 DEF BInv, OpenHand, SuccessEnds, envVars
    <2>3. FollowsPlan' /\ PlanIsStale'
      BY <1>2, <2>1, BlindDecides
         DEF policyVars, envVars, schedVars, BInv, FollowsPlan, PlanIsStale, Blind
    <2> QED
      BY <2>2, <2>3 DEF BInv
  <1>3. CASE PolicyAct
    <2>1. /\ pc = "act" /\ pc' = "env" /\ UNCHANGED <<schedVars, envVars, condition, success>>
          /\ target' = target /\ action'.goal.at \in {Away, target}
          /\ state' \in {"APPROACH", "DESCEND"} => action'.grip = "open"
      BY <1>3, ActGoes DEF PolicyAct, loopVars
    <2> QED
      BY <2>1 DEF envVars, schedVars, BInv, OpenHand, FollowsPlan, PlanIsStale, SuccessEnds, Blind
  <1>4. CASE EnvStep
    <2>1. /\ pc = "env" /\ pc' \in {"perturb", "done"} /\ obj' = obj
          /\ UNCHANGED <<policyVars, schedVars, condition>>
          /\ eef' \in {eef, action.goal}
          /\ held' => action.grip = "close" /\ (held \/ eef = [at |-> obj, h |-> "Low"])
          /\ success' => held' /\ pc' = "done"
      BY <1>4 DEF EnvStep, Physics
    <2>2. OpenHand' /\ SuccessEnds'
      BY <2>1 DEF policyVars, BInv, OpenHand, SuccessEnds
    <2>3. FollowsPlan'
      BY <2>1 DEF policyVars, BInv, FollowsPlan, Blind
    <2>4. PlanIsStale'
      <3>1. Blind /\ sched_fired => eef.at # obj /\ ~held /\ target # obj
        BY <1>t DEF BInv, FollowsPlan, PlanIsStale
      <3>2. Blind /\ sched_fired => ~held' /\ ~success'
        BY <2>1, <3>1
      <3> QED
        BY <2>1, <3>1, <3>2 DEF policyVars, schedVars, BInv, PlanIsStale, Blind
    <2> QED
      BY <2>2, <2>3, <2>4 DEF BInv
  <1>5. CASE UNCHANGED vars
    BY <1>5 DEF vars, schedVars, loopVars, policyVars, envVars,
                BInv, OpenHand, FollowsPlan, PlanIsStale, SuccessEnds, Blind
  <1> QED
    BY <1>1, <1>2, <1>3, <1>4, <1>5 DEF Next, EpisodeOver

\* Without a replan a moved object is never lifted, for every physics that
\* moves the hand only where it is sent: the control group measures nothing else.
THEOREM BlindIsBlind == Spec => []BlindNeverRecovers
  <1>1. TInv /\ BInv /\ [Next]_vars => TInv' /\ BInv'
    BY NextT, NextB
  <1>2. BInv => BlindNeverRecovers
    BY DEF BInv, PlanIsStale, Blind, BlindNeverRecovers
  <1> QED
    BY <1>1, <1>2, InitT, InitB, PTL DEF Spec

----------------------------------------------------------------------------
(* The refractory time.  Latents, high values and re-arming each take an    *)
(* evaluation of their own, and evaluations are EncodeStep steps apart.     *)

\* The control steps that are still to be decided and evaluated.
Ahead(s) == s > t \/ (s = t /\ pc \in {"perturb", "decide"})
NextEval(from) == \A s \in Nat : Ahead(s) /\ EvalDue(s) => s >= from

LatentsTakeTime == NextEval(Warmup + Len(hist) * EncodeStep)
HighsTakeTime == run > 0 => NextEval(Warmup + (2 * K + run) * EncodeStep)
Last == replan_steps[Len(replan_steps)]
RearmingTakesTime ==
    replan_steps # <<>> =>
        IF armed THEN NextEval(Last + (2 + run) * EncodeStep)
        ELSE NextEval(Last + EncodeStep)
RInv ==
    /\ condition = "jepa" => LatentsTakeTime /\ HighsTakeTime /\ RearmingTakesTime
    /\ Refractory

LEMMA EvalsApart ==
    ASSUME NEW a \in Nat, NEW b \in Nat, EvalDue(a), EvalDue(b), b > a
    PROVE  b >= a + EncodeStep
  <1> DEFINE E == EncodeStep
             p == a \div E
             q == b \div E
  <1>0. E \in Nat \ {0}
    BY TriggerAssumption
  <1>1. a = E * p /\ b = E * q /\ p \in Nat /\ q \in Nat
    BY <1>0 DEF EvalDue
  <1> HIDE DEF E, p, q
  <1>2. q > p
    <2>1. ASSUME q <= p PROVE FALSE
      <3>1. p - q \in Nat
        BY <1>1, <2>1
      <3>2. E * (p - q) \in Nat
        BY <1>0, <3>1
      <3>3. E * (p - q) = E * p - E * q
        BY <1>0, <1>1
      <3> QED
        BY <1>0, <1>1, <3>2, <3>3
    <2> QED
      BY <1>1, <2>1
  <1>3. E * (q - p - 1) \in Nat
    <2>1. q - p - 1 \in Nat
      BY <1>1, <1>2
    <2> QED
      BY <1>0, <2>1
  <1>4. E * (q - p - 1) = E * q - E * p - E
    BY <1>0, <1>1
  <1>5. b >= a + E
    BY <1>0, <1>1, <1>3, <1>4
  <1> QED
    BY <1>5 DEF E

LEMMA InitR == Init => RInv
  <1> SUFFICES ASSUME Init PROVE RInv
    OBVIOUS
  <1>1. Len(hist) = 0 /\ run = 0 /\ replan_steps = <<>> /\ Len(replan_steps) = 0
    BY EmptySeq DEF Init, TriggerInit, PolicyInit
  <1>2. LatentsTakeTime
    <2>1. Warmup + Len(hist) * EncodeStep = Warmup
      BY <1>1, TriggerAssumption
    <2> QED
      BY <2>1 DEF LatentsTakeTime, NextEval, EvalDue
  <1>3. HighsTakeTime /\ RearmingTakesTime /\ Refractory
    BY <1>1 DEF HighsTakeTime, RearmingTakesTime, Refractory
  <1> QED
    BY <1>2, <1>3 DEF RInv

\* The outcomes of a decision of the jepa condition.
Quiet == UNCHANGED <<run, armed, replan_steps>>
Rearms == ~armed /\ armed' /\ run' = 0 /\ UNCHANGED replan_steps
Counts == armed /\ armed' /\ run' = run + 1 /\ UNCHANGED replan_steps
Fires == /\ armed /\ run + 1 >= Consec /\ ~armed' /\ run' = 0
         /\ replan_steps' = Append(replan_steps, t)
Breaks == armed /\ armed' /\ run' = 0 /\ UNCHANGED replan_steps

LEMMA JepaDecides ==
    ASSUME TInv, Decide, condition = "jepa"
    PROVE  \/ Len(hist') = Len(hist) /\ Quiet
           \/ /\ EvalDue(t) /\ Len(hist') <= Len(hist) + 1
              /\ \/ Quiet
                 \/ Len(hist) >= 2 * K /\ (Rearms \/ Counts \/ Fires \/ Breaks)
  <1>0. /\ hist \in Seq(Latent) /\ Len(hist) \in Nat /\ Len(hist) <= 2 * K + 1
        /\ K \in Nat /\ 2 * K + 1 \in Nat \ {0} /\ armed \in BOOLEAN
    BY TriggerAssumption, LenProperties DEF TInv, TypeOK, TriggerTypeOK
  <1>1. PICK f \in View(sched_fired) : TriggerStep(t, f, PHASE_ID[state], phase_step)
    BY DEF Decide, DecideJepa
  <1>2. do_replan' <=> triggered'
    <2>1. DecideJepa
      BY DEF Decide
    <2>2. do_replan' = (triggered' /\ condition = "jepa")
      BY <2>1, Zenon DEF DecideJepa
    <2> QED
      BY <2>2
  <1>3. /\ triggered' => replan_steps' = Append(replan_steps, t)
        /\ ~triggered' => replan_steps' = replan_steps
    BY <1>2 DEF Decide, Replan, policyVars
  <1>4. CASE ~EvalDue(t)
    <2>1. triggered' = FALSE /\ UNCHANGED <<hist, run, armed>>
      BY <1>1, <1>4 DEF TriggerStep
    <2> QED
      BY <1>3, <2>1 DEF Quiet
  <1>5. CASE EvalDue(t)
    <2>1. PICK x : hist' = Push(hist, x, 2 * K + 1) /\ x \in Latent
      <3>1. hist' = Push(hist, Encode(BuildClip(buf')), 2 * K + 1)
        BY <1>1, <1>5 DEF TriggerStep
      <3>2. f \in Feature
        BY LoopAssumption DEF TInv, TypeOK, SchedTypeOK
      <3>3. Frames * Stride \in Nat \ {0}
        BY TriggerAssumption
      <3>4. buf' \in Seq(Feature) /\ Len(buf') >= 1
        BY <1>1, <3>2, <3>3, PushType DEF TInv, TypeOK, TriggerTypeOK, TriggerStep
      <3> QED
        BY <3>1, <3>4, EncodeType
    <2>2. Len(hist') <= Len(hist) + 1 /\ Len(hist') \in Nat
      <3>1. CASE Len(hist) < 2 * K + 1
        <4>1. hist' = Append(hist, x)
          BY <2>1, <3>1 DEF Push
        <4> QED
          BY <1>0, <2>1, <4>1, AppendProperties
      <3>2. CASE ~(Len(hist) < 2 * K + 1)
        <4>1. hist' = Append(Tail(hist), x) /\ hist # <<>>
          BY <1>0, <2>1, <3>2, EmptySeq DEF Push
        <4>2. Tail(hist) \in Seq(Latent) /\ Len(Tail(hist)) = Len(hist) - 1
          BY <1>0, <4>1, HeadTailProperties
        <4>3. Len(hist') = Len(Tail(hist)) + 1
          BY <2>1, <4>1, <4>2, AppendProperties
        <4> QED
          BY <1>0, <4>2, <4>3
      <3> QED
        BY <3>1, <3>2
    <2>3. \/ triggered' = FALSE /\ UNCHANGED <<run, armed>>
          \/ /\ Len(hist') = 2 * K + 1
             /\ Evaluate(Bucket(PHASE_ID[state], phase_step), Residual(hist'))
      BY <1>1, <1>5 DEF TriggerStep
    <2>4. CASE triggered' = FALSE /\ UNCHANGED <<run, armed>>
      BY <1>3, <1>5, <2>2, <2>4 DEF Quiet
    <2>5. ASSUME NEW b, NEW e, Len(hist') = 2 * K + 1, Evaluate(b, e)
          PROVE  Len(hist) >= 2 * K /\ (Quiet \/ Rearms \/ Counts \/ Fires \/ Breaks)
      <3>1. Len(hist) >= 2 * K
        BY <1>0, <2>2, <2>5
      <3>2. \/ ~triggered' /\ UNCHANGED <<run, armed>>
            \/ ~triggered' /\ ~armed /\ armed' /\ run' = 0
            \/ ~triggered' /\ armed /\ armed' /\ run' = run + 1
            \/ triggered' /\ armed /\ run + 1 >= Consec /\ ~armed' /\ run' = 0
            \/ ~triggered' /\ armed /\ armed' /\ run' = 0
        BY <1>0, <2>5, Zenon DEF Evaluate, Rearm, StayDisarmed, CountHigh, Fire, BreakRun
      <3> QED
        BY <1>3, <3>1, <3>2 DEF Quiet, Rearms, Counts, Fires, Breaks
    <2> QED
      BY <1>5, <2>2, <2>3, <2>4, <2>5
  <1> QED
    BY <1>4, <1>5

LEMMA EvalSteps ==
    ASSUME NEW m \in Nat, NEW n \in Nat, m <= n
    PROVE  /\ m * EncodeStep \in Nat /\ m * EncodeStep <= n * EncodeStep
           /\ (n + 1) * EncodeStep = n * EncodeStep + EncodeStep
  <1>0. EncodeStep \in Nat
    BY TriggerAssumption
  <1>1. (n - m) * EncodeStep \in Nat
    <2>1. n - m \in Nat
      OBVIOUS
    <2> QED
      BY <1>0, <2>1
  <1>2. (n - m) * EncodeStep = n * EncodeStep - m * EncodeStep
    BY <1>0
  <1> QED
    BY <1>0, <1>1, <1>2

\* A decision of the jepa condition moves the next evaluation on by as much as
\* its latent, its high value, its replan or its re-arming took.
LEMMA DecideR ==
    ASSUME TInv, RInv, Decide, condition = "jepa"
    PROVE  /\ (LatentsTakeTime /\ HighsTakeTime /\ RearmingTakesTime)'
           /\ Fires => /\ t >= Warmup + (2 * K + Consec - 1) * EncodeStep
                       /\ replan_steps # <<>> => t - Last >= (Consec + 1) * EncodeStep
  <1> DEFINE E == EncodeStep
  <1>0. /\ t \in Nat /\ Len(hist) \in Nat /\ run \in Nat /\ K \in Nat /\ Warmup \in Nat
        /\ Consec \in Nat \ {0} /\ E \in Nat \ {0} /\ armed \in BOOLEAN /\ Len(hist') \in Nat
        /\ replan_steps \in Seq(Nat) /\ Len(replan_steps) \in Nat
    <2>1. TriggerTypeOK'
      BY DecideType
    <2> QED
      BY <2>1, TriggerAssumption, LenProperties DEF TInv, TypeOK, TriggerTypeOK, PolicyTypeOK
  <1>1. pc = "decide" /\ pc' = "act" /\ t' = t
    BY DEF Decide
  <1>2. replan_steps # <<>> => Last \in Nat
    <2>1. replan_steps # <<>> => Len(replan_steps) \in 1..Len(replan_steps)
      BY <1>0, EmptySeq
    <2> QED
      BY <1>0, <2>1, ElementOfSeq DEF Last
  <1>3. LatentsTakeTime /\ HighsTakeTime /\ RearmingTakesTime
    BY DEF RInv
  \* what is known of every step that is still to be evaluated
  <1>4. ASSUME NEW s \in Nat, Ahead(s), EvalDue(s)
        PROVE  /\ s >= Warmup + Len(hist) * E
               /\ run > 0 => s >= Warmup + (2 * K + run) * E
               /\ replan_steps # <<>> /\ armed => s >= Last + (2 + run) * E
               /\ replan_steps # <<>> /\ ~armed => s >= Last + E
    BY <1>3, <1>4 DEF LatentsTakeTime, HighsTakeTime, RearmingTakesTime, NextEval
  <1>5. Ahead(t)
    BY <1>1 DEF Ahead
  <1>6. EvalDue(t) /\ Len(hist) >= 2 * K => t >= Warmup + (2 * K + run) * E
    <2>1. CASE run = 0 /\ EvalDue(t) /\ Len(hist) >= 2 * K
      <3>1. t >= Warmup + Len(hist) * E
        BY <1>0, <1>4, <1>5, <2>1
      <3>2. (2 * K) * E \in Nat /\ (2 * K) * E <= Len(hist) * E
        BY <1>0, <2>1, EvalSteps
      <3>3. 2 * K + run = 2 * K /\ Len(hist) * E \in Nat
        BY <1>0, <2>1, EvalSteps
      <3> HIDE DEF E
      <3> QED
        BY <1>0, <3>1, <3>2, <3>3
    <2>2. CASE run # 0
      BY <1>0, <1>4, <1>5, <2>2
    <2> QED
      BY <2>1, <2>2
  <1>7. ASSUME Fires, EvalDue(t), Len(hist) >= 2 * K
        PROVE  /\ t >= Warmup + (2 * K + Consec - 1) * E
               /\ replan_steps # <<>> => t - Last >= (Consec + 1) * E
    <2>1. run + 1 >= Consec /\ armed
      BY <1>7 DEF Fires
    <2>2. t >= Warmup + (2 * K + run) * E
      BY <1>6, <1>7
    <2>3. /\ 2 * K + Consec - 1 \in Nat /\ 2 * K + run \in Nat /\ 2 * K + Consec - 1 <= 2 * K + run
          /\ Consec + 1 \in Nat /\ 2 + run \in Nat /\ Consec + 1 <= 2 + run
      BY <1>0, <2>1
    <2>4. /\ (2 * K + Consec - 1) * E <= (2 * K + run) * E
          /\ (2 * K + Consec - 1) * E \in Nat /\ (2 * K + run) * E \in Nat
          /\ (Consec + 1) * E <= (2 + run) * E
          /\ (Consec + 1) * E \in Nat /\ (2 + run) * E \in Nat
      BY <2>3, EvalSteps
    <2>5. replan_steps # <<>> => t >= Last + (2 + run) * E
      BY <1>4, <1>5, <1>7, <2>1, <1>0
    <2> HIDE DEF E
    <2> QED
      BY <1>0, <1>2, <2>2, <2>4, <2>5
  <1>8. ASSUME NEW s \in Nat, s > t, EvalDue(s)
        PROVE  /\ s >= Warmup + Len(hist') * E
               /\ run' > 0 => s >= Warmup + (2 * K + run') * E
               /\ replan_steps' # <<>> /\ armed' => s >= Last' + (2 + run') * E
               /\ replan_steps' # <<>> /\ ~armed' => s >= Last' + E
    <2>1. Ahead(s)
      BY <1>8 DEF Ahead
    <2>2. CASE Len(hist') = Len(hist) /\ Quiet
      BY <1>4, <1>8, <2>1, <2>2 DEF Quiet, Last
    <2>3. CASE /\ EvalDue(t) /\ Len(hist') <= Len(hist) + 1
               /\ \/ Quiet
                  \/ Len(hist) >= 2 * K /\ (Rearms \/ Counts \/ Fires \/ Breaks)
      <3>1. s >= t + E
        BY <1>0, <1>8, <2>3, EvalsApart
      <3>2. s >= Warmup + Len(hist') * E
        <4>1. t >= Warmup + Len(hist) * E
          BY <1>0, <1>4, <1>5, <2>3
        <4>2. Len(hist') * E <= (Len(hist) + 1) * E /\ (Len(hist) + 1) * E = Len(hist) * E + E
              /\ Len(hist) * E \in Nat /\ Len(hist') * E \in Nat
          <5>1. Len(hist) + 1 \in Nat /\ Len(hist') <= Len(hist) + 1
            BY <1>0, <2>3
          <5> QED
            BY <1>0, <5>1, EvalSteps
        <4>3. ASSUME NEW a \in Nat, NEW b \in Nat, b <= a + E, t >= Warmup + a
              PROVE  s >= Warmup + b
          BY <1>0, <3>1, <4>3
        <4> HIDE DEF E
        <4> QED
          BY <4>1, <4>2, <4>3
      <3>3. run' = run + 1 /\ Len(hist) >= 2 * K => s >= Warmup + (2 * K + run') * E
        <4>1. (2 * K + (run + 1)) * E = (2 * K + run) * E + E /\ (2 * K + run) * E \in Nat
          <5>1. 2 * K + run \in Nat /\ 2 * K + (run + 1) = (2 * K + run) + 1
            BY <1>0
          <5> QED
            BY <5>1, EvalSteps
        <4>2. Len(hist) >= 2 * K => t >= Warmup + (2 * K + run) * E
          BY <1>6, <2>3
        <4> HIDE DEF E
        <4> QED
          BY <1>0, <3>1, <4>1, <4>2
      <3>4. replan_steps # <<>> /\ armed /\ run' = run + 1 => s >= Last + (2 + run') * E
        <4>1. (2 + (run + 1)) * E = (2 + run) * E + E /\ (2 + run) * E \in Nat
          <5>1. 2 + run \in Nat /\ 2 + (run + 1) = (2 + run) + 1
            BY <1>0
          <5> QED
            BY <5>1, EvalSteps
        <4>2. replan_steps # <<>> /\ armed => t >= Last + (2 + run) * E
          BY <1>0, <1>4, <1>5, <2>3
        <4> HIDE DEF E
        <4> QED
          BY <1>0, <1>2, <3>1, <4>1, <4>2
      <3>5. replan_steps # <<>> => s >= Last + (2 + 0) * E
        <4>1. t >= Last + E \/ t >= Last + (2 + run) * E \/ replan_steps = <<>>
          BY <1>0, <1>4, <1>5, <2>3
        <4>2. (2 + 0) * E <= (2 + run) * E /\ (2 + 0) * E \in Nat /\ (2 + run) * E \in Nat
          BY <1>0, EvalSteps
        <4>3. (2 + 0) * E = E + E
          BY <1>0
        <4> HIDE DEF E
        <4> QED
          BY <1>0, <1>2, <3>1, <4>1, <4>2, <4>3
      <3>6. CASE Quiet
        BY <1>4, <1>8, <2>1, <3>2, <3>6 DEF Quiet, Last
      <3>7. CASE Rearms \/ Breaks
        BY <3>2, <3>5, <3>7 DEF Rearms, Breaks, Last
      <3>8. CASE Counts /\ Len(hist) >= 2 * K
        <4>1. armed /\ armed' /\ run' = run + 1 /\ Last' = Last /\ replan_steps' = replan_steps
          BY <3>8 DEF Counts, Last
        <4> QED
          BY <3>2, <3>3, <3>4, <3>8, <4>1
      <3>9. CASE Fires
        <4>1. Last' = t
          <5>1. replan_steps' = Append(replan_steps, t)
            BY <3>9 DEF Fires
          <5>2. Len(replan_steps') = Len(replan_steps) + 1 /\ replan_steps'[Len(replan_steps) + 1] = t
            BY <1>0, <5>1, AppendProperties
          <5> QED
            BY <5>2 DEF Last
        <4> QED
          BY <3>1, <3>2, <3>9, <4>1 DEF Fires
      <3> QED
        BY <2>3, <3>6, <3>7, <3>8, <3>9
    <2> QED
      BY <2>2, <2>3, JepaDecides
  <1>9. (LatentsTakeTime /\ HighsTakeTime /\ RearmingTakesTime)'
    <2>1. \A s \in Nat : Ahead(s)' => s > t
      BY <1>1 DEF Ahead
    <2>2. \A s : EvalDue(s)' = EvalDue(s)
      BY DEF EvalDue
    <2> QED
      BY <1>8, <2>1, <2>2 DEF LatentsTakeTime, HighsTakeTime, RearmingTakesTime, NextEval
  <1>10. Fires => EvalDue(t) /\ Len(hist) >= 2 * K
    <2>1. Fires => ~Quiet /\ ~Rearms /\ ~Counts /\ ~Breaks
      BY DEF Fires, Quiet, Rearms, Counts, Breaks
    <2> QED
      BY <2>1, JepaDecides
  <1> QED
    BY <1>7, <1>9, <1>10

LEMMA NextR ==
    ASSUME TInv, RInv, [Next]_vars
    PROVE  RInv'
  <1>0. /\ t \in Nat /\ replan_steps \in Seq(Nat) /\ Len(replan_steps) \in Nat
        /\ Len(replan_steps) = 0 <=> replan_steps = <<>>
    BY LenProperties, EmptySeq DEF TInv, TypeOK, PolicyTypeOK
  <1>1. CASE Decide
    <2> SUFFICES ASSUME condition = "jepa" PROVE RInv'
      BY <1>1 DEF RInv, Refractory, Decide
    <2>1. (LatentsTakeTime /\ HighsTakeTime /\ RearmingTakesTime)'
      BY <1>1, DecideR
    <2>2. CASE replan_steps' = replan_steps
      BY <1>1, <2>1, <2>2 DEF RInv, Refractory, Decide
    <2>3. CASE Fires
      <3>1. /\ t >= Warmup + (2 * K + Consec - 1) * EncodeStep
            /\ replan_steps # <<>> => t - Last >= (Consec + 1) * EncodeStep
        BY <1>1, <2>3, DecideR
      <3> DEFINE n == Len(replan_steps)
      <3>2. /\ Len(replan_steps') = n + 1 /\ replan_steps'[n + 1] = t
            /\ \A i \in 1..n : replan_steps'[i] = replan_steps[i]
        BY <1>0, <2>3, AppendProperties DEF Fires
      <3>3. \A i \in 1..(Len(replan_steps') - 1) :
               replan_steps'[i + 1] - replan_steps'[i] >= (Consec + 1) * EncodeStep
        <4> SUFFICES ASSUME NEW i \in 1..n
                     PROVE  replan_steps'[i + 1] - replan_steps'[i] >= (Consec + 1) * EncodeStep
          BY <1>0, <3>2
        <4>1. CASE i = n
          <5>1. replan_steps # <<>> /\ replan_steps'[i] = Last /\ replan_steps'[i + 1] = t
            BY <1>0, <3>2, <4>1 DEF Last
          <5> QED
            BY <3>1, <5>1
        <4>2. CASE i # n
          <5>1. i \in 1..(n - 1) /\ i + 1 \in 1..n
            BY <1>0, <4>2
          <5>2. replan_steps'[i + 1] = replan_steps[i + 1] /\ replan_steps'[i] = replan_steps[i]
            BY <3>2, <5>1
          <5>3. replan_steps[i + 1] - replan_steps[i] >= (Consec + 1) * EncodeStep
            BY <5>1 DEF RInv, Refractory
          <5> QED
            BY <5>2, <5>3
        <4> QED
          BY <4>1, <4>2
      <3>4. replan_steps'[1] >= Warmup + (2 * K + Consec - 1) * EncodeStep
        <4>1. CASE replan_steps = <<>>
          BY <1>0, <3>1, <3>2, <4>1
        <4>2. CASE replan_steps # <<>>
          <5>1. 1 \in 1..n
            BY <1>0, <4>2
          <5>2. replan_steps'[1] = replan_steps[1]
            BY <3>2, <5>1
          <5> QED
            BY <4>2, <5>2 DEF RInv, Refractory
        <4> QED
          BY <4>1, <4>2
      <3> QED
        BY <2>1, <3>3, <3>4 DEF RInv, Refractory
    <2> QED
      BY <1>1, <2>2, <2>3, JepaDecides DEF Quiet, Rearms, Counts, Breaks
  <1>2. CASE MaybeFire \/ PolicyAct \/ EnvStep \/ UNCHANGED vars
    <2>1. UNCHANGED <<condition, hist, run, armed, replan_steps>>
      BY <1>2 DEF MaybeFire, PolicyAct, Act, EnvStep, vars, triggerVars, policyVars, loopVars
    <2>2. ASSUME NEW s \in Nat, Ahead(s)' PROVE Ahead(s)
      <3>1. \/ pc = "perturb" /\ pc' = "decide" /\ t' = t
            \/ pc = "act" /\ pc' = "env" /\ t' = t
            \/ pc = "env" /\ pc' = "done" /\ t' = t
            \/ pc = "env" /\ pc' = "perturb" /\ t' = t + 1
            \/ pc' = pc /\ t' = t
        BY <1>2 DEF MaybeFire, PolicyAct, EnvStep, vars
      <3> QED
        BY <1>0, <2>2, <3>1 DEF Ahead
    <2>3. ASSUME NEW from, NextEval(from)
          PROVE  \A s \in Nat : Ahead(s)' /\ EvalDue(s) => s >= from
      BY <2>2, <2>3 DEF NextEval
    <2>4. \A s : EvalDue(s)' = EvalDue(s)
      BY DEF EvalDue
    <2>5. LatentsTakeTime => LatentsTakeTime'
      BY <2>1, <2>3, <2>4 DEF LatentsTakeTime, NextEval
    <2>6. HighsTakeTime => HighsTakeTime'
      BY <2>1, <2>3, <2>4 DEF HighsTakeTime, NextEval
    <2>7. RearmingTakesTime => RearmingTakesTime'
      BY <2>1, <2>3, <2>4 DEF RearmingTakesTime, NextEval, Last
    <2>8. Refractory'
      BY <2>1 DEF RInv, Refractory
    <2> QED
      BY <2>1, <2>5, <2>6, <2>7, <2>8 DEF RInv
  <1> QED
    BY <1>1, <1>2 DEF Next, EpisodeOver

\* The hysteresis of OnlineJepaTrigger is a refractory time, and its warm-up a
\* dead time, for every encoder, calibration and sequence of frames.
THEOREM HysteresisIsRefractory == Spec => []Refractory
  <1>1. TInv /\ RInv /\ [Next]_vars => TInv' /\ RInv'
    BY NextT, NextR
  <1>2. RInv => Refractory
    BY DEF RInv
  <1> QED
    BY <1>1, <1>2, InitT, InitR, PTL DEF Spec

============================================================================
