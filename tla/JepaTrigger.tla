---------------------------- MODULE JepaTrigger ----------------------------
(***************************************************************************)
(* The online surprise detector of exp/jepa_trigger.py: class              *)
(* OnlineJepaTrigger.  Every control step renders a frame into a bounded   *)
(* buffer; every EncodeStep steps after Warmup the last clip is encoded,   *)
(* and once 2K+1 latents are there the linear-extrapolation residual is    *)
(* normalised by the bucket (phase, time in phase) and compared with two   *)
(* thresholds: Consec values above the high one trigger a replan, which    *)
(* disarms the detector until a value falls below the low one.             *)
(*                                                                         *)
(* Frames are abstracted to elements of Feature (a number per rendered     *)
(* image) and the encoder, which is not part of the repository, to the     *)
(* operator Encode from a clip to an integer.                              *)
(***************************************************************************)
EXTENDS Integers, Sequences

CONSTANTS
    Feature,        \* what a rendered frame can show
    Latent,         \* what the encoder can answer
    Encode(_),      \* the frozen encoder followed by the pooling
    Frames, Stride, \* clip length and spacing, from the calibration file
    K,              \* extrapolation distance, in encodes
    Warmup,         \* first control step that is encoded
    EncodeStep,     \* control steps between two encodes
    Consec,         \* high values in a row that trigger
    KappaHigh, KappaLow,
    Calib,          \* bucket |-> [mu, sd] for the calibrated buckets
    GlobalCalib,    \* [mu, sd] for every other bucket
    BucketSteps     \* control steps per bucket of a phase

ASSUME TriggerAssumption ==
    /\ Frames \in Nat \ {0} /\ Stride \in Nat \ {0}
    /\ K \in Nat \ {0} /\ Warmup \in Nat
    /\ EncodeStep \in Nat \ {0} /\ Consec \in Nat \ {0}
    /\ BucketSteps \in Nat \ {0}
    /\ KappaLow \in Int /\ KappaHigh \in Int /\ KappaLow <= KappaHigh

ASSUME EncodeAssumption ==
    /\ Latent \subseteq Int
    /\ \A clip \in [1..Frames -> Feature] : Encode(clip) \in Latent

ASSUME CalibAssumption ==
    /\ GlobalCalib.mu \in Int /\ GlobalCalib.sd \in Nat \ {0}
    /\ \A b \in DOMAIN Calib : Calib[b].mu \in Int /\ Calib[b].sd \in Nat \ {0}

VARIABLES
    buf,        \* the rendered frames, oldest first, at most Frames * Stride
    hist,       \* the last latents, at most 2K+1
    run,        \* high values in a row while armed
    armed,
    last_eval,  \* control step of the newest z_log entry, -1 before the first
    triggered   \* what the last call returned

triggerVars == <<buf, hist, run, armed, last_eval, triggered>>

----------------------------------------------------------------------------
\* collections.deque(maxlen=n): appending to a full one drops the oldest.
PushUnbounded(s, x, n) == Append(s, x)
Push(s, x, n) == IF Len(s) < n THEN Append(s, x) ELSE Append(Tail(s), x)

\* n_frames frames that end with the last one, Stride apart; an index before
\* the first frame is clamped to it.
BuildClip(frames) ==
    [i \in 1..Frames |->
        LET j == Len(frames) - Stride * (Frames - i)
        IN  frames[IF j < 1 THEN 1 ELSE j]]

Abs(x) == IF x < 0 THEN -x ELSE x

\* |2 h[-1-k] - h[-1-2k] - h[-1]|, the "abs" metric of the calibrations in the
\* repository.  The "rel" metric, which divides it by a norm, is left out.
Residual(h) == Abs(2 * h[K + 1] - h[1] - h[2 * K + 1])

\* Three buckets per phase; the last one has no upper end.
Bucket(phase, phase_step) ==
    LET third == phase_step \div BucketSteps
    IN  phase * 3 + (IF third < 2 THEN third ELSE 2)

Stats(b) == IF b \in DOMAIN Calib THEN Calib[b] ELSE GlobalCalib

\* z = (e - mu) / sd against a threshold, multiplied out (sd > 0).
ZAbove(b, e) == e - Stats(b).mu > KappaHigh * Stats(b).sd
ZBelow(b, e) == e - Stats(b).mu < KappaLow * Stats(b).sd

EvalDue(t) == t % EncodeStep = 0 /\ t >= Warmup

----------------------------------------------------------------------------
TriggerInit ==
    /\ buf = <<>>
    /\ hist = <<>>
    /\ run = 0
    /\ armed = TRUE
    /\ last_eval = -1
    /\ triggered = FALSE

Rearm(b, e) ==
    /\ ~armed
    /\ ZBelow(b, e)
    /\ armed' = TRUE
    /\ run' = 0
    /\ triggered' = FALSE

StayDisarmed(b, e) ==
    /\ ~armed
    /\ ~ZBelow(b, e)
    /\ triggered' = FALSE
    /\ UNCHANGED <<armed, run>>

CountHigh(b, e) ==
    /\ armed
    /\ ZAbove(b, e)
    /\ run + 1 < Consec
    /\ run' = run + 1
    /\ triggered' = FALSE
    /\ UNCHANGED armed

FireStaysArmed(b, e) ==
    /\ armed
    /\ ZAbove(b, e)
    /\ run + 1 >= Consec
    /\ run' = 0
    /\ triggered' = TRUE
    /\ UNCHANGED armed
FireOneEarly(b, e) ==
    /\ armed
    /\ ZAbove(b, e)
    /\ run + 1 >= Consec - 1
    /\ run' = 0
    /\ armed' = FALSE
    /\ triggered' = TRUE
Fire(b, e) ==
    /\ armed
    /\ ZAbove(b, e)
    /\ run + 1 >= Consec
    /\ run' = 0
    /\ armed' = FALSE
    /\ triggered' = TRUE

BreakRun(b, e) ==
    /\ armed
    /\ ~ZAbove(b, e)
    /\ run' = 0
    /\ triggered' = FALSE
    /\ UNCHANGED armed

Evaluate(b, e) ==
    \/ Rearm(b, e)
    \/ StayDisarmed(b, e)
    \/ CountHigh(b, e)
    \/ Fire(b, e)
    \/ BreakRun(b, e)

\* step_: one call per control step t, whatever it does with the frame.
TriggerStep(t, frame, phase, phase_step) ==
    /\ buf' = Push(buf, frame, Frames * Stride)
    /\ \/ /\ ~EvalDue(t)
          /\ triggered' = FALSE
          /\ UNCHANGED <<hist, run, armed, last_eval>>
       \/ /\ EvalDue(t)
          /\ hist' = Push(hist, Encode(BuildClip(buf')), 2 * K + 1)
          /\ \/ /\ Len(hist') < 2 * K + 1
                /\ triggered' = FALSE
                /\ UNCHANGED <<run, armed, last_eval>>
             \/ /\ Len(hist') = 2 * K + 1
                /\ last_eval' = t
                /\ Evaluate(Bucket(phase, phase_step), Residual(hist'))

TriggerTypeOK ==
    /\ buf \in Seq(Feature) /\ Len(buf) <= Frames * Stride
    /\ hist \in Seq(Latent) /\ Len(hist) <= 2 * K + 1
    /\ run \in 0..(Consec - 1)
    /\ armed \in BOOLEAN
    /\ last_eval \in Nat \cup {-1}
    /\ triggered \in BOOLEAN
============================================================================
