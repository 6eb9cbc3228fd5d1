---------------------------- MODULE MCClosedLoop ----------------------------
(* Instances of ClosedLoop: the deployed detector (16 frames, encoded every *)
(* second step, k = 1) or a shorter one, and a linear encoder.              *)
EXTENDS ClosedLoop, FiniteSetsExt

\* Mean pooling of per-frame features, without the constant factor.
MCEncode(clip) == MapThenSumSet(LAMBDA i : clip[i], DOMAIN clip)

MCLatent == 0..Frames
MCCalib == <<>>
MCGlobal == [mu |-> 0, sd |-> 1]

\* Frames of an undisturbed scene all look alike; a moved object shows.
MCSharpView(moved) == IF moved THEN {1} ELSE {0}
\* The same with a noisy rendering of either scene.
MCNoisyView(moved) == {0, 1}
============================================================================
