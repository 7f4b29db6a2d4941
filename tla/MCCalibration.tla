---------------------------- MODULE MCCalibration ----------------------------
(* Two bands of one 28-dot unit each, patterns black, white and the       *)
(* spec's example, 3 taps, and three fits: one that looks at the left     *)
(* neighbour only, one centred, and one that ignores its input (white =   *)
(* black, the degenerate gain).                                           *)
EXTENDS Calibration

MCPatternChoices == {<<0, 0, 0, 0>>, <<127, 127, 127, 127>>, <<8, 17, 34, 68>>}
MCFitChoices == {[w |-> <<1, 0, 0>>, b |-> 0],
                 [w |-> <<0, 2, 1>>, b |-> 1],
                 [w |-> <<0, 0, 0>>, b |-> 1]}
(* A single fit, for the eight-phase run of the docstring's usage example. *)
MCOneFit == {[w |-> <<0, 2, 1>>, b |-> 1]}
=============================================================================
