---------------------------- MODULE MCPhaseSearch ----------------------------
(* One band of 28 samples; two phase counts, the default-like 2 and 29,   *)
(* which leaves a bucket empty; a shift range around 0 and an empty one;  *)
(* two MSE values, so that ties between cells happen.                     *)
EXTENDS PhaseSearch

MCPhaseCounts == {2, 29}
MCShiftRanges == {<<-1, 1>>, <<1, 0>>}
=============================================================================
