----------------------------- MODULE DesignMatrix -----------------------------
(***************************************************************************)
(* make_design_matrix of src/misc/aw-tapper.py: row n of the N x taps     *)
(* matrix is the window of the waveform centred on sample n, with indices *)
(* that fall off either end clamped to the first or last sample (edge     *)
(* replication, not zero padding).  Rows are indexed 0..N-1 as in the     *)
(* code; a row is a sequence of taps samples.                             *)
(***************************************************************************)
EXTENDS Integers, Sequences

(* make_design_matrix raises ValueError("--taps must be odd") otherwise.   *)
DesignMatrixDefined(taps) == taps % 2 = 1

(* idx = n + (t - R); if idx < 0: idx = 0 elif idx >= N: idx = N - 1       *)
DesignIndex(n, t, taps, N) ==
    LET idx == n + (t - taps \div 2)
    IN  IF idx < 0 THEN 0 ELSE IF idx >= N THEN N - 1 ELSE idx

(* X[n, t] = x[idx] for every n in range(N) and t in range(taps).          *)
MakeDesignMatrix(x, taps) ==
    [n \in 0..Len(x) - 1 |->
        [t \in 1..taps |-> x[DesignIndex(n, t - 1, taps, Len(x)) + 1]]]
=============================================================================
