----------------------------- MODULE PhaseSearch -----------------------------
(***************************************************************************)
(* The brute-force search of main() in src/misc/aw-tapper.py, with        *)
(* fit_per_phase_fir and predict_from_fits.  For every phase_bias pb the  *)
(* samples 0..N-1 of x_all are split into phase buckets and one ridge fit *)
(* is solved per bucket; then for every x_shift xs the whole signal is    *)
(* predicted and scored, and the strictly better cell replaces the best. *)
(*                                                                         *)
(* Abstraction: a fit is named by the set of samples it was trained on    *)
(* (the ridge solve is a deterministic function of that set, and is not  *)
(* modelled beyond the one way it fails: a bucket with no sample makes    *)
(* its normal equations singular).  A prediction records, per sample, the *)
(* fit that produced it and the design-matrix row it was applied to.  The *)
(* MSE of a cell is data: any value of MseVals.                           *)
(***************************************************************************)
EXTENDS Integers, FiniteSets, Sequences

CONSTANTS
    NSamples,      \* len(x_all)
    PhaseCounts,   \* values of --phases
    ShiftRanges,   \* pairs <<--xshift_min, --xshift_max>>
    MseVals,       \* the MSE values a cell can score
    NoBest         \* best = None

VARIABLES
    phases, xmin, xmax,  \* the command-line parameters of the search
    pb,        \* the phase_bias loop variable
    xs,        \* the x_shift loop variable
    fits,      \* fits[ph]: the fit of bucket ph for the current pb
    pred,      \* the prediction of the last scored cell
    scored,    \* history: every cell scored so far with its MSE
    best,      \* the best cell so far, or NoBest
    pc

vars == <<phases, xmin, xmax, pb, xs, fits, pred, scored, best, pc>>

Samples == 0..NSamples - 1

(* fit_per_phase_fir: n goes to bucket ph iff ((n + phase_bias) % phases) == ph *)
FitBucket(n, bias, P) == (n + bias) % P

FitPerPhase(bias) ==
    [ph \in 0..phases - 1 |-> {n \in Samples : FitBucket(n, bias, phases) = ph}]

(* ridge_solve: lhs = Xa.T @ Xa + Rt has a zero bias row when the bucket  *)
(* has no sample, and np.linalg.solve raises LinAlgError.                 *)
RidgeSolvable(idx) == idx # {}

(* predict_from_fits: clamp(i) to [0, N-1]                                 *)
PredictClamp(i) == IF i < 0 THEN 0 ELSE IF i >= NSamples THEN NSamples - 1 ELSE i

(* Mutant: the bucket taken from the shifted position.                    *)
PredictBucketShifted(n, bias, P) == (n + xs + bias) % P

(* predict_from_fits: ph = (n + phase_bias) % phases, of the UNSHIFTED n   *)
PredictBucket(n, bias, P) == (n + bias) % P

(* predict_from_fits: out[n] = Xfull[clamp(n + x_shift)] . w[ph] + b[ph]   *)
PredictFromFits(f, bias, shift) ==
    [n \in Samples |-> [model |-> f[PredictBucket(n, bias, phases)],
                        row   |-> PredictClamp(n + shift)]]

(* Mutant: one phase_bias too many.                                       *)
MoreBiasesInclusive(b, P) == b <= P

(* for pb in range(args.phases)                                            *)
MoreBiases(b, P) == b < P

(* Mutant: a tie replaces the best cell.                                   *)
ImprovesOrTies(err, cur) == cur = NoBest \/ err <= cur.err

(* if (best is None) or (err < best["err"])                                *)
Improves(err, cur) == cur = NoBest \/ err < cur.err

Init ==
    /\ phases \in PhaseCounts
    /\ \E r \in ShiftRanges : xmin = r[1] /\ xmax = r[2]
    /\ pb = 0
    /\ xs = 0
    /\ fits = <<>>
    /\ pred = <<>>
    /\ scored = <<>>
    /\ best = NoBest
    /\ pc = "fit"

(* fits = fit_per_phase_fir(..., phase_bias=pb, ...) at the top of the pb *)
(* loop; a LinAlgError from ridge_solve ends the program.                 *)
FitPhase ==
    /\ pc = "fit"
    /\ MoreBiases(pb, phases)
    /\ LET f == FitPerPhase(pb)
       IN  IF \A ph \in DOMAIN f : RidgeSolvable(f[ph])
             THEN /\ fits' = f
                  /\ xs' = xmin
                  /\ pc' = "shift"
             ELSE /\ pc' = "error"
                  /\ UNCHANGED <<fits, xs>>
    /\ UNCHANGED <<phases, xmin, xmax, pb, pred, scored, best>>

(* One x_shift iteration: predict, err = mse(pred, t_all), and            *)
(* if (best is None) or (err < best["err"]): best = {...}                  *)
ScoreShift ==
    /\ pc = "shift"
    /\ xs <= xmax
    /\ \E err \in MseVals :
         /\ pred' = PredictFromFits(fits, pb, xs)
         /\ scored' = [c \in DOMAIN scored \cup {<<pb, xs>>} |->
                          IF c = <<pb, xs>> THEN err ELSE scored[c]]
         /\ best' = IF Improves(err, best)
                      THEN [pb |-> pb, xs |-> xs, fits |-> fits, err |-> err]
                      ELSE best
    /\ xs' = xs + 1
    /\ UNCHANGED <<phases, xmin, xmax, pb, fits, pc>>

(* The x_shift loop is exhausted: next phase_bias.                         *)
NextBias ==
    /\ pc = "shift"
    /\ xs > xmax
    /\ pb' = pb + 1
    /\ pc' = "fit"
    /\ UNCHANGED <<phases, xmin, xmax, xs, fits, pred, scored, best>>

(* After the pb loop: assert best is not None.                             *)
Finish ==
    /\ pc = "fit"
    /\ ~MoreBiases(pb, phases)
    /\ pc' = IF best = NoBest THEN "error" ELSE "done"
    /\ UNCHANGED <<phases, xmin, xmax, pb, xs, fits, pred, scored, best>>

Terminated ==
    /\ pc \in {"done", "error"}
    /\ UNCHANGED vars

Next == FitPhase \/ ScoreShift \/ NextBias \/ Finish \/ Terminated

Spec == Init /\ [][Next]_vars

-----------------------------------------------------------------------------
TypeOK ==
    /\ pc \in {"fit", "shift", "done", "error"}
    /\ pb \in 0..phases
    /\ best = NoBest \/ best.err \in MseVals
    /\ DOMAIN scored \subseteq (0..phases - 1) \X (xmin..xmax)

(* Every sample is predicted by the fit that was trained on it: the       *)
(* bucket predict_from_fits picks for n (from the unshifted n) is the one *)
(* fit_per_phase_fir put n in, for every x_shift, although the row used   *)
(* comes from the shifted, clamped position.  The two sites compute the   *)
(* bucket independently.                                                  *)
PredictUsesOwnBucket ==
    pred # <<>> => \A n \in Samples : n \in pred[n].model

(* The loop with its strict "<" implements SearchSpec: the winner is the  *)
(* first least-MSE cell in (phase_bias, x_shift) order, and the run fails *)
(* exactly when the grid is empty or a bucket is empty.                   *)
Abs == INSTANCE SearchSpec WITH
         scores <- scored,
         status <- CASE pc = "done"  -> "done"
                     [] pc = "error" -> "failed"
                     [] OTHER        -> "running",
         winner <- IF pc = "done" THEN <<best.pb, best.xs, best.err>> ELSE <<>>

SearchRefinement == Abs!ASpec
=============================================================================
