----------------------------- MODULE Calibration -----------------------------
(***************************************************************************)
(* The calibration half of main() in src/misc/aw-tapper.py: find the     *)
(* black ($00 x4) and white ($7f x4) reference bands, predict every       *)
(* sample of each with the winning per-phase fits, average per phase, and *)
(* derive the per-phase gain 1 / (white - black) with its near-zero guard. *)
(*                                                                         *)
(* One colour channel is modelled: the three channels run the same code   *)
(* on their own fits.  A fit is a record of integer tap weights w and a  *)
(* bias b, so the per-phase means are exact rationals <<num, den>>.       *)
(***************************************************************************)
EXTENDS Integers, FiniteSets, Sequences, Functions, Waveform, DesignMatrix

CONSTANTS
    Phases,          \* --phases
    Taps,            \* --taps
    BandWidth,       \* W, the trained width of every band (a multiple of 28)
    NumBands,        \* number of bands (= number of patterns)
    PatternChoices,  \* 7-bit 4-tuples the pattern file may hold
    FitChoices,      \* the per-phase fits [w, b] the search may have won with
    None             \* the index None / black_levels = None

ASSUME DesignMatrixDefined(Taps) /\ BandWidth % UnitLen = 0

VARIABLES
    AM_bytes,        \* patterns, one per band
    pb,              \* the winning phase_bias
    fits,            \* fits[ph]: the winning fit of phase ph
    black_band_idx, white_band_idx,
    black_levels, white_levels,
    gains,
    assigned,        \* history: <<band, n, ph>> for every calibrated sample
    pc

vars == <<AM_bytes, pb, fits, black_band_idx, white_band_idx,
          black_levels, white_levels, gains, assigned, pc>>

PhaseSet == 0..Phases - 1
Black == <<0, 0, 0, 0>>
White == <<127, 127, 127, 127>>

(* X_waves[i] as main's band loop built it.                                *)
Wave(i) == LET p == AM_bytes[i]
           IN  BuildWaveFromAmBytes(p[1], p[2], p[3], p[4], BandWidth)

(* Xb[n, :].dot(w) + b                                                     *)
Response(fit, row) == SumFunction([t \in 1..Taps |-> row[t] * fit.w[t]]) + fit.b

(* for i, am in enumerate(AM_bytes): if am == ref: idx = i; break          *)
FirstBandWith(ref) ==
    IF \E i \in 1..Len(AM_bytes) : AM_bytes[i] = ref
      THEN CHOOSE i \in 1..Len(AM_bytes) :
             AM_bytes[i] = ref /\ \A j \in 1..i - 1 : AM_bytes[j] # ref
      ELSE None

(* Mutant: the bucket one phase off.                                      *)
CalibBucketOffByOne(n, bias) == (n + bias + 1) % Phases

(* ph = (n + pb) % phases, n counted from the start of the band            *)
CalibBucket(n, bias) == (n + bias) % Phases

(* Mutant: the sums are never divided by the counts.                      *)
MeanLevelUndivided(sum, count) == <<sum, 1>>

(* levels[ph, :] /= counts[ph] only if counts[ph] > 0                      *)
MeanLevel(sum, count) == IF count > 0 THEN <<sum, count>> ELSE <<0, 1>>

(* The loop over the samples of band i: Xb = make_design_matrix(x_band,    *)
(* taps), then the running per-phase sums and counts, then the means.     *)
BandLevels(i) ==
    LET Xb == MakeDesignMatrix(Wave(i), Taps)
        In(ph) == {n \in DOMAIN Xb : CalibBucket(n, pb) = ph}
    IN  [ph \in PhaseSet |->
            MeanLevel(SumFunction([n \in In(ph) |-> Response(fits[ph], Xb[n])]),
                      Cardinality(In(ph)))]

BandAssignments(i) == {<<i, n, CalibBucket(n, pb)>> : n \in 0..BandWidth - 1}

(* Rationals <<num, den>>, den # 0                                         *)
RatSub(x, y) == <<x[1] * y[2] - y[1] * x[2], x[2] * y[2]>>
RatMul(x, y) == <<x[1] * y[1], x[2] * y[2]>>
RatAbs(x) == <<IF x[1] < 0 THEN -x[1] ELSE x[1], IF x[2] < 0 THEN -x[2] ELSE x[2]>>

(* np.abs(denom) < 1e-6                                                    *)
NearZero(x) == RatAbs(x)[1] * 1000000 < RatAbs(x)[2]

(* Mutant: no near-zero guard.                                            *)
GainUnguarded(w, b) == LET d == RatSub(w, b) IN <<d[2], d[1]>>

(* denom = where(|white - black| < 1e-6, 1.0, white - black); 1.0 / denom  *)
Gain(w, b) ==
    LET d == RatSub(w, b)
    IN  IF NearZero(d) THEN <<1, 1>> ELSE <<d[2], d[1]>>

Init ==
    /\ AM_bytes \in [1..NumBands -> PatternChoices]
    /\ pb \in PhaseSet
    /\ fits \in [PhaseSet -> FitChoices]
    /\ black_band_idx = None
    /\ white_band_idx = None
    /\ black_levels = None
    /\ white_levels = None
    /\ gains = None
    /\ assigned = {}
    /\ pc = "refs"

(* Identify the black- and white-reference bands (first match of each).   *)
FindReferenceBands ==
    /\ pc = "refs"
    /\ black_band_idx' = FirstBandWith(Black)
    /\ white_band_idx' = FirstBandWith(White)
    /\ pc' = "black"
    /\ UNCHANGED <<AM_bytes, pb, fits, black_levels, white_levels, gains, assigned>>

(* Per-phase black levels, skipped when there is no black band.           *)
CalibrateBlack ==
    /\ pc = "black"
    /\ IF black_band_idx # None
         THEN /\ black_levels' = BandLevels(black_band_idx)
              /\ assigned' = assigned \cup BandAssignments(black_band_idx)
         ELSE UNCHANGED <<black_levels, assigned>>
    /\ pc' = "white"
    /\ UNCHANGED <<AM_bytes, pb, fits, black_band_idx, white_band_idx, white_levels, gains>>

(* Per-phase white levels, skipped when there is no white band.           *)
CalibrateWhite ==
    /\ pc = "white"
    /\ IF white_band_idx # None
         THEN /\ white_levels' = BandLevels(white_band_idx)
              /\ assigned' = assigned \cup BandAssignments(white_band_idx)
         ELSE UNCHANGED <<white_levels, assigned>>
    /\ pc' = "gain"
    /\ UNCHANGED <<AM_bytes, pb, fits, black_band_idx, white_band_idx, black_levels, gains>>

(* In the emission code: gains only when both level sets exist.           *)
ComputeGains ==
    /\ pc = "gain"
    /\ gains' = IF white_levels # None /\ black_levels # None
                  THEN [ph \in PhaseSet |-> Gain(white_levels[ph], black_levels[ph])]
                  ELSE None
    /\ pc' = "done"
    /\ UNCHANGED <<AM_bytes, pb, fits, black_band_idx, white_band_idx,
                   black_levels, white_levels, assigned>>

Terminated ==
    /\ pc = "done"
    /\ UNCHANGED vars

Next == FindReferenceBands \/ CalibrateBlack \/ CalibrateWhite \/ ComputeGains \/ Terminated

Spec == Init /\ [][Next]_vars

-----------------------------------------------------------------------------
(* The design-matrix rows of an all-black and an all-white band.           *)
BlackRow == [t \in 1..Taps |-> -1]
WhiteRow == [t \in 1..Taps |-> 1]

Level == Int \X (Int \ {0})

TypeOK ==
    /\ pc \in {"refs", "black", "white", "gain", "done"}
    /\ black_band_idx \in 1..NumBands \cup {None}
    /\ white_band_idx \in 1..NumBands \cup {None}
    /\ black_levels \in [PhaseSet -> Level] \cup {None}
    /\ white_levels \in [PhaseSet -> Level] \cup {None}
    /\ gains \in [PhaseSet -> Level] \cup {None}

(* "Per-phase gain so (rgb - black) * gain maps white->1.0": whenever the  *)
(* gains are emitted, a decoder that runs the phase-ph fit on an all-white *)
(* input and computes (out - black_level) * gain gets exactly 1, and on an *)
(* all-black input exactly 0, for every phase whose fit tells white from  *)
(* black.  This needs the right reference bands, the per-band design      *)
(* matrix to clamp at the band's own edges, the running sums divided by   *)
(* the per-phase counts, and the near-zero guard to fire only on a zero   *)
(* difference.                                                             *)
GainMapsWhiteToOne ==
    pc = "done" /\ gains # None =>
        \A ph \in PhaseSet :
            LET rw == <<Response(fits[ph], WhiteRow), 1>>
                rb == <<Response(fits[ph], BlackRow), 1>>
                onWhite == RatMul(RatSub(rw, black_levels[ph]), gains[ph])
                onBlack == RatSub(rb, black_levels[ph])
            IN  rw[1] # rb[1] => onWhite[1] = onWhite[2] /\ onBlack[1] = 0

(* The phase-bucket rule agrees between fitting and calibration: the       *)
(* bucket the calibration loop gives sample n of reference band i is the  *)
(* bucket fit_per_phase_fir gave the same sample at its position          *)
(* (i - 1) * W + n in x_all.                                               *)
CalibBucketAgreement ==
    \A a \in assigned : a[3] = ((a[1] - 1) * BandWidth + a[2] + pb) % Phases
=============================================================================
