------------------------------ MODULE AwTapper ------------------------------
(***************************************************************************)
(* main() of src/misc/aw-tapper.py end to end: the image and pattern     *)
(* errors of the load stage, the reference-band lookup, the phase search *)
(* (PhaseSearch), the adoption of the winner, calibration (Calibration)   *)
(* and the writing of the output file.                                    *)
(*                                                                         *)
(* The components are composed through their shared variables: the       *)
(* search's pb and fits are the variables main() hands on to calibration  *)
(* and emission, and calibration's AM_bytes are the patterns the reader  *)
(* returned.  The segmenter (Strip, LoadBands) is summarised by its      *)
(* result here: NumBands bands, each W0 pixels wide, or no bbox at all.  *)
(*                                                                         *)
(* A ridge solution is data: solve[idx] is the fit np.linalg.solve        *)
(* returns for the bucket of samples idx, chosen freely once per run.    *)
(***************************************************************************)
EXTENDS Integers, Sequences, SequencesExt, Waveform, PatternReader

CONSTANTS
    Files,        \* pattern files: sequences of PatternReader lines
    StripWidths,  \* values of W0, the width of the cropped strip
    NumBands,     \* the bands segment_bands_by_color_steps finds
    BandWidth,    \* the trained width (W0 // 28) * 28 when it is not 0
    Phases, Taps, ShiftRanges, MseVals, FitChoices,
    NoBest, None

VARIABLES
    lines, hasPixels, W0, solve,                    \* the run's inputs
    patterns,
    phases, xmin, xmax, pb, xs, fits, pred, scored, best, searchPc,
    err,
    black_band_idx, white_band_idx, black_levels, white_levels, gains,
    assigned, calibPc,
    output,       \* the text written to args.emit, or None
    stage

inputs     == <<lines, hasPixels, W0, solve>>
searchVars == <<phases, xmin, xmax, pb, xs, fits, pred, scored, best, searchPc>>
calibVars  == <<black_band_idx, white_band_idx, black_levels, white_levels,
                gains, assigned, calibPc>>
vars == <<inputs, patterns, searchVars, err, calibVars, output, stage>>

NSamples == NumBands * BandWidth
PhaseSet == 0..Phases - 1

S == INSTANCE PhaseSearch WITH PhaseCounts <- {Phases}, pc <- searchPc

(* The buckets fit_per_phase_fir forms for phase_bias b, and all of them. *)
FitBuckets(b) ==
    [ph \in PhaseSet |-> {n \in 0..NSamples - 1 : S!FitBucket(n, b, Phases) = ph}]
BucketSets == {FitBuckets(b)[ph] : b \in PhaseSet, ph \in PhaseSet}

(* The fitted coefficients held in main()'s variable fits.                *)
FitTables == IF fits = <<>> THEN <<>> ELSE [ph \in PhaseSet |-> solve[fits[ph]]]

C == INSTANCE Calibration WITH
        AM_bytes <- patterns, fits <- FitTables, pc <- calibPc,
        PatternChoices <- {}

ASSUME \A w \in StripWidths : (w \div UnitLen) * UnitLen \in {0, BandWidth}

Init ==
    /\ lines \in Files
    /\ hasPixels \in BOOLEAN
    /\ W0 \in StripWidths
    /\ solve \in [BucketSets -> FitChoices]
    /\ patterns = <<>>
    /\ S!Init
    /\ err = None
    /\ black_band_idx = None /\ white_band_idx = None
    /\ black_levels = None /\ white_levels = None /\ gains = None
    /\ assigned = {} /\ calibPc = "refs"
    /\ output = None
    /\ stage = "image"

Fail(s) == /\ stage = s
           /\ stage' = "error"
           /\ UNCHANGED <<inputs, patterns, searchVars, err, calibVars, output>>

Go(s, t) == /\ stage = s
            /\ stage' = t
            /\ UNCHANGED <<inputs, patterns, searchVars, err, calibVars, output>>

(* img = load_image_rgb01(...); find_nonblack_bbox raises on an image     *)
(* with no pixel above thr; the strip is cropped and segmented.           *)
LoadImage == IF hasPixels THEN Go("image", "patterns") ELSE Fail("image")

(* patterns = read_patterns_bytes(args.patterns)                           *)
ReadPatterns ==
    /\ stage = "patterns"
    /\ LET r == ReadPatternsBytes(lines)
       IN  /\ patterns' = r.out
           /\ stage' = IF r.err = "none" THEN "count" ELSE "error"
    /\ UNCHANGED <<inputs, searchVars, err, calibVars, output>>

(* if len(bands) != len(patterns): raise RuntimeError                     *)
CheckCounts == IF Len(patterns) # NumBands THEN Fail("count") ELSE Go("count", "waves")

(* The band loop: W = (W0 // 28) * 28; if W == 0: raise "Band too narrow" *)
BuildWaves == IF (W0 \div UnitLen) * UnitLen = 0 THEN Fail("waves") ELSE Go("waves", "refs")

(* The first black and the first white reference band.                   *)
FindRefs ==
    /\ stage = "refs"
    /\ UNCHANGED <<inputs, patterns, searchVars, err, output>>
    /\ C!FindReferenceBands
    /\ stage' = "search"

(* One step of the pb / xs loops of the search.                           *)
SearchStep ==
    /\ stage = "search"
    /\ S!FitPhase \/ S!ScoreShift \/ S!NextBias \/ S!Finish
    /\ UNCHANGED <<inputs, patterns, err, calibVars, output, stage>>

(* LinAlgError from ridge_solve, or assert best is not None.              *)
SearchFailed == searchPc = "error" /\ Fail("search")

(* Mutant: pb and err taken from best, fits left as the pb loop left them. *)
AdoptWinnerStale ==
    /\ stage = "search" /\ searchPc = "done"
    /\ pb' = best.pb
    /\ err' = best.err
    /\ stage' = "calibrate"
    /\ UNCHANGED <<inputs, patterns, phases, xmin, xmax, xs, fits, pred, scored,
                   best, searchPc, calibVars, output>>

(* pb = int(best["phase_bias"]); fits = best["fits"]; err = float(best["err"]) *)
AdoptWinner ==
    /\ stage = "search" /\ searchPc = "done"
    /\ pb' = best.pb
    /\ fits' = best.fits
    /\ err' = best.err
    /\ stage' = "calibrate"
    /\ UNCHANGED <<inputs, patterns, phases, xmin, xmax, xs, pred, scored,
                   best, searchPc, calibVars, output>>

(* Black levels, white levels and gains.                                  *)
Calibrate ==
    /\ stage = "calibrate"
    /\ UNCHANGED <<inputs, patterns, searchVars, err, output, stage>>
    /\ C!CalibrateBlack \/ C!CalibrateWhite \/ C!ComputeGains

(* The output lines: the coefficient tables from fits, the biases, the    *)
(* levels and gains that exist, phase_bias = pb, x_shift = best["x_shift"], *)
(* the mse in the header; then the file is written.                      *)
Emit ==
    /\ stage = "calibrate" /\ calibPc = "done"
    /\ output' = [pb |-> pb, xs |-> best.xs, err |-> err, fir |-> FitTables,
                  black |-> black_levels, white |-> white_levels, gains |-> gains]
    /\ stage' = "done"
    /\ UNCHANGED <<inputs, patterns, searchVars, err, calibVars>>

Terminated ==
    /\ stage \in {"done", "error"}
    /\ UNCHANGED vars

Next ==
    \/ LoadImage \/ ReadPatterns \/ CheckCounts \/ BuildWaves \/ FindRefs
    \/ SearchStep \/ SearchFailed \/ AdoptWinner \/ Calibrate \/ Emit
    \/ Terminated

Spec == Init /\ [][Next]_vars
-----------------------------------------------------------------------------
TypeOK ==
    /\ stage \in {"image", "patterns", "count", "waves", "refs", "search",
                  "calibrate", "done", "error"}
    /\ patterns \in Seq([1..4 -> 0..127])
    /\ output # None => stage = "done"

(* The lines the loop of read_patterns_bytes does not skip.               *)
PatternLines == SelectSeq(lines, IsPatternLine)

WellFormed(l) == Len(l.fields) = 4 /\ \A k \in 1..4 : l.fields[k] # NotHex

(* The inputs every stage of main() accepts, stated over the inputs       *)
(* alone: a foreground pixel, well-formed .byte lines, one per band, a   *)
(* band at least one 28-dot unit wide, a non-empty x_shift range, and a  *)
(* sample in every phase bucket.                                          *)
Acceptable ==
    /\ hasPixels
    /\ \A k \in 1..Len(PatternLines) : WellFormed(PatternLines[k])
    /\ Len(PatternLines) = NumBands
    /\ W0 >= UnitLen
    /\ xmin <= xmax
    /\ Phases <= NSamples

(* The run ends with the output file written exactly when the inputs are *)
(* acceptable: every error of the reader, the count check, the band loop *)
(* and the search aborts before anything is written, and no input that   *)
(* passes them all is refused.  The errors are raised by five functions  *)
(* in a fixed order; a lenient reader or a missing check writes a file   *)
(* from inputs the program must refuse.                                   *)
WritesIffAcceptable ==
    stage \in {"done", "error"} => (output # None <=> Acceptable)

(* The file describes one cell of the search: the header's mse is the    *)
(* score of the emitted (phase_bias, x_shift), the coefficient tables are *)
(* the fits trained with the emitted phase_bias, and calibration put      *)
(* every reference sample in the bucket of that phase_bias.  main()      *)
(* leaves its loop variables pb, fits, err and xs holding the last cell   *)
(* of the loops, and must reload each of them from best.                  *)
EmitsWinner ==
    output # None =>
        /\ <<output.pb, output.xs>> \in DOMAIN scored
        /\ output.err = scored[<<output.pb, output.xs>>]
        /\ output.fir = [ph \in PhaseSet |-> solve[FitBuckets(output.pb)[ph]]]
        /\ \A a \in assigned : a[3] = (a[2] + output.pb) % Phases

(* Calibration inside the pipeline, on the winner's pb and fits: its     *)
(* levels and gains are well-formed rationals (the near-zero guard keeps *)
(* every gain finite).                                                    *)
CalibTypeOK == C!TypeOK

(* Calibration inside the pipeline: (fit(white) - black_level) * gain = 1 *)
(* and fit(black) - black_level = 0 for every phase whose winning fit     *)
(* tells white from black (Calibration!GainMapsWhiteToOne).               *)
GainMapsWhiteToOne == C!GainMapsWhiteToOne

(* spec.md, Command surface: the run fails on a band/pattern count        *)
(* mismatch, a malformed pattern file (a non-blank, non-comment line      *)
(* without exactly four hex values, or no pattern at all), an even tap    *)
(* count or no foreground pixel, and succeeds with a written output file  *)
(* otherwise.                                                             *)
SpecPatternFileOK ==
    /\ \A k \in 1..Len(lines) :
         lines[k].kind \notin {"blank", "comment"} =>
            lines[k].kind = "byte" /\ WellFormed(lines[k])
    /\ PatternLines # <<>>

SpecTermination ==
    stage \in {"done", "error"} =>
        (output # None <=> hasPixels /\ SpecPatternFileOK /\ Len(PatternLines) = NumBands)
=============================================================================
