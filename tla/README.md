# TLA+ models of a2m's Python tools

This directory holds TLA+ models of the two Python programs of the repository
and the TLC configurations that check them:

- `src/misc/aw-tapper.py` learns per-phase FIR taps for an NTSC colour
  decoder. The input is an AppleWin "stepping" screenshot in which every
  horizontal band shows one four-byte double-hi-res pattern.
- `src/samples/descope.py` rewrites a directory of ca65 sources so that a
  `.proc`-local label or variable that clashes with another symbol gets a
  `_<proc number>` suffix.

The two programs do not interact. Each one is a single-threaded batch run, so
the hard behaviours are long sequences of legal steps, index arithmetic at
boundaries, and two places computing the same thing independently.
Concurrency is not one of them.

## Inventory

### aw-tapper.py

| part | code | state | operations |
|---|---|---|---|
| colour space | `rgb_to_yiq` 34-54 | none | fixed linear map |
| image / bbox | `load_image_rgb01`, `find_nonblack_bbox` 61-78 | image | error if nothing is above `thr` |
| band segmenter | `segment_bands_by_color_steps` 81-102 | edges, bands | drops bands < 2 rows |
| pattern reader | `read_patterns_bytes` 117-150 | list of 4-tuples | errors on a wrong field count or an empty file |
| waveform synthesis | `build_wave_from_am_bytes` 178-204, `build_input_wave` 154-175 | none (pure) | pack 4×7 bits, LSB-first unit of 28, tile |
| design matrix | `make_design_matrix` 211-230 | none (pure) | clamped window; taps must be odd |
| ridge / per-phase fit | `ridge_solve`, `fit_per_phase_fir` 233-278 | fits per phase | bucket `(n+pb) % phases`; singular when a bucket is empty |
| prediction / score | `predict_from_fits`, `mse` 281-317 | none | bucket of the unshifted n, row of the clamped n+xs |
| band loading loop | `main` 363-419 | `X_waves`, `T_targets`, `AM_bytes` | count check, trim to a multiple of 28, narrow-band error, concatenate |
| phase search | `main` 426-455 | `best` | loops over pb and xs, strict `<`, `assert best` |
| calibration | `main` 400-416, 460-498, 554-559 | reference indices, levels, gains | first black and white band, per-phase means, gain with a guard |
| emitter | `fmt_*`, `main` 500-577 | output text | which arrays are emitted |

The parts interact as a pipeline. The segmenter and the pattern reader feed
the band loop. The band loop builds `x_all` and `t_all`, which the search
consumes. The search's winning `pb` and `fits` drive calibration, which then
uses `X_waves` and `AM_bytes` from the band loop.

### descope.py

| part | code | state | operations |
|---|---|---|---|
| pass 1 | `collect_symbols` 5-57 | `proc_counter`, `global_symbols`, `function_scopes`, `scoped_labels`, `scoped_variables`, `current_function` | per line: `.proc`, `.endproc`, global var, local label/var |
| pass 2 | `transform_file` 60-108 | `current_function`, output lines | per line: clash tests, rename |
| driver | `process_directory` 111-126 | the directory's files | pass 1 over all files, then rewrite each file in place |

## Modules

| module | models | state / actions |
|---|---|---|
| `Waveform` | waveform synthesis | pure operators: `PackStream`, `StreamUnit`, `Tile` (RECURSIVE `Repeat`), `BuildWaveFromAmBytes`, `BuildInputWave` |
| `DesignMatrix` | `make_design_matrix` | pure operators: `DesignIndex` (clamp), `MakeDesignMatrix` |
| `Strip` | `find_nonblack_bbox` (rows), `segment_bands_by_color_steps` | pure operators: `NonBlackRows`, `BboxRows`, `CropRows`, `RowEdges`, `Bounds`, `KeepBand`, `SegmentBands` |
| `LoadBands` | `main` from the bbox to the concatenation | `image`, `strip`, `bands`, `pc`, `i`, `X_waves`, `T_targets`, `AM_bytes`, `x_all`, `t_all`; actions `FindBbox`, `Segment`, `CheckCounts`, `ProcessBand`, `Concatenate` |
| `SearchSpec` | what the search promises | every grid cell is scored in any order; the winner is the first least score; fails on an empty grid or an unsolvable fit |
| `PhaseSearch` | search loop, `fit_per_phase_fir`, `predict_from_fits` | `pb`, `xs`, `fits`, `pred`, `best`; actions `FitPhase`, `ScoreShift`, `NextBias`, `Finish`; refines `SearchSpec` |
| `Calibration` | reference bands, levels, gains | `black/white_band_idx`, `black/white_levels`, `gains`; actions `FindReferenceBands`, `CalibrateBlack`, `CalibrateWhite`, `ComputeGains` |
| `PatternReader` | `read_patterns_bytes` | pure operators: `IsPatternLine`, `MaskedFields` (`& 0x7F` with Bitwise), `ReadLine` (one loop iteration, an exception ends the fold), `ReadPatternsBytes` |
| `AwTapper` | `main` end to end | inputs `lines`, `hasPixels`, `W0`, `solve`; `patterns`, `err`, `output`, `stage`; the variables of `PhaseSearch` (instance `S`) and `Calibration` (instance `C`); actions `LoadImage`, `ReadPatterns`, `CheckCounts`, `BuildWaves`, `FindRefs`, `SearchStep`, `SearchFailed`, `AdoptWinner`, `Calibrate`, `Emit` |
| `Descope` | all of descope.py | the variables of both passes plus `files`, `written`, `hashOrder`, `crashes`, and the ghost `scope`, the stack of open proc occurrences that the assembler nests; actions `CollectLine`, `CollectNextFile`, `TransformLine`, `WriteFile`, `CrashRestart` |

`MCLoadBands`, `MCPhaseSearch`, `MCCalibration`, `MCAwTapper` and
`MCDescope` give the constants their values for TLC.

`AwTapper` composes the components the way `main` hands data between them.
The reader's result is `Calibration`'s `AM_bytes`. The search's `pb` and
`fits` variables are the ones `main` reloads from `best` and passes on to
calibration and emission, and `Calibration` sees `fits` through the ridge
solutions `solve`. Each stage runs the component's own actions (`S!FitPhase`,
`C!CalibrateBlack`, ...) while the other components' variables stay
unchanged. The segmenter is summarised by its result: `NumBands` bands, each
`W0` pixels wide, or no foreground pixel at all. `LoadBands` checks the
segmenter and the band loop in detail.

The models abstract data in these ways:

- **Target pixels.** A target sample is the identity `<<band, column>>` of
  the pixel it came from. Alignment is therefore checked exactly, with no
  colour arithmetic.
- **Fits and MSE in the search.** A fit is named by the set of samples it was
  trained on, since the ridge solve is a function of that set. Its only failure
  is an empty bucket. A cell's MSE is any value of a small set.
- **Calibration.** Fits are small integer tap vectors with a bias. Levels and
  gains are exact rationals `<<num, den>>`, and the `1e-6` guard is
  `|num|·10^6 < |den|`. One colour channel is modelled, because the three run
  identical code.
- **Image.** `MCLoadBands` renders the image from the pattern list. Each
  band is 1-2 rows of its pattern's colour, and each boundary may be preceded
  by blend rows of any colour. A row is its colour and the band that owns it
  (owner 0 for a blend row), so two rows differ by more than `diff_thr`
  exactly when their colours differ. Patterns `$00` and `$7F` render black and
  white. A mixed pattern renders white or grey, which covers two neighbouring
  bands that the segmenter cannot tell apart.
- **Pattern file.** A line is its kind (blank, comment, a line without
  `.byte`, a `.byte` line) and, for a `.byte` line, its fields: each one is
  the integer `int(p, 16)` returns, or `NotHex` when `int()` raises.
- **Ridge solutions in the pipeline.** `solve` gives each bucket of samples a
  fit from `FitChoices`. It is chosen once per run, because the targets that
  decide it are data.
- **Output file.** A record of what the text holds: the tables, the levels and
  gains that exist, `phase_bias`, `x_shift` and the mse. The number formatting
  is left out.
- **Descope.** A source line is a record: the kind the regexes give it, the
  name it defines, and one name it refers to. A name is a sequence of its
  `_`-separated parts, so `a_1` is `<<"a", 1>>`. `re.sub(r'\bx\b', x_k)`
  replaces a name equal to `x` with `x` followed by `k`. The loops over
  `scoped_labels[f]` and `scoped_variables[f]` follow `hashOrder`, a
  permutation of the names fixed for each process, as Python's string hashing
  fixes it. `CrashRestart` stops the process after at least one file is
  written and starts a new one on the directory as it stands.

Every batch program ends, so each module has a `Terminated` stuttering step
once its last stage is done. Deadlock checking therefore stays on and would
catch a stage with no enabled step.

## Runs

| run | cfg | result | what it shows |
|---|---|---|---|
| `load_bands` | `MCLoadBands.cfg` | pass | `AlignedSignals`: whenever loading succeeds, each target sample comes from exactly one image band, and `x_all[j]` is that band's pattern bit at that column. Images are rendered from 1-3 patterns with heights 1-2, one-row blends, coinciding colours and strip widths 20, 29 and 57 (77k states). |
| `load_bands_clean_image` | `MCLoadBandsClean.cfg` | violation | `CleanImageLoads` fails: an image with no blends, bands of ≥ 2 rows and distinct neighbouring colours still fails the count check when the black band is first. |
| `phase_search` | `MCPhaseSearch.cfg` | pass | `SearchRefinement`: the loop implements `SearchSpec` (first least-MSE winner; failure exactly on an empty grid or an empty bucket). `PredictUsesOwnBucket`: every sample is predicted by the fit trained on it. Bounds: 28 samples, phases ∈ {2, 29} (29 empties a bucket), shift ranges `-1..1` and the empty `1..0`, MSE ∈ {0, 1} so ties occur. |
| `aw_tapper` | `MCAwTapper.cfg` | pass | `WritesIffAcceptable`: the run ends with the file written exactly when the inputs have a foreground pixel, well-formed `.byte` lines (one per band), a band at least 28 pixels wide, a non-empty shift range and a sample in every bucket. `EmitsWinner`: the file's mse is the emitted cell's score, its tables are the fits trained with the emitted `phase_bias`, and calibration bucketed with that `phase_bias`. `GainMapsWhiteToOne`: for every phase whose winning fit tells white from black, `(fit(white) - black_level)·gain = 1` and `fit(black) - black_level = 0`. `CalibTypeOK`: every gain is finite. The inputs are eight pattern files (bad field count, a non-hex field, `$FF` bytes, comments, blanks, no pattern, three patterns), two bands, strip widths 20 and 29, shift ranges `0..1` and the empty `1..0`, 2 phases, 3 taps, every assignment of three fits (one constant) to the buckets, and MSE ∈ {0, 1} (6k states). Calibration's bucket agreement is not checked here: with 2 phases, which divide the 28 samples of a band, band-local and global buckets always agree, so only `calibration_8_phases` can tell them apart. |
| `aw_tapper_other_line` | `MCAwTapperOther.cfg` | violation | `SpecTermination` fails: a pattern file with a non-comment line without `.byte` is accepted and the file is written. |
| `calibration_8_phases` | `MCCalibrationP8.cfg` | violation | `CalibBucketAgreement` fails with `--phases 8` when the reference band is second. |
| `descope` | `MCDescope.cfg` | pass | `NoClash`: after the rewrite, no name is defined in two scopes. `BindingPreserved`: every reference inside a proc names the symbol it named before (its own scope's definition, else the global, else unchanged). The inputs are two files with procs P and Q; global variables `a`, `b` or `a_9`; every same-kind mix of locals `a`, `b`, `P`, `Q`; references to `a`, `b`, `a_9`; and at most one crash between file writes, followed by a rerun. |
| `descope_global_labels` | `MCDescopeGlobalLabels.cfg` | violation | `NoClash` fails: a global label and a proc label share a name. |
| `descope_cross_kind` | `MCDescopeCrossKind.cfg` | violation | `NoClash` fails: a label in P and a variable in Q share a name. |
| `descope_suffix_collision` | `MCDescopeSuffix.cfg` | violation | `NoClash` fails: P's label `a` becomes `a_1`, which a global variable already defines. |
| `descope_set_order` | `MCDescopeSetOrder.cfg` | violation | `RenameInjective` fails for one of the two set orders: P's labels `a` and `a_1` both become `a_1_1`. |
| `descope_nested_proc` | `MCDescopeNested.cfg` | violation | `NoClash` fails: P holds a nested proc I, and P's label `a` after I's `.endproc` is kept as `a` next to Q's label `a`. |

Each property of a passing run has a mutant in `PROJECT.json`: a plausible bug
in a mapped definition that TLC confirms the property catches. Examples are a
swapped byte in `PackStream`, ties replacing the best cell, the bucket of the
shifted sample, sums left undivided by their counts, an unguarded gain, a
clash test that ignores globals, a reader that skips a bad line, and `fits`
not reloaded from `best` after the search.

### Findings

1. **Calibration buckets** (`aw-tapper.py:470`, `:490`). Calibration counts n
   from the start of the reference band, while fitting counts it over
   `x_all`. For `--phases 8` (the docstring's example), sample n of a
   reference band at an odd position was fitted as phase `(n+4+pb) % 8` but
   calibrated as phase `(n+pb) % 8`. The emitted levels are still right
   only because reference waves are constant. Any non-constant calibration
   band would break them.
2. **Global labels** (`descope.py:38`). The comment promises that global
   labels are collected, but only variables are.
3. **Cross-kind clashes** (`descope.py:91`, `:100`). A label and a variable
   with the same name in different procs are never renamed.
4. **Nested procs** (`descope.py:35`, `:80`). Every `.endproc` sets
   `current_function` to `None`, including the `.endproc` of a proc nested in
   another. The rest of the outer proc is then read as global code: its
   labels are neither collected nor renamed, and they clash with the same
   labels of other procs.
5. **Black reference band cropped** (`aw-tapper.py:76`). The bounding box
   removes all-black rows at the top and bottom. A black band listed first or
   last is lost, and the count check fails. The spec's own end-to-end example
   lists the black band first.
6. **Suffix collision** (`descope.py:94`). The new name `x_k` is never checked
   against the existing symbols.
7. **Set-order renaming** (`descope.py:88`). Sequential `re.sub` in hash order
   can rename a renamed name again, so `a` and `a_1` can merge, in some runs
   only.
8. **Unrecognised pattern lines are skipped** (`aw-tapper.py:129`). A
   non-comment line without the lower-case text `.byte` (for instance
   `.BYTE`, which ca65 accepts) is dropped silently. The spec calls such a
   line a parse error. The band-count check is the only guard left.

With more phases than the 28 samples of a reference band (`aw-tapper.py:477`),
a phase gets no calibration sample. Its levels stay 0 and its gain becomes 1,
with no error reported. No run reaches this case, because the runs use the
recommended 2 to 8 phases.

While modelling `main` we also noted that its termination list in `spec.md`
is incomplete. Besides the listed errors, the run fails on a band narrower
than 28 pixels, an empty shift range and an empty phase bucket.
`WritesIffAcceptable` checks the complete list.

## Bounds and fairness

The bounds are chosen so that each interesting case occurs:

- every error branch;
- a trimmed width;
- a bucket that is empty;
- an empty shift range;
- tied MSEs;
- a near-zero gain;
- a reference band that is not first;
- a global symbol that shadows a local;
- a name that the `_k` suffix of another name produces (`a`, `a_1`, `a_9`);
- both iteration orders of such names;
- a crash after the first file write;
- a proc nested in another.

Larger values add no new control path. `aw_tapper` with 4 phases also passes
(619k states), but it takes about 4.5 minutes, so the run uses 2.

Each program is a single thread with no waiting, no retries and only `for`
loops over finite ranges. No liveness property is stated and no fairness is
assumed. Termination would hold by the shape of the loops alone, and no
plausible change to this code could break it.

## Not modelled

- **Colour transform, image decoding, number formatting (`fmt_c_array_2d`,
  `fmt_c_bias`) and argument parsing.** These are data transformations with
  no control flow that a property here could tell apart.
- **The even-tap error** (`make_design_matrix`). The tap count is a constant
  of `Calibration` and `DesignMatrix`, which assume it odd. The error is raised
  at the first fit, before any output.
- **Ridge-regression numerics.** Only their singular case is modelled.
- **Column extent of the bbox and pixel values.** The strip width is a free
  input, and a row is reduced to its colour class.
- **Descope lines with several references, and names inside comments or
  strings.** `re.sub` treats them like any other occurrence. One reference per
  line is enough for every property here.
- **Duplicate proc names and unclosed `.proc`** (`descope.py:29`, `:12`).
  Such input cannot be flattened or assembled, so the rewrite is not meant
  for it.
- **An indented `.proc` or `.endproc`** (`descope.py:23`, `:34`). The regexes
  match only at column 0. Such a line is modelled as an ordinary line, as the
  code reads it, but no property is about what the assembler makes of it.
- **`AwTapper` over rendered images.** `AwTapper` takes the segmenter's result
  (NumBands bands of width W0) as input. `LoadBands` checks the segmenter on
  rendered images separately. Composing the two multiplies the
  image choices by the search space, which is beyond a five-minute run.
