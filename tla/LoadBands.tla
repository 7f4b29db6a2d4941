------------------------------ MODULE LoadBands ------------------------------
(***************************************************************************)
(* The loading half of main() in src/misc/aw-tapper.py: crop the image   *)
(* to its non-black rows, segment it into bands, check the band count    *)
(* against the pattern count, then the loop that trims every band to a   *)
(* multiple of the 28-dot unit and builds its waveform and target        *)
(* signal, and the concatenation of all bands into x_all and t_all.       *)
(*                                                                         *)
(* The image is rendered from the pattern list: band k shows patterns[k] *)
(* in the colour colourOf gives that pattern, is one or more rows tall,  *)
(* and may be separated from band k-1 by a few blended boundary rows of  *)
(* any colour.  Every image row remembers the band it belongs to (its    *)
(* owner, 0 for a boundary row).  A target sample is the pair <<owners,  *)
(* column>>: the set of bands whose rows it was averaged from, and its    *)
(* column.  Colour values are not modelled beyond that.                   *)
(***************************************************************************)
EXTENDS Integers, Sequences, SequencesExt, Waveform, Strip

CONSTANTS
    PatternChoices,  \* 4-tuples of 7-bit bytes, as read_patterns_bytes returns them
    ColourChoices,   \* the functions PatternChoices -> colour an image may render
    MaxBands,        \* bound on the number of patterns
    Heights,         \* heights in rows a band may have
    BlendRows,       \* numbers of blended rows a band boundary may have
    BlendColours,    \* the colours a blended row may have
    StripWidths      \* widths x1 - x0 of the cropped strip

VARIABLES
    patterns,    \* the list read_patterns_bytes returned
    image,       \* the image rows, each [colour, owner]
    W0,          \* strip width: every band spans the whole strip
    strip,       \* img[y0:y1]: the cropped rows
    bands,       \* segment_bands_by_color_steps(strip)
    i,           \* index of the next (band, pattern) pair of the zip loop
    X_waves,     \* list of input waveforms
    T_targets,   \* list of target signals
    AM_bytes,    \* list of the patterns used
    x_all,       \* np.concatenate(X_waves)
    t_all,       \* np.concatenate(T_targets)
    pc

vars == <<patterns, image, W0, strip, bands, i, X_waves, T_targets, AM_bytes,
          x_all, t_all, pc>>

Colours(rows) == [y \in DOMAIN rows |-> rows[y].colour]

(* W = (W0 // 28) * 28: the width each band is trained on.                 *)
TrainWidth(w0) == (w0 \div UnitLen) * UnitLen

(* The bands whose rows band b of the strip spans.                         *)
Owners(b) == {strip[y + 1].owner : y \in b[1]..b[2] - 1}

(* sample_band_signal(band_img)[:W]: the mean over the band's rows of      *)
(* every kept column.                                                      *)
BandTarget(b, width) == [c \in 1..width |-> <<Owners(b), c - 1>>]

(* An image rendered from pats: band k's rows, after the blended rows     *)
(* blend[k] that separate it from band k-1.                                *)
Render(pats, colourOf, height, blend) ==
    FlattenSeq([k \in 1..Len(pats) |->
        [y \in 1..Len(blend[k]) |-> [colour |-> blend[k][y], owner |-> 0]]
        \o [y \in 1..height[k] |-> [colour |-> colourOf[pats[k]], owner |-> k]]])

Init ==
    /\ patterns \in UNION {[1..k -> PatternChoices] : k \in 1..MaxBands}
    /\ \E colourOf \in ColourChoices, height \in [1..Len(patterns) -> Heights],
          blend \in [1..Len(patterns) -> UNION {[1..n -> BlendColours] : n \in BlendRows}] :
          /\ blend[1] = <<>>
          /\ image = Render(patterns, colourOf, height, blend)
    /\ W0 \in StripWidths
    /\ strip = <<>>
    /\ bands = <<>>
    /\ i = 1
    /\ X_waves = <<>>
    /\ T_targets = <<>>
    /\ AM_bytes = <<>>
    /\ x_all = <<>>
    /\ t_all = <<>>
    /\ pc = "bbox"

(* x0, y0, x1, y1 = find_nonblack_bbox(img); strip = img[y0:y1, x0:x1]     *)
FindBbox ==
    /\ pc = "bbox"
    /\ IF BboxDefined(Colours(image))
         THEN LET bb == BboxRows(Colours(image))
              IN  /\ strip' = CropRows(image, bb[1], bb[2])
                  /\ pc' = "segment"
         ELSE /\ pc' = "bbox_error"
              /\ UNCHANGED strip
    /\ UNCHANGED <<patterns, image, W0, bands, i, X_waves, T_targets, AM_bytes, x_all, t_all>>

(* bands = segment_bands_by_color_steps(strip, diff_thr=args.diff_thr)     *)
Segment ==
    /\ pc = "segment"
    /\ bands' = SegmentBands(Colours(strip))
    /\ pc' = "check"
    /\ UNCHANGED <<patterns, image, W0, strip, i, X_waves, T_targets, AM_bytes, x_all, t_all>>

(* if len(bands) != len(patterns): raise RuntimeError(...)                 *)
CheckCounts ==
    /\ pc = "check"
    /\ pc' = IF Len(bands) # Len(patterns) THEN "count_error" ELSE "band"
    /\ UNCHANGED <<patterns, image, W0, strip, bands, i, X_waves, T_targets, AM_bytes, x_all, t_all>>

(* One iteration of the zip(bands, patterns) loop.                         *)
ProcessBand ==
    /\ pc = "band"
    /\ i <= Len(bands)
    /\ LET W == TrainWidth(W0)
           p == patterns[i]
       IN  IF W = 0
             THEN /\ pc' = "narrow_error"    \* "Band too narrow"
                  /\ UNCHANGED <<i, X_waves, T_targets, AM_bytes>>
             ELSE /\ X_waves' = Append(X_waves, BuildWaveFromAmBytes(p[1], p[2], p[3], p[4], W))
                  /\ T_targets' = Append(T_targets, BandTarget(bands[i], W))
                  /\ AM_bytes' = Append(AM_bytes, p)
                  /\ i' = i + 1
                  /\ UNCHANGED pc
    /\ UNCHANGED <<patterns, image, W0, strip, bands, x_all, t_all>>

(* x_all = np.concatenate(X_waves); t_rgb_all = np.concatenate(T_targets) *)
Concatenate ==
    /\ pc = "band"
    /\ i > Len(bands)
    /\ x_all' = FlattenSeq(X_waves)
    /\ t_all' = FlattenSeq(T_targets)
    /\ pc' = "done"
    /\ UNCHANGED <<patterns, image, W0, strip, bands, i, X_waves, T_targets, AM_bytes>>

(* The program has stopped, with an error or with the signals loaded.      *)
Terminated ==
    /\ pc \in {"done", "bbox_error", "count_error", "narrow_error"}
    /\ UNCHANGED vars

Next == FindBbox \/ Segment \/ CheckCounts \/ ProcessBand \/ Concatenate \/ Terminated

Spec == Init /\ [][Next]_vars

-----------------------------------------------------------------------------
(* The sample of column col of a band rendered from pattern p, read       *)
(* straight from the byte layout: column col shows bit (col mod 28) mod 7 *)
(* of byte (col mod 28) div 7, in file order A0, M0, A1, M1.               *)
LayoutSample(p, col) ==
    LET k == col % UnitLen
    IN  IF (p[k \div 7 + 1] \div 2^(k % 7)) % 2 = 1 THEN 1 ELSE -1

TypeOK ==
    /\ pc \in {"bbox", "segment", "check", "band", "done",
              "bbox_error", "count_error", "narrow_error"}
    /\ i \in 1..MaxBands + 1
    /\ X_waves \in Seq(Seq({-1, 1}))
    /\ AM_bytes \in Seq(PatternChoices)
    /\ Len(X_waves) = Len(T_targets)

(* Once loaded, x_all and t_all line up with the image: the target at     *)
(* every position of t_all was averaged from the rows of one band of the *)
(* image (and possibly blended rows of the same colour), and the input   *)
(* sample at the same position of x_all is the bit the pattern that band *)
(* shows has at that column.  This needs the segmenter to find exactly   *)
(* the image's bands whenever the count check passes, zip to pair them   *)
(* with the patterns in order, and the packing, tiling and trimming to    *)
(* agree.                                                                  *)
AlignedSignals ==
    pc = "done" =>
        /\ Len(x_all) = Len(t_all)
        /\ \A j \in 1..Len(t_all) :
              \E k \in 1..Len(patterns) :
                  /\ t_all[j][1] \ {0} = {k}
                  /\ x_all[j] = LayoutSample(patterns[k], t_all[j][2])

(* An image the segmenter is meant for: no blended rows, every band at    *)
(* least two rows tall, neighbouring bands of different colours.          *)
CleanImage ==
    /\ \A y \in DOMAIN image : image[y].owner # 0
    /\ \A k \in 1..Len(patterns) : Cardinality({y \in DOMAIN image : image[y].owner = k}) >= 2
    /\ \A y \in 1..Len(image) - 1 :
          image[y].owner # image[y + 1].owner => image[y].colour # image[y + 1].colour

(* The band/pattern count check passes on every clean image: each of its *)
(* bands survives the bounding-box crop and the segmenter.                *)
CleanImageLoads == CleanImage => pc # "count_error"
=============================================================================
