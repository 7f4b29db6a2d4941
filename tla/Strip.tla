-------------------------------- MODULE Strip --------------------------------
(***************************************************************************)
(* The image side of src/misc/aw-tapper.py: find_nonblack_bbox, which    *)
(* crops the screenshot to its non-black pixels, and                      *)
(* segment_bands_by_color_steps, which cuts the strip into bands where   *)
(* the row-mean colour jumps.                                              *)
(*                                                                         *)
(* Only rows matter to both: a row is its row-mean colour, an element of  *)
(* a small set of colours.  Two rows of the same colour differ by less    *)
(* than --diff_thr, two of different colours by more; a row of colour     *)
(* Black has no pixel above --thr.  Row y (0-based) is rows[y + 1].      *)
(***************************************************************************)
EXTENDS Integers, Sequences, SequencesExt

CONSTANT Black   \* the colour of a row whose pixels are all <= --thr

(* ys of np.where(img.max(axis=2) > thr)                                   *)
NonBlackRows(rows) == {y \in 0..Len(rows) - 1 : rows[y + 1] # Black}

(* find_nonblack_bbox raises "No non-black pixels found" unless this holds *)
BboxDefined(rows) == NonBlackRows(rows) # {}

(* y0, y1 = ys.min(), ys.max() + 1                                         *)
BboxRows(rows) == <<Min(NonBlackRows(rows)), Max(NonBlackRows(rows)) + 1>>

(* img[y0:y1]                                                               *)
CropRows(rows, y0, y1) == SubSeq(rows, y0 + 1, y1)

(* edges = np.where(d > diff_thr)[0]: y is an edge when rows y and y+1     *)
(* differ.                                                                 *)
RowEdges(rows) == {y \in 0..Len(rows) - 2 : rows[y + 1] # rows[y + 2]}

(* bounds = [0] + (edges + 1).tolist() + [h]                               *)
Bounds(rows) ==
    <<0>> \o SetToSortSeq({e + 1 : e \in RowEdges(rows)}, <) \o <<Len(rows)>>

(* Mutant: a one-row band is kept.                                         *)
KeepBandAny(b) == b[2] - b[1] >= 1

(* if (y1 - y0) >= 2: bands.append((y0, y1))                               *)
KeepBand(b) == b[2] - b[1] >= 2

(* segment_bands_by_color_steps: one band if no edge, else the runs        *)
(* between consecutive bounds that are at least two rows tall.            *)
SegmentBands(rows) ==
    IF RowEdges(rows) = {}
      THEN <<<<0, Len(rows)>>>>
      ELSE LET bs == Bounds(rows)
           IN  SelectSeq([k \in 1..Len(bs) - 1 |-> <<bs[k], bs[k + 1]>>], KeepBand)
=============================================================================
