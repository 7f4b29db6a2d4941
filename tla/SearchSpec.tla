------------------------------ MODULE SearchSpec ------------------------------
(***************************************************************************)
(* What the phase-alignment search promises, independent of the loop that *)
(* implements it: every cell (phase_bias, x_shift) of the grid            *)
(* [0, phases) x [xmin, xmax] gets a score, in any order (the cells are   *)
(* independent, so the grid may as well be scored in parallel), and the  *)
(* winner is the cell of least score, ties going to the cell that comes   *)
(* first in (phase_bias, x_shift) order.  The search fails instead when   *)
(* the grid is empty or the per-phase fit cannot be solved.               *)
(***************************************************************************)
EXTENDS Integers, FiniteSets

CONSTANTS
    NSamples,   \* length of the concatenated waveform
    MseVals     \* the scores a cell can get

VARIABLES
    phases,     \* --phases
    xmin,       \* --xshift_min
    xmax,       \* --xshift_max
    scores,     \* the cells scored so far, with their scores
    status,     \* "running", "failed" or "done"
    winner      \* <<>>, then the winning <<pb, xs, err>>

avars == <<phases, xmin, xmax, scores, status, winner>>

Cells == (0..phases - 1) \X (xmin..xmax)

(* Some phase bucket has no sample, so its normal equations are singular. *)
FitUnsolvable == phases > NSamples

(* (pb, xs) enumeration order                                              *)
Precedes(c, d) == c[1] < d[1] \/ (c[1] = d[1] /\ c[2] <= d[2])

FirstArgmin(s) ==
    CHOOSE c \in DOMAIN s :
        \A d \in DOMAIN s : s[c] < s[d] \/ (s[c] = s[d] /\ Precedes(c, d))

AInit ==
    /\ phases \in Nat \ {0}
    /\ xmin \in Int
    /\ xmax \in Int
    /\ scores = <<>>
    /\ status = "running"
    /\ winner = <<>>

ScoreCell(c, e) ==
    /\ status = "running"
    /\ ~FitUnsolvable
    /\ c \in Cells \ DOMAIN scores
    /\ scores' = [d \in DOMAIN scores \cup {c} |-> IF d = c THEN e ELSE scores[d]]
    /\ UNCHANGED <<phases, xmin, xmax, status, winner>>

Fail ==
    /\ status = "running"
    /\ Cells = {} \/ FitUnsolvable
    /\ status' = "failed"
    /\ UNCHANGED <<phases, xmin, xmax, scores, winner>>

Decide ==
    /\ status = "running"
    /\ Cells # {}
    /\ DOMAIN scores = Cells
    /\ status' = "done"
    /\ winner' = LET c == FirstArgmin(scores) IN <<c[1], c[2], scores[c]>>
    /\ UNCHANGED <<phases, xmin, xmax, scores>>

ANext == (\E c \in Cells, e \in MseVals : ScoreCell(c, e)) \/ Fail \/ Decide

ASpec == AInit /\ [][ANext]_avars
=============================================================================
