----------------------------- MODULE MCLoadBands -----------------------------
(* Model-checking instance of LoadBands: a black, a white and the         *)
(* spec's example pattern; the black pattern renders black and the white *)
(* one white, the example pattern white or grey (two patterns may have   *)
(* the same row-mean colour); strips narrower than, just wider than and  *)
(* about two units wide.                                                   *)
EXTENDS LoadBands

CONSTANTS White, Grey

MCBlack == <<0, 0, 0, 0>>
MCWhite == <<127, 127, 127, 127>>
MCMixed == <<8, 17, 34, 68>>
MCPatternChoices == {MCBlack, MCWhite, MCMixed}
MCColourChoices ==
    {(MCBlack :> Black) @@ (MCWhite :> White) @@ (MCMixed :> c) : c \in {White, Grey}}
MCBlendColours == {Black, White, Grey}
MCStripWidths == {20, 29, 57}
=============================================================================
