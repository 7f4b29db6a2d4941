----------------------------- MODULE MCAwTapper -----------------------------
(* Two bands, two phases, three taps.  Pattern lines: the black and white *)
(* references, $FF bytes (white once masked), the spec's example, a line *)
(* with three fields, one with a field int() rejects, a comment, a blank *)
(* line and a line without ".byte" (".BYTE" in upper case).  The fits    *)
(* are those of MCCalibration.                                            *)
EXTENDS AwTapper

Byte(f) == [kind |-> "byte", fields |-> f]
B0   == Byte(<<0, 0, 0, 0>>)
B7   == Byte(<<127, 127, 127, 127>>)
BFF  == Byte(<<255, 255, 255, 255>>)
BX   == Byte(<<8, 17, 34, 68>>)
Bad3 == Byte(<<0, 0, 0>>)
BadH == Byte(<<0, 0, 0, NotHex>>)
Com  == [kind |-> "comment", fields |-> <<>>]
Blk  == [kind |-> "blank", fields |-> <<>>]
Oth  == [kind |-> "other", fields |-> <<>>]

MCFiles == {<<Com, B0, B7>>, <<BX, BFF>>, <<Blk, B7, B0, Com>>, <<B0>>,
            <<B0, Bad3, B7>>, <<B0, BadH, B7>>, <<Com>>, <<B0, B7, BX>>}
(* Files with a line the reader skips although it is no comment.          *)
MCFilesOther == {<<B0, Oth, B7>>, <<Oth, BX, B0>>}

MCShiftRanges == {<<0, 1>>, <<1, 0>>}
MCNonEmptyShifts == {<<0, 1>>}

MCFitChoices == {[w |-> <<1, 0, 0>>, b |-> 0],
                 [w |-> <<0, 2, 1>>, b |-> 1],
                 [w |-> <<0, 0, 0>>, b |-> 1]}
=============================================================================
