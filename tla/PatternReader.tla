---------------------------- MODULE PatternReader ----------------------------
(***************************************************************************)
(* read_patterns_bytes of src/misc/aw-tapper.py: the pattern file, one    *)
(* ".byte A0, M0, A1, M1" line per band, read top to bottom.              *)
(*                                                                         *)
(* A line is abstracted to what the reader's tests see of it.  Its kind   *)
(* is the first test it meets after strip():                              *)
(*   "blank"   the empty line,                                             *)
(*   "comment" a line starting with "#" or ";",                            *)
(*   "other"   any other line without ".byte",                            *)
(*   "byte"    a line with ".byte".                                       *)
(* A "byte" line has the comma-separated fields after ".byte": each one  *)
(* is the integer int(p, 16) gives, or NotHex when int() raises.          *)
(***************************************************************************)
EXTENDS Integers, Sequences, SequencesExt, Bitwise

CONSTANT NotHex   \* a field int(p, 16) rejects, e.g. "$00 ; black"

(* The skip tests: if not line or line.startswith("#") or                 *)
(* line.startswith(";"): continue;  if ".byte" not in line: continue     *)
IsPatternLine(line) == line.kind = "byte"

(* Mutant: the fields kept as int(p, 16) returned them.                  *)
MaskedFieldsUnmasked(line) == [k \in 1..4 |-> line.fields[k]]

(* int(p, 16) & 0x7F for each of the four fields                          *)
MaskedFields(line) == [k \in 1..4 |-> line.fields[k] & 127]

(* Mutant: a line with the wrong number of fields is skipped.             *)
ReadLineSkipBadCount(acc, line) ==
    CASE acc.err # "none" \/ ~IsPatternLine(line)    -> acc
      [] Len(line.fields) # 4                        -> acc
      [] \E k \in 1..4 : line.fields[k] = NotHex     -> [acc EXCEPT !.err = "value"]
      [] OTHER -> [acc EXCEPT !.out = Append(@, MaskedFields(line))]

(* One iteration of the loop over the file's lines.  An exception ends    *)
(* the loop: acc.err records it and later lines are not read.             *)
ReadLine(acc, line) ==
    CASE acc.err # "none" \/ ~IsPatternLine(line)    -> acc
      [] Len(line.fields) # 4                        -> [acc EXCEPT !.err = "count"]
      [] \E k \in 1..4 : line.fields[k] = NotHex     -> [acc EXCEPT !.err = "value"]
      [] OTHER -> [acc EXCEPT !.out = Append(@, MaskedFields(line))]

(* The whole function: the loop, then "No .byte patterns found".          *)
ReadPatternsBytes(lines) ==
    LET r == FoldLeft(ReadLine, [err |-> "none", out |-> <<>>], lines)
    IN  IF r.err = "none" /\ r.out = <<>> THEN [r EXCEPT !.err = "empty"] ELSE r
=============================================================================
