------------------------------- MODULE Descope -------------------------------
(***************************************************************************)
(* src/samples/descope.py: a two-pass rewrite of the .asm/.s/.inc files  *)
(* of a directory that gives every .proc-local label or variable that     *)
(* clashes with another symbol the suffix _<proc number>.                  *)
(*                                                                         *)
(* A source line is a record [k, n, r]: its kind k as the code's regexes  *)
(* classify it ("proc" and "endproc" at column 0, "label" for name:,     *)
(* "var" for name =, "other"), the name n it defines (or names, for a     *)
(* .proc line) and one name r it refers to (or NoName).  A name is the   *)
(* sequence of its "_"-separated parts: a_1 is <<"a", 1>>, so a name the *)
(* rewrite produces can coincide with one the sources already use.       *)
(* Files are processed in the order os.listdir returned them.  The order *)
(* in which a Python set of names is iterated depends on the run's       *)
(* string hashes; it is modelled as one order of the names, hashOrder,    *)
(* chosen when the run starts.                                             *)
(*                                                                         *)
(* .proc scopes nest in the assembler (an inner .endproc returns to the   *)
(* enclosing proc).  The ghost variable scope is that stack of open proc  *)
(* occurrences; the code's current_function is a single name.             *)
(***************************************************************************)
EXTENDS Integers, Sequences, FiniteSets, SequencesExt

CONSTANTS
    DirChoices,   \* the directories (sequences of files) to run on
    HashOrders,   \* set iteration orders: sequences of all names
    MaxCrashes,   \* bound on the crashes of a run
    NoName,       \* a line that refers to no symbol
    None          \* current_function = None

VARIABLES
    files,              \* the directory's files, each a sequence of lines
    phase,              \* "collect", "transform" or "done"
    f, l,               \* the file and line being read
    current_function,   \* of the pass running
    proc_counter,
    global_symbols,
    function_scopes,    \* sequence of <<proc name, proc number>>
    scoped_labels,      \* proc name -> set of labels
    scoped_variables,   \* proc name -> set of variables
    output_lines,       \* transform_file's output for the current file
    scope,              \* stack of the open proc occurrences <<f, l>>
    written,            \* file index -> content written back
    hashOrder,          \* the order the run's sets iterate their names in
    crashes             \* crashes so far, each followed by a rerun

vars == <<files, phase, f, l, current_function, proc_counter, global_symbols,
          function_scopes, scoped_labels, scoped_variables, output_lines,
          scope, written, hashOrder, crashes>>

Line == files[f][l]

(* d[k] = v for a dict d that may not have the key k yet                   *)
Put(d, k, v) == [x \in DOMAIN d \cup {k} |-> IF x = k THEN v ELSE d[x]]

(* A fresh process of process_directory on the directory dir: each one   *)
(* hashes its strings anew.                                               *)
StartRun(dir) ==
    /\ files' = dir
    /\ phase' = "collect"
    /\ f' = 1
    /\ l' = 1
    /\ current_function' = None
    /\ proc_counter' = 0
    /\ global_symbols' = {}
    /\ function_scopes' = <<>>
    /\ scoped_labels' = <<>>
    /\ scoped_variables' = <<>>
    /\ output_lines' = <<>>
    /\ scope' = <<>>
    /\ written' = <<>>
    /\ hashOrder' \in HashOrders

Init ==
    /\ crashes = 0
    /\ files \in DirChoices
    /\ phase = "collect"
    /\ f = 1
    /\ l = 1
    /\ current_function = None
    /\ proc_counter = 0
    /\ global_symbols = {}
    /\ function_scopes = <<>>
    /\ scoped_labels = <<>>
    /\ scoped_variables = <<>>
    /\ output_lines = <<>>
    /\ scope = <<>>
    /\ written = <<>>
    /\ hashOrder \in HashOrders

-----------------------------------------------------------------------------
(* Pass 1, collect_symbols: one line of the current file.  Note that      *)
(* current_function is not reset between files.                            *)
CollectLine ==
    /\ phase = "collect"
    /\ f <= Len(files) /\ l <= Len(files[f])
    /\ CASE Line.k = "proc" ->
              /\ current_function' = Line.n
              /\ proc_counter' = proc_counter + 1
              /\ global_symbols' = global_symbols \cup {Line.n}
              /\ function_scopes' = Append(function_scopes, <<Line.n, proc_counter + 1>>)
              /\ scoped_labels' = Put(scoped_labels, Line.n, {})
              /\ scoped_variables' = Put(scoped_variables, Line.n, {})
         [] Line.k = "endproc" ->
              /\ current_function' = None
              /\ UNCHANGED <<proc_counter, global_symbols, function_scopes,
                             scoped_labels, scoped_variables>>
         [] OTHER ->
              /\ global_symbols' =
                    IF current_function = None /\ Line.k = "var"
                      THEN global_symbols \cup {Line.n} ELSE global_symbols
              /\ scoped_labels' =
                    IF current_function # None /\ Line.k = "label"
                      THEN Put(scoped_labels, current_function,
                               scoped_labels[current_function] \cup {Line.n})
                      ELSE scoped_labels
              /\ scoped_variables' =
                    IF current_function # None /\ Line.k = "var"
                      THEN Put(scoped_variables, current_function,
                               scoped_variables[current_function] \cup {Line.n})
                      ELSE scoped_variables
              /\ UNCHANGED <<current_function, proc_counter, function_scopes>>
    /\ l' = l + 1
    /\ UNCHANGED <<files, phase, f, output_lines, scope, written, hashOrder, crashes>>

(* The end of a file in pass 1; after the last one, pass 2 starts.        *)
CollectNextFile ==
    /\ phase = "collect"
    /\ f <= Len(files) /\ l > Len(files[f])
    /\ IF f = Len(files)
         THEN /\ phase' = "transform"
              /\ f' = 1
         ELSE /\ f' = f + 1
              /\ UNCHANGED phase
    /\ l' = 1
    /\ UNCHANGED <<files, current_function, proc_counter, global_symbols,
                   function_scopes, scoped_labels, scoped_variables,
                   output_lines, scope, written, hashOrder, crashes>>

-----------------------------------------------------------------------------
(* Mutant: the proc number one too high.                                   *)
ProcNumberOffByOne(fn) ==
    LET i == CHOOSE i \in 1..Len(function_scopes) :
                 /\ function_scopes[i][1] = fn
                 /\ \A j \in 1..i - 1 : function_scopes[j][1] # fn
    IN  function_scopes[i][2] + 1

(* next(num for name, num in function_scopes if name == current_function) *)
ProcNumber(fn) ==
    LET i == CHOOSE i \in 1..Len(function_scopes) :
                 /\ function_scopes[i][1] = fn
                 /\ \A j \in 1..i - 1 : function_scopes[j][1] # fn
    IN  function_scopes[i][2]

(* Mutant: a label is not checked against the global symbols.             *)
LabelClashNoGlobals(x, fn) ==
    \E g \in DOMAIN scoped_labels : x \in scoped_labels[g] /\ g # fn

(* label in global_symbols or any(label in scoped_labels[func] and        *)
(* func != current_function for func in scoped_labels)                    *)
LabelClash(x, fn) ==
    x \in global_symbols \/ \E g \in DOMAIN scoped_labels : x \in scoped_labels[g] /\ g # fn

VariableClash(x, fn) ==
    x \in global_symbols \/ \E g \in DOMAIN scoped_variables : x \in scoped_variables[g] /\ g # fn

(* The innermost open proc occurrence, <<>> outside every proc.          *)
Innermost(s) == IF s = <<>> THEN <<>> ELSE Last(s)

(* Iterating over a set of names: in the order of hashOrder.              *)
SetOrder(S) ==
    LET Pos(x) == CHOOSE k \in 1..Len(hashOrder) : hashOrder[k] = x
    IN  SetToSortSeq(S, LAMBDA x, y : Pos(x) < Pos(y))

(* Mutant: re.sub without the \b word boundaries.                          *)
MatchNoBoundary(t, x) == Len(t) >= Len(x) /\ SubSeq(t, 1, Len(x)) = x

(* rf'\b{x}\b' matches the token t: a whole name, so a does not match a_1 *)
Match(t, x) == t = x

(* re.sub(rf'\b{x}\b', f'{x}_{k}', t)                                       *)
Subst(t, x, k) ==
    IF Match(t, x) THEN Append(x, k) \o SubSeq(t, Len(x) + 1, Len(t)) ELSE t

(* The two loops of transform_file on one token of a line inside proc fn: *)
(* every clashing label of fn, then every clashing variable of fn, in     *)
(* set order, each applied to the token as the previous ones left it.     *)
Rewrite(t, fn) ==
    LET k == ProcNumber(fn)
        afterLabels == FoldLeft(LAMBDA acc, x : IF LabelClash(x, fn) THEN Subst(acc, x, k) ELSE acc,
                                t, SetOrder(scoped_labels[fn]))
    IN  FoldLeft(LAMBDA acc, x : IF VariableClash(x, fn) THEN Subst(acc, x, k) ELSE acc,
                 afterLabels, SetOrder(scoped_variables[fn]))

(* Pass 2, transform_file: one line of the current file.  An output line  *)
(* also records the names it had in the source (o, ro) and which proc     *)
(* occurrence it was in (the innermost one, <<>> for none; a .proc line   *)
(* is in the scope enclosing it).                                          *)
TransformLine ==
    /\ phase = "transform"
    /\ l <= Len(files[f])
    /\ LET Keep == [k |-> Line.k, n |-> Line.n, o |-> Line.n,
                    r |-> Line.r, ro |-> Line.r, scope |-> Innermost(scope)]
       IN CASE Line.k = "proc" ->
                 /\ current_function' = Line.n
                 /\ scope' = Append(scope, <<f, l>>)
                 /\ output_lines' = Append(output_lines, Keep)
            [] Line.k = "endproc" ->
                 /\ current_function' = None
                 /\ scope' = IF scope = <<>> THEN <<>> ELSE Front(scope)
                 /\ output_lines' = Append(output_lines, Keep)
            [] current_function # None ->
                 /\ output_lines' = Append(output_lines,
                        [k |-> Line.k, o |-> Line.n, ro |-> Line.r, scope |-> Innermost(scope),
                         n |-> IF Line.n = NoName THEN NoName
                               ELSE Rewrite(Line.n, current_function),
                         r |-> IF Line.r = NoName THEN NoName
                               ELSE Rewrite(Line.r, current_function)])
                 /\ UNCHANGED <<current_function, scope>>
            [] OTHER ->
                 /\ output_lines' = Append(output_lines, Keep)
                 /\ UNCHANGED <<current_function, scope>>
    /\ l' = l + 1
    /\ UNCHANGED <<files, phase, f, proc_counter, global_symbols, function_scopes,
                   scoped_labels, scoped_variables, written, hashOrder, crashes>>

(* process_directory: the transformed file is written back, and the next  *)
(* file starts with current_function = None.                              *)
WriteFile ==
    /\ phase = "transform"
    /\ l > Len(files[f])
    /\ written' = Put(written, f, output_lines)
    /\ output_lines' = <<>>
    /\ current_function' = None
    /\ scope' = <<>>
    /\ IF f = Len(files)
         THEN /\ phase' = "done" /\ UNCHANGED f
         ELSE /\ f' = f + 1 /\ UNCHANGED phase
    /\ l' = 1
    /\ UNCHANGED <<files, proc_counter, global_symbols, function_scopes,
                   scoped_labels, scoped_variables, hashOrder, crashes>>

(* The source lines a rewritten file holds.                                *)
Source(out) == [j \in DOMAIN out |-> [k |-> out[j].k, n |-> out[j].n, r |-> out[j].r]]

(* The process dies after it has written back some files but not all, and *)
(* is run again on the directory as the writes left it.                   *)
CrashRestart ==
    /\ phase = "transform"
    /\ written # <<>>
    /\ crashes < MaxCrashes
    /\ crashes' = crashes + 1
    /\ StartRun([j \in DOMAIN files |-> IF j \in DOMAIN written THEN Source(written[j]) ELSE files[j]])

Terminated ==
    /\ phase = "done"
    /\ UNCHANGED vars

Next == CollectLine \/ CollectNextFile \/ TransformLine \/ WriteFile \/ CrashRestart \/ Terminated

Spec == Init /\ [][Next]_vars

-----------------------------------------------------------------------------
WrittenLines == UNION {{written[i][j] : j \in DOMAIN written[i]} : i \in DOMAIN written}

(* The lines of the rewritten directory that define a symbol.              *)
DefLines == {ln \in WrittenLines : ln.k \in {"proc", "label", "var"}}

(* The symbols the rewritten directory defines, with the scope of each: a *)
(* .proc name is global, a label or variable belongs to the proc          *)
(* occurrence it is written in, or is global (scope <<>>).                 *)
Definitions == {[n |-> ln.n, scope |-> ln.scope] : ln \in DefLines}

TypeOK ==
    /\ phase \in {"collect", "transform", "done"}
    /\ \A k \in 1..Len(function_scopes) : function_scopes[k][2] = k
    /\ DOMAIN written \subseteq 1..Len(files)
    /\ \A ln \in WrittenLines :
          ln.n # NoName =>
             /\ SubSeq(ln.n, 1, Len(ln.o)) = ln.o
             /\ \A k \in Len(ln.o) + 1..Len(ln.n) : ln.n[k] \in 1..proc_counter

(* After the rewrite no two symbols defined in different scopes (two proc *)
(* occurrences, or a proc and the global scope) have the same name, so   *)
(* the files can be assembled with their .proc scopes flattened: what the *)
(* clash tests of transform_file are for.                                 *)
NoClash ==
    phase = "done" =>
        \A d1, d2 \in Definitions : d1.scope # d2.scope => d1.n # d2.n

(* The rewrite never merges two symbols: two definitions of one scope     *)
(* that had different names still have different names.  The renaming   *)
(* loops of transform_file apply one re.sub after another to the same    *)
(* line, so a name one substitution produces can be renamed again by a  *)
(* later one.                                                              *)
RenameInjective ==
    phase = "done" =>
        \A d1, d2 \in DefLines :
            d1.scope = d2.scope /\ d1.o # d2.o => d1.n # d2.n

(* Every reference inside a proc still names the symbol it named before: *)
(* the definition of that name in the same proc occurrence if there is   *)
(* one, else the global one, else it is left as it was.  The re.sub of a *)
(* transform_file line renames definitions and references alike, and    *)
(* must rename only whole names.                                          *)
BindingPreserved ==
    phase = "done" =>
        \A w \in WrittenLines :
            w.scope # <<>> /\ w.ro # NoName =>
                LET local  == {d \in DefLines : d.scope = w.scope /\ d.o = w.ro}
                    global == {d \in DefLines : d.scope = <<>> /\ d.o = w.ro}
                IN  CASE local # {}  -> w.r \in {d.n : d \in local}
                      [] global # {} -> w.r \in {d.n : d \in global}
                      [] OTHER       -> w.r = w.ro
=============================================================================
