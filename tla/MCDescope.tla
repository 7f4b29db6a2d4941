------------------------------ MODULE MCDescope ------------------------------
(* Directories of two files with one .proc each, P and Q.  A file may    *)
(* start with a global line, then holds its proc: its body defines a     *)
(* label or variable and has a line that refers to a symbol.  Names are  *)
(* a, b, the proc names, and a_9 and a_1, which look like names the     *)
(* rewrite produces.                                                       *)
EXTENDS Descope

A  == <<"a">>
B  == <<"b">>
A1 == <<"a", 1>>
A9 == <<"a", 9>>
P  == <<"P">>
Q  == <<"Q">>
I  == <<"I">>

Def(k, n) == [k |-> k, n |-> n, r |-> NoName]
Ref(n) == [k |-> "other", n |-> NoName, r |-> n]
ProcOpen(p) == [k |-> "proc", n |-> p, r |-> NoName]
ProcEnd == [k |-> "endproc", n |-> NoName, r |-> NoName]

(* A file: global lines g, then proc p with body lines body.  Either file *)
(* may start with a global line of globals.                              *)
ProcFile(p, g, body) == g \o <<ProcOpen(p)>> \o body \o <<ProcEnd>>

DefsOf(names) == {Def(k, n) : k \in {"label", "var"}, n \in names}
Bodies(defs, refs) == {<<d, Ref(r)>> : d \in defs, r \in refs}
Dirs(globals, bodies1, bodies2) ==
    {<<ProcFile(P, g1, b1), ProcFile(Q, g2, b2)>> :
        g1, g2 \in globals, b1 \in bodies1, b2 \in bodies2}

BodyDef(file) == file[Len(file) - 2]
DefsOfKind(dir, k) == {BodyDef(dir[i]).n : i \in {i \in 1..2 : BodyDef(dir[i]).k = k}}

(* Well-formed sources: global variables only (a, b or a_9), locals named *)
(* a, b, P or Q, references to a, b or a_9, and no name a label in one    *)
(* proc and a variable in the other.                                      *)
MCDirs ==
    {dir \in Dirs({<<>>} \cup {<<Def("var", n)>> : n \in {A, B, A9}},
                  Bodies(DefsOf({A, B, P, Q}), {A, B, A9}),
                  Bodies(DefsOf({A, B, P, Q}), {A, B, A9})) :
        DefsOfKind(dir, "label") \cap DefsOfKind(dir, "var") = {}}

(* Only labels, and a file may start with a global label.                 *)
MCDirsGlobalLabels ==
    LET labels == {d \in DefsOf({A, B, P, Q}) : d.k = "label"}
    IN  Dirs({<<>>} \cup {<<Def("label", n)>> : n \in {A, B}},
             Bodies(labels, {A, B}), Bodies(labels, {A, B}))

(* No global lines, any label or variable in either proc.                 *)
MCDirsCrossKind ==
    Dirs({<<>>}, Bodies(DefsOf({A, B, P, Q}), {A, B}), Bodies(DefsOf({A, B, P, Q}), {A, B}))

(* A global variable that may be named a_1, and labels a in both procs.  *)
MCDirsSuffix ==
    Dirs({<<>>} \cup {<<Def("var", n)>> : n \in {A1, A9}},
         Bodies({Def("label", A)}, {A, A1}), Bodies({Def("label", A)}, {A}))

(* Both procs define the labels a and a_1.                                *)
MCDirsTwoLabels ==
    {<<ProcFile(P, <<>>, <<Def("label", A), Def("label", A1), Ref(A)>>),
       ProcFile(Q, <<>>, <<Def("label", A), Def("label", A1), Ref(A)>>)>>}

(* P holds a nested proc I; P's label a comes after I's .endproc.  Q     *)
(* defines and refers to a label a too.                                   *)
MCDirsNested ==
    {<<<<ProcOpen(P), ProcOpen(I), ProcEnd, Def("label", A), ProcEnd>>,
       ProcFile(Q, <<>>, <<Def("label", A), Ref(A)>>)>>}

(* The iteration orders: one for runs whose names never interact, both   *)
(* orders of a and a_1 otherwise.                                         *)
MCOneOrder == {<<A, B, A1, A9, P, Q>>}
MCBothOrders == {<<A, A1, B, A9, P, Q>>, <<A1, A, B, A9, P, Q>>}
=============================================================================
