----------------------------- MODULE MCDirScope -----------------------------
(* Families of small directories, as the initial states of DirScope. *)
EXTENDS DirScope

CONSTANTS a, b, c, l1, l2, r, in

Mods   == {a, b, c}
Abc    == <<a, b, c>>
Locals == {l1, l2}
Rsrcs  == {r}
Inputs == {in}

Nothing == [op |-> "absent", refs |-> {}]
Literal == [op |-> "template", refs |-> {}]
Of(ops, names) == {[op |-> o, refs |-> {x}] : o \in ops, x \in names}

\* The directories with the given expressions: modules of M have inputs in
\* ins and for_each in eachs, the others are bare calls that resolve.
Family(locs, rsrcs, M, ins, eachs) ==
    {<<[local |-> ll, rsrc |-> rr, each |-> [m \in Mods |-> IF m \in M THEN ee[m] ELSE Nothing],
        in |-> [m \in Mods |-> [x \in Inputs |-> IF m \in M THEN ii[m] ELSE Nothing]]],
       F \cup (Mods \ M)>> :
     ll \in [Locals -> locs], rr \in [Rsrcs -> rsrcs],
     ii \in [M -> ins], ee \in [M -> eachs], F \in SUBSET M}

\* Three modules that refer to each other in any way.
ThreeModules ==
    Family({Literal}, {Literal}, Mods,
           {Nothing} \cup Of({"direct", "template"}, Mods), {Nothing})
\* Two modules with for_each.
Instances ==
    Family({Literal}, {Literal}, {a, b},
           {Nothing} \cup Of({"direct", "template"}, {a, b}),
           {Nothing} \cup Of({"direct"}, {a, b}))
\* Two locals, a resource and a module that refer to each other in any way.
LocalNames ==
    Family({Literal} \cup Of({"template", "try"}, {l1, l2, r, a}),
           {Literal} \cup Of({"template", "try"}, {l1, l2}),
           {a},
           {Nothing} \cup Of({"direct", "template", "try"}, {l1, l2, r, a}),
           {Nothing})
AllDirs == ThreeModules \cup Instances \cup LocalNames
=============================================================================
