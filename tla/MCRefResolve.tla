---------------------------- MODULE MCRefResolve ----------------------------
(* Families of small directories, as the initial states of RefResolve. *)
EXTENDS RefVerify

CONSTANTS A, B, C, x, y

Three == {A, B, C}
TwoAttrs == {x, y}
SmallRanks == 0..2

Absent == [op |-> "absent", refs |-> <<>>]
Const  == [op |-> "const", refs |-> <<>>]
Refer(ops, P) == {[op |-> o, refs |-> <<q>>] : o \in ops, q \in P}
Templates(P)  == {[op |-> "ref", refs |-> rs] : rs \in {u \in P \X P : u[1] # u[2]}}

\* Two resources, one with two attributes of any kind, at most one reference
\* in each.
Any == {Absent, Const} \cup Refer({"ref", "try"}, {A, B} \X TwoAttrs)
TwoByTwo ==
    {[r \in Three |-> CASE r = A -> [z \in TwoAttrs |-> d[z]]
                        [] r = B -> [z \in TwoAttrs |-> IF z = x THEN e ELSE f]
                        [] r = C -> [z \in TwoAttrs |-> Absent]] :
     d \in [TwoAttrs -> Any], e \in Any, f \in {Absent, Const}}
\* Three resources with one attribute; templates of two references, too.
ThreeByOne ==
    {[r \in Three |-> [z \in TwoAttrs |-> IF z = x THEN d[r] ELSE Absent]] :
     d \in [Three -> {Absent, Const} \cup Refer({"ref", "try"}, Three \X {x})
                     \cup Templates(Three \X {x})]}

AllDirs == TwoByTwo \cup ThreeByOne
=============================================================================
