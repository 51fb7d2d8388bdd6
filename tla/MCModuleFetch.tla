---------------------------- MODULE MCModuleFetch ----------------------------
(* Registries, pins and faults, as the initial states of ModuleFetch. *)
EXTENDS ModuleFetch

CONSTANTS main, vars_tf, p1, p2

Files == {main, vars_tf}
Procs == {p1, p2}
Versions == {1, 2, 3} \X {0, 1} \X {0, 1}

Bare(x) == <<[op |-> "bare", ver |-> x]>>
Targets == {<<1>>, <<2>>} \cup ({1, 2} \X {0, 1}) \cup ({1, 2} \X {0, 1} \X {0, 1})
Single  == {<<[op |-> o, ver |-> t]>> : o \in Ops, t \in Targets}
Range   == {<<[op |-> ">=", ver |-> t], [op |-> "<", ver |-> u]>> :
               t \in {<<1, 1>>, <<1, 0, 1>>}, u \in {<<2>>, <<2, 0, 1>>}}
Pins    == {<<>>} \cup Single \cup Range

Upto(n) == {S \in SUBSET Versions : Cardinality(S) \in 1..n}

\* Every constraint against every small registry, without faults.
Constraints == [procs : {{p1}}, published : Upto(2), declares : {Versions, {}}, pin : Pins,
                faults : {FALSE}]
\* Three majors, any faults, any set of versions that declare the inputs.
Walk == {<<1, 0, 0>>, <<1, 1, 0>>, <<2, 0, 0>>, <<3, 0, 0>>}
Faults == [procs : {{p1}}, published : {Walk}, declares : SUBSET Walk,
           pin : {<<>>, Bare(<<1, 0, 0>>)}, faults : {TRUE}]
\* Two processes on one cache, with and without faults.
Both == [procs : {Procs},
         published : {{<<1, 0, 0>>}, {<<1, 0, 0>>, <<2, 0, 0>>}}, declares : {{<<1, 0, 0>>}},
         pin : {<<>>}, faults : BOOLEAN]
AllScenarios == Constraints \cup Faults \cup Both
=============================================================================
