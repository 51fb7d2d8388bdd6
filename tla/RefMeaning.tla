----------------------------- MODULE RefMeaning -----------------------------
(***************************************************************************)
(* What RefResolver promises its callers, without stack, guards or order:  *)
(* the attributes of a resource are settled in one step, to what they mean *)
(* given the resources settled before, and not before everything the       *)
(* resource refers to is settled.  The one exception is a reference cycle, *)
(* whose first member cannot wait for the others.                          *)
(*                                                                         *)
(* A value is the set of the literals it is built from; {} is unresolved.  *)
(* An expression is                                                        *)
(*   absent  the attribute is not declared;                                *)
(*   const   a literal;                                                    *)
(*   ref     a traversal or a template: needs all its references;          *)
(*   try     try(reference, literal).                                      *)
(***************************************************************************)
EXTENDS Naturals, Sequences

CONSTANTS
    Res,      \* resource addresses of one directory
    Attr,     \* attribute names
    Dirs,     \* the directories: the expression of each attribute
    None      \* not settled

VARIABLES
    expr,     \* expr[r][a]: the directory (never changes)
    known     \* the attributes of r, or None

vars == <<expr, known>>

\* Resource r refers to another resource s.
Edge(r, s) == /\ r # s
              /\ \E a \in Attr : \E i \in DOMAIN expr[r][a].refs :
                    expr[r][a].refs[i][1] = s

\* s is in every set that contains r and is closed under references.
Closed(C)     == \A x \in C, y \in Res : Edge(x, y) => y \in C
Reaches(r, s) == \A C \in SUBSET Res : (r \in C /\ Closed(C)) => s \in C

\* What an expression denotes when the attributes have the values v, as
\* Terraform would have it: try falls back only if its reference has no value.
Value(v, r, ref) == IF ref[1] = r \/ v[ref[1]] = None THEN {} ELSE v[ref[1]][ref[2]]
Whole(v, r, e)   == \A i \in DOMAIN e.refs : Value(v, r, e.refs[i]) # {}
Denotes(v, r, a) ==
    LET e == expr[r][a]
    IN  IF e.op = "absent" THEN {}
        ELSE IF e.op = "const" THEN {<<"lit", r, a>>}
        ELSE IF Whole(v, r, e)
             THEN UNION {Value(v, r, e.refs[i]) : i \in DOMAIN e.refs}
        ELSE IF e.op = "try" THEN {<<"fallback", r, a>>} ELSE {}

Init == /\ expr \in Dirs
        /\ known = [r \in Res |-> None]

Learn(r) ==
    /\ known[r] = None
    /\ \A s \in Res : Edge(r, s) => known[s] # None \/ Reaches(s, r)
    /\ known' = [known EXCEPT ![r] = [a \in Attr |-> Denotes(known, r, a)]]
    /\ UNCHANGED expr

\* The caller starts over, which it does only with everything settled.
Forget ==
    /\ \A r \in Res : known[r] # None
    /\ known' = [r \in Res |-> None]
    /\ UNCHANGED expr

Next == (\E r \in Res : Learn(r)) \/ Forget

Spec == Init /\ [][Next]_vars
=============================================================================
