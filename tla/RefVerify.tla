----------------------------- MODULE RefVerify -----------------------------
(***************************************************************************)
(* RefResolver.Verify (internal/tf/refs): a depth-first search for a       *)
(* reference cycle.  buildScope runs it once, before anything is resolved, *)
(* and drops its error.  It ranges over Go maps: the order of resources    *)
(* and of attributes is nondeterministic.                                  *)
(***************************************************************************)
EXTENDS RefResolve

VARIABLES
    left,     \* resources the range loop of Verify has not come to yet
    path,     \* the calls of check in flight, innermost last
    visited,
    verdict   \* what Verify returned, or "none" until it has

searchVars == <<left, path, visited, verdict>>
allVars    == <<vars, searchVars>>

\* Every address in any attribute, behind a try() too, r itself included.
deps(r) == UNION {{e.refs[i][1] : i \in DOMAIN e.refs} : e \in {expr[r][a] : a \in Attr}}

SearchInit == left = Res /\ path = <<>> /\ visited = {} /\ verdict = "none"

Chain == {path[i].addr : i \in DOMAIN path}       \* the parameter path
Inner == path[Len(path)]
\* The outcomes of a call of check for r.  An error ends the whole search.
Error          == left' = {} /\ path' = <<>> /\ visited' = {} /\ verdict' = "cycle"
Skip(l, p)     == left' = l /\ path' = p /\ UNCHANGED <<visited, verdict>>
Enter(r, l, p) == /\ left' = l
                  /\ path' = Append(p, [addr |-> r, todo |-> deps(r)])
                  /\ visited' = visited \cup {r}
                  /\ UNCHANGED verdict

\* MUTANT of check: a visited address is not looked for on the path.
checkVisitedFirst(r, l, p) ==
    \/ r \in visited /\ Skip(l, p)
    \/ r \notin visited /\ r \in Chain /\ Error
    \/ r \notin visited /\ r \notin Chain /\ Enter(r, l, p)

\* check(r), where the loops have l and p left to do after it.
check(r, l, p) ==
    \/ r \in Chain /\ Error
    \/ r \notin Chain /\ r \in visited /\ Skip(l, p)
    \/ r \notin Chain /\ r \notin visited /\ Enter(r, l, p)

\* The range loop of Verify.
VerifyNext(r) == /\ path = <<>> /\ r \in left
                 /\ check(r, left \ {r}, <<>>)

\* The range loop of check.
CheckDep(r) == /\ path # <<>> /\ r \in Inner.todo
               /\ check(r, left, [path EXCEPT ![Len(path)].todo = @ \ {r}])

CheckReturn == /\ path # <<>> /\ Inner.todo = {}
               /\ path' = SubSeq(path, 1, Len(path) - 1)
               /\ UNCHANGED <<left, visited, verdict>>

VerifyReturn == /\ path = <<>> /\ left = {}
                /\ verdict' = "ok"
                /\ UNCHANGED <<left, path, visited>>

Search == /\ verdict = "none"
          /\ \/ \E r \in Res : VerifyNext(r) \/ CheckDep(r)
             \/ CheckReturn \/ VerifyReturn
          /\ UNCHANGED vars

\* The resolver runs whatever Verify returned.
Resolve(A) == verdict # "none" /\ A /\ UNCHANGED searchVars

CheckedInit == Init /\ SearchInit
CheckedNext == Search \/ Resolve(Next)

CheckedSpec     == CheckedInit /\ [][CheckedNext]_allVars
FairCheckedSpec == CheckedSpec /\ WF_allVars(Search \/ Resolve(Step))

-----------------------------------------------------------------------------
(* Property.                                                               *)

Circular == \E r \in Res : \E d \in deps(r) : M!Reaches(d, r)

\* In whatever order the maps are walked, Verify reports a cycle if and only
\* if some resource refers to itself, directly or through others, and without
\* one it has looked at every resource.
VerifyExact ==
    verdict # "none" => /\ verdict = "cycle" <=> Circular
                        /\ verdict = "ok" => visited = Res
=============================================================================
