----------------------------- MODULE RefResolve -----------------------------
(***************************************************************************)
(* RefResolver (internal/tf/refs): the attributes of every resource of a   *)
(* directory are resolved by a memoising depth-first search.  AllResolved  *)
(* and ResolveResource range over Go maps, so the order of resources and   *)
(* of attributes is nondeterministic.                                      *)
(*                                                                         *)
(* Values and expressions are those of RefMeaning, which this module       *)
(* implements.                                                             *)
(***************************************************************************)
EXTENDS Naturals, Sequences

CONSTANTS
    Res,      \* resource addresses of one directory
    Attr,     \* attribute names
    Dirs,     \* the directories: the expression of each attribute
    Ranks,    \* naturals that witness acyclicity
    None      \* no memo, no current attribute

Op   == {"absent", "const", "ref", "try"}
Expr == [op : Op, refs : Seq(Res \X Attr)]
Leaf == {"lit", "fallback"} \X Res \X Attr
Vals == [Attr -> SUBSET Leaf]

ASSUME RefAssumption ==
    /\ Dirs \subseteq [Res -> [Attr -> Expr]]
    /\ \A d \in Dirs, r \in Res, a \in Attr :
          d[r][a].op \in {"absent", "const"} => d[r][a].refs = <<>>
    /\ Ranks \subseteq Nat
    /\ None \notin Attr /\ None \notin Vals

VARIABLES
    expr,     \* expr[r][a]: the parsed directory (never changes)
    memo,     \* RefResolver.resolved: attributes of r, or None
    stack,    \* the ResolveResource calls in flight, innermost last
    pass      \* resources AllResolved has not come to yet

vars == <<expr, memo, stack, pass>>

M == INSTANCE RefMeaning WITH known <- memo

Frame == [addr : Res, todo : SUBSET Attr, cur : Attr \cup {None}, attrs : Vals]

NoVals == [a \in Attr |-> {}]
\* MUTANT of Call: undeclared attributes get a value the type does not have.
CallAll(r) == [addr |-> r, cur |-> None, attrs |-> <<>>, todo |-> Attr]

Call(r) == [addr |-> r, cur |-> None, attrs |-> NoVals,
            todo |-> {a \in Attr : expr[r][a].op # "absent"}]

Init ==
    /\ expr \in Dirs
    /\ memo = [r \in Res |-> None]
    /\ stack = <<>>
    /\ pass = Res

Top      == stack[Len(stack)]
InFlight == {stack[i].addr : i \in DOMAIN stack}     \* RefResolver.resolving
Replace(f) == [stack EXCEPT ![Len(stack)] = f]

\* AllResolved: the next resource of the map.
Visit(r) ==
    /\ stack = <<>>
    /\ r \in pass
    /\ pass' = pass \ {r}
    /\ stack' = IF memo[r] = None THEN <<Call(r)>> ELSE <<>>
    /\ UNCHANGED <<expr, memo>>

\* ResolveResource: the next attribute of the map.
Choose(a) ==
    /\ stack # <<>>
    /\ Top.cur = None
    /\ a \in Top.todo
    /\ stack' = Replace([Top EXCEPT !.cur = a])
    /\ UNCHANGED <<expr, memo, pass>>

Refs == expr[Top.addr][Top.cur].refs

\* MUTANT of Unasked: what is behind a try() is not asked for.
UnaskedPlain(i) == /\ expr[Top.addr][Top.cur].op # "try"
                   /\ memo[Refs[i][1]] = None /\ Refs[i][1] \notin InFlight

\* The i-th reference needs a call: no self-reference, no memo, not in flight.
Unasked(i) == memo[Refs[i][1]] = None /\ Refs[i][1] \notin InFlight

\* resolveExpr asks ResolveResource for each referenced address in order.
Descend ==
    /\ stack # <<>>
    /\ Top.cur # None
    /\ \E i \in DOMAIN Refs :
          /\ Unasked(i)
          /\ \A j \in 1..(i - 1) : ~Unasked(j)
          /\ stack' = Append(stack, Call(Refs[i][1]))
    /\ UNCHANGED <<expr, memo, pass>>

\* MUTANT of Known: the half-resolved attributes of a call in flight are read.
KnownPartial(r, ref) ==
    IF memo[ref[1]] # None THEN memo[ref[1]][ref[2]]
    ELSE UNION {stack[i].attrs[ref[2]] :
                   i \in {j \in DOMAIN stack : stack[j].addr = ref[1]}}

\* The value of a reference of resource r, given the memo table: an address
\* in flight, r itself included, or an absent attribute gives nothing.
Known(r, ref) == IF ref[1] = r \/ memo[ref[1]] = None THEN {}
                 ELSE memo[ref[1]][ref[2]]

RefVals(r, a) == {Known(r, expr[r][a].refs[i]) : i \in DOMAIN expr[r][a].refs}

\* resolveExpr, once every reference it asks for is answered.
Eval(r, a) ==
    CASE expr[r][a].op = "absent" -> {}
      [] expr[r][a].op = "const"  -> {<<"lit", r, a>>}
      [] expr[r][a].op = "ref"    -> IF {} \in RefVals(r, a) THEN {}
                                     ELSE UNION RefVals(r, a)
      [] expr[r][a].op = "try"    -> IF {} \in RefVals(r, a)
                                     THEN {<<"fallback", r, a>>}
                                     ELSE UNION RefVals(r, a)

\* MUTANT of Assign: the expression is evaluated before all it asks for is.
AssignEarly ==
    /\ stack # <<>>
    /\ Top.cur # None
    /\ stack' = Replace([Top EXCEPT !.attrs[Top.cur] = Eval(Top.addr, Top.cur),
                                    !.todo = @ \ {Top.cur}, !.cur = None])
    /\ UNCHANGED <<expr, memo, pass>>

Assign ==
    /\ stack # <<>>
    /\ Top.cur # None
    /\ \A i \in DOMAIN Refs : ~Unasked(i)
    /\ stack' = Replace([Top EXCEPT !.attrs[Top.cur] = Eval(Top.addr, Top.cur),
                                    !.todo = @ \ {Top.cur}, !.cur = None])
    /\ UNCHANGED <<expr, memo, pass>>

Pop == SubSeq(stack, 1, Len(stack) - 1)

\* MUTANT of Return: only a resource with some resolved attribute is memoised.
ReturnUnlessEmpty ==
    /\ stack # <<>>
    /\ Top.cur = None /\ Top.todo = {}
    /\ memo' = IF Top.attrs = NoVals THEN memo
               ELSE [memo EXCEPT ![Top.addr] = Top.attrs]
    /\ stack' = Pop
    /\ UNCHANGED <<expr, pass>>

Return ==
    /\ stack # <<>>
    /\ Top.cur = None /\ Top.todo = {}
    /\ memo' = [memo EXCEPT ![Top.addr] = Top.attrs]
    /\ stack' = Pop
    /\ UNCHANGED <<expr, pass>>

Done == stack = <<>> /\ pass = {}

\* dirScope.fixpoint: Reset, then AllResolved again.
Reset ==
    /\ Done
    /\ memo' = [r \in Res |-> None]
    /\ pass' = Res
    /\ UNCHANGED <<expr, stack>>

Step == \/ \E r \in Res : Visit(r)
        \/ \E a \in Attr : Choose(a)
        \/ Descend \/ Assign \/ Return

Next == Step \/ Reset

Spec     == Init /\ [][Next]_vars
FairSpec == Spec /\ WF_vars(Step)

-----------------------------------------------------------------------------
(* Properties.                                                             *)

TypeOK ==
    /\ expr \in [Res -> [Attr -> Expr]]
    /\ memo \in [Res -> Vals \cup {None}]
    /\ stack \in Seq(Frame)
    /\ pass \in SUBSET Res

\* No resource is being resolved twice at the same time, and none that is in
\* flight has an entry in the memo table: the recursion cannot be infinite
\* and a memo entry is written once per pass.
InFlightOnce ==
    /\ \A i, j \in DOMAIN stack : stack[i].addr = stack[j].addr => i = j
    /\ \A i \in DOMAIN stack : memo[stack[i].addr] = None

Acyclic == \E rank \in [Res -> Ranks] :
               \A r, s \in Res : M!Edge(r, s) => rank[s] < rank[r]

\* Without a reference cycle the result does not depend on the order of the
\* Go maps: every memo entry satisfies the equations of the directory, which
\* have one solution, and everything it refers to is memoised as well.
AcyclicExact ==
    Acyclic => \A r \in Res : memo[r] # None =>
        /\ \A s \in Res : M!Edge(r, s) => memo[s] # None
        /\ \A a \in Attr : memo[r][a] = M!Denotes(memo, r, a)

\* On any graph a cycle can lose a value but never changes one: a resolved
\* attribute that is not a try() is built from memoised values only.
SoundValues ==
    \A r \in Res, a \in Attr :
        (memo[r] # None /\ expr[r][a].op = "ref" /\ memo[r][a] # {})
        => /\ \A i \in DOMAIN expr[r][a].refs :
                 memo[expr[r][a].refs[i][1]] # None
           /\ memo[r][a] = M!Denotes(memo, r, a)

\* Whatever the order and the recursion, the memo table changes as if each
\* resource were settled in one step, with everything it refers to settled
\* before it, except what refers back to it.
Implements == M!Spec

\* Every AllResolved comes to an end, on cyclic graphs too.
Terminates == []<>Done

\* analyze.go:100-101: a reference cycle "degrades the members to unresolved
\* attributes", and refs.go:72-73 means a cycle behind a try() not to be priced
\* with the fallback: two attributes that refer to each other are unresolved.
CycleDegrades ==
    Done => \A r, s \in Res, a, b \in Attr :
        (/\ r # s
         /\ \E i \in DOMAIN expr[r][a].refs : expr[r][a].refs[i] = <<s, b>>
         /\ \E i \in DOMAIN expr[s][b].refs : expr[s][b].refs[i] = <<r, a>>)
        => memo[r][a] = {}

=============================================================================
