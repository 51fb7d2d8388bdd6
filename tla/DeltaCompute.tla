---------------------------- MODULE DeltaCompute ----------------------------
(***************************************************************************)
(* delta.Compute: pairs the cost rows of the baseline with those of the    *)
(* proposed directory, address by address, and sums what changed.  One     *)
(* action per iteration of its loops.  Money is an integer; a spec is a    *)
(* member of a small set; an item that is not priced has no monthly cost   *)
(* (usage-based, unsupported or unresolved).                               *)
(***************************************************************************)
EXTENDS Integers, Sequences, FiniteSets, FiniteSetsExt

CONSTANTS
    Addr,     \* resource addresses
    Item,     \* the cost items, [spec, monthly, priced]
    Inputs,   \* the pairs of analyses to compare, [base, cur]
    MaxItems, \* bound: items of one address in one directory
    None      \* no address at work

Lists == UNION {[1..n -> Item] : n \in 0..MaxItems}

ASSUME DeltaAssumption ==
    /\ \A it \in Item : it.monthly \in Nat /\ it.priced \in BOOLEAN
    /\ \A x, y \in Item :
          x.spec = y.spec /\ x.monthly = y.monthly /\ x.priced = y.priced => x = y
    /\ MaxItems \in Nat
    /\ IsFiniteSet(Addr) /\ None \notin Addr
    /\ Inputs \subseteq [base : [Addr -> Lists], cur : [Addr -> Lists]]

VARIABLES
    base, cur,   \* items per address: the two analyses (never change)
    todo,        \* addresses not yet compared (the code sorts them)
    addr,        \* the address at work, or None
    phase, i,    \* the loop at work and its index
    used,        \* bUsed
    pair,        \* cPair; 0 is unpaired
    rows,        \* the rows so far, with the items they stand for
    total        \* Totals

input == <<base, cur>>
vars  == <<base, cur, todo, addr, phase, i, used, pair, rows, total>>

Kind  == {"update", "create", "delete", "notEstimated"}

\* What an item costs, or 0; index 0 is no item.
Priced(lists, a, n) == IF n = 0 \/ ~lists[a][n].priced THEN 0
                       ELSE lists[a][n].monthly

Positions(lists)    == {x \in Addr \X (1..MaxItems) : x[2] \in DOMAIN lists[x[1]]}
SumCosts(lists) == SumFunction([x \in Positions(lists) |-> Priced(lists, x[1], x[2])])

Init ==
    /\ \E in \in Inputs : base = in.base /\ cur = in.cur
    /\ todo = {a \in Addr : Len(base[a]) + Len(cur[a]) > 0}
    /\ addr = None /\ phase = "next" /\ i = 0
    /\ used = {} /\ pair = <<>> /\ rows = <<>>
    /\ total = [prior |-> SumCosts(base), proposed |-> SumCosts(cur),
                delta |-> 0, notEstimated |-> 0]

B == base[addr]
C == cur[addr]

\* MUTANT of NextAddr: bUsed is declared outside the loop over addresses.
NextAddrKeepsUsed ==
    /\ phase = "next"
    /\ \E a \in todo :
          /\ addr' = a /\ todo' = todo \ {a}
          /\ pair' = [c \in DOMAIN cur[a] |-> 0]
    /\ phase' = "equal" /\ i' = 1
    /\ UNCHANGED <<input, rows, total, used>>

NextAddr ==
    /\ phase = "next"
    /\ \E a \in todo :
          /\ addr' = a /\ todo' = todo \ {a}
          /\ pair' = [c \in DOMAIN cur[a] |-> 0]
    /\ phase' = "equal" /\ i' = 1 /\ used' = {}
    /\ UNCHANGED <<input, rows, total>>

\* MUTANT of Take: the index is stored one too high.
TakeShifted(S) ==
    LET free == S \ used
    IN  /\ used' = IF free = {} THEN used ELSE used \cup {Min(free)}
        /\ pair' = IF free = {} THEN pair
                   ELSE [pair EXCEPT ![i] = Min(free) + 1]

\* A cur item takes the first unused base item of the set, if there is one.
Take(S) ==
    LET free == S \ used
    IN  /\ used' = IF free = {} THEN used ELSE used \cup {Min(free)}
        /\ pair' = IF free = {} THEN pair ELSE [pair EXCEPT ![i] = Min(free)]

Step(next) ==
    /\ IF i < Len(C) THEN phase' = phase /\ i' = i + 1
                     ELSE phase' = next  /\ i' = 1
    /\ UNCHANGED <<input, todo, addr>>

\* MUTANT of PairEqual: the first pass does not compare specs.
PairAny ==
    /\ phase = "equal" /\ i <= Len(C)
    /\ Take(DOMAIN B)
    /\ Step("left")
    /\ UNCHANGED <<rows, total>>

\* First pass: identical specs.
PairEqual ==
    /\ phase = "equal" /\ i <= Len(C)
    /\ Take({b \in DOMAIN B : B[b].spec = C[i].spec})
    /\ Step("left")
    /\ UNCHANGED <<rows, total>>

\* Second pass: what is left, in order.
PairLeftover ==
    /\ phase = "left" /\ i <= Len(C)
    /\ IF pair[i] = 0 THEN Take(DOMAIN B) ELSE UNCHANGED <<used, pair>>
    /\ Step("emit")
    /\ UNCHANGED <<rows, total>>

Row(kind, b, c, change) ==
    [kind |-> kind, addr |-> addr, b |-> b, c |-> c, delta |-> change]

\* rowFor, newRow, removedRow; index 0 is no item.
RowFor(b, c) ==
    IF B[b].priced /\ C[c].priced
    THEN Row("update", b, c, C[c].monthly - B[b].monthly)
    ELSE Row("notEstimated", b, c, 0)
NewRow(c) ==
    IF C[c].priced THEN Row("create", 0, c, C[c].monthly)
                   ELSE Row("notEstimated", 0, c, 0)
\* MUTANT of RemovedRow: the sign of a removal is lost.
RemovedRowPositive(b) ==
    IF B[b].priced THEN Row("delete", b, 0, B[b].monthly)
                   ELSE Row("notEstimated", b, 0, 0)

RemovedRow(b) ==
    IF B[b].priced THEN Row("delete", b, 0, -B[b].monthly)
                   ELSE Row("notEstimated", b, 0, 0)

\* The last loop of Compute adds up the rows; here as each one is appended.
AddRow(r) ==
    /\ rows' = Append(rows, r)
    /\ total' = IF r.kind = "notEstimated"
                THEN [total EXCEPT !.notEstimated = @ + 1]
                ELSE [total EXCEPT !.delta = @ + r.delta]

\* MUTANT of Unchanged: an unpriced pair with the same spec is dropped.
UnchangedSpec(b, c) == B[b].spec = C[c].spec /\ B[b].monthly = C[c].monthly

Unchanged(b, c) == /\ B[b].priced /\ C[c].priced
                   /\ B[b].spec = C[c].spec /\ B[b].monthly = C[c].monthly

\* One row per item of the proposed directory, none for an unchanged pair.
Emit ==
    /\ phase = "emit" /\ i <= Len(C)
    /\ IF pair[i] = 0 THEN AddRow(NewRow(i))
       ELSE IF Unchanged(pair[i], i) THEN UNCHANGED <<rows, total>>
       ELSE AddRow(RowFor(pair[i], i))
    /\ Step("removed")
    /\ UNCHANGED <<used, pair>>

\* No item on the proposed side: its three loops do nothing.
SkipLoops ==
    /\ phase \in {"equal", "left", "emit"} /\ i > Len(C)
    /\ phase' = "removed" /\ i' = 1
    /\ UNCHANGED <<input, todo, addr, used, pair, rows, total>>

\* The base items nothing was paired with.
Removed ==
    /\ phase = "removed" /\ i <= Len(B)
    /\ IF i \in used THEN UNCHANGED <<rows, total>> ELSE AddRow(RemovedRow(i))
    /\ i' = i + 1
    /\ UNCHANGED <<input, todo, addr, phase, used, pair>>

AddrDone ==
    /\ phase = "removed" /\ i > Len(B)
    /\ phase' = "next" /\ addr' = None /\ i' = 0 /\ pair' = <<>>
    /\ UNCHANGED <<input, todo, used, rows, total>>

Next == \/ NextAddr \/ PairEqual \/ PairLeftover \/ Emit \/ SkipLoops
        \/ Removed \/ AddrDone

Spec == Init /\ [][Next]_vars

-----------------------------------------------------------------------------
(* Properties.                                                             *)

Done == phase = "next" /\ todo = {}

RowType == [kind : Kind, addr : Addr, b : 0..MaxItems, c : 0..MaxItems,
            delta : Int]

TypeOK ==
    /\ base \in [Addr -> Lists] /\ cur \in [Addr -> Lists]
    /\ todo \in SUBSET Addr /\ addr \in Addr \cup {None}
    /\ phase \in {"next", "equal", "left", "emit", "removed"}
    /\ (addr = None) <=> (phase = "next")
    /\ i \in 0..(MaxItems + 1)
    /\ used \in SUBSET (1..MaxItems)
    /\ \A c \in DOMAIN pair : pair[c] \in 0..MaxItems
    /\ \A k \in DOMAIN rows : rows[k] \in RowType
    /\ total \in [prior : Nat, proposed : Nat, delta : Int, notEstimated : Nat]

\* At every point of the loops bUsed and cPair agree: a base item is marked
\* used exactly when one proposed item, and only one, is paired with it.
PairingOK ==
    addr # None =>
        /\ used = {pair[c] : c \in DOMAIN pair} \ {0}
        /\ \A c, d \in DOMAIN pair : pair[c] = pair[d] /\ pair[c] # 0 => c = d

\* "Identical specs pair first" (delta.go:112): once the first pass is over,
\* two items of one address that have the same spec are not both left to
\* items of other specs.
EqualSpecsFirst ==
    phase \in {"left", "emit", "removed"} =>
        \A c \in DOMAIN C, b \in DOMAIN B :
            C[c].spec = B[b].spec
            => \/ pair[c] # 0 /\ B[pair[c]].spec = C[c].spec
               \/ \E d \in DOMAIN C : pair[d] = b /\ C[d].spec = B[b].spec

InRow(side, a, n) == {k \in DOMAIN rows : rows[k].addr = a /\ rows[k][side] = n}
Silent(side, lists, a) == {n \in DOMAIN lists[a] : InRow(side, a, n) = {}}

\* Every item of the address is in one row, or cancels out.
OnceAt(a) ==
    LET sb == Silent("b", base, a)
        sc == Silent("c", cur, a)
    IN  /\ \A n \in DOMAIN base[a] : Cardinality(InRow("b", a, n)) <= 1
        /\ \A n \in DOMAIN cur[a] : Cardinality(InRow("c", a, n)) <= 1
        /\ \A it \in Item : Cardinality({n \in sb : base[a][n] = it})
                            = Cardinality({n \in sc : cur[a][n] = it})
        /\ \A n \in sb : base[a][n].priced

\* "never collapse them" (delta.go:76), not "silently dropped" (delta.go:5):
\* at the end every item of either directory is in exactly one row, except
\* for items that are priced and pair off with an equal item of the other
\* side that is in no row either.
EachItemOnce == Done => \A a \in Addr : OnceAt(a)

\* What a row declared as not estimated keeps out of Delta.
Hidden(k) == IF rows[k].kind # "notEstimated" THEN 0
             ELSE Priced(cur, rows[k].addr, rows[k].c)
                  - Priced(base, rows[k].addr, rows[k].b)

\* The headline adds up: Delta is Proposed - Prior, up to the priced halves
\* of the rows it declares as not estimated.
DeltaAddsUp ==
    Done => total.delta + SumFunction([k \in DOMAIN rows |-> Hidden(k)])
            = total.proposed - total.prior

\* The items of the address, all priced and of distinct specs, in some order.
Reordered(a) ==
    /\ \A n, m \in DOMAIN base[a] : base[a][n].spec = base[a][m].spec => n = m
    /\ Len(base[a]) = Len(cur[a])
    /\ {base[a][n] : n \in DOMAIN base[a]} = {cur[a][n] : n \in DOMAIN cur[a]}
    /\ \A n \in DOMAIN base[a] : base[a][n].priced

\* Reordering the components of a resource is no change: if the specs of an
\* address are distinct and both sides have the same priced items, the
\* address has no row.
ReorderedSilent ==
    Done => \A a \in Addr : Reordered(a) => \A k \in DOMAIN rows : rows[k].addr # a
=============================================================================
