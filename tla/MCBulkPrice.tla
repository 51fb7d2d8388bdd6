----------------------------- MODULE MCBulkPrice -----------------------------
(* Small instances of BulkPrice for TLC. *)
EXTENDS BulkLoads, TLC

CONSTANTS p1, p2, i1, i2, i3, f, g, a, b, u, w

Procs  == {p1, p2}
Inodes == {i1, i2, i3}
Fields == {f, g}
OneField == {f}

Dim(unit, usd) == [unit |-> unit, usd |-> usd]
\* Every term also has a Reserved price, which nothing may report.
Term(sku, dims) == [sku |-> sku, onDemand |-> dims, reserved |-> <<Dim(u, 9)>>]
Product(sku, v) == [sku |-> sku, attrs |-> [z \in OneField |-> v]]
Doc(ps, ts) == <<[kind |-> "products", items |-> ps], [kind |-> "terms", items |-> ts]>>
Flip(doc) == <<doc[2], doc[1]>>
Q(filters, unit) == [filters |-> filters, unit |-> unit]
Is(z, v) == [field |-> z, value |-> v]

\* Two processes, two versions, everything may fail.
Plain(usd) == Doc(<<Product(1, a)>>, <<Term(1, <<Dim(u, usd)>>)>>)
Sharing == {[docs |-> <<Plain(1), Plain(2)>>, query |-> Q({Is(f, a)}, u),
             procs |-> Procs, faults |-> TRUE, until |-> 3]}

\* One process, every list of two products with up to two prices each, in
\* both section orders, against every query.
Dims(x) == LET D == {Dim(n, d) : n \in {u, w}, d \in {0, x}}
           IN  {<<>>} \cup {<<d>> : d \in D} \cup {<<d, e>> : d \in D, e \in D}
Terms == {<<Term(1, d), Term(2, e)>> : d \in Dims(1), e \in Dims(2)}
         \cup {<<Term(2, e), Term(3, <<Dim(u, 1)>>)>> : e \in Dims(2)}
Docs == {Doc(<<Product(1, a), Product(2, z)>>, ts) : z \in {a, b, None}, ts \in Terms}
Queries == {Q(fs, n) : fs \in {{}, {Is(f, a)}, {Is(g, a)}}, n \in {u, None}}
Selection == {[docs |-> <<d>>, query |-> q, procs |-> {p}, faults |-> FALSE, until |-> 0] : p \in Procs,
                 d \in Docs \cup {Flip(e) : e \in Docs}, q \in Queries}

AllScenarios == Sharing \cup Selection

\* The scenarios are closed under both.
Symmetry == Permutations(Inodes) \cup Permutations(Procs)
=============================================================================
