---------------------------- MODULE MCPriceChain ----------------------------
(* Small instances of PriceChain for TLC. *)
EXTENDS PriceChain, FiniteSets, TLC

CONSTANTS p1, p2, k1

OneProc  == {p1}
TwoProcs == {p1, p2}
OneKey   == {k1}
KeyOne   == {k1}
NoKey    == {}

AllFlags  == SUBSET Layer      \* with and without --no-cache, --price-file
DiskOnly  == {{"disk"}}        \* no flag

\* Two processes are followed as long as they overlap within one instant, early,
\* without flags and without the catalog; one alone without any restriction.
Busy == {p \in Proc : pc[p] # "idle"}
OverlapBound ==
    Cardinality(Busy) > 1 =>
        /\ now <= 3
        /\ \A p \in Busy : layers[p] = {"disk"} /\ started[p] = now /\ ~hit[p]

ProcSymmetry == Permutations(TwoProcs)
=============================================================================
