--------------------------- MODULE MCDeltaCompute ---------------------------
(* Pairs of small analyses, as the initial states of DeltaCompute. *)
EXTENDS DeltaCompute

CONSTANTS a1, a2

Addrs == {a1, a2}

\* Items with two specs and two prices; a free item is priced at 0.
Unpriced == [spec : {"s", "t"}, monthly : {0}, priced : {FALSE}]
Priced2  == [spec : {"s", "t"}, monthly : {1, 2}, priced : {TRUE}]
WithFree == [spec : {"s", "t"}, monthly : {0, 2}, priced : {TRUE}]
Items    == Priced2 \cup WithFree \cup Unpriced

Upto(n, S) == UNION {[1..k -> S] : k \in 0..n}

\* All pairs of lists of up to three items of one address.
OneAddress ==
    LET S == {[a \in Addrs |-> IF a = a1 THEN l ELSE <<>>] :
                  l \in Upto(3, Priced2 \cup Unpriced)}
    IN  [base : S, cur : S]
\* Two addresses with at most one item each.
TwoAddresses ==
    LET S == [Addrs -> Upto(1, WithFree \cup Unpriced)] IN [base : S, cur : S]

AllPairs == OneAddress \cup TwoAddresses
=============================================================================
