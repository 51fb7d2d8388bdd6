------------------------------ MODULE BulkLoads ------------------------------
(***************************************************************************)
(* BulkPrice with a clock, next to what PriceChain makes of it: there, a   *)
(* call of loadIndex is one step, and a price list is the time it was      *)
(* obtained at.  That is right as long as no two calls overlap.            *)
(***************************************************************************)
EXTENDS BulkPrice

\* priceCacheTTL, in ticks.  A scenario has [until] besides, the bound of the clock.
CONSTANT TTL

Index == [asOf : Nat, stale : BOOLEAN]

ASSUME LoadAssumption == TTL \in Nat /\ None \notin Index /\ None \notin Nat

VARIABLES
    now,    \* the clock
    mtime,  \* of the cached file
    pub,    \* history: when each version was published
    idx,    \* history: what PriceChain has for Bulk.idx of each process
    clash   \* history: two calls of loadIndex have overlapped

history == <<mtime, pub, idx, clash>>

\* PriceChain with credentials and calls that may fail.  Of its variables only
\* the clock, the cached file and the indexes matter to Loads.
bulk  == IF path = None THEN None ELSE mtime
Chain == INSTANCE PriceChain WITH
    Key <- {}, Catalog <- {}, Indexed <- {}, Flags <- {}, MaxRun <- 0, MaxTime <- 0,
    Flaky <- TRUE, cred <- [p \in Proc |-> TRUE], file <- <<>>, blank <- {},
    layers <- <<>>, mem <- <<>>, dirty <- <<>>, hit <- <<>>, started <- <<>>,
    answer <- <<>>

-----------------------------------------------------------------------------
Loading(p) == pc[p] \notin {"ready", "select"}
Unread     == [p \in Proc |-> None]
Unknown    == [v \in DOMAIN sc.docs |-> 0]

LoadInit ==
    /\ Init
    /\ now = 0 /\ mtime = 0 /\ pub = Unknown /\ idx = Unread /\ clash = FALSE

Written == path' # path \/ (path # None /\ data'[path] # data[path])

\* The call has come to open the cached file: that is what it loads.
Found(p) == pc[p] # "open" /\ pc'[p] = "open"

\* Nothing is remembered once two calls have overlapped.
Remember ==
    /\ clash' = (clash \/ \E p, q \in Proc : p # q /\ Loading(p)' /\ Loading(q)')
    /\ IF clash'
       THEN now' = 0 /\ mtime' = 0 /\ pub' = Unknown /\ idx' = Unread
       ELSE /\ now' = now
            /\ mtime' = IF Written THEN now ELSE mtime
            /\ pub' = IF latest' = latest THEN pub ELSE [pub EXCEPT ![latest'] = now]
            /\ idx' = [p \in Proc |->
                  IF Found(p) THEN [asOf |-> mtime', stale |-> old']
                  ELSE IF memo'[p] = 0 /\ pc'[p] \notin {"open", "read"} THEN None
                  ELSE idx[p]]

\* A step of BulkPrice.  Files expire by the clock, until calls have overlapped.
Act == Next /\ (old' => old \/ clash) /\ Remember

\* Time passes between calls, as in PriceChain.
Tick ==
    /\ ~clash /\ now < sc.until /\ \A p \in Proc : ~Loading(p)
    /\ now' = now + 1
    /\ IF path # None /\ ~old /\ now' > mtime + TTL THEN Expire ELSE UNCHANGED vars
    /\ UNCHANGED history

LoadNext == Act \/ Tick

LoadSpec == LoadInit /\ [][LoadNext]_<<vars, now, history>>

-----------------------------------------------------------------------------
(* Properties.                                                             *)

\* v was what AWS published at time t.
Published(v, t) == pub[v] <= t /\ (v < latest => t <= pub[v + 1])

Loads(p) ==
    /\ <<idx'[p], bulk'>> \in Chain!Loads(p)
    /\ (idx'[p] # idx[p] /\ idx'[p].stale) => sc.faults

Ends(p) == pc'[p] = "ready" /\ ans'[p] = None /\ idx'[p] = None /\ bulk' = bulk

OneStep ==
    \/ UNCHANGED <<idx, bulk>>
    \/ \E p \in Proc : /\ Loads(p) \/ Ends(p)
                       /\ now' = now /\ \A q \in Proc \ {p} : idx'[q] = idx[q]

Right(p) == IF memo[p] = 0 THEN idx[p] = None
            ELSE idx[p] # None /\ Published(memo[p], idx[p].asOf)

\* The dozen steps of loadIndex are the one step of PriceChain, as long as no
\* two calls overlap: the cached file and the memoised list change together and
\* only as Loads says, whatever fails or is killed on the way, and a memoised
\* list is the version that was published at the time it is said to be of.
OneStepLoads ==
    /\ [][clash' \/ OneStep]_<<vars, now, history>>
    /\ [](clash \/ \A p \in Proc : pc[p] \in {"ready", "select"} => Right(p))
=============================================================================
