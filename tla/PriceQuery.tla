----------------------------- MODULE PriceQuery -----------------------------
(***************************************************************************)
(* internal/provider/awsprice/regions.go and price.go, and cacheKey in     *)
(* internal/provider/cached.go: what a price query is, how it is bound to  *)
(* a region, and what a cache takes for the same query.                    *)
(*                                                                         *)
(* A filter list is a function from fields to values.  An instance class   *)
(* is [fam, size, n]: "db.r5.4xlarge" is [fam |-> "db.r5", size |->        *)
(* "Nxlarge", n |-> 4].  A usage type is [pre, base, cls]: the region code *)
(* or prefix it starts with, its name, and the class it ends in.           *)
(***************************************************************************)
EXTENDS Integers, FiniteSets

CONSTANTS
    Region,   \* the regions of regionToLocation
    Location, \* regionToLocation: the name in a location filter
    Short,    \* regionToUsagePrefix
    Global    \* the region "" of a service that is priced worldwide

ASSUME QueryAssumption ==
    /\ Location \in [Region -> STRING] /\ Short \in [Region -> STRING]
    /\ \A r, s \in Region : Location[r] = Location[s] => r = s
    /\ Global \notin Region

NoText  == ""
NoClass == [fam |-> NoText, size |-> NoText, n |-> 0]

Usage(base, cls) == [pre |-> NoText, base |-> base, cls |-> cls]

\* The usage types a mapper asks for that us-east-1 publishes without prefix.
usEast1Unprefixed ==
    {"NatGateway-Hours", "RDS:GP3-Storage", "RDS:StorageUsage",
     "RDS:Multi-AZ-GP3-Storage", "RDS:Multi-AZ-StorageUsage",
     "InstanceUsage:", "NodeUsage:"}

Prefixed(u, region) ==
    IF u.pre = region \/ (region = "us-east-1" /\ u.base \in usEast1Unprefixed)
    THEN u ELSE [u EXCEPT !.pre = Short[region]]

\* MUTANT of compose: only the usage type is bound to the region.
composeUnlocated(q) ==
    IF q.region = Global \/ "usagetype" \notin DOMAIN q.filters THEN q
    ELSE [q EXCEPT !.filters["usagetype"] = Prefixed(@, q.region)]

\* The query of a region in Region, or of Global, as the price list knows it.
compose(q) ==
    IF q.region = Global THEN q
    ELSE [q EXCEPT !.filters =
             [f \in DOMAIN q.filters \cup {"location"} |->
                 CASE f = "location"  -> Location[q.region]
                   [] f = "usagetype" -> Prefixed(q.filters[f], q.region)
                   [] OTHER           -> q.filters[f]]]

\* The region is not part of it.
cacheKey(q) == [service |-> q.service, filters |-> q.filters, unit |-> q.unit]

\* The spelling UnitPrice tries again with when there is no such row.
HasAbbreviation(q) ==
    "usagetype" \in DOMAIN q.filters /\ q.filters["usagetype"].cls.size = "Nxlarge"

abbrevUsagetype(q) == [q EXCEPT !.filters["usagetype"].cls.size = "Nxl"]
=============================================================================
