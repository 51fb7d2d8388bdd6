--------------------------- MODULE CostRowsProofs ---------------------------
(***************************************************************************)
(* CostRows for every project: what the mapper makes of a resource, what a *)
(* row is owed, and an invariant of the work that is left.  The jobs share *)
(* out the cells (address, number) of the items that are still to come,    *)
(* every opened directory is reached by calls, and every row and module    *)
(* instance is ahead, in progress, or in the items.                        *)
(***************************************************************************)
EXTENDS CostRows, SumLemmas

-----------------------------------------------------------------------------
(* A cache that leaves the region out of its keys (provider/cached.go,     *)
(* provider/awsprice/regions.go).                                          *)

\* Queries whose filters come from a mapper, which never names a location.
Queries(S, V, U) ==
    [service : S, region : Region \cup {Global}, unit : U,
     filters : UNION {[D -> V] : D \in {d \in SUBSET STRING : "location" \notin d}}]

\* A composed query names the location of its region, unless it has none.
LEMMA ComposeLocates ==
    ASSUME NEW S, NEW V, NEW U, NEW q \in Queries(S, V, U)
    PROVE  /\ q.region \in Region =>
                 /\ "location" \in DOMAIN compose(q).filters
                 /\ compose(q).filters["location"] = Location[q.region]
           /\ q.region = Global => "location" \notin DOMAIN compose(q).filters
<1> PICK D \in SUBSET STRING : "location" \notin D /\ q.filters \in [D -> V]
  BY DEF Queries
<1>1. DOMAIN q.filters = D
  OBVIOUS
<1>2. ASSUME q.region \in Region
      PROVE  /\ "location" \in DOMAIN compose(q).filters
             /\ compose(q).filters["location"] = Location[q.region]
  <2>1. q.region # Global
    BY <1>2, QueryAssumption DEF QueryAssumption
  <2> DEFINE bound == [f \in DOMAIN q.filters \cup {"location"} |->
                          CASE f = "location"  -> Location[q.region]
                            [] f = "usagetype" -> Prefixed(q.filters[f], q.region)
                            [] OTHER           -> q.filters[f]]
  <2>2. compose(q).filters = bound
    BY <2>1 DEF compose, Queries
  <2>3. "location" \in DOMAIN bound /\ bound["location"] = Location[q.region]
    OBVIOUS
  <2> QED BY <2>2, <2>3
<1>3. ASSUME q.region = Global PROVE "location" \notin DOMAIN compose(q).filters
  BY <1>1, <1>3 DEF compose
<1> QED BY <1>2, <1>3

\* Two queries of different regions, or one of a region and one that is priced
\* worldwide, are never the same to a cache, although its key has no region.
THEOREM KeysTellRegions ==
    ASSUME NEW S, NEW V, NEW U,
           NEW q \in Queries(S, V, U), NEW r \in Queries(S, V, U),
           cacheKey(compose(q)) = cacheKey(compose(r))
    PROVE  q.region = r.region
<1>1. compose(q).filters = compose(r).filters
  BY DEF cacheKey
<1>2. q.region \in Region \cup {Global} /\ r.region \in Region \cup {Global}
  BY DEF Queries
<1>3. CASE q.region \in Region /\ r.region \in Region
  <2>1. Location[q.region] = Location[r.region]
    BY <1>1, <1>3, ComposeLocates
  <2> QED BY <2>1, <1>3, QueryAssumption DEF QueryAssumption
<1>4. CASE q.region = Global \/ r.region = Global
  BY <1>1, <1>2, <1>4, ComposeLocates
<1> QED BY <1>2, <1>3, <1>4

-----------------------------------------------------------------------------
(* What MapResource and ExtraSpecs return.                                 *)

\* A resource whose attributes are resolved.
IsBound(r) ==
    /\ r.rules \in Nat
    /\ \A key \in DOMAIN r.attrs : key \in DOMAIN Values
                                   /\ r.attrs[key].val \in Values[key] \cup {Unknown}

AnyClass   == ClassSet \cup {NoClass}
IsUsage(u) == \E pre, base : \E cls \in AnyClass : u = [pre |-> pre, base |-> base, cls |-> cls]

FiltersOK(f) == /\ "location" \notin DOMAIN f
                /\ "usagetype" \in DOMAIN f => IsUsage(f["usagetype"])

IsSpec(s) ==
    /\ DOMAIN s = {"service", "filters", "qty", "count", "unit", "flat", "global"}
    /\ s.qty \in Nat /\ s.count \in Nat /\ FiltersOK(s.filters)

Kinds == {"Fixed", "Variable", "Free", "Unsupported"}

IsMapped(m) == /\ m.kind \in Kinds
               /\ \/ m.specs = <<>>
                  \/ m.kind = "Fixed" /\ \E s : IsSpec(s) /\ m.specs = <<s>>

LEMMA ValType ==
  ASSUME NEW r, IsBound(r), NEW key, Ok(r, key)
  PROVE  Given(r, key) /\ key \in DOMAIN Values /\ Val(r, key) \in Values[key]
  BY DEF IsBound, Ok, Val, Given

LEMMA ClassType ==
  ASSUME NEW r, IsBound(r), NEW key \in Classes, Ok(r, key)
  PROVE  Val(r, key) \in ClassSet
  BY ValType, MapperAssumption DEF MapperAssumption

LEMMA SizeType ==
  ASSUME NEW r, IsBound(r), NEW key \in {"size", "storage_capacity"}, Ok(r, key)
  PROVE  Val(r, key) \in Nat
  BY ValType, MapperAssumption DEF MapperAssumption

LEMMA PositiveType ==
  ASSUME NEW r, IsBound(r), NEW key \in Numbers, Positive(r, key)
  PROVE  Val(r, key) \in Nat /\ Val(r, key) > 0
  <1>1. Val(r, key) \in Int
    BY ValType, MapperAssumption DEF MapperAssumption, Positive
  <1> QED  BY <1>1 DEF Positive

LEMMA FirstPositiveType ==
  ASSUME NEW r, IsBound(r), NEW keys \in Seq(Numbers), NEW d \in Nat
  PROVE  /\ FirstPositive(r, keys, d) \in Nat
         /\ (\E i \in DOMAIN keys : Positive(r, keys[i])) => FirstPositive(r, keys, d) > 0
  <1> DEFINE N == {i \in DOMAIN keys : Positive(r, keys[i])}
  <1>1. CASE N = {}
    BY <1>1 DEF FirstPositive
  <1>2. CASE N # {}
    <2>1. N \in SUBSET Nat
      OBVIOUS
    <2>2. Min(N) \in N
      <3> HIDE DEF N
      <3> QED  BY <1>2, <2>1, MinIn
    <2>3. keys[Min(N)] \in Numbers /\ Positive(r, keys[Min(N)])
      BY <2>2
    <2>4. FirstPositive(r, keys, d) = Val(r, keys[Min(N)])
      BY <1>2 DEF FirstPositive
    <2> HIDE DEF N
    <2> QED  BY <2>3, <2>4, PositiveType
  <1> QED  BY <1>1, <1>2

LEMMA UsageType ==
  ASSUME NEW base
  PROVE  /\ IsUsage(Usage(base, NoClass))
         /\ \A region : IsUsage([Usage(base, NoClass) EXCEPT !.pre = region])
         /\ \A cls \in ClassSet : IsUsage(Usage(base, cls))
  <1>1. NoClass \in AnyClass /\ ClassSet \subseteq AnyClass
    BY DEF AnyClass
  <1>2. \A pre : \A cls \in AnyClass : IsUsage([pre |-> pre, base |-> base, cls |-> cls])
    BY DEF IsUsage
  <1>3. \A region : [Usage(base, NoClass) EXCEPT !.pre = region]
                    = [pre |-> region, base |-> base, cls |-> NoClass]
    BY DEF Usage
  <1> QED  BY <1>1, <1>2, <1>3 DEF Usage

LEMMA LineType ==
  ASSUME NEW service, NEW f, FiltersOK(f), NEW qty \in Nat, NEW count \in Nat, NEW unit
  PROVE  IsSpec(line(service, f, qty, count, unit))
  BY DEF IsSpec, line

\* A full month, and one.
LEMMA Hours == 730 \in Nat /\ 1 \in Nat
  OBVIOUS

LEMMA MappedType ==
  /\ IsMapped(Unresolved)
  /\ \A kind \in Kinds : IsMapped(Row(kind))
  /\ \A s : IsSpec(s) => IsMapped(Fixed(s))
  BY DEF IsMapped, Unresolved, Row, Fixed, Kinds

LEMMA EC2Type ==
  ASSUME NEW it, NEW tenancy, NEW count \in Nat
  PROVE  IsSpec(ec2InstanceSpec(it, tenancy, count))
  <1>1. FiltersOK([instanceType |-> it, tenancy |-> tenancy])
    BY DEF FiltersOK
  <1> QED  BY <1>1, LineType, Hours DEF ec2InstanceSpec

LEMMA EBSType ==
  ASSUME NEW size \in Nat, NEW type
  PROVE  IsSpec(ebsSpec(size, type))
  <1>1. FiltersOK([volumeApiName |-> type])
    BY DEF FiltersOK
  <1> QED  BY <1>1, LineType DEF ebsSpec

\* A line whose only filter is a usage type without a class.
LEMMA UsageLine ==
  ASSUME NEW service, NEW base, NEW qty \in Nat, NEW count \in Nat, NEW unit
  PROVE  IsSpec(line(service, [usagetype |-> Usage(base, NoClass)], qty, count, unit))
  <1>1. FiltersOK([usagetype |-> Usage(base, NoClass)])
    BY UsageType DEF FiltersOK
  <1> QED  BY <1>1, LineType

LEMMA RDSLine ==
  ASSUME NEW service, NEW it, NEW engine, NEW option
  PROVE  IsSpec(line(service, [instanceType |-> it, databaseEngine |-> engine,
                               deploymentOption |-> option], 730, 1, NoText))
  <1>1. FiltersOK([instanceType |-> it, databaseEngine |-> engine, deploymentOption |-> option])
    BY DEF FiltersOK
  <1> QED  BY <1>1, LineType, Hours

LEMMA SimpleTypes ==
  ASSUME NEW r, IsBound(r), NEW c
  PROVE  /\ IsMapped(mapEC2(r)) /\ IsMapped(mapRDS(r)) /\ IsMapped(mapAuroraInstance(r, c))
         /\ IsMapped(mapAuroraCluster) /\ IsMapped(mapSecret) /\ IsMapped(mapEKSCluster(r))
         /\ IsMapped(mapNATGateway) /\ IsMapped(mapRoute53Zone) /\ IsMapped(mapWAFACL)
         /\ \A region : IsMapped(mapKMSKey(region))
         /\ \A service, base : IsMapped(Fixed(flatHourly(service, base)))
  <1>1. IsMapped(mapEC2(r))
    BY MappedType, EC2Type DEF mapEC2
  <1>2. IsMapped(mapRDS(r))
    BY MappedType, RDSLine DEF mapRDS
  <1>3. IsMapped(mapAuroraInstance(r, c))
    BY MappedType, RDSLine DEF mapAuroraInstance
  <1>4. IsMapped(mapAuroraCluster)
    BY MappedType DEF mapAuroraCluster, Kinds
  <1>5. IsMapped(mapSecret)
    BY MappedType, UsageLine DEF mapSecret
  <1>6. \A service, base : IsSpec(flatHourly(service, base))
    BY UsageLine, Hours DEF flatHourly
  <1>7. IsMapped(mapEKSCluster(r))
    <2> DEFINE spec == flatHourly("AmazonEKS", "AmazonEKS-Hours:perCluster")
    <2>1. IsSpec(spec)
      BY <1>6
    <2>2. IsSpec([spec EXCEPT !.flat = TRUE])
      <3> HIDE DEF spec
      <3> QED  BY <2>1 DEF IsSpec
    <2> QED  BY <2>1, <2>2, MappedType DEF mapEKSCluster
  <1>8. IsMapped(mapNATGateway)
    <2> DEFINE spec == flatHourly("AmazonEC2", "NatGateway-Hours")
    <2>1. IsSpec(spec)
      BY <1>6
    <2>2. IsSpec([spec EXCEPT !.unit = "Hrs"])
      <3> HIDE DEF spec
      <3> QED  BY <2>1 DEF IsSpec
    <2> QED  BY <2>2, MappedType DEF mapNATGateway
  <1>9. IsMapped(mapRoute53Zone)
    <2> DEFINE spec == line("AmazonRoute53", [usagetype |-> Usage("HostedZone", NoClass)], 1, 1,
                            "HostedZone")
    <2>1. IsSpec(spec)
      BY UsageLine
    <2>2. IsSpec([spec EXCEPT !.global = TRUE])
      <3> HIDE DEF spec
      <3> QED  BY <2>1 DEF IsSpec
    <2> QED  BY <2>2, MappedType DEF mapRoute53Zone
  <1>10. IsMapped(mapWAFACL)
    BY MappedType, UsageLine DEF mapWAFACL
  <1>11. ASSUME NEW region PROVE IsMapped(mapKMSKey(region))
    <2>1. FiltersOK([usagetype |-> [Usage("KMS-Keys", NoClass) EXCEPT !.pre = region]])
      BY UsageType DEF FiltersOK
    <2> QED  BY <2>1, LineType, MappedType DEF mapKMSKey
  <1>12. \A service, base : IsMapped(Fixed(flatHourly(service, base)))
    BY <1>6, MappedType
  <1> QED  BY <1>1, <1>2, <1>3, <1>4, <1>5, <1>7, <1>8, <1>9, <1>10, <1>11, <1>12

LEMMA SizedTypes ==
  ASSUME NEW r, IsBound(r)
  PROVE  /\ IsMapped(mapEBS(r)) /\ IsMapped(mapLB(r)) /\ IsMapped(mapFSxLustre(r))
         /\ IsMapped(mapElastiCache(r))
         /\ \A service : IsMapped(mapDBInstance(r, service))
  <1>1. IsMapped(mapEBS(r))
    BY MappedType, EBSType, SizeType DEF mapEBS
  <1>2. IsMapped(mapLB(r))
    <2>1. \A t : FiltersOK([usagetype |-> Usage("LoadBalancerUsage", NoClass),
                            productFamily |-> t])
      BY UsageType DEF FiltersOK
    <2> QED  BY <2>1, LineType, MappedType DEF mapLB
  <1>3. IsMapped(mapFSxLustre(r))
    BY MappedType, UsageLine, SizeType DEF mapFSxLustre
  <1>4. ASSUME NEW service PROVE IsMapped(mapDBInstance(r, service))
    <2> DEFINE f == [instanceType |-> Val(r, "instance_class"),
                     usagetype |-> Usage("InstanceUsage:", Val(r, "instance_class"))]
    <2>1. CASE Ok(r, "instance_class")
      <3>1. Val(r, "instance_class") \in ClassSet
        BY <2>1, ClassType DEF Classes
      <3>2. FiltersOK(f)
        BY <3>1, UsageType DEF FiltersOK
      <3>3. IsSpec(line(service, f, 730, 1, NoText))
        <4> HIDE DEF f
        <4> QED  BY <3>2, LineType, Hours
      <3> QED  BY <2>1, <3>3, MappedType DEF mapDBInstance
    <2> QED  BY <2>1, MappedType DEF mapDBInstance
  <1>5. IsMapped(mapElastiCache(r))
    <2> DEFINE groups   == FirstPositive(r, <<"num_node_groups", "number_of_node_groups">>, 0)
               replicas == IF Positive(r, "replicas_per_node_group")
                           THEN Val(r, "replicas_per_node_group") ELSE 0
               sharded  == IF groups = 0 THEN 1 ELSE groups * (replicas + 1)
               others   == FirstPositive(r, <<"num_cache_nodes", "num_cache_clusters",
                                            "number_of_cache_clusters">>, 1)
               count    == IF sharded > 1 THEN sharded ELSE others
               f        == [instanceType |-> Val(r, "node_type"),
                            cacheEngine |-> elasticacheEngine(Or(r, "engine", "redis")),
                            usagetype |-> Usage("NodeUsage:", Val(r, "node_type"))]
    <2>1. groups \in Nat
      <3>1. <<"num_node_groups", "number_of_node_groups">> \in Seq(Numbers)
        BY DEF Numbers
      <3> QED  BY <3>1, FirstPositiveType
    <2>2. others \in Nat
      <3>1. <<"num_cache_nodes", "num_cache_clusters", "number_of_cache_clusters">>
            \in Seq(Numbers)
        BY DEF Numbers
      <3> QED  BY <3>1, FirstPositiveType
    <2>3. replicas \in Nat
      BY PositiveType DEF Numbers
    <2>4. count \in Nat
      <3> HIDE DEF groups, replicas, others
      <3> QED  BY <2>1, <2>2, <2>3
    <2>5. CASE Ok(r, "node_type")
      <3>1. Val(r, "node_type") \in ClassSet
        BY <2>5, ClassType DEF Classes
      <3>2. FiltersOK(f)
        BY <3>1, UsageType DEF FiltersOK
      <3>3. IsSpec(line("AmazonElastiCache", f, 730, count, NoText))
        <4> HIDE DEF f, count
        <4> QED  BY <3>2, <2>4, LineType, Hours
      <3>4. mapElastiCache(r) = Fixed(line("AmazonElastiCache", f, 730, count, NoText))
        BY <2>5 DEF mapElastiCache
      <3> HIDE DEF f, count
      <3> QED  BY <3>3, <3>4, MappedType
    <2>6. CASE ~Ok(r, "node_type")
      BY <2>6, MappedType DEF mapElastiCache
    <2> QED  BY <2>5, <2>6
  <1> QED  BY <1>1, <1>2, <1>3, <1>4, <1>5

LEMMA NodesType ==
  ASSUME NEW r, IsBound(r), NEW service, NEW field, field \notin {"location", "usagetype"},
         NEW type, NEW number \in Numbers
  PROVE  IsMapped(mapNodes(r, service, field, type, number))
  <1>1. FiltersOK([f \in {field} |-> Val(r, type)])
    BY DEF FiltersOK
  <1>2. FirstPositive(r, <<number>>, 1) \in Nat
    <2>1. <<number>> \in Seq(Numbers)
      OBVIOUS
    <2> QED  BY <2>1, FirstPositiveType
  <1>3. IsSpec(line(service, [f \in {field} |-> Val(r, type)], 730,
                    FirstPositive(r, <<number>>, 1), NoText))
    BY <1>1, <1>2, LineType, Hours
  <1> QED  BY <1>3, MappedType DEF mapNodes

LEMMA GroupTypes ==
  ASSUME NEW r, IsBound(r), NEW c
  PROVE  IsMapped(mapASG(r, c)) /\ IsMapped(mapEKSNodeGroup(r, c))
  <1>1. FirstPositive(r, <<"desired_capacity", "min_size">>, 0) \in Nat
    <2>1. <<"desired_capacity", "min_size">> \in Seq(Numbers)
      BY DEF Numbers
    <2> QED  BY <2>1, FirstPositiveType
  <1>2. FirstPositive(r, <<"scaling_config.desired_size">>, 0) \in Nat
    <2>1. <<"scaling_config.desired_size">> \in Seq(Numbers)
      BY DEF Numbers
    <2> QED  BY <2>1, FirstPositiveType
  <1>3. IsMapped(mapASG(r, c))
    BY <1>1, EC2Type, MappedType DEF mapASG
  <1>4. IsMapped(mapEKSNodeGroup(r, c))
    BY <1>2, EC2Type, MappedType DEF mapEKSNodeGroup
  <1> QED  BY <1>3, <1>4

\* A context of a directory, bound.
IsContext(c) == /\ IsFiniteSet(c.idx) /\ \A x \in c.idx : IsBound(x)
                /\ IsFiniteSet(DOMAIN c.locals) /\ \A l \in DOMAIN c.locals : IsRefs(c.locals[l])

LEMMA VCPUType ==
  ASSUME NEW r, IsBound(r)
  PROVE  VCPU(r) \in Nat
  <1>1. ASSUME NEW cls \in ClassSet PROVE classVCPU(cls) \in Nat
    <2>1. cls.n \in Nat
      BY DEF ClassSet
    <2> QED  BY <2>1 DEF classVCPU
  <1>2. CASE Ok(r, "instance_class")
    <2>1. Val(r, "instance_class") \in ClassSet
      BY <1>2, ClassType DEF Classes
    <2> QED  BY <1>1, <1>2, <2>1 DEF VCPU
  <1> QED  BY <1>2 DEF VCPU

LEMMA ProxyType ==
  ASSUME NEW r, NEW c, IsContext(c)
  PROVE  IsMapped(mapDBProxy(r, c))
  <1>1. ASSUME NEW cl PROVE clusterVCPU(cl, c) \in Nat
    <2> DEFINE S == {y \in OfType(c, "aws_rds_cluster_instance") :
                        refResource(y, "cluster_identifier", c) = cl}
               F == [x \in S |-> VCPU(x)]
    <2>1. IsFiniteSet(S)
      BY FS_Subset DEF IsContext, OfType
    <2>2. \A x \in S : F[x] \in Nat
      BY VCPUType DEF IsContext, OfType
    <2>3. DOMAIN F = S
      OBVIOUS
    <2>4. clusterVCPU(cl, c) = SumFunctionOnSet(F, DOMAIN F)
      BY DEF clusterVCPU, SumFunction
    <2> HIDE DEF F, S
    <2> QED  BY <2>1, <2>2, <2>3, <2>4, SumNat
  <1>2. ASSUME NEW t PROVE targetVCPU(t, c) \in Nat
    <2> DEFINE inst == refResource(t, "db_instance_identifier", c)
    <2>1. inst # {} => The(inst) \in c.idx
      BY DEF refResource, Lookup, The
    <2>2. inst # {} => VCPU(The(inst)) \in Nat
      BY <2>1, VCPUType DEF IsContext
    <2> QED  BY <1>1, <2>2 DEF targetVCPU
  <1>3. proxyTargetVCPU(r, c) \in Nat
    <2> DEFINE S == {u \in OfType(c, "aws_db_proxy_target") :
                        refResource(u, "db_proxy_name", c) = {r}}
               F == [t \in S |-> targetVCPU(t, c)]
    <2>1. IsFiniteSet(S)
      BY FS_Subset DEF IsContext, OfType
    <2>2. \A x \in S : F[x] \in Nat
      BY <1>2
    <2>3. DOMAIN F = S
      OBVIOUS
    <2>4. proxyTargetVCPU(r, c) = SumFunctionOnSet(F, DOMAIN F)
      BY DEF proxyTargetVCPU, SumFunction
    <2> HIDE DEF F, S
    <2> QED  BY <2>1, <2>2, <2>3, <2>4, SumNat
  <1>4. IsSpec(line("AmazonRDS", [usagetype |-> Usage("RDS:ProxyUsage", NoClass)],
                    730, proxyTargetVCPU(r, c), "Hrs"))
    BY <1>3, UsageLine
  <1> QED  BY <1>4, MappedType DEF mapDBProxy, Kinds

LEMMA MapResourceType ==
  ASSUME NEW r, IsBound(r), NEW c, IsContext(c), NEW region
  PROVE  IsMapped(MapResource(r, c, region))
  <1>1. /\ IsMapped(Row("Variable")) /\ IsMapped(Row("Free")) /\ IsMapped(Row("Unsupported"))
    BY MappedType DEF Kinds
  <1>2. /\ IsMapped(mapNodes(r, "AmazonMSK", "computeFamily",
                             "broker_node_group_info.instance_type", "number_of_broker_nodes"))
        /\ IsMapped(mapNodes(r, "AmazonRedshift", "instanceType", "node_type",
                             "number_of_nodes"))
        /\ IsMapped(mapNodes(r, "AmazonES", "instanceType", "cluster_config.instance_type",
                             "cluster_config.instance_count"))
    BY NodesType DEF Numbers
  <1> HIDE DEF IsMapped
  <1> QED  BY <1>1, <1>2, SimpleTypes, SizedTypes, GroupTypes, ProxyType DEF MapResource

\* The extras count one each.
Extra(e) == IsSpec(e) /\ e.count = 1
IsExtras(s) == /\ s \in Seq(Range(s)) /\ \A i \in DOMAIN s : Extra(s[i])

LEMMA NoExtras == IsExtras(<<>>)
  BY DEF IsExtras

LEMMA OneExtra ==
  ASSUME NEW e, Extra(e)
  PROVE  IsExtras(<<e>>)
  <1>1. e \in Range(<<e>>)
    BY DEF Range
  <1> QED  BY <1>1 DEF IsExtras

LEMMA JoinExtras ==
  ASSUME NEW s, NEW t, IsExtras(s), IsExtras(t)
  PROVE  IsExtras(s \o t)
  <1> DEFINE S == Range(s) \cup Range(t)
             u == s \o t
  <1>1. s \in Seq(S) /\ t \in Seq(S)
    BY DEF IsExtras
  <1>2. u \in Seq(S) /\ \A i \in DOMAIN u :
           u[i] = IF i <= Len(s) THEN s[i] ELSE t[i - Len(s)]
    BY <1>1
  <1>3. Len(u) = Len(s) + Len(t) /\ Len(s) \in Nat /\ Len(t) \in Nat
    BY <1>1
  <1>4. ASSUME NEW i \in DOMAIN u PROVE Extra(u[i])
    <2>1. i \in 1..(Len(s) + Len(t))
      BY <1>2, <1>3
    <2>2. CASE i <= Len(s)
      <3>1. i \in DOMAIN s
        BY <1>1, <2>1, <2>2
      <3> QED  BY <1>2, <2>2, <3>1 DEF IsExtras
    <2>3. CASE ~(i <= Len(s))
      <3>1. i - Len(s) \in DOMAIN t
        BY <1>1, <1>3, <2>1, <2>3
      <3> QED  BY <1>2, <2>3, <3>1 DEF IsExtras
    <2> QED  BY <2>2, <2>3
  <1>5. u \in Seq(Range(u))
    <2>1. u = [i \in 1..Len(u) |-> u[i]] /\ Len(u) \in Nat /\ DOMAIN u = 1..Len(u)
      <3>1. u \in Seq(S)
        BY <1>2
      <3> HIDE DEF u, S
      <3> QED  BY <3>1
    <2>2. \A i \in 1..Len(u) : u[i] \in Range(u)
      BY <2>1 DEF Range
    <2> HIDE DEF u
    <2> QED  BY <2>1, <2>2
  <1> QED  BY <1>4, <1>5 DEF IsExtras

LEMMA ExtrasType ==
  ASSUME NEW r, IsBound(r)
  PROVE  IsExtras(ExtraSpecs(r))
  <1>1. \A size \in Nat : \A type : Extra(ebsSpec(size, type))
    BY EBSType DEF Extra, ebsSpec, line
  <1>2. ASSUME NEW size \in Numbers, NEW type, NEW default
        PROVE  IsExtras(disk(r, size, type, default))
    BY <1>1, PositiveType, OneExtra, NoExtras DEF disk
  <1>3. IsExtras(instanceStorageSpecs(r))
    BY <1>2, JoinExtras DEF instanceStorageSpecs, Numbers
  <1>4. IsExtras(nodeGroupStorageSpecs(r))
    <2>1. "disk_size" \in Numbers
      BY DEF Numbers
    <2> QED  BY <1>1, <2>1, PositiveType, OneExtra, NoExtras DEF nodeGroupStorageSpecs
  <1>5. IsExtras(rdsStorageSpecs(r))
    <2>1. \A base, engine : FiltersOK([usagetype |-> Usage(base, NoClass),
                                       databaseEngine |-> engine])
      BY UsageType DEF FiltersOK
    <2>2. ASSUME NEW base, NEW engine, Positive(r, "allocated_storage")
          PROVE  Extra(line("AmazonRDS", [usagetype |-> Usage(base, NoClass),
                                          databaseEngine |-> engine],
                            Val(r, "allocated_storage"), 1, "GB-Mo"))
      <3>1. Val(r, "allocated_storage") \in Nat
        BY <2>2, PositiveType DEF Numbers
      <3>2. \A f : line("AmazonRDS", f, Val(r, "allocated_storage"), 1, "GB-Mo").count = 1
        BY DEF line
      <3> QED  BY <2>1, <3>1, <3>2, LineType DEF Extra
    <2> QED  BY <2>2, OneExtra, NoExtras DEF rdsStorageSpecs
  <1>6. IsExtras(webACLRules(r))
    <2> DEFINE n == IF r.rules > 0 THEN r.rules ELSE FirstPositive(r, <<"rules">>, 0)
               e == line("AWSWAF", [usagetype |-> Usage("RuleV2", NoClass)], n, 1, "Month")
    <2>1. n \in Nat
      <3>1. <<"rules">> \in Seq(Numbers)
        BY DEF Numbers
      <3> QED  BY <3>1, FirstPositiveType DEF IsBound
    <2>2. Extra(e)
      <3> HIDE DEF n
      <3>1. e.count = 1
        BY DEF line
      <3> QED  BY <2>1, <3>1, UsageLine DEF Extra
    <2>3. webACLRules(r) = IF n = 0 THEN <<>> ELSE <<e>>
      BY DEF webACLRules
    <2> HIDE DEF e
    <2> QED  BY <2>2, <2>3, OneExtra, NoExtras
  <1> QED  BY <1>3, <1>4, <1>5, <1>6, NoExtras DEF ExtraSpecs

-----------------------------------------------------------------------------
(* Directories and their resources, bound.                                 *)

LEMMA BindFacts ==
  ASSUME NEW r, IsResource(r), NEW each, NEW S
  PROVE  LET b == Bind(r, each, S)
         IN  /\ IsBound(b) /\ Addr(b) = Addr(r) /\ b.type = r.type
             /\ \A key : Given(b, key) <=> Given(r, key)
             /\ \A key \in DOMAIN r.attrs : /\ b.attrs[key].vars = r.attrs[key].vars
                                            /\ b.attrs[key].bare = r.attrs[key].bare
             /\ \A key : (r.type # "aws_db_instance" \/ key # "engine") =>
                            Val(b, key) = Val(Bind(r, each, {}), key)
  <1> DEFINE at(T) == [key \in DOMAIN r.attrs |->
                          [r.attrs[key] EXCEPT !.val = Resolved(r, key, each, T)]]
  <1>1. \A T : /\ Bind(r, each, T).attrs = at(T)
               /\ Bind(r, each, T).rules = r.rules
               /\ Bind(r, each, T).type = r.type /\ Bind(r, each, T).name = r.name
    BY DEF Bind, IsResource
  <1>2. ASSUME NEW key \in DOMAIN r.attrs, NEW T
        PROVE  /\ at(T)[key].val = Resolved(r, key, each, T)
               /\ at(T)[key].vars = r.attrs[key].vars /\ at(T)[key].bare = r.attrs[key].bare
               /\ key \in DOMAIN Values
               /\ Resolved(r, key, each, T) \in Values[key] \cup {Unknown}
    <2>1. /\ DOMAIN r.attrs[key] = {"val", "bare", "vars", "indexed"} /\ key \in DOMAIN Values
          /\ r.attrs[key].val \in Values[key] \cup {Unknown, Each}
          /\ r.attrs[key].indexed => r.attrs[key].val # Each
      BY DEF IsResource
    <2>2. Resolved(r, key, each, T) \in Values[key] \cup {Unknown}
      BY <2>1 DEF Resolved
    <2> QED  BY <2>1, <2>2
  <1>3. \A T : DOMAIN at(T) = DOMAIN r.attrs
    OBVIOUS
  <1>4. ASSUME NEW key, r.type # "aws_db_instance" \/ key # "engine"
        PROVE  Val(Bind(r, each, S), key) = Val(Bind(r, each, {}), key)
    <2>1. CASE key \in DOMAIN r.attrs
      <3>1. ~r.attrs[key].indexed
        BY <1>4, <2>1 DEF IsResource
      <3>2. Resolved(r, key, each, S) = Resolved(r, key, each, {})
        BY <3>1 DEF Resolved
      <3>3. at(S)[key].val = at({})[key].val
        BY <1>2, <2>1, <3>2
      <3> HIDE DEF at
      <3> QED  BY <1>1, <1>3, <2>1, <3>3 DEF Val, Given
    <2>2. CASE key \notin DOMAIN r.attrs
      <3> HIDE DEF at
      <3> QED  BY <1>1, <1>3, <2>2 DEF Val, Given
    <2> QED  BY <2>1, <2>2
  <1> HIDE DEF at
  <1>5. IsBound(Bind(r, each, S))
    <2>1. r.rules \in Nat
      BY DEF IsResource
    <2> QED  BY <1>1, <1>2, <1>3, <2>1 DEF IsBound
  <1>6. \A key : Given(Bind(r, each, S), key) <=> Given(r, key)
    BY <1>1, <1>3 DEF Given
  <1>7. \A key \in DOMAIN r.attrs :
           /\ Bind(r, each, S).attrs[key].vars = r.attrs[key].vars
           /\ Bind(r, each, S).attrs[key].bare = r.attrs[key].bare
    BY <1>1, <1>2
  <1> QED  BY <1>1, <1>4, <1>5, <1>6, <1>7 DEF Addr

LEMMA SeqDomain ==
  ASSUME NEW s, IsSeq(s)
  PROVE  /\ Len(s) \in Nat /\ DOMAIN s = 1..Len(s) /\ IsFiniteSet(DOMAIN s)
         /\ \A i \in DOMAIN s : s[i] \in Range(s)
         /\ \A x \in Range(s) : \E i \in DOMAIN s : x = s[i]
  <1>1. Len(s) \in Nat /\ DOMAIN s = 1..Len(s)
    BY DEF IsSeq
  <1>2. IsFiniteSet(1..Len(s))
    BY <1>1, FS_Interval
  <1> QED  BY <1>1, <1>2 DEF Range

LEMMA BoundFacts ==
  ASSUME NEW dir, IsDir(dir), NEW each, NEW S
  PROVE  LET c == Bound(dir, each, S)
         IN  /\ IsContext(c) /\ c.locals = dir.locals
             /\ \A x : x \in c.idx <=> \E r \in Range(dir.resources) : x = Bind(r, each, S)
  <1> DEFINE c == Bound(dir, each, S)
             f == [i \in DOMAIN dir.resources |-> Bind(dir.resources[i], each, S)]
  <1>1. IsSeq(dir.resources) /\ \A r \in Range(dir.resources) : IsResource(r)
    BY DEF IsDir
  <1>2. c.idx = {f[i] : i \in DOMAIN dir.resources} /\ c.locals = dir.locals
    BY DEF Bound
  <1>3. IsFiniteSet(c.idx)
    <2>1. f \in Surjection(DOMAIN dir.resources, c.idx)
      BY <1>2 DEF Surjection
    <2>2. IsFiniteSet(DOMAIN dir.resources)
      BY <1>1, SeqDomain
    <2> HIDE DEF f, c
    <2> QED  BY <2>1, <2>2, FS_Surjection
  <1>4. \A x : x \in c.idx <=> \E r \in Range(dir.resources) : x = Bind(r, each, S)
    BY <1>2 DEF Range
  <1>5. \A x \in c.idx : IsBound(x)
    <2> HIDE DEF c
    <2> QED  BY <1>1, <1>4, BindFacts
  <1>6. IsFiniteSet(DOMAIN c.locals) /\ \A l \in DOMAIN c.locals : IsRefs(c.locals[l])
    BY <1>2 DEF IsDir
  <1> HIDE DEF c
  <1> QED  BY <1>2, <1>3, <1>4, <1>5, <1>6 DEF IsContext, c

LEMMA LookupBound ==
  ASSUME NEW dir, IsDir(dir), NEW each, NEW S, NEW a,
         Lookup(Bound(dir, each, S), a) # {}
  PROVE  \E r \in Range(dir.resources) :
            Addr(r) = a /\ The(Lookup(Bound(dir, each, S), a)) = Bind(r, each, S)
  <1>1. PICK x \in Bound(dir, each, S).idx :
           Addr(x) = a /\ x = The(Lookup(Bound(dir, each, S), a))
    BY DEF Lookup, The
  <1>2. PICK r \in Range(dir.resources) : x = Bind(r, each, S)
    BY <1>1, BoundFacts
  <1>3. IsResource(r)
    BY DEF IsDir
  <1> QED  BY <1>1, <1>2, <1>3, BindFacts

-----------------------------------------------------------------------------
(* The chase ends, and at something it can reach.                          *)

Start(vs) == [left |-> vs, seen |-> {}, at |-> {}]

Walk(vs, c, w) == w = [n \in Nat |-> IF n = 0 THEN Start(vs) ELSE Follow(w[n - 1], c)]

LEMMA ChaseWalks ==
  ASSUME NEW vs, NEW c
  PROVE  chase(vs, c) = (CHOOSE w : Walk(vs, c, w))[Cardinality(DOMAIN c.locals) + 1].at
  BY DEF chase, Walk, Start

WalkTo(vs, c, n, f) == f = [k \in 0..n |-> IF k = 0 THEN Start(vs) ELSE Follow(f[k - 1], c)]

LEMMA WalksAgree ==
  ASSUME NEW vs, NEW c, NEW m \in Nat, NEW n \in Nat, NEW f, NEW g,
         WalkTo(vs, c, m, f), WalkTo(vs, c, n, g), NEW k \in Nat, k <= m, k <= n
  PROVE  f[k] = g[k]
  <1> DEFINE D == {j \in Nat : j <= m /\ j <= n /\ f[j] # g[j]}
  <1>1. D = {}
    <2> SUFFICES ASSUME D # {} PROVE FALSE
      OBVIOUS
    <2> D \in SUBSET Nat
      OBVIOUS
    <2> HIDE DEF D
    <2>1. Min(D) \in D /\ \A j \in D : Min(D) <= j
      BY MinIn
    <2> DEFINE j == Min(D)
    <2>2. j \in Nat /\ j <= m /\ j <= n /\ f[j] # g[j]
      BY <2>1 DEF D
    <2>3. j # 0 => f[j - 1] = g[j - 1]
      <3> SUFFICES ASSUME j # 0 PROVE f[j - 1] = g[j - 1]
        OBVIOUS
      <3> HIDE DEF j
      <3>1. j - 1 \in Nat /\ j - 1 <= m /\ j - 1 <= n /\ ~(j <= j - 1)
        BY <2>2
      <3>2. j - 1 \notin D
        BY <2>1, <3>1 DEF j
      <3> QED  BY <3>1, <3>2 DEF D
    <2> HIDE DEF j
    <2>4. /\ f[j] = IF j = 0 THEN Start(vs) ELSE Follow(f[j - 1], c)
          /\ g[j] = IF j = 0 THEN Start(vs) ELSE Follow(g[j - 1], c)
      BY <2>2 DEF WalkTo
    <2> QED  BY <2>2, <2>3, <2>4
  <1> QED  BY <1>1

LEMMA WalkToExists ==
  ASSUME NEW vs, NEW c, NEW n \in Nat
  PROVE  \E f : WalkTo(vs, c, n, f)
  <1> DEFINE D == {j \in Nat : ~\E f : WalkTo(vs, c, j, f)}
  <1>1. D = {}
    <2> SUFFICES ASSUME D # {} PROVE FALSE
      OBVIOUS
    <2> D \in SUBSET Nat
      OBVIOUS
    <2> HIDE DEF D
    <2>1. Min(D) \in D /\ \A j \in D : Min(D) <= j
      BY MinIn
    <2> DEFINE j == Min(D)
    <2>2. j \in Nat /\ ~\E f : WalkTo(vs, c, j, f)
      BY <2>1 DEF D
    <2>3. CASE j = 0
      <3> HIDE DEF j
      <3> DEFINE f == [k \in 0..j |-> Start(vs)]
      <3>1. WalkTo(vs, c, j, f)
        BY <2>3 DEF WalkTo
      <3> QED  BY <2>2, <3>1
    <2>4. CASE j # 0
      <3>1. j - 1 \in Nat /\ ~(j <= j - 1)
        BY <2>2, <2>4
      <3>2. PICK g : WalkTo(vs, c, j - 1, g)
        BY <2>1, <3>1 DEF D
      <3> HIDE DEF j
      <3> DEFINE f == [k \in 0..j |-> IF k = j THEN Follow(g[j - 1], c) ELSE g[k]]
      <3>3. ASSUME NEW k \in 0..j
            PROVE  f[k] = IF k = 0 THEN Start(vs) ELSE Follow(f[k - 1], c)
        <4>1. CASE k = j
          <5>1. f[k] = Follow(g[j - 1], c)
            BY <4>1
          <5>2. f[k - 1] = g[j - 1]
            BY <2>2, <2>4, <4>1
          <5> HIDE DEF f
          <5> QED  BY <2>4, <4>1, <5>1, <5>2
        <4>2. CASE k # j
          <5>1. k \in 0..(j - 1)
            BY <2>2, <4>2
          <5>2. g[k] = IF k = 0 THEN Start(vs) ELSE Follow(g[k - 1], c)
            BY <3>2, <5>1 DEF WalkTo
          <5>3. f[k] = g[k]
            BY <4>2
          <5>4. k # 0 => f[k - 1] = g[k - 1]
            BY <2>2, <5>1
          <5> HIDE DEF f
          <5> QED  BY <5>2, <5>3, <5>4
        <4> QED  BY <4>1, <4>2
      <3>4. f = [k \in 0..j |-> f[k]]
        OBVIOUS
      <3> HIDE DEF f
      <3>5. WalkTo(vs, c, j, f)
        BY <3>3, <3>4 DEF WalkTo
      <3> QED  BY <2>2, <3>5
    <2> QED  BY <2>3, <2>4
  <1> QED  BY <1>1

LEMMA WalkExists ==
  ASSUME NEW vs, NEW c
  PROVE  \E w : Walk(vs, c, w)
  <1> DEFINE f(n) == CHOOSE g : WalkTo(vs, c, n, g)
             w    == [n \in Nat |-> f(n)[n]]
  <1>1. \A n \in Nat : WalkTo(vs, c, n, f(n))
    BY WalkToExists
  <1>2. ASSUME NEW n \in Nat
        PROVE  w[n] = IF n = 0 THEN Start(vs) ELSE Follow(w[n - 1], c)
    <2>1. f(n)[n] = IF n = 0 THEN Start(vs) ELSE Follow(f(n)[n - 1], c)
      <3>1. WalkTo(vs, c, n, f(n))
        BY <1>1
      <3> HIDE DEF f
      <3> QED  BY <3>1 DEF WalkTo
    <2>2. ASSUME n # 0 PROVE f(n)[n - 1] = f(n - 1)[n - 1]
      <3>1. n - 1 \in Nat /\ n - 1 <= n /\ n - 1 <= n - 1
        BY <2>2
      <3>2. WalkTo(vs, c, n, f(n)) /\ WalkTo(vs, c, n - 1, f(n - 1))
        BY <1>1, <3>1
      <3> HIDE DEF f
      <3> QED  BY <3>1, <3>2, WalksAgree
    <2>3. w[n] = f(n)[n] /\ (n # 0 => w[n - 1] = f(n - 1)[n - 1])
      OBVIOUS
    <2> HIDE DEF f, w
    <2> QED  BY <2>1, <2>2, <2>3
  <1>3. w = [n \in Nat |-> w[n]]
    OBVIOUS
  <1> HIDE DEF w
  <1>4. Walk(vs, c, w)
    BY <1>2, <1>3 DEF Walk
  <1> QED  BY <1>4

\* What a step of a chase does: it goes past references that lead nowhere.
LEMMA FollowStep ==
  ASSUME NEW c, NEW w, IsRefs(w.left), w.at = {}, NEW v, v = Follow(w, c),
         \E i \in DOMAIN w.left : Stops(w.left[i], w.seen, c)
  PROVE  \E i \in DOMAIN w.left :
            LET ref  == w.left[i]
                rest == SubSeq(w.left, i + 1, Len(w.left))
            IN  /\ Stops(ref, w.seen, c) /\ \A j \in 1..(i - 1) : ~Stops(w.left[j], w.seen, c)
                /\ v = IF ref[1] = "local"
                       THEN [left |-> c.locals[ref[2]] \o rest, seen |-> w.seen \cup {ref[2]},
                             at |-> {}]
                       ELSE [left |-> rest, seen |-> w.seen, at |-> Lookup(c, ref)]
  <1> DEFINE N == {i \in DOMAIN w.left : Stops(w.left[i], w.seen, c)}
  <1>1. DOMAIN w.left = 1..Len(w.left) /\ Len(w.left) \in Nat
    BY SeqDomain DEF IsRefs
  <1>2. N \in SUBSET Nat /\ N # {}
    BY <1>1
  <1>3. Min(N) \in N /\ \A j \in N : Min(N) <= j
    <2> HIDE DEF N
    <2> QED  BY <1>2, MinIn
  <1> DEFINE i == Min(N)
  <1>4. i \in DOMAIN w.left /\ i \in Nat /\ Stops(w.left[i], w.seen, c)
    BY <1>2, <1>3
  <1>5. ASSUME NEW j \in 1..(i - 1) PROVE ~Stops(w.left[j], w.seen, c)
    <2> HIDE DEF i
    <2>1. j \in DOMAIN w.left /\ ~(i <= j)
      BY <1>1, <1>4
    <2>2. j \notin N
      BY <1>3, <2>1 DEF i
    <2> QED  BY <2>1, <2>2
  <1>6. v = IF w.left[i][1] = "local"
            THEN [left |-> c.locals[w.left[i][2]] \o SubSeq(w.left, i + 1, Len(w.left)),
                  seen |-> w.seen \cup {w.left[i][2]}, at |-> {}]
            ELSE [left |-> SubSeq(w.left, i + 1, Len(w.left)), seen |-> w.seen,
                  at |-> Lookup(c, w.left[i])]
    BY <1>2 DEF Follow
  <1> HIDE DEF i
  <1> QED  BY <1>4, <1>5, <1>6

LEMMA RestOf ==
  ASSUME NEW s, IsRefs(s), NEW i \in DOMAIN s
  PROVE  LET rest == SubSeq(s, i + 1, Len(s))
         IN  /\ IsRefs(rest) /\ Range(rest) \subseteq Range(s)
             /\ \A a \in Range(s) : a \in Range(rest) \/ \E j \in 1..i : a = s[j]
  <1> DEFINE rest == SubSeq(s, i + 1, Len(s))
             n    == Len(s) - i
  <1>1. s \in Seq(Range(s)) /\ Len(s) \in Nat /\ DOMAIN s = 1..Len(s)
    BY SeqDomain DEF IsRefs, IsSeq
  <1>2. n \in Nat /\ i \in 1..Len(s)
    BY <1>1
  <1>3. rest = [k \in 1..n |-> s[k + i]]
    BY <1>1, <1>2
  <1> HIDE DEF n
  <1>4. \A k \in 1..n : k + i \in DOMAIN s
    BY <1>1, <1>2 DEF n
  <1>5. Range(rest) \subseteq Range(s)
    BY <1>3, <1>4 DEF Range
  <1>6. rest \in Seq(Range(rest))
    <2>1. \A k \in 1..n : rest[k] \in Range(rest)
      BY <1>3 DEF Range
    <2>2. rest = [k \in 1..n |-> rest[k]]
      BY <1>3
    <2> HIDE DEF rest
    <2> QED  BY <1>2, <2>1, <2>2
  <1>7. \A a \in Range(rest) : a = <<a[1], a[2]>>
    BY <1>5 DEF IsRefs
  <1>8. ASSUME NEW a \in Range(s) PROVE a \in Range(rest) \/ \E j \in 1..i : a = s[j]
    <2>1. PICK k \in DOMAIN s : a = s[k]
      BY DEF Range
    <2>2. CASE k <= i
      BY <1>1, <2>1, <2>2
    <2>3. CASE ~(k <= i)
      <3>1. k - i \in 1..n /\ (k - i) + i = k
        BY <1>1, <1>2, <2>3 DEF n
      <3>2. k - i \in DOMAIN rest /\ rest[k - i] = a
        BY <1>3, <2>1, <3>1
      <3> HIDE DEF rest
      <3> QED  BY <3>2 DEF Range
    <2> QED  BY <2>2, <2>3
  <1> HIDE DEF rest
  <1> QED  BY <1>5, <1>6, <1>7, <1>8 DEF IsRefs, IsSeq, rest

LEMMA JoinRefs ==
  ASSUME NEW s, NEW t, IsRefs(s), IsRefs(t)
  PROVE  IsRefs(s \o t) /\ Range(s \o t) = Range(s) \cup Range(t)
  <1> DEFINE S == Range(s) \cup Range(t)
             u == s \o t
  <1>1. s \in Seq(S) /\ t \in Seq(S) /\ Len(s) \in Nat /\ Len(t) \in Nat
    BY DEF IsRefs, IsSeq
  <1>2. u \in Seq(S) /\ Len(u) = Len(s) + Len(t) /\ DOMAIN u = 1..Len(u)
    BY <1>1
  <1>3. \A i \in 1..Len(s) : u[i] = s[i]
    BY <1>1
  <1>4. \A i \in 1..Len(t) : u[i + Len(s)] = t[i] /\ i + Len(s) \in DOMAIN u
    BY <1>1, <1>2
  <1>5. S \subseteq Range(u)
    <2>1. Range(s) \subseteq Range(u)
      <3>1. DOMAIN s = 1..Len(s) /\ \A i \in DOMAIN s : i \in DOMAIN u
        BY <1>1, <1>2
      <3> HIDE DEF u
      <3> QED  BY <1>3, <3>1 DEF Range
    <2>2. Range(t) \subseteq Range(u)
      <3>1. DOMAIN t = 1..Len(t)
        BY <1>1
      <3> HIDE DEF u
      <3> QED  BY <1>4, <3>1 DEF Range
    <2> QED  BY <2>1, <2>2
  <1>6. Range(u) \subseteq S
    <2> HIDE DEF u, S
    <2> QED  BY <1>2 DEF Range
  <1>7. \A a \in S : a = <<a[1], a[2]>>
    BY DEF IsRefs
  <1>8. Range(u) = S
    BY <1>5, <1>6
  <1> QED  BY <1>2, <1>7, <1>8 DEF IsRefs, IsSeq

-----------------------------------------------------------------------------
(* T is closed under the references of locals.                             *)

ClosedIn(T, c) == \A l \in DOMAIN c.locals : <<"local", l>> \in T => Range(c.locals[l]) \subseteq T

\* The references a chase has come across.
Met(vs, seen, c) == Range(vs) \cup UNION {Range(c.locals[l]) : l \in seen}

Stuck(w, c) == w.at # {} \/ \A i \in DOMAIN w.left : ~Stops(w.left[i], w.seen, c)

\* A chase stays among what is reached, passes by nothing that leads on, and
\* follows one more local with every step.
Chases(vs, c, T, n, w) ==
    /\ IsRefs(w.left) /\ Range(w.left) \subseteq T
    /\ w.seen \subseteq DOMAIN c.locals
    /\ w.at # {} => \E a \in T : w.at = Lookup(c, a)
    /\ w.at = {} => \A a \in Met(vs, w.seen, c) : a \in Range(w.left) \/ ~Stops(a, w.seen, c)
    /\ Stuck(w, c) \/ Cardinality(w.seen) = n

LEMMA ChaseStep ==
  ASSUME NEW vs, NEW c, NEW T, ClosedIn(T, c), IsFiniteSet(DOMAIN c.locals),
         \A l \in DOMAIN c.locals : IsRefs(c.locals[l]),
         NEW n \in Nat, NEW w, Chases(vs, c, T, n, w)
  PROVE  Chases(vs, c, T, n + 1, Follow(w, c))
  <1>1. CASE Stuck(w, c)
    <2>1. Follow(w, c) = w
      BY <1>1 DEF Stuck, Follow
    <2> QED  BY <1>1, <2>1 DEF Chases
  <1>2. CASE ~Stuck(w, c)
    <2> DEFINE v == Follow(w, c)
    <2>1. w.at = {} /\ \E i \in DOMAIN w.left : Stops(w.left[i], w.seen, c)
      BY <1>2 DEF Stuck
    <2>2. IsRefs(w.left) /\ Range(w.left) \subseteq T /\ w.seen \subseteq DOMAIN c.locals
      BY DEF Chases
    <2>3. \A a \in Met(vs, w.seen, c) : a \in Range(w.left) \/ ~Stops(a, w.seen, c)
      BY <2>1 DEF Chases
    <2>4. Cardinality(w.seen) = n
      BY <1>2 DEF Chases
    <2>5. PICK i \in DOMAIN w.left :
             /\ Stops(w.left[i], w.seen, c)
             /\ \A j \in 1..(i - 1) : ~Stops(w.left[j], w.seen, c)
             /\ v = IF w.left[i][1] = "local"
                    THEN [left |-> c.locals[w.left[i][2]] \o SubSeq(w.left, i + 1, Len(w.left)),
                          seen |-> w.seen \cup {w.left[i][2]}, at |-> {}]
                    ELSE [left |-> SubSeq(w.left, i + 1, Len(w.left)), seen |-> w.seen,
                          at |-> Lookup(c, w.left[i])]
      <3> HIDE DEF v
      <3>1. v = Follow(w, c)
        BY DEF v
      <3> QED  BY <2>1, <2>2, <3>1, FollowStep
    <2> HIDE DEF v
    <2> DEFINE ref  == w.left[i]
               rest == SubSeq(w.left, i + 1, Len(w.left))
    <2>6. /\ IsRefs(rest) /\ Range(rest) \subseteq Range(w.left)
          /\ \A a \in Range(w.left) : a \in Range(rest) \/ \E j \in 1..i : a = w.left[j]
      BY <2>2, RestOf
    <2>7. ref \in Range(w.left) /\ ref \in T /\ ref = <<ref[1], ref[2]>>
      BY <2>2 DEF Range, IsRefs
    <2>8. i \in Nat /\ i \in 1..Len(w.left)
      BY <2>2, SeqDomain DEF IsRefs
    <2>9. \A a \in Range(w.left) : a \in Range(rest) \/ a = ref \/ ~Stops(a, w.seen, c)
      <3> SUFFICES ASSUME NEW a \in Range(w.left), a \notin Range(rest), a # ref
                   PROVE  ~Stops(a, w.seen, c)
        OBVIOUS
      <3>1. PICK j \in 1..i : a = w.left[j]
        BY <2>6
      <3>2. j \in 1..(i - 1)
        BY <2>8, <3>1
      <3> QED  BY <2>5, <3>1, <3>2
    <2> HIDE DEF rest
    <2>10. CASE ref[1] = "local"
      <3> DEFINE l == ref[2]
      <3>1. l \in DOMAIN c.locals /\ l \notin w.seen
        BY <2>5, <2>10 DEF Stops
      <3>2. v = [left |-> c.locals[l] \o rest, seen |-> w.seen \cup {l}, at |-> {}]
        BY <2>5, <2>10 DEF rest
      <3> HIDE DEF l
      <3>3. IsRefs(v.left) /\ Range(v.left) = Range(c.locals[l]) \cup Range(rest)
        BY <2>6, <3>1, <3>2, JoinRefs
      <3>4. Range(c.locals[l]) \subseteq T
        <4>1. <<"local", l>> \in T
          BY <2>7, <2>10 DEF l
        <4> QED  BY <3>1, <4>1 DEF ClosedIn
      <3>5. ASSUME NEW a \in Met(vs, v.seen, c)
            PROVE  a \in Range(v.left) \/ ~Stops(a, v.seen, c)
        <4>1. a \in Met(vs, w.seen, c) \/ a \in Range(c.locals[l])
          BY <3>2 DEF Met
        <4>2. ~Stops(a, w.seen, c) => ~Stops(a, v.seen, c)
          BY <3>2 DEF Stops
        <4>3. ~Stops(ref, v.seen, c)
          BY <2>10, <3>2 DEF Stops, l
        <4> QED  BY <2>3, <2>9, <3>3, <4>1, <4>2, <4>3
      <3>6. Cardinality(v.seen) = n + 1
        <4>1. IsFiniteSet(w.seen)
          BY <2>2, FS_Subset
        <4> QED  BY <2>4, <3>1, <3>2, <4>1, FS_AddElement
      <3>7. Range(v.left) \subseteq T /\ v.seen \subseteq DOMAIN c.locals /\ v.at = {}
        BY <2>2, <2>6, <3>1, <3>2, <3>3, <3>4
      <3> QED  BY <3>3, <3>5, <3>6, <3>7 DEF Chases, v
    <2>11. CASE ref[1] # "local"
      <3>1. v = [left |-> rest, seen |-> w.seen, at |-> Lookup(c, ref)]
        BY <2>5, <2>11 DEF rest
      <3>2. Lookup(c, ref) # {}
        BY <2>5, <2>11 DEF Stops
      <3>3. v.at # {} /\ v.at = Lookup(c, ref) /\ v.left = rest /\ v.seen = w.seen
        BY <3>1, <3>2
      <3>4. Stuck(v, c)
        BY <3>3 DEF Stuck
      <3> QED  BY <2>2, <2>6, <2>7, <3>3, <3>4 DEF Chases, v
    <2> QED  BY <2>10, <2>11
  <1> QED  BY <1>1, <1>2

LEMMA ChaseEnds ==
  ASSUME NEW vs, IsRefs(vs), NEW c, NEW T, ClosedIn(T, c), Range(vs) \subseteq T,
         IsFiniteSet(DOMAIN c.locals), \A l \in DOMAIN c.locals : IsRefs(c.locals[l])
  PROVE  \E w : /\ chase(vs, c) = w.at /\ Stuck(w, c)
                /\ \E n \in Nat : Chases(vs, c, T, n, w)
  <1> DEFINE w == CHOOSE x : Walk(vs, c, x)
             M == Cardinality(DOMAIN c.locals) + 1
  <1>1. Walk(vs, c, w)
    BY WalkExists
  <1>2. chase(vs, c) = w[M].at
    BY ChaseWalks
  <1> HIDE DEF w
  <1>3. w[0] = Start(vs) /\ \A n \in Nat : n # 0 => w[n] = Follow(w[n - 1], c)
    BY <1>1 DEF Walk
  <1>4. M \in Nat
    BY FS_CardinalityType
  <1>5. Chases(vs, c, T, 0, Start(vs))
    <2>1. Cardinality({}) = 0
      BY FS_EmptySet
    <2> QED  BY <2>1 DEF Chases, Start, Met
  <1> DEFINE D == {n \in Nat : ~Chases(vs, c, T, n, w[n])}
  <1>6. D = {}
    <2> SUFFICES ASSUME D # {} PROVE FALSE
      OBVIOUS
    <2> D \in SUBSET Nat
      OBVIOUS
    <2> HIDE DEF D
    <2>1. Min(D) \in D /\ \A j \in D : Min(D) <= j
      BY MinIn
    <2> DEFINE n == Min(D)
    <2>2. n \in Nat /\ ~Chases(vs, c, T, n, w[n])
      BY <2>1 DEF D
    <2>3. n # 0
      BY <1>3, <1>5, <2>2
    <2> HIDE DEF n
    <2>4. n - 1 \in Nat /\ ~(n <= n - 1) /\ (n - 1) + 1 = n
      BY <2>2, <2>3
    <2>5. Chases(vs, c, T, n - 1, w[n - 1])
      BY <2>1, <2>4 DEF D, n
    <2>6. Chases(vs, c, T, n, Follow(w[n - 1], c))
      <3>1. Chases(vs, c, T, (n - 1) + 1, Follow(w[n - 1], c))
        BY <2>4, <2>5, ChaseStep
      <3> QED  BY <2>4, <3>1
    <2> QED  BY <1>3, <2>2, <2>3, <2>6
  <1>7. Chases(vs, c, T, M, w[M])
    BY <1>4, <1>6
  <1>8. Stuck(w[M], c)
    <2> SUFFICES ASSUME ~Stuck(w[M], c) PROVE FALSE
      OBVIOUS
    <2>1. Cardinality(w[M].seen) = M /\ w[M].seen \in SUBSET (DOMAIN c.locals)
      BY <1>7 DEF Chases
    <2>2. Cardinality(w[M].seen) <= Cardinality(DOMAIN c.locals)
      BY <2>1, FS_Subset
    <2>3. Cardinality(DOMAIN c.locals) \in Nat
      BY FS_CardinalityType
    <2> QED  BY <2>1, <2>2, <2>3
  <1> HIDE DEF M
  <1> QED  BY <1>2, <1>4, <1>7, <1>8

\* A chase finds the resource of a reference that is reached, if any is there.
LEMMA ChaseFinds ==
  ASSUME NEW vs, IsRefs(vs), NEW c, IsFiniteSet(DOMAIN c.locals),
         \A l \in DOMAIN c.locals : IsRefs(c.locals[l])
  PROVE  LET R == Reach(Range(vs), c.locals)
         IN  /\ chase(vs, c) # {} => \E a \in R : chase(vs, c) = Lookup(c, a)
             /\ chase(vs, c) = {} => \A a \in R : a[1] # "local" => Lookup(c, a) = {}
  <1> DEFINE All == Range(vs) \cup UNION {Range(c.locals[l]) : l \in DOMAIN c.locals}
             R   == Reach(Range(vs), c.locals)
  <1>1. R = {a \in All : \A T \in SUBSET All : Range(vs) \subseteq T /\ ClosedIn(T, c) => a \in T}
    BY DEF Reach, ClosedIn
  <1>2. Range(vs) \subseteq R
    BY <1>1
  <1>3. ClosedIn(R, c)
    <2> SUFFICES ASSUME NEW l \in DOMAIN c.locals, <<"local", l>> \in R,
                        NEW a \in Range(c.locals[l])
                 PROVE  a \in R
      BY DEF ClosedIn
    <2>1. a \in All
      OBVIOUS
    <2>2. ASSUME NEW T \in SUBSET All, Range(vs) \subseteq T, ClosedIn(T, c)
          PROVE  a \in T
      <3>1. <<"local", l>> \in T
        BY <1>1, <2>2
      <3> QED  BY <2>2, <3>1 DEF ClosedIn
    <2> HIDE DEF R, All
    <2> QED  BY <1>1, <2>1, <2>2
  <1> HIDE DEF R
  <1>4. PICK w : /\ chase(vs, c) = w.at /\ Stuck(w, c)
                 /\ \E n \in Nat : Chases(vs, c, R, n, w)
    BY <1>2, <1>3, ChaseEnds
  <1>5. w.at # {} => \E a \in R : w.at = Lookup(c, a)
    BY <1>4 DEF Chases
  <1>6. ASSUME w.at = {}, NEW a \in R, a[1] # "local" PROVE Lookup(c, a) = {}
    <2> DEFINE T == Met(vs, w.seen, c)
    <2>1. w.seen \subseteq DOMAIN c.locals
      BY <1>4 DEF Chases
    <2>2. ASSUME NEW b \in T PROVE ~Stops(b, w.seen, c)
      <3>1. b \in Range(w.left) \/ ~Stops(b, w.seen, c)
        BY <1>4, <1>6 DEF Chases
      <3>2. \A i \in DOMAIN w.left : ~Stops(w.left[i], w.seen, c)
        BY <1>4, <1>6 DEF Stuck
      <3> QED  BY <3>1, <3>2 DEF Range
    <2>3. ClosedIn(T, c)
      <3> SUFFICES ASSUME NEW l \in DOMAIN c.locals, <<"local", l>> \in T
                   PROVE  Range(c.locals[l]) \subseteq T
        BY DEF ClosedIn
      <3>1. <<"local", l>>[1] = "local" /\ <<"local", l>>[2] = l
        OBVIOUS
      <3>2. l \in w.seen
        <4>1. ~Stops(<<"local", l>>, w.seen, c)
          BY <2>2
        <4> QED  BY <3>1, <4>1 DEF Stops
      <3> QED  BY <3>2 DEF Met
    <2>4. Range(vs) \subseteq T /\ T \in SUBSET All
      BY <2>1 DEF Met
    <2>5. a \in T
      <3> HIDE DEF T, All
      <3> QED  BY <1>1, <2>3, <2>4 DEF R
    <2>6. ~Stops(a, w.seen, c)
      BY <2>2, <2>5
    <2> QED  BY <1>6, <2>6 DEF Stops
  <1> QED  BY <1>4, <1>5, <1>6 DEF R

-----------------------------------------------------------------------------
(* The template of an auto scaling group.                                  *)

LEMMA TemplateFinds ==
  ASSUME NEW dir, IsDir(dir), NEW r \in Range(dir.resources), NEW each, NEW S,
         \E i \in DOMAIN ASGKeys : Given(r, ASGKeys[i])
  PROVE  LET b == Bind(r, each, S)
             c == Bound(dir, each, S)
             R == Reach(Range(r.attrs[FirstGiven(r, ASGKeys)].vars), dir.locals)
             t == Template(b, ASGKeys, c)
         IN  /\ t # {} => \E a \in R : t = Lookup(c, a)
             /\ t = {} => \A a \in R : a[1] # "local" => Lookup(c, a) = {}
  <1> DEFINE b   == Bind(r, each, S)
             c   == Bound(dir, each, S)
             key == FirstGiven(r, ASGKeys)
             vs  == r.attrs[key].vars
             R   == Reach(Range(vs), dir.locals)
  <1>1. IsResource(r)
    BY DEF IsDir
  <1>2. \A k : Given(b, k) <=> Given(r, k)
    BY <1>1, BindFacts
  <1>3. FirstGiven(b, ASGKeys) = key
    BY <1>2 DEF FirstGiven
  <1>4. key \in DOMAIN r.attrs
    <2> DEFINE K == {i \in DOMAIN ASGKeys : Given(r, ASGKeys[i])}
    <2>1. K \in SUBSET Nat /\ K # {}
      BY DEF ASGKeys
    <2>2. Min(K) \in K
      <3> HIDE DEF K
      <3> QED  BY <2>1, MinIn
    <2>3. key = ASGKeys[Min(K)]
      BY DEF FirstGiven
    <2> QED  BY <2>2, <2>3 DEF Given
  <1>5. b.attrs[key].vars = vs /\ b.attrs[key].bare = r.attrs[key].bare
    BY <1>1, <1>4, BindFacts
  <1>6. IsRefs(vs) /\ (r.attrs[key].bare => vs # <<>>)
    BY <1>1, <1>4 DEF IsResource
  <1>7. c.locals = dir.locals
    BY BoundFacts
  <1>8. Given(b, key)
    BY <1>2, <1>4 DEF Given
  <1> DEFINE f == refResource(b, key, c)
  <1>9. Template(b, ASGKeys, c) = IF f # {} THEN f ELSE chase(vs, c)
    <2>1. ~(\A i \in DOMAIN ASGKeys : ~Given(b, ASGKeys[i]))
      BY <1>2
    <2> HIDE DEF b, c, vs, key
    <2> QED  BY <1>3, <1>5, <2>1 DEF Template
  <1>10. /\ IsFiniteSet(DOMAIN c.locals) /\ \A l \in DOMAIN c.locals : IsRefs(c.locals[l])
    BY <1>7 DEF IsDir
  <1>11. ASSUME f # {} PROVE \E a \in R : f = Lookup(c, a)
    <2>1. r.attrs[key].bare /\ f = Lookup(c, Head(vs))
      <3> HIDE DEF b, c, vs, key
      <3> QED  BY <1>5, <1>11 DEF refResource
    <2>2. Head(vs) \in Range(vs)
      <3>1. vs # <<>> /\ vs \in Seq(Range(vs))
        BY <1>6, <2>1 DEF IsRefs, IsSeq
      <3> HIDE DEF vs
      <3> QED  BY <3>1
    <2>3. Range(vs) \subseteq R
      BY DEF Reach
    <2> HIDE DEF R
    <2> QED  BY <2>1, <2>2, <2>3
  <1> HIDE DEF f, b, c, vs, key
  <1>12. /\ chase(vs, c) # {} => \E a \in R : chase(vs, c) = Lookup(c, a)
         /\ chase(vs, c) = {} => \A a \in R : a[1] # "local" => Lookup(c, a) = {}
    BY <1>6, <1>7, <1>10, ChaseFinds
  <1> HIDE DEF R
  <1>13. LET t == Template(b, ASGKeys, c)
         IN  /\ t # {} => \E a \in R : t = Lookup(c, a)
             /\ t = {} => \A a \in R : a[1] # "local" => Lookup(c, a) = {}
    BY <1>9, <1>11, <1>12
  <1> QED  BY <1>13 DEF R, b, c, vs, key

\* The group is priced on a template that its reference leads to, and is priced
\* if the types of all of them are known.
LEMMA GroupFinds ==
  ASSUME NEW o, IsDir(o.dir), NEW r \in Range(o.dir.resources),
         r.type = "aws_autoscaling_group", NEW row, NEW S, NEW region
  PROVE  LET b == Bind(r, row.each, S)
             m == MapResource(b, Bound(o.dir, row.each, S), region)
             s == Head(m.specs)
         IN  /\ m.specs # <<>> =>
                   /\ s.filters["instanceType"] \in TemplateTypes(o, r, row)
                   /\ ~s.flat /\ ~s.global
             /\ (/\ \E i \in DOMAIN ASGKeys : Given(r, ASGKeys[i])
                 /\ Positive(Bind(r, row.each, {}), "desired_capacity")
                 /\ TemplateTypes(o, r, row) # {} /\ Unknown \notin TemplateTypes(o, r, row))
                => m.specs # <<>>
             /\ ExtraSpecs(b) = <<>>
  <1> DEFINE each == row.each
             b == Bind(r, each, S)
             c == Bound(o.dir, each, S)
             m == MapResource(b, c, region)
             t == Template(b, ASGKeys, c)
             R == Reach(Range(r.attrs[FirstGiven(r, ASGKeys)].vars), o.dir.locals)
             count == FirstPositive(b, <<"desired_capacity", "min_size">>, 0)
  <1>1. IsResource(r)
    BY DEF IsDir
  <1>2. /\ b.type = "aws_autoscaling_group" /\ IsBound(b)
        /\ \A key : Given(b, key) <=> Given(r, key)
        /\ \A key : Val(b, key) = Val(Bind(r, each, {}), key)
    BY <1>1, BindFacts
  <1>3. m = mapASG(b, c) /\ ExtraSpecs(b) = <<>>
    <2> HIDE DEF b, c
    <2> QED  BY <1>2 DEF MapResource, ExtraSpecs
  <1>4. \A x \in Range(o.dir.resources) : Addr(x) \in R =>
           Val(Bind(x, each, {}), "instance_type") \in TemplateTypes(o, r, row)
    BY DEF TemplateTypes
  <1>5. \A v \in TemplateTypes(o, r, row) : \E x \in Range(o.dir.resources) :
           Addr(x) \in R /\ v = Val(Bind(x, each, {}), "instance_type")
    BY DEF TemplateTypes
  <1>6. \A x \in Range(o.dir.resources) :
           Val(Bind(x, each, S), "instance_type") = Val(Bind(x, each, {}), "instance_type")
    BY BindFacts DEF IsDir
  <1>7. ASSUME NEW a \in R, t = Lookup(c, a), t # {}
        PROVE  Val(The(t), "instance_type") \in TemplateTypes(o, r, row)
    <2>1. PICK x \in Range(o.dir.resources) : Addr(x) = a /\ The(t) = Bind(x, each, S)
      BY <1>7, LookupBound
    <2> QED  BY <1>4, <1>6, <1>7, <2>1
  <1>8. (\E i \in DOMAIN ASGKeys : Given(r, ASGKeys[i])) =>
           /\ t # {} => \E a \in R : t = Lookup(c, a)
           /\ t = {} => \A a \in R : a[1] # "local" => Lookup(c, a) = {}
    BY TemplateFinds
  <1>9. (\A i \in DOMAIN ASGKeys : ~Given(r, ASGKeys[i])) => t = {}
    <2> HIDE DEF b, c
    <2> QED  BY <1>2 DEF Template
  <1>10. t # {} => Val(The(t), "instance_type") \in TemplateTypes(o, r, row)
    BY <1>7, <1>8, <1>9
  <1>11. \/ m.specs = <<>>
         \/ \E tenancy : m.specs = <<ec2InstanceSpec(Val(The(t), "instance_type"), tenancy, count)>>
    <2> HIDE DEF b, c
    <2> QED  BY <1>3 DEF mapASG, Unresolved, Fixed
  <1>12. m.specs = <<>> => t = {} \/ ~Ok(The(t), "instance_type") \/ count = 0
    <2> HIDE DEF b, c
    <2> QED  BY <1>3 DEF mapASG, Unresolved, Fixed
  <1>13. \A it, tenancy, n : LET s == ec2InstanceSpec(it, tenancy, n)
                             IN  s.filters["instanceType"] = it /\ ~s.flat /\ ~s.global
    BY DEF ec2InstanceSpec, line
  <1>14. ASSUME m.specs # <<>>
         PROVE  /\ Head(m.specs).filters["instanceType"] \in TemplateTypes(o, r, row)
                /\ ~Head(m.specs).flat /\ ~Head(m.specs).global
    <2> HIDE DEF m, t, b, c, count
    <2>1. PICK tenancy :
             m.specs = <<ec2InstanceSpec(Val(The(t), "instance_type"), tenancy, count)>>
      BY <1>11, <1>14
    <2>2. Head(m.specs) = ec2InstanceSpec(Val(The(t), "instance_type"), tenancy, count)
      BY <2>1
    <2>3. t # {}
      <3> USE DEF m
      <3>1. t = {} => mapASG(b, c).specs = <<>>
        BY DEF mapASG, Unresolved, t
      <3> QED  BY <1>3, <1>14, <3>1 DEF m
    <2> QED  BY <1>10, <1>13, <2>2, <2>3
  <1>15. ASSUME \E i \in DOMAIN ASGKeys : Given(r, ASGKeys[i]),
                Positive(Bind(r, each, {}), "desired_capacity"),
                TemplateTypes(o, r, row) # {}, Unknown \notin TemplateTypes(o, r, row)
         PROVE  m.specs # <<>>
    <2>1. count > 0
      <3>1. Positive(b, "desired_capacity")
        BY <1>2, <1>15 DEF Positive, Ok
      <3> DEFINE keys == <<"desired_capacity", "min_size">>
      <3>2. keys \in Seq(Numbers) /\ 1 \in DOMAIN keys /\ keys[1] = "desired_capacity"
        BY DEF Numbers
      <3>3. 0 \in Nat /\ \E i \in DOMAIN keys : Positive(b, keys[i])
        BY <3>1, <3>2
      <3> HIDE DEF keys, b
      <3>4. FirstPositive(b, keys, 0) > 0
        BY <1>2, <3>2, <3>3, FirstPositiveType
      <3> QED  BY <3>4 DEF keys
    <2>2. t # {}
      <3> SUFFICES ASSUME t = {} PROVE FALSE
        OBVIOUS
      <3>1. PICK x \in Range(o.dir.resources) : Addr(x) \in R
        BY <1>5, <1>15
      <3>2. Addr(x)[1] # "local"
        BY DEF IsDir, IsResource, Addr
      <3>3. Lookup(c, Addr(x)) = {}
        BY <1>8, <1>15, <3>1, <3>2
      <3>4. Bind(x, each, S) \in c.idx
        BY BoundFacts
      <3>5. Addr(Bind(x, each, S)) = Addr(x)
        BY BindFacts DEF IsDir
      <3> HIDE DEF c
      <3> QED  BY <3>3, <3>4, <3>5 DEF Lookup
    <2>3. Ok(The(t), "instance_type")
      BY <1>10, <1>15, <2>2 DEF Ok
    <2> HIDE DEF m, t, count
    <2> QED  BY <1>12, <2>1, <2>2, <2>3
  <1> HIDE DEF m, b, c
  <1> QED  BY <1>3, <1>14, <1>15 DEF m, b, c

-----------------------------------------------------------------------------
(* Jobs and places.  A place is a row of a resource of an opened directory *)
(* (o, r, row); p is the project, O the opened directories, T the jobs     *)
(* that are left, J the set of them and I the items.                       *)

Opens(m)      == metaCount(m) > 0 /\ m.body # None
Root(p)       == [dir |-> p.dir, prefix |-> <<>>]
InRegion(p, o, r) == resourceRegion(o.dir, r, p.region)

ResourceJob(o, r)    == [do |-> "resource", r |-> r, dir |-> o.dir, prefix |-> o.prefix]
RowJob(o, r, row)    == [do |-> "row", r |-> r, dir |-> o.dir, prefix |-> o.prefix,
                         key |-> row.key, each |-> row.each, n |-> row.n]
CallJob(o, m)        == [do |-> "call", m |-> m, prefix |-> o.prefix]
ModuleJob(m, prefix) == [do |-> "module", m |-> m, prefix |-> prefix]

\* The end of q is below its beginning.
Starts(q, prefix) == Len(q) <= Len(prefix) /\ \A i \in DOMAIN q : prefix[i] = q[i]
Under(q, name, prefix) == /\ Starts(q, prefix) /\ Len(q) < Len(prefix)
                          /\ prefix[Len(q) + 1][1] = name

\* The cell of an item, and of a directory: that of the item a closed module has.
CellOf(it) == [addr |-> it.addr, nth |-> it.nth]
DirCell(o) == [addr |-> At(o.prefix, <<>>, <<>>), nth |-> 1]

\* The cells that the work on a job may fill.
Owns(j, c) ==
    \/ j.do = "resource" /\ c.addr.prefix = j.prefix /\ c.addr.r = Addr(j.r)
    \/ j.do = "row" /\ c.addr = At(j.prefix, Addr(j.r), j.key)
    \/ j.do = "lookup" /\ c.addr = j.addr /\ c.nth = j.nth
    \/ j.do = "call" /\ Under(j.prefix, j.m.name, c.addr.prefix)
    \/ j.do = "module" /\ Starts(j.prefix, c.addr.prefix)

\* No two jobs own a cell, no job owns one that is filled, none is filled twice.
Claims(T, I, O) ==
    /\ \A k, l \in DOMAIN T : \A c : Owns(T[k], c) /\ Owns(T[l], c) => k = l
    /\ \A k \in DOMAIN T : \A i \in DOMAIN I : ~Owns(T[k], CellOf(I[i]))
    /\ \A k \in DOMAIN T : \A o \in O : ~Owns(T[k], DirCell(o))
    /\ \A i, j \in DOMAIN I : CellOf(I[i]) = CellOf(I[j]) => i = j
    /\ \A o, q \in O : o.prefix = q.prefix => o = q

\* The jobs of N share out what h owns.
Shares(N, h) ==
    /\ \A k \in DOMAIN N : \A c : Owns(N[k], c) => Owns(h, c)
    /\ \A k, l \in DOMAIN N : \A c : Owns(N[k], c) /\ Owns(N[l], c) => k = l

LEMMA Replaced ==
  ASSUME NEW T, IsSeq(T), T # <<>>, NEW N, IsSeq(N)
  PROVE  LET U == N \o Tail(T)
         IN  /\ IsSeq(U)
             /\ \A k \in DOMAIN U :
                   \/ k \in DOMAIN N /\ U[k] = N[k]
                   \/ /\ k - Len(N) + 1 \in DOMAIN T \ {1}
                      /\ U[k] = T[k - Len(N) + 1] /\ k \notin DOMAIN N
             /\ \A x : x \in Range(U) <=> x \in Range(N) \/ x \in Range(Tail(T))
             /\ \A x : x \in Range(T) <=> x = Head(T) \/ x \in Range(Tail(T))
             /\ 1 \in DOMAIN T /\ T[1] = Head(T) /\ Len(N) \in Nat /\ DOMAIN T \subseteq Nat
  <1> DEFINE U == N \o Tail(T)
             S == Range(N) \cup Range(T)
  <1>1. N \in Seq(S) /\ T \in Seq(S)
    BY DEF IsSeq
  <1> HIDE DEF S
  <1>2. /\ Len(N) \in Nat /\ DOMAIN N = 1..Len(N) /\ Len(T) \in Nat /\ DOMAIN T = 1..Len(T)
        /\ Len(T) # 0
    BY <1>1
  <1>3. /\ Tail(T) \in Seq(S) /\ Len(Tail(T)) = Len(T) - 1
        /\ DOMAIN Tail(T) = 1..(Len(T) - 1)
        /\ \A i \in 1..(Len(T) - 1) : Tail(T)[i] = T[i + 1]
    BY <1>1, <1>2
  <1>4. /\ U \in Seq(S) /\ Len(U) = Len(N) + (Len(T) - 1)
        /\ DOMAIN U = 1..(Len(N) + (Len(T) - 1))
        /\ \A k \in 1..(Len(N) + (Len(T) - 1)) :
              U[k] = IF k <= Len(N) THEN N[k] ELSE Tail(T)[k - Len(N)]
    BY <1>1, <1>2, <1>3
  <1> HIDE DEF U
  <1>5. ASSUME NEW k \in DOMAIN U
        PROVE  \/ k \in DOMAIN N /\ U[k] = N[k]
               \/ /\ k - Len(N) + 1 \in DOMAIN T \ {1}
                  /\ U[k] = T[k - Len(N) + 1] /\ k \notin DOMAIN N
                  /\ k - Len(N) \in DOMAIN Tail(T) /\ U[k] = Tail(T)[k - Len(N)]
    <2>1. k \in 1..(Len(N) + (Len(T) - 1))
      BY <1>4
    <2>2. CASE k <= Len(N)
      BY <1>2, <1>4, <2>1, <2>2
    <2>3. CASE ~(k <= Len(N))
      <3>1. k - Len(N) \in 1..(Len(T) - 1)
        BY <1>2, <2>1, <2>3
      <3>2. U[k] = Tail(T)[k - Len(N)]
        BY <1>4, <2>1, <2>3
      <3>3. U[k] = T[(k - Len(N)) + 1]
        BY <1>3, <3>1, <3>2
      <3>4. (k - Len(N)) + 1 \in 1..Len(T) /\ (k - Len(N)) + 1 # 1 /\ k \notin 1..Len(N)
        BY <1>2, <2>1, <2>3
      <3> QED  BY <1>2, <1>3, <3>1, <3>2, <3>3, <3>4
    <2> QED  BY <2>2, <2>3
  <1>6. ASSUME NEW k \in DOMAIN N PROVE k \in DOMAIN U /\ U[k] = N[k]
    BY <1>2, <1>4
  <1>7. ASSUME NEW k \in DOMAIN Tail(T) PROVE k + Len(N) \in DOMAIN U /\ U[k + Len(N)] = Tail(T)[k]
    <2>1. k \in 1..(Len(T) - 1)
      BY <1>3
    <2>2. k + Len(N) \in 1..(Len(N) + (Len(T) - 1)) /\ ~(k + Len(N) <= Len(N))
          /\ (k + Len(N)) - Len(N) = k
      BY <1>2, <2>1
    <2> QED  BY <1>4, <2>2
  <1>8. ASSUME NEW x PROVE x \in Range(U) <=> x \in Range(N) \/ x \in Range(Tail(T))
    BY <1>5, <1>6, <1>7 DEF Range
  <1>9. IsSeq(U)
    <2>1. U = [i \in 1..Len(U) |-> U[i]] /\ Len(U) \in Nat /\ DOMAIN U = 1..Len(U)
      BY <1>4
    <2>2. \A i \in 1..Len(U) : U[i] \in Range(U)
      BY <2>1 DEF Range
    <2> QED  BY <2>1, <2>2 DEF IsSeq
  <1>10. 1 \in DOMAIN T /\ T[1] = Head(T)
    BY <1>1, <1>2
  <1>11. ASSUME NEW x PROVE x \in Range(T) <=> x = Head(T) \/ x \in Range(Tail(T))
    <2>1. ASSUME NEW i \in DOMAIN T, i # 1 PROVE T[i] \in Range(Tail(T))
      <3>1. i - 1 \in 1..(Len(T) - 1) /\ (i - 1) + 1 = i
        BY <1>2, <2>1
      <3>2. Tail(T)[i - 1] = T[i]
        BY <1>3, <3>1
      <3> QED  BY <1>3, <3>1, <3>2 DEF Range
    <2>2. ASSUME NEW i \in DOMAIN Tail(T) PROVE Tail(T)[i] \in Range(T)
      <3>1. i + 1 \in 1..Len(T)
        BY <1>2, <1>3
      <3> QED  BY <1>2, <1>3, <3>1 DEF Range
    <2> QED  BY <1>10, <2>1, <2>2 DEF Range
  <1>12. DOMAIN T \subseteq Nat
    BY <1>2
  <1> QED  BY <1>2, <1>5, <1>8, <1>9, <1>10, <1>11, <1>12 DEF U

LEMMA EmptySeq == IsSeq(<<>>) /\ DOMAIN <<>> = {} /\ Range(<<>>) = {}
  BY DEF IsSeq, Range

LEMMA TailIsReplaced ==
  ASSUME NEW T, IsSeq(T), T # <<>>
  PROVE  <<>> \o Tail(T) = Tail(T)
  <1>1. T \in Seq(Range(T))
    BY DEF IsSeq
  <1> QED  BY <1>1

LEMMA Appended ==
  ASSUME NEW s, IsSeq(s), NEW x
  PROVE  LET u == Append(s, x)
         IN  /\ IsSeq(u) /\ Len(u) = Len(s) + 1 /\ Len(s) \in Nat
             /\ DOMAIN u = DOMAIN s \cup {Len(s) + 1} /\ Len(s) + 1 \notin DOMAIN s
             /\ \A i \in DOMAIN s : u[i] = s[i]
             /\ u[Len(s) + 1] = x
  <1> DEFINE u == Append(s, x)
             S == Range(s) \cup {x}
  <1>1. s \in Seq(S)
    BY DEF IsSeq
  <1>2. x \in S
    OBVIOUS
  <1> HIDE DEF S
  <1>3. Len(s) \in Nat /\ DOMAIN s = 1..Len(s)
    BY <1>1
  <1>4. /\ u \in Seq(S) /\ Len(u) = Len(s) + 1 /\ DOMAIN u = 1..(Len(s) + 1)
        /\ \A i \in 1..Len(s) : u[i] = s[i]
        /\ u[Len(s) + 1] = x
    BY <1>1, <1>2, <1>3
  <1> HIDE DEF u
  <1>5. IsSeq(u)
    <2>1. u = [i \in 1..Len(u) |-> u[i]] /\ Len(u) \in Nat /\ DOMAIN u = 1..Len(u)
      BY <1>4
    <2>2. \A i \in 1..Len(u) : u[i] \in Range(u)
      BY <2>1 DEF Range
    <2> QED  BY <2>1, <2>2 DEF IsSeq
  <1>6. DOMAIN u = DOMAIN s \cup {Len(s) + 1} /\ Len(s) + 1 \notin DOMAIN s
    BY <1>3, <1>4
  <1> QED  BY <1>3, <1>4, <1>5, <1>6 DEF u

LEMMA ClaimsSplit ==
  ASSUME NEW T, IsSeq(T), T # <<>>, NEW N, IsSeq(N), NEW I, NEW O,
         Claims(T, I, O), Shares(N, Head(T))
  PROVE  Claims(N \o Tail(T), I, O)
  <1> DEFINE U == N \o Tail(T)
  <1>1. \A k \in DOMAIN U :
           \/ k \in DOMAIN N /\ U[k] = N[k]
           \/ /\ k - Len(N) + 1 \in DOMAIN T \ {1}
              /\ U[k] = T[k - Len(N) + 1] /\ k \notin DOMAIN N
    BY Replaced
  <1>2. /\ 1 \in DOMAIN T /\ T[1] = Head(T) /\ Len(N) \in Nat /\ IsSeq(U)
        /\ DOMAIN T \subseteq Nat
    BY Replaced
  <1>3. DOMAIN U \subseteq Nat
    BY <1>2 DEF IsSeq
  <1> HIDE DEF U
  <1>4. ASSUME NEW k \in DOMAIN U, NEW c, Owns(U[k], c)
        PROVE  \E i \in DOMAIN T : Owns(T[i], c)
    BY <1>1, <1>2, <1>4 DEF Shares
  <1>5. ASSUME NEW k \in DOMAIN U, NEW l \in DOMAIN U, NEW c, Owns(U[k], c), Owns(U[l], c)
        PROVE  k = l
    <2>1. CASE k \in DOMAIN N /\ l \in DOMAIN N
      <3>1. U[k] = N[k] /\ U[l] = N[l]
        BY <1>1, <2>1
      <3> QED  BY <1>5, <2>1, <3>1 DEF Shares
    <2>2. CASE k \in DOMAIN N /\ l \notin DOMAIN N
      <3>1. U[k] = N[k] /\ l - Len(N) + 1 \in DOMAIN T \ {1} /\ U[l] = T[l - Len(N) + 1]
        BY <1>1, <2>2
      <3>2. Owns(T[1], c)
        BY <1>2, <1>5, <2>2, <3>1 DEF Shares
      <3> QED  BY <1>2, <1>5, <3>1, <3>2 DEF Claims
    <2>3. CASE k \notin DOMAIN N /\ l \in DOMAIN N
      <3>1. U[l] = N[l] /\ k - Len(N) + 1 \in DOMAIN T \ {1} /\ U[k] = T[k - Len(N) + 1]
        BY <1>1, <2>3
      <3>2. Owns(T[1], c)
        BY <1>2, <1>5, <2>3, <3>1 DEF Shares
      <3> QED  BY <1>2, <1>5, <3>1, <3>2 DEF Claims
    <2>4. CASE k \notin DOMAIN N /\ l \notin DOMAIN N
      <3>1. /\ k - Len(N) + 1 \in DOMAIN T /\ U[k] = T[k - Len(N) + 1]
            /\ l - Len(N) + 1 \in DOMAIN T /\ U[l] = T[l - Len(N) + 1]
        BY <1>1, <2>4
      <3>2. k - Len(N) + 1 = l - Len(N) + 1
        BY <1>5, <3>1 DEF Claims
      <3> QED  BY <1>2, <1>3, <3>2
    <2> QED  BY <2>1, <2>2, <2>3, <2>4
  <1>6. \A k \in DOMAIN U : \A i \in DOMAIN I : ~Owns(U[k], CellOf(I[i]))
    BY <1>4 DEF Claims
  <1>7. \A k \in DOMAIN U : \A o \in O : ~Owns(U[k], DirCell(o))
    BY <1>4 DEF Claims
  <1> QED  BY <1>5, <1>6, <1>7 DEF Claims, U

LEMMA ClaimsEmit ==
  ASSUME NEW T, IsSeq(T), T # <<>>, NEW I, IsSeq(I), NEW O, NEW it,
         Claims(T, I, O), Owns(Head(T), CellOf(it))
  PROVE  Claims(Tail(T), Append(I, it), O)
  <1> DEFINE U == Tail(T)
             K == Append(I, it)
             N == <<>>
  <1>1. Claims(U, I, O)
    <2>1. Shares(N, Head(T))
      BY DEF Shares
    <2> HIDE DEF N
    <2>2. Claims(N \o Tail(T), I, O)
      BY <2>1, EmptySeq, ClaimsSplit DEF N
    <2> QED  BY <2>2, TailIsReplaced DEF N
  <1>2. \A k \in DOMAIN U : \E l \in DOMAIN T \ {1} : U[k] = T[l]
    <2>1. T \in Seq(Range(T)) /\ Len(T) \in Nat /\ Len(T) # 0 /\ DOMAIN T = 1..Len(T)
      BY DEF IsSeq
    <2>2. DOMAIN U = 1..(Len(T) - 1) /\ \A k \in 1..(Len(T) - 1) : U[k] = T[k + 1]
      BY <2>1
    <2>3. \A k \in 1..(Len(T) - 1) : k + 1 \in DOMAIN T \ {1}
      BY <2>1
    <2> HIDE DEF U
    <2> QED  BY <2>2, <2>3
  <1>3. 1 \in DOMAIN T /\ T[1] = Head(T)
    BY EmptySeq, Replaced
  <1>4. \A k \in DOMAIN U : ~Owns(U[k], CellOf(it))
    BY <1>2, <1>3 DEF Claims
  <1>5. \A i \in DOMAIN I : CellOf(I[i]) # CellOf(it)
    BY <1>3 DEF Claims
  <1>6. /\ DOMAIN K = DOMAIN I \cup {Len(I) + 1} /\ \A i \in DOMAIN I : K[i] = I[i]
        /\ K[Len(I) + 1] = it
    BY Appended
  <1> HIDE DEF U, K
  <1>7. /\ \A k \in DOMAIN U : \A i \in DOMAIN K : ~Owns(U[k], CellOf(K[i]))
        /\ \A i, j \in DOMAIN K : CellOf(K[i]) = CellOf(K[j]) => i = j
    BY <1>1, <1>4, <1>5, <1>6 DEF Claims
  <1> QED  BY <1>1, <1>7 DEF Claims, U, K

LEMMA ClaimsOpen ==
  ASSUME NEW T, IsSeq(T), T # <<>>, NEW N, IsSeq(N), NEW I, NEW O, NEW o,
         Claims(T, I, O), Shares(N, Head(T)), Owns(Head(T), DirCell(o)),
         \A k \in DOMAIN N : ~Owns(N[k], DirCell(o))
  PROVE  Claims(N \o Tail(T), I, O \cup {o})
  <1> DEFINE U == N \o Tail(T)
  <1>1. Claims(U, I, O)
    BY ClaimsSplit
  <1>2. \A k \in DOMAIN U :
           \/ k \in DOMAIN N /\ U[k] = N[k]
           \/ /\ k - Len(N) + 1 \in DOMAIN T \ {1}
              /\ U[k] = T[k - Len(N) + 1] /\ k \notin DOMAIN N
    BY Replaced
  <1>3. 1 \in DOMAIN T /\ T[1] = Head(T)
    BY Replaced
  <1> HIDE DEF U
  <1>4. \A k \in DOMAIN U : ~Owns(U[k], DirCell(o))
    BY <1>2, <1>3 DEF Claims
  <1>5. \A q \in O : q.prefix # o.prefix
    <2>1. \A q \in O : q.prefix = o.prefix => DirCell(q) = DirCell(o)
      BY DEF DirCell
    <2> QED  BY <1>3, <2>1 DEF Claims
  <1>6. \A a, b \in O \cup {o} : a.prefix = b.prefix => a = b
    BY <1>5 DEF Claims
  <1>7. \A k \in DOMAIN U : \A q \in O \cup {o} : ~Owns(U[k], DirCell(q))
    BY <1>1, <1>4 DEF Claims
  <1> QED  BY <1>1, <1>6, <1>7 DEF Claims, U

-----------------------------------------------------------------------------
(* Rows, instances and what their jobs own.                                *)

GoodDir(o) == /\ IsDir(o.dir) /\ IsSeq(o.prefix)
              /\ o = [dir |-> o.dir, prefix |-> o.prefix]

\* metaCount counts the instances that Terraform creates.
LEMMA CountCreated ==
  ASSUME NEW m, IsMeta(m.meta)
  PROVE  metaCount(m) = Created(m) /\ metaCount(m) \in Nat
  <1>1. CASE m.meta.kind = "none" \/ m.meta.n = Unknown
    <2>1. metaCount(m) = 1
      BY <1>1 DEF metaCount
    <2> QED  BY <1>1, <2>1 DEF Created
  <1>2. CASE ~(m.meta.kind = "none" \/ m.meta.n = Unknown)
    <2> DEFINE n == m.meta.n
    <2>1. n \in Int
      BY <1>2 DEF IsMeta
    <2>2. metaCount(m) = IF n < 1 THEN 0 ELSE n
      BY <1>2 DEF metaCount
    <2>3. Created(m) = IF n < 0 THEN 0 ELSE n
      BY <1>2 DEF Created
    <2> HIDE DEF n
    <2> QED  BY <2>1, <2>2, <2>3
  <1> QED  BY <1>1, <1>2

LEMMA RowFacts ==
  ASSUME NEW r, IsMeta(r.meta)
  PROVE  /\ Keyed(r) => /\ metaCount(r) > 0 /\ IsSeq(r.meta.items)
                        /\ \A i, j \in DOMAIN r.meta.items :
                              r.meta.items[i][1] = r.meta.items[j][1] => i = j
                        /\ \A row \in Rows(r) : \E i \in DOMAIN r.meta.items :
                              row = [key |-> <<r.meta.items[i][1]>>,
                                     each |-> r.meta.items[i][2], n |-> 1]
                        /\ \A i \in DOMAIN r.meta.items :
                              [key |-> <<r.meta.items[i][1]>>,
                               each |-> r.meta.items[i][2], n |-> 1] \in Rows(r)
         /\ ~Keyed(r) => Rows(r) = {[key |-> <<>>, each |-> Unknown, n |-> metaCount(r)]}
         /\ \A a, b \in Rows(r) : a.key = b.key => a = b
         /\ \A a \in Rows(r) : a.n \in Nat /\ a = [key |-> a.key, each |-> a.each, n |-> a.n]
  <1> DEFINE s == r.meta.items
             row(i) == [key |-> <<s[i][1]>>, each |-> s[i][2], n |-> 1]
  <1>1. metaCount(r) = Created(r) /\ metaCount(r) \in Nat
    BY CountCreated
  <1>2. ~Keyed(r) => Rows(r) = {[key |-> <<>>, each |-> Unknown, n |-> metaCount(r)]}
    BY <1>1 DEF Rows
  <1>3. ASSUME Keyed(r)
        PROVE  /\ metaCount(r) > 0 /\ IsSeq(s)
               /\ \A i, j \in DOMAIN s : s[i][1] = s[j][1] => i = j
    <2>1. /\ r.meta.kind = "for_each" /\ s # Unknown /\ s # <<>> /\ IsSeq(s)
          /\ r.meta.n = Len(s) /\ Distinct(s, LAMBDA x : x[1])
      BY <1>3 DEF Keyed, Expands, IsMeta
    <2>2. \A i, j \in DOMAIN s : s[i][1] = s[j][1] => i = j
      BY <2>1 DEF Distinct
    <2>3. Len(s) \in Nat /\ Len(s) # 0
      BY <2>1 DEF IsSeq
    <2>4. metaCount(r) > 0
      BY <2>1, <2>3 DEF metaCount
    <2> QED  BY <2>1, <2>2, <2>4
  <1>4. ASSUME Keyed(r) PROVE \A a \in Rows(r) : \E i \in DOMAIN s : a = row(i)
    BY <1>4 DEF Rows, Range
  <1>5. ASSUME Keyed(r) PROVE \A i \in DOMAIN s : row(i) \in Rows(r)
    BY <1>5 DEF Rows, Range
  <1>6. ASSUME NEW a \in Rows(r), NEW b \in Rows(r), a.key = b.key PROVE a = b
    <2>1. CASE Keyed(r)
      <3>1. PICK i \in DOMAIN s : a = row(i)
        BY <1>4, <2>1
      <3>2. PICK j \in DOMAIN s : b = row(j)
        BY <1>4, <2>1
      <3>3. a.key = <<s[i][1]>> /\ b.key = <<s[j][1]>>
        BY <3>1, <3>2
      <3>4. a.key[1] = s[i][1] /\ b.key[1] = s[j][1]
        BY <3>3
      <3>5. i = j
        BY <1>3, <1>6, <2>1, <3>4
      <3> QED  BY <3>1, <3>2, <3>5
    <2> QED  BY <1>2, <2>1
  <1>7. ASSUME NEW a \in Rows(r) PROVE a.n \in Nat /\ a = [key |-> a.key, each |-> a.each, n |-> a.n]
    <2>1. CASE Keyed(r)
      <3>1. PICK i \in DOMAIN s : a = row(i)
        BY <1>4, <2>1
      <3> QED  BY <3>1
    <2> QED  BY <1>1, <1>2, <2>1
  <1> QED  BY <1>2, <1>3, <1>4, <1>5, <1>6, <1>7

\* An address is that of one place.
LEMMA HereOnce ==
  ASSUME NEW O, \A o, q \in O : o.prefix = q.prefix => o = q,
         NEW o \in O, IsDir(o.dir), NEW r \in Range(o.dir.resources), NEW a \in Rows(r),
         NEW q \in O, NEW s \in Range(q.dir.resources), NEW b \in Rows(s),
         Here(o, r, a) = Here(q, s, b)
  PROVE  o = q /\ r = s /\ a = b
  <1>1. o.prefix = q.prefix /\ Addr(r) = Addr(s) /\ a.key = b.key
    BY DEF Here, At
  <1>2. o = q
    BY <1>1
  <1>3. r = s
    BY <1>1, <1>2 DEF IsDir, Distinct, Range
  <1>4. IsMeta(r.meta)
    BY DEF IsDir, IsResource
  <1> QED  BY <1>1, <1>2, <1>3, <1>4, RowFacts

LEMMA SharesRows ==
  ASSUME NEW o, NEW r, IsMeta(r.meta), Keyed(r)
  PROVE  LET N == [i \in DOMAIN r.meta.items |->
                      RowOf(ResourceJob(o, r), <<r.meta.items[i][1]>>, r.meta.items[i][2], 1)]
         IN  /\ IsSeq(N) /\ Shares(N, ResourceJob(o, r))
             /\ \A row \in Rows(r) : RowJob(o, r, row) \in Range(N)
             /\ \A j \in Range(N) : \E row \in Rows(r) : j = RowJob(o, r, row) /\ row.n > 0
  <1> DEFINE s == r.meta.items
             row(i) == [key |-> <<s[i][1]>>, each |-> s[i][2], n |-> 1]
             N == [i \in DOMAIN s |-> RowOf(ResourceJob(o, r), <<s[i][1]>>, s[i][2], 1)]
  <1>1. /\ IsSeq(s) /\ \A i, j \in DOMAIN s : s[i][1] = s[j][1] => i = j
        /\ \A a \in Rows(r) : \E i \in DOMAIN s : a = row(i)
        /\ \A i \in DOMAIN s : row(i) \in Rows(r)
    BY RowFacts
  <1>2. \A i \in DOMAIN s : N[i] = RowJob(o, r, row(i))
    BY DEF RowOf, RowJob, ResourceJob
  <1>3. DOMAIN N = DOMAIN s
    OBVIOUS
  <1>4. IsSeq(N)
    <2>1. Len(s) \in Nat /\ DOMAIN s = 1..Len(s)
      BY <1>1 DEF IsSeq
    <2>2. N = [i \in 1..Len(s) |-> N[i]] /\ \A i \in 1..Len(s) : N[i] \in Range(N)
      BY <2>1 DEF Range
    <2> HIDE DEF N, s
    <2> QED  BY <2>1, <2>2 DEF IsSeq
  <1>5. ASSUME NEW i \in DOMAIN s, NEW c, Owns(N[i], c)
        PROVE  Owns(ResourceJob(o, r), c) /\ c.addr.key = <<s[i][1]>>
    <2>1. N[i].do = "row" /\ N[i].prefix = o.prefix /\ N[i].r = r /\ N[i].key = <<s[i][1]>>
      <3>1. N[i] = RowJob(o, r, row(i)) /\ row(i).key = <<s[i][1]>>
        BY <1>2
      <3> HIDE DEF N, row
      <3> QED  BY <3>1 DEF RowJob
    <2> HIDE DEF N
    <2>2. c.addr = At(o.prefix, Addr(r), <<s[i][1]>>)
      BY <1>5, <2>1 DEF Owns
    <2> QED  BY <2>2 DEF Owns, At, ResourceJob
  <1>6. ASSUME NEW i \in DOMAIN s, NEW j \in DOMAIN s, NEW c, Owns(N[i], c), Owns(N[j], c)
        PROVE  i = j
    <2>1. <<s[i][1]>> = <<s[j][1]>>
      BY <1>5, <1>6
    <2>2. <<s[i][1]>>[1] = s[i][1] /\ <<s[j][1]>>[1] = s[j][1]
      OBVIOUS
    <2> QED  BY <1>1, <2>1, <2>2
  <1> HIDE DEF N
  <1>7. Shares(N, ResourceJob(o, r))
    BY <1>3, <1>5, <1>6 DEF Shares
  <1>8. \A a \in Rows(r) : RowJob(o, r, a) \in Range(N)
    BY <1>1, <1>2, <1>3 DEF Range
  <1>9. ASSUME NEW j \in Range(N) PROVE \E a \in Rows(r) : j = RowJob(o, r, a) /\ a.n > 0
    <2>1. PICK i \in DOMAIN s : j = N[i]
      BY <1>3 DEF Range
    <2>2. row(i).n > 0
      OBVIOUS
    <2> QED  BY <1>1, <1>2, <2>1, <2>2
  <1> QED  BY <1>4, <1>7, <1>8, <1>9 DEF N

LEMMA SharesRow ==
  ASSUME NEW o, NEW r, NEW row
  PROVE  LET N == <<RowJob(o, r, row)>>
         IN  /\ IsSeq(N) /\ Range(N) = {RowJob(o, r, row)} /\ Shares(N, ResourceJob(o, r))
  <1> DEFINE j == RowJob(o, r, row)
             N == <<j>>
  <1>1. DOMAIN N = {1} /\ N[1] = j /\ Range(N) = {j}
    BY DEF Range
  <1>2. IsSeq(N)
    BY DEF IsSeq, Range
  <1>3. ASSUME NEW c, Owns(j, c) PROVE Owns(ResourceJob(o, r), c)
    <2>1. c.addr = At(o.prefix, Addr(r), row.key)
      BY <1>3 DEF Owns, RowJob
    <2> QED  BY <2>1 DEF Owns, At, ResourceJob
  <1> QED  BY <1>1, <1>2, <1>3 DEF Shares

LEMMA SharesLines ==
  ASSUME NEW o, NEW r, NEW row, NEW N,
         \A i \in DOMAIN N : N[i].do = "lookup" /\ N[i].addr = Here(o, r, row) /\ N[i].nth = i
  PROVE  Shares(N, RowJob(o, r, row))
  <1>1. ASSUME NEW i \in DOMAIN N, NEW c, Owns(N[i], c)
        PROVE  c.nth = i /\ c.addr = Here(o, r, row)
    BY <1>1 DEF Owns
  <1>2. ASSUME NEW c, c.addr = Here(o, r, row) PROVE Owns(RowJob(o, r, row), c)
    BY <1>2 DEF Owns, RowJob, Here
  <1> QED  BY <1>1, <1>2 DEF Shares

LEMMA StartsFacts ==
  ASSUME NEW q, IsSeq(q)
  PROVE  /\ Starts(q, q)
         /\ \A x, prefix : Starts(Append(q, x), prefix) =>
               /\ Starts(q, prefix) /\ Len(q) + 1 <= Len(prefix) /\ prefix[Len(q) + 1] = x
  <1>1. Len(q) \in Nat
    BY DEF IsSeq
  <1>2. ASSUME NEW x, NEW prefix, Starts(Append(q, x), prefix)
        PROVE  /\ Starts(q, prefix) /\ Len(q) + 1 <= Len(prefix) /\ prefix[Len(q) + 1] = x
    <2> DEFINE u == Append(q, x)
    <2>1. /\ Len(u) = Len(q) + 1 /\ DOMAIN u = DOMAIN q \cup {Len(q) + 1}
          /\ \A i \in DOMAIN q : u[i] = q[i]
          /\ u[Len(q) + 1] = x
      BY Appended
    <2> HIDE DEF u
    <2>2. Len(u) <= Len(prefix) /\ \A i \in DOMAIN u : prefix[i] = u[i]
      BY <1>2 DEF Starts, u
    <2>3. Len(q) <= Len(prefix)
      <3>1. Len(q) + 1 <= Len(prefix)
        BY <2>1, <2>2
      <3> QED  BY <1>1, <3>1
    <2> QED  BY <2>1, <2>2, <2>3 DEF Starts
  <1> QED  BY <1>1, <1>2 DEF Starts

LEMMA InstanceFacts ==
  ASSUME NEW m, IsMeta(m.meta), NEW q, IsSeq(q)
  PROVE  LET at == Instances(m, q)
         IN  /\ IsSeq(at) /\ \A x \in Range(at) : IsSeq(x)
             /\ \A i \in DOMAIN at : \A prefix : Starts(at[i], prefix) =>
                   Under(q, m.name, prefix)
             /\ \A i, j \in DOMAIN at : \A prefix :
                   Starts(at[i], prefix) /\ Starts(at[j], prefix) => i = j
  <1> DEFINE at == Instances(m, q)
             s == m.meta.items
  <1>1. \A x : IsSeq(Append(q, x))
    BY Appended
  <1>2. \A x, prefix : Starts(Append(q, x), prefix) =>
               /\ Starts(q, prefix) /\ Len(q) + 1 <= Len(prefix) /\ prefix[Len(q) + 1] = x
    BY StartsFacts
  <1>3. Len(q) \in Nat
    BY DEF IsSeq
  <1>4. \A x, prefix : Starts(Append(q, x), prefix) /\ x[1] = m.name => Under(q, m.name, prefix)
    <2>1. \A prefix : Len(q) + 1 <= Len(prefix) => Len(q) < Len(prefix)
      BY <1>3
    <2> QED  BY <1>2, <2>1 DEF Under
  <1>5. CASE Keyed(m)
    <2>1. at = [i \in DOMAIN s |-> Append(q, <<m.name, s[i][1]>>)]
      BY <1>5 DEF Instances
    <2>2. IsSeq(s) /\ \A i, j \in DOMAIN s : s[i][1] = s[j][1] => i = j
      BY <1>5, RowFacts
    <2> HIDE DEF at, s
    <2>3. IsSeq(at)
      <3>1. Len(s) \in Nat /\ DOMAIN s = 1..Len(s)
        BY <2>2 DEF IsSeq
      <3>2. at = [i \in 1..Len(s) |-> at[i]] /\ \A i \in 1..Len(s) : at[i] \in Range(at)
        BY <2>1, <3>1 DEF Range
      <3> QED  BY <3>1, <3>2 DEF IsSeq
    <2>4. DOMAIN at = DOMAIN s /\ \A i \in DOMAIN s : at[i] = Append(q, <<m.name, s[i][1]>>)
      BY <2>1
    <2>5. \A x \in Range(at) : IsSeq(x)
      BY <1>1, <2>4 DEF Range
    <2>6. ASSUME NEW i \in DOMAIN s, NEW prefix, Starts(at[i], prefix)
          PROVE  Under(q, m.name, prefix) /\ prefix[Len(q) + 1][2] = s[i][1]
      <3>1. Starts(Append(q, <<m.name, s[i][1]>>), prefix)
        BY <2>4, <2>6
      <3>2. <<m.name, s[i][1]>>[1] = m.name /\ <<m.name, s[i][1]>>[2] = s[i][1]
        OBVIOUS
      <3> QED  BY <1>2, <1>4, <3>1, <3>2
    <2>7. \A i, j \in DOMAIN s : \A prefix : Starts(at[i], prefix) /\ Starts(at[j], prefix) => i = j
      BY <2>2, <2>6
    <2> QED  BY <2>3, <2>4, <2>5, <2>6, <2>7 DEF at
  <1>6. CASE ~Keyed(m)
    <2>1. at = <<Append(q, <<m.name>>)>>
      BY <1>6 DEF Instances
    <2> HIDE DEF at
    <2>2. DOMAIN at = {1} /\ at[1] = Append(q, <<m.name>>) /\ IsSeq(at)
          /\ \A x \in Range(at) : x = at[1]
      BY <2>1 DEF IsSeq, Range
    <2>3. <<m.name>>[1] = m.name
      OBVIOUS
    <2>4. \A prefix : Starts(at[1], prefix) => Under(q, m.name, prefix)
      BY <1>4, <2>2, <2>3
    <2>5. \A x \in Range(at) : IsSeq(x)
      BY <1>1, <2>2
    <2> QED  BY <2>2, <2>4, <2>5 DEF at
  <1> QED  BY <1>5, <1>6

LEMMA SharesModules ==
  ASSUME NEW o, NEW m, IsMeta(m.meta), IsSeq(o.prefix)
  PROVE  LET at == Instances(m, o.prefix)
             N  == [i \in DOMAIN at |-> [do |-> "module", m |-> m, prefix |-> at[i]]]
         IN  /\ IsSeq(N) /\ Shares(N, CallJob(o, m))
             /\ \A q \in Range(at) : ModuleJob(m, q) \in Range(N)
             /\ \A j \in Range(N) : \E q \in Range(at) : j = ModuleJob(m, q)
  <1> DEFINE at == Instances(m, o.prefix)
             N  == [i \in DOMAIN at |-> [do |-> "module", m |-> m, prefix |-> at[i]]]
  <1>1. /\ IsSeq(at)
        /\ \A i \in DOMAIN at : \A prefix : Starts(at[i], prefix) =>
              Under(o.prefix, m.name, prefix)
        /\ \A i, j \in DOMAIN at : \A prefix :
              Starts(at[i], prefix) /\ Starts(at[j], prefix) => i = j
    BY InstanceFacts
  <1>2. DOMAIN N = DOMAIN at /\ \A i \in DOMAIN at : N[i] = ModuleJob(m, at[i])
    BY DEF ModuleJob
  <1> HIDE DEF at
  <1>3. IsSeq(N)
    <2>1. Len(at) \in Nat /\ DOMAIN at = 1..Len(at)
      BY <1>1 DEF IsSeq
    <2>2. N = [i \in 1..Len(at) |-> N[i]] /\ \A i \in 1..Len(at) : N[i] \in Range(N)
      BY <2>1 DEF Range
    <2> HIDE DEF N
    <2> QED  BY <2>1, <2>2 DEF IsSeq
  <1> HIDE DEF N
  <1>4. ASSUME NEW i \in DOMAIN at, NEW c, Owns(N[i], c)
        PROVE  Starts(at[i], c.addr.prefix) /\ Owns(CallJob(o, m), c)
    <2>1. Starts(at[i], c.addr.prefix)
      BY <1>2, <1>4 DEF Owns, ModuleJob
    <2> QED  BY <1>1, <2>1 DEF Owns, CallJob
  <1>5. Shares(N, CallJob(o, m))
    BY <1>1, <1>2, <1>4 DEF Shares
  <1>6. \A q \in Range(at) : ModuleJob(m, q) \in Range(N)
    BY <1>2 DEF Range
  <1>7. \A j \in Range(N) : \E q \in Range(at) : j = ModuleJob(m, q)
    BY <1>2 DEF Range
  <1> QED  BY <1>3, <1>5, <1>6, <1>7 DEF N, at

\* The work on a directory.
LEMMA SharesDir ==
  ASSUME NEW d, IsDir(d), NEW q, IsSeq(q), NEW m
  PROVE  LET N == priceDir(d, q)
             o == [dir |-> d, prefix |-> q]
         IN  /\ IsSeq(N) /\ Shares(N, ModuleJob(m, q))
             /\ \A k \in DOMAIN N : ~Owns(N[k], DirCell(o))
             /\ \A r \in Range(d.resources) : ResourceJob(o, r) \in Range(N)
             /\ \A x \in Range(d.modules) : CallJob(o, x) \in Range(N)
             /\ \A j \in Range(N) : \/ \E r \in Range(d.resources) : j = ResourceJob(o, r)
                                    \/ \E x \in Range(d.modules) : j = CallJob(o, x)
  <1> DEFINE N == priceDir(d, q)
             o == [dir |-> d, prefix |-> q]
             R == d.resources
             M == d.modules
             A == [i \in DOMAIN R |-> [do |-> "resource", r |-> R[i], dir |-> d, prefix |-> q]]
             B == [i \in DOMAIN M |-> [do |-> "call", m |-> M[i], prefix |-> q]]
  <1>1. /\ Len(R) \in Nat /\ DOMAIN R = 1..Len(R) /\ Len(M) \in Nat /\ DOMAIN M = 1..Len(M)
    BY SeqDomain DEF IsDir
  <1>2. \A i \in DOMAIN R : A[i] = ResourceJob(o, R[i])
    BY DEF ResourceJob
  <1>3. \A i \in DOMAIN M : B[i] = CallJob(o, M[i])
    BY DEF CallJob
  <1>4. /\ \A i, j \in DOMAIN R : Addr(R[i]) = Addr(R[j]) => i = j
        /\ \A i, j \in DOMAIN M : M[i].name = M[j].name => i = j
    BY DEF IsDir, Distinct
  <1> DEFINE S == Range(A) \cup Range(B)
  <1>5. A = [i \in 1..Len(R) |-> A[i]] /\ B = [i \in 1..Len(M) |-> B[i]]
    BY <1>1
  <1>6. N = A \o B
    BY DEF priceDir
  <1>7. o.dir = d /\ o.prefix = q
    OBVIOUS
  <1> HIDE DEF R, M, A, B, N, o
  <1>8. A \in Seq(S) /\ B \in Seq(S)
    <2>1. \A i \in 1..Len(R) : A[i] \in S
      BY <1>5 DEF Range
    <2>2. \A i \in 1..Len(M) : B[i] \in S
      BY <1>5 DEF Range
    <2> HIDE DEF S
    <2> QED  BY <1>1, <1>5, <2>1, <2>2
  <1> HIDE DEF S
  <1>9. DOMAIN A = 1..Len(R) /\ DOMAIN B = 1..Len(M) /\ Len(A) = Len(R) /\ Len(B) = Len(M)
    <2>1. DOMAIN A = 1..Len(R)
      BY <1>5
    <2>2. DOMAIN B = 1..Len(M)
      BY <1>5
    <2> QED  BY <1>1, <1>8, <2>1, <2>2
  <1>10. /\ N \in Seq(S) /\ DOMAIN N = 1..(Len(R) + Len(M)) /\ Len(N) = Len(R) + Len(M)
         /\ \A k \in 1..(Len(R) + Len(M)) : N[k] = IF k <= Len(R) THEN A[k] ELSE B[k - Len(R)]
    <2>1. A \o B \in Seq(S) /\ Len(A \o B) = Len(A) + Len(B)
      BY <1>8
    <2>2. \A k \in 1..(Len(A) + Len(B)) :
             (A \o B)[k] = IF k <= Len(A) THEN A[k] ELSE B[k - Len(A)]
      BY <1>8
    <2>3. DOMAIN (A \o B) = 1..Len(A \o B)
      BY <2>1
    <2> QED  BY <1>6, <1>9, <2>1, <2>2, <2>3
  <1>11. ASSUME NEW k \in DOMAIN N
         PROVE  \/ k \in DOMAIN R /\ N[k] = ResourceJob(o, R[k])
                \/ k - Len(R) \in DOMAIN M /\ N[k] = CallJob(o, M[k - Len(R)])
    <2>1. k \in 1..(Len(R) + Len(M))
      BY <1>10
    <2>2. CASE k <= Len(R)
      <3>1. k \in 1..Len(R)
        BY <1>1, <2>1, <2>2
      <3> QED  BY <1>1, <1>2, <1>10, <2>1, <2>2, <3>1
    <2>3. CASE ~(k <= Len(R))
      <3>1. k - Len(R) \in 1..Len(M)
        BY <1>1, <2>1, <2>3
      <3> QED  BY <1>1, <1>3, <1>10, <2>1, <2>3, <3>1
    <2> QED  BY <2>2, <2>3
  <1>12. ASSUME NEW i \in DOMAIN R PROVE i \in DOMAIN N /\ N[i] = ResourceJob(o, R[i])
    <2>1. i \in 1..(Len(R) + Len(M)) /\ i <= Len(R)
      BY <1>1
    <2> QED  BY <1>2, <1>10, <2>1
  <1>13. ASSUME NEW i \in DOMAIN M
         PROVE  Len(R) + i \in DOMAIN N /\ N[Len(R) + i] = CallJob(o, M[i])
    <2>1. Len(R) + i \in 1..(Len(R) + Len(M)) /\ ~(Len(R) + i <= Len(R))
          /\ (Len(R) + i) - Len(R) = i
      BY <1>1
    <2> QED  BY <1>3, <1>10, <2>1
  <1>14. IsSeq(N)
    <2>1. N = [i \in 1..Len(N) |-> N[i]] /\ Len(N) \in Nat
      BY <1>10
    <2>2. \A i \in 1..Len(N) : N[i] \in Range(N)
      BY <1>10 DEF Range
    <2> QED  BY <2>1, <2>2 DEF IsSeq
  <1>15. \A r, c : Owns(ResourceJob(o, r), c) <=> c.addr.prefix = q /\ c.addr.r = Addr(r)
    BY <1>7 DEF Owns, ResourceJob
  <1>16. \A x, c : Owns(CallJob(o, x), c) <=> Under(q, x.name, c.addr.prefix)
    BY <1>7 DEF Owns, CallJob
  <1>17. \A c : Owns(ModuleJob(m, q), c) <=> Starts(q, c.addr.prefix)
    BY DEF Owns, ModuleJob
  <1>18. \A name : ~Under(q, name, q)
    <2>1. ~(Len(q) < Len(q))
      BY DEF IsSeq
    <2> QED  BY <2>1 DEF Under
  <1>19. \A name, prefix : Under(q, name, prefix) =>
            Starts(q, prefix) /\ prefix[Len(q) + 1][1] = name
    BY DEF Under
  <1>20. Starts(q, q)
    BY StartsFacts
  <1>21. ASSUME NEW k \in DOMAIN N, NEW c, Owns(N[k], c)
         PROVE  Owns(ModuleJob(m, q), c)
    BY <1>11, <1>15, <1>16, <1>17, <1>19, <1>20, <1>21
  <1>22. ASSUME NEW k \in DOMAIN N, NEW l \in DOMAIN N, NEW c, Owns(N[k], c), Owns(N[l], c)
         PROVE  k = l
    <2>1. CASE k \in DOMAIN R /\ N[k] = ResourceJob(o, R[k])
      <3>1. c.addr.prefix = q /\ c.addr.r = Addr(R[k])
        BY <1>15, <1>22, <2>1
      <3>2. l \in DOMAIN R /\ N[l] = ResourceJob(o, R[l])
        BY <1>11, <1>16, <1>18, <1>22, <3>1
      <3>3. c.addr.r = Addr(R[l])
        BY <1>15, <1>22, <3>2
      <3> QED  BY <1>4, <2>1, <3>1, <3>2, <3>3 DEF R
    <2>2. CASE k - Len(R) \in DOMAIN M /\ N[k] = CallJob(o, M[k - Len(R)])
      <3>1. Under(q, M[k - Len(R)].name, c.addr.prefix)
        BY <1>16, <1>22, <2>2
      <3>2. l - Len(R) \in DOMAIN M /\ N[l] = CallJob(o, M[l - Len(R)])
        BY <1>11, <1>15, <1>18, <1>22, <3>1
      <3>3. Under(q, M[l - Len(R)].name, c.addr.prefix)
        BY <1>16, <1>22, <3>2
      <3>4. M[k - Len(R)].name = M[l - Len(R)].name
        BY <1>19, <3>1, <3>3
      <3>5. k - Len(R) = l - Len(R)
        BY <1>4, <2>2, <3>2, <3>4 DEF M
      <3>6. k \in Nat /\ l \in Nat /\ Len(R) \in Nat
        BY <1>1, <1>10
      <3> QED  BY <3>5, <3>6
    <2> QED  BY <1>11, <2>1, <2>2
  <1>23. Shares(N, ModuleJob(m, q))
    BY <1>21, <1>22 DEF Shares
  <1>24. ASSUME NEW k \in DOMAIN N PROVE ~Owns(N[k], DirCell(o))
    <2>1. DirCell(o).addr.prefix = q /\ DirCell(o).addr.r = <<>>
      BY <1>7 DEF DirCell, At
    <2>2. \A r : Addr(r) # <<>>
      BY DEF Addr
    <2> QED  BY <1>11, <1>15, <1>16, <1>18, <2>1, <2>2
  <1>25. \A r \in Range(R) : ResourceJob(o, r) \in Range(N)
    BY <1>12 DEF Range
  <1>26. \A x \in Range(M) : CallJob(o, x) \in Range(N)
    BY <1>13 DEF Range
  <1>27. \A j \in Range(N) : \/ \E r \in Range(R) : j = ResourceJob(o, r)
                             \/ \E x \in Range(M) : j = CallJob(o, x)
    BY <1>11 DEF Range
  <1> QED  BY <1>14, <1>23, <1>24, <1>25, <1>26, <1>27 DEF N, o, R, M

-----------------------------------------------------------------------------
(* The lookups of a row.                                                   *)

LEMMA Products ==
  ASSUME NEW a \in Nat, NEW b \in Nat, NEW n \in Nat
  PROVE  /\ b * n \in Nat /\ (1 * b) * n \in Nat /\ (1 * b) * n = b * n /\ 1 * b = b
         /\ a * (b * n) = n * (a * b) /\ a * b \in Nat /\ a * (b * n) \in Nat
  <1>1. \A x, y \in Nat : x * y \in Nat
    OBVIOUS
  <1>2. \A x, y, z \in Nat : x * (y * z) = (x * y) * z /\ x * y = y * x
    OBVIOUS
  <1>3. 1 * b = b
    OBVIOUS
  <1>4. b * n \in Nat /\ a * b \in Nat
    BY <1>1
  <1>5. a * (b * n) \in Nat
    BY <1>1, <1>4
  <1>6. a * (b * n) = n * (a * b)
    BY <1>2, <1>4
  <1> QED  BY <1>3, <1>4, <1>5, <1>6

LEMMA Recount ==
  ASSUME NEW s, IsSpec(s), NEW c \in Nat
  PROVE  LET t == [s EXCEPT !.count = c]
         IN  /\ IsSpec(t) /\ t.count = c /\ t.service = s.service /\ t.filters = s.filters
             /\ t.qty = s.qty /\ t.flat = s.flat /\ t.global = s.global
  BY DEF IsSpec

OnceIn(p, dir, r) ==
    LET m      == MapResource(Bind(r, Unknown, {}), Bound(dir, Unknown, {}),
                              resourceRegion(dir, r, p.region))
        extras == ExtraSpecs(Bind(r, Unknown, {}))
    IN  IF m.specs = <<>> THEN <<>>
        ELSE m.specs \o [i \in DOMAIN extras |-> [extras[i] EXCEPT !.count = m.specs[1].count]]

\* An auto scaling group that is to be priced.
GroupPriced(o, r, row) ==
    /\ r.type = "aws_autoscaling_group" /\ row.n > 0
    /\ \E i \in DOMAIN ASGKeys : Given(r, ASGKeys[i])
    /\ Positive(Bind(r, row.each, {}), "desired_capacity")
    /\ TemplateTypes(o, r, row) # {} /\ Unknown \notin TemplateTypes(o, r, row)

\* What is billed for a place is its own.
Bills(p, nth, service, filters, times, o, r, row) ==
    /\ r.type = "aws_autoscaling_group" => filters["instanceType"] \in TemplateTypes(o, r, row)
    /\ ~DependsOn(o.dir) =>
          LET one == OnceIn(p, o.dir, r)
          IN  /\ nth \in DOMAIN one
              /\ filters = one[nth].filters /\ service = one[nth].service
              /\ times = row.n * (one[nth].qty * one[nth].count)

IsLookup(j, p, o, r, row) ==
    /\ j.do = "lookup" /\ j.addr = Here(o, r, row) /\ row.n > 0 /\ IsSpec(j.spec)
    /\ j.region \in {Global, InRegion(p, o, r)}
    /\ Bills(p, j.nth, j.spec.service, j.spec.filters, j.spec.qty * j.spec.count, o, r, row)

\* Nothing of the directory depends on the key or on what was read before.
LEMMA BindOnce ==
  ASSUME NEW dir, IsDir(dir), ~DependsOn(dir), NEW r \in Range(dir.resources), NEW each, NEW S
  PROVE  Bind(r, each, S) = Bind(r, Unknown, {})
  <1>1. \A key \in DOMAIN r.attrs : ~r.attrs[key].indexed /\ r.attrs[key].val # Each
    BY DEF DependsOn
  <1>2. \A key \in DOMAIN r.attrs : Resolved(r, key, each, S) = Resolved(r, key, Unknown, {})
    BY <1>1 DEF Resolved
  <1> QED  BY <1>2 DEF Bind

LEMMA BoundOnce ==
  ASSUME NEW dir, IsDir(dir), ~DependsOn(dir), NEW each, NEW S
  PROVE  Bound(dir, each, S) = Bound(dir, Unknown, {})
  <1>1. \A i \in DOMAIN dir.resources :
           Bind(dir.resources[i], each, S) = Bind(dir.resources[i], Unknown, {})
    BY BindOnce DEF Range
  <1> QED  BY <1>1 DEF Bound

\* The sequence of a line and the lines of the extras, each changed by F.
LEMMA JoinLines ==
  ASSUME NEW x, NEW e, IsSeq(e), NEW g, g = [i \in DOMAIN e |-> g[i]]
  PROVE  LET u == <<x>> \o g
         IN  /\ DOMAIN u = 1..(Len(e) + 1) /\ Len(e) \in Nat
             /\ u[1] = x
             /\ \A i \in DOMAIN u : i # 1 => i - 1 \in DOMAIN e /\ u[i] = g[i - 1]
  <1> DEFINE S == {x} \cup Range(g)
             u == <<x>> \o g
  <1>1. Len(e) \in Nat /\ DOMAIN e = 1..Len(e)
    BY DEF IsSeq
  <1>2. g = [i \in 1..Len(e) |-> g[i]]
    BY <1>1
  <1>3. DOMAIN g = 1..Len(e)
    BY <1>2
  <1>4. \A i \in 1..Len(e) : g[i] \in S
    BY <1>3 DEF Range
  <1>5. x \in S
    OBVIOUS
  <1> HIDE DEF S
  <1>6. g \in Seq(S)
    BY <1>1, <1>2, <1>4
  <1>7. <<x>> \in Seq(S) /\ Len(<<x>>) = 1 /\ <<x>>[1] = x
    BY <1>5
  <1>8. Len(g) = Len(e)
    BY <1>1, <1>3, <1>6
  <1>9. u \in Seq(S) /\ Len(u) = 1 + Len(e)
    BY <1>6, <1>7, <1>8
  <1>10. \A i \in 1..(1 + Len(e)) : u[i] = IF i <= 1 THEN <<x>>[i] ELSE g[i - 1]
    BY <1>6, <1>7, <1>8
  <1>11. DOMAIN u = 1..(Len(e) + 1)
    BY <1>1, <1>9
  <1> HIDE DEF u
  <1>12. u[1] = x
    BY <1>1, <1>7, <1>10
  <1>13. \A i \in DOMAIN u : i # 1 => i - 1 \in DOMAIN e /\ u[i] = g[i - 1]
    <2> SUFFICES ASSUME NEW i \in DOMAIN u, i # 1 PROVE i - 1 \in DOMAIN e /\ u[i] = g[i - 1]
      OBVIOUS
    <2>1. i \in 1..(1 + Len(e)) /\ ~(i <= 1) /\ i - 1 \in 1..Len(e)
      BY <1>1, <1>11
    <2> QED  BY <1>1, <1>10, <2>1
  <1> QED  BY <1>1, <1>11, <1>12, <1>13 DEF u

\* The lookups of a row, and what is owed for it.
LEMMA RowLookups ==
  ASSUME NEW o, GoodDir(o), NEW r \in Range(o.dir.resources), NEW row \in Rows(r), row.n > 0
  PROVE  LET j == RowJob(o, r, row)
             m == Mapped(j)
             N == Lookups(j)
         IN  /\ m.kind \in Kinds
             /\ m.specs = <<>> => /\ ~GroupPriced(o, r, row)
                                  /\ ~DependsOn(o.dir) => OnceIn(sc, o.dir, r) = <<>>
             /\ m.specs # <<>> =>
                   /\ IsSeq(N) /\ 1 \in DOMAIN N
                   /\ \A i \in DOMAIN N : N[i].nth = i /\ IsLookup(N[i], sc, o, r, row)
                   /\ ~DependsOn(o.dir) => DOMAIN OnceIn(sc, o.dir, r) = DOMAIN N
  <1> DEFINE j == RowJob(o, r, row)
             each == row.each
             S1 == Before(o.prefix, spent)
             S2 == Before(o.prefix, Reads(j))
             S3 == Before(o.prefix, spent \cup {<<o.prefix, Addr(r)>>})
             region == InRegion(sc, o, r)
             m == Mapped(j)
             b1 == Bind(r, each, S1)
             b2 == Bind(r, each, S2)
             c1 == Bound(o.dir, each, S1)
             e == ExtraSpecs(b2)
             s == Head(m.specs)
             n == row.n
             first == [s EXCEPT !.count = @ * n]
             more == [i \in DOMAIN e |-> Times(s, e[i], n)]
             lines == <<first>> \o more
             N == Lookups(j)
             job(i) == [do |-> "lookup", addr |-> Here(o, r, row), nth |-> i, spec |-> lines[i],
                        region |-> IF lines[i].global THEN Global ELSE region]
  <1>1. IsDir(o.dir) /\ IsResource(r) /\ n \in Nat
    <2>1. IsDir(o.dir) /\ IsResource(r) /\ IsMeta(r.meta)
      BY DEF GoodDir, IsDir, IsResource
    <2> QED  BY <2>1, RowFacts
  <1>2. /\ j.r = r /\ j.dir = o.dir /\ j.prefix = o.prefix /\ j.key = row.key
        /\ j.each = each /\ j.n = n
    BY DEF RowJob
  <1>3. RegionOf(j) = region
    BY <1>2 DEF RegionOf, InRegion
  <1>4. m = MapResource(b1, c1, region)
    BY <1>2, <1>3 DEF Mapped, Mine
  <1>5. e = ExtraSpecs(Mine(j, Reads(j)))
    BY <1>2 DEF Mine
  <1>6. N = [i \in DOMAIN lines |-> job(i)]
    <2>1. At(j.prefix, Addr(j.r), j.key) = Here(o, r, row)
      BY <1>2 DEF Here
    <2> DEFINE x == ExtraSpecs(Mine(j, Reads(j)))
               l == <<[s EXCEPT !.count = @ * j.n]>> \o [i \in DOMAIN x |-> Times(s, x[i], j.n)]
    <2>2. l = lines
      BY <1>2, <1>5
    <2>3. N = [i \in DOMAIN l |->
                  [do |-> "lookup", addr |-> At(j.prefix, Addr(j.r), j.key), nth |-> i,
                   spec |-> l[i], region |-> IF l[i].global THEN Global ELSE RegionOf(j)]]
      BY DEF Lookups
    <2> HIDE DEF l, lines, N, j, x
    <2> QED  BY <1>3, <2>1, <2>2, <2>3
  <1>7. IsBound(b1) /\ IsBound(b2) /\ b1.type = r.type /\ b2.type = r.type
    BY <1>1, BindFacts
  <1>8. IsMapped(m)
    BY <1>1, <1>4, <1>7, BoundFacts, MapResourceType
  <1>9. IsExtras(e)
    BY <1>7, ExtrasType
  <1>10. r.type = "aws_autoscaling_group" =>
            /\ m.specs # <<>> => s.filters["instanceType"] \in TemplateTypes(o, r, row)
            /\ GroupPriced(o, r, row) => m.specs # <<>>
            /\ e = <<>>
    <2> SUFFICES ASSUME r.type = "aws_autoscaling_group"
                 PROVE  /\ m.specs # <<>> => s.filters["instanceType"] \in TemplateTypes(o, r, row)
                        /\ GroupPriced(o, r, row) => m.specs # <<>>
                        /\ e = <<>>
      OBVIOUS
    <2>1. /\ MapResource(b1, c1, region).specs # <<>> =>
                Head(MapResource(b1, c1, region).specs).filters["instanceType"]
                   \in TemplateTypes(o, r, row)
          /\ GroupPriced(o, r, row) => MapResource(b1, c1, region).specs # <<>>
      BY <1>1, GroupFinds DEF GroupPriced
    <2>2. e = <<>>
      BY <1>1, GroupFinds
    <2> HIDE DEF b1, c1, e, m
    <2> QED  BY <1>4, <2>1, <2>2
  <1>11. ~GroupPriced(o, r, row) \/ r.type = "aws_autoscaling_group"
    BY DEF GroupPriced
  <1> DEFINE one == OnceIn(sc, o.dir, r)
             more1 == [i \in DOMAIN e |-> [e[i] EXCEPT !.count = s.count]]
  <1>12. ASSUME ~DependsOn(o.dir)
         PROVE  one = IF m.specs = <<>> THEN <<>> ELSE m.specs \o
                         [i \in DOMAIN e |-> [e[i] EXCEPT !.count = m.specs[1].count]]
    <2>1. b1 = Bind(r, Unknown, {}) /\ b2 = Bind(r, Unknown, {})
          /\ c1 = Bound(o.dir, Unknown, {})
      BY <1>1, <1>12, BindOnce, BoundOnce
    <2>2. m = MapResource(Bind(r, Unknown, {}), Bound(o.dir, Unknown, {}),
                          resourceRegion(o.dir, r, sc.region))
      <3> HIDE DEF b1, c1, m
      <3> QED  BY <1>4, <2>1 DEF InRegion
    <2>3. e = ExtraSpecs(Bind(r, Unknown, {}))
      <3> HIDE DEF b2
      <3> QED  BY <2>1
    <2> HIDE DEF m, e
    <2> QED  BY <2>2, <2>3 DEF OnceIn
  <1>13. m.kind \in Kinds
    BY <1>8 DEF IsMapped
  <1> HIDE DEF j, b1, b2, c1, m, e, N, one, S1, S2
  <1>14. ASSUME m.specs # <<>>
         PROVE  /\ IsSeq(N) /\ 1 \in DOMAIN N
                /\ \A i \in DOMAIN N : N[i].nth = i /\ IsLookup(N[i], sc, o, r, row)
                /\ ~DependsOn(o.dir) => DOMAIN one = DOMAIN N
    <2>1. m.specs = <<s>> /\ IsSpec(s) /\ m.specs[1] = s
      <3>1. PICK t : IsSpec(t) /\ m.specs = <<t>>
        BY <1>8, <1>14 DEF IsMapped
      <3> QED  BY <3>1
    <2> HIDE DEF s
    <2>2. IsSeq(e) /\ \A i \in DOMAIN e : IsSpec(e[i]) /\ e[i].count = 1
      BY <1>9 DEF IsExtras, Extra, IsSeq
    <2>3. /\ DOMAIN lines = 1..(Len(e) + 1) /\ Len(e) \in Nat /\ lines[1] = first
          /\ \A i \in DOMAIN lines : i # 1 => i - 1 \in DOMAIN e /\ lines[i] = more[i - 1]
      <3>1. more = [i \in DOMAIN e |-> more[i]]
        OBVIOUS
      <3> HIDE DEF more, first
      <3> QED  BY <2>2, <3>1, JoinLines
    <2>4. /\ s.count \in Nat /\ s.qty \in Nat
      BY <2>1 DEF IsSpec
    <2>5. IsSpec(first) /\ first.filters = s.filters /\ first.service = s.service
          /\ first.qty = s.qty /\ first.count = s.count * n
      <3>1. s.count * n \in Nat
        BY <1>1, <2>4, Products
      <3> QED  BY <2>1, <3>1, Recount
    <2>6. ASSUME NEW i \in DOMAIN e
          PROVE  LET t == more[i]
                     x == more1[i]
                 IN  /\ IsSpec(t) /\ t.filters = e[i].filters /\ t.service = e[i].service
                     /\ t.qty = e[i].qty /\ t.count = s.count * n
                     /\ x.filters = e[i].filters /\ x.service = e[i].service
                     /\ x.qty = e[i].qty /\ x.count = s.count
      <3>1. (e[i].count * s.count) * n = s.count * n /\ s.count * n \in Nat
        BY <1>1, <2>2, <2>4, Products
      <3>2. more[i] = [e[i] EXCEPT !.count = s.count * n]
        BY <3>1 DEF Times
      <3>3. more1[i] = [e[i] EXCEPT !.count = s.count]
        OBVIOUS
      <3> HIDE DEF more, more1
      <3> QED  BY <2>2, <2>4, <3>1, <3>2, <3>3, Recount
    <2>7. ASSUME ~DependsOn(o.dir)
          PROVE  /\ DOMAIN one = 1..(Len(e) + 1) /\ one[1] = s
                 /\ \A i \in DOMAIN one : i # 1 => i - 1 \in DOMAIN e /\ one[i] = more1[i - 1]
      <3>1. more1 = [i \in DOMAIN e |-> more1[i]]
        OBVIOUS
      <3>2. one = <<s>> \o more1
        BY <1>12, <1>14, <2>1, <2>7
      <3> HIDE DEF more1
      <3> QED  BY <2>2, <3>1, <3>2, JoinLines
    <2> HIDE DEF more, more1, first
    <2>8. ASSUME NEW i \in DOMAIN lines
          PROVE  /\ IsSpec(lines[i])
                 /\ Bills(sc, i, lines[i].service, lines[i].filters,
                          lines[i].qty * lines[i].count, o, r, row)
      <3>1. CASE i = 1
        <4>1. lines[1] = first
          BY <2>3
        <4>2. s.qty * (s.count * n) = n * (s.qty * s.count)
          BY <1>1, <2>4, Products
        <4>3. 1 \in 1..(Len(e) + 1)
          BY <2>3
        <4>4. r.type = "aws_autoscaling_group" =>
                 first.filters["instanceType"] \in TemplateTypes(o, r, row)
          BY <1>10, <1>14, <2>5 DEF s
        <4> HIDE DEF lines
        <4> QED  BY <2>5, <2>7, <3>1, <4>1, <4>2, <4>3, <4>4 DEF Bills, one
      <3>2. CASE i # 1
        <4> DEFINE k == i - 1
        <4>1. k \in DOMAIN e /\ lines[i] = more[k]
          BY <2>3, <3>2
        <4>2. ~DependsOn(o.dir) => i \in DOMAIN one /\ one[i] = more1[k]
          <5> HIDE DEF lines
          <5> QED  BY <2>3, <2>7, <3>2
        <4> HIDE DEF lines, k
        <4>3. e[k].qty * (s.count * n) = n * (e[k].qty * s.count)
          <5>1. e[k].qty \in Nat
            BY <2>2, <4>1 DEF IsSpec
          <5> QED  BY <1>1, <2>4, <5>1, Products
        <4>4. r.type # "aws_autoscaling_group"
          BY <1>10, <4>1
        <4> QED  BY <2>6, <4>1, <4>2, <4>3, <4>4 DEF Bills, one
      <3> QED  BY <3>1, <3>2
    <2> HIDE DEF lines
    <2>9. DOMAIN N = DOMAIN lines /\ \A i \in DOMAIN lines : N[i] = job(i)
      BY <1>6
    <2>10. ASSUME NEW i \in DOMAIN N PROVE N[i].nth = i /\ IsLookup(N[i], sc, o, r, row)
      BY <2>8, <2>9 DEF IsLookup
    <2>11. IsSeq(N)
      <3>1. N = [i \in 1..(Len(e) + 1) |-> N[i]] /\ Len(e) + 1 \in Nat
        BY <1>6, <2>3
      <3>2. \A i \in 1..(Len(e) + 1) : N[i] \in Range(N)
        BY <2>3, <2>9 DEF Range
      <3> QED  BY <3>1, <3>2 DEF IsSeq
    <2>12. 1 \in DOMAIN N
      BY <2>3, <2>9
    <2>13. ~DependsOn(o.dir) => DOMAIN one = DOMAIN N
      BY <2>3, <2>7, <2>9
    <2> QED  BY <2>10, <2>11, <2>12, <2>13
  <1>15. m.specs = <<>> => /\ ~GroupPriced(o, r, row)
                           /\ ~DependsOn(o.dir) => one = <<>>
    BY <1>10, <1>11, <1>12
  <1> QED  BY <1>13, <1>14, <1>15 DEF j, m, N, one

-----------------------------------------------------------------------------
(* Queries and their answers.                                              *)

IsQuery(q) == /\ DOMAIN q = {"service", "region", "filters", "unit"}
              /\ FiltersOK(q.filters) /\ q.region \in Region \cup {Global}

AnswerIn(p, q) == IF HasAbbreviation(q) /\ p.abbreviates THEN abbrevUsagetype(q) ELSE q

\* What OwnPrice asks of a price.
Fits(price, asked) ==
    /\ price.service = asked.service /\ price.unit = asked.unit
    /\ \A f \in DOMAIN asked.filters \ {"usagetype"} : price.filters[f] = asked.filters[f]
    /\ "usagetype" \in DOMAIN asked.filters =>
          /\ price.filters["usagetype"].base = asked.filters["usagetype"].base
          /\ price.filters["usagetype"].cls.fam = asked.filters["usagetype"].cls.fam
          /\ price.filters["usagetype"].cls.n = asked.filters["usagetype"].cls.n
    /\ IF asked.region = Global THEN "location" \notin DOMAIN price.filters
       ELSE /\ "location" \in DOMAIN price.filters
            /\ price.filters["location"] = Location[asked.region]

\* A usage type of the same product.
Alike(u, w) == u.base = w.base /\ u.cls.fam = w.cls.fam /\ u.cls.n = w.cls.n

LEMMA ComposeFacts ==
  ASSUME NEW q, IsQuery(q)
  PROVE  LET y == compose(q)
         IN  /\ DOMAIN y = {"service", "region", "filters", "unit"}
             /\ y.service = q.service /\ y.unit = q.unit
             /\ DOMAIN y.filters = IF q.region = Global THEN DOMAIN q.filters
                                   ELSE DOMAIN q.filters \cup {"location"}
             /\ \A f \in DOMAIN q.filters \ {"usagetype"} : y.filters[f] = q.filters[f]
             /\ "usagetype" \in DOMAIN q.filters =>
                   IsUsage(y.filters["usagetype"])
                   /\ Alike(y.filters["usagetype"], q.filters["usagetype"])
             /\ q.region # Global => y.filters["location"] = Location[q.region]
  <1> DEFINE y == compose(q)
             F == [f \in DOMAIN q.filters \cup {"location"} |->
                      CASE f = "location"  -> Location[q.region]
                        [] f = "usagetype" -> Prefixed(q.filters[f], q.region)
                        [] OTHER           -> q.filters[f]]
  <1>1. "location" \notin DOMAIN q.filters
        /\ ("usagetype" \in DOMAIN q.filters => IsUsage(q.filters["usagetype"]))
    BY DEF IsQuery, FiltersOK
  <1>2. \A u : Alike(u, u)
    BY DEF Alike
  <1>3. CASE q.region = Global
    <2>1. y = q
      BY <1>3 DEF compose
    <2> HIDE DEF y
    <2> QED  BY <1>1, <1>2, <1>3, <2>1 DEF IsQuery, y
  <1>4. CASE q.region # Global
    <2>1. y = [q EXCEPT !.filters = F]
      BY <1>4 DEF compose
    <2> HIDE DEF F, y
    <2>2. /\ DOMAIN y = {"service", "region", "filters", "unit"} /\ y.filters = F
          /\ y.service = q.service /\ y.unit = q.unit
      BY <2>1 DEF IsQuery
    <2>3. DOMAIN F = DOMAIN q.filters \cup {"location"}
      BY DEF F
    <2>4. F["location"] = Location[q.region]
      BY DEF F
    <2>5. ASSUME NEW f \in DOMAIN q.filters \ {"usagetype"} PROVE F[f] = q.filters[f]
      BY <1>1 DEF F
    <2>6. ASSUME "usagetype" \in DOMAIN q.filters
          PROVE  IsUsage(F["usagetype"]) /\ Alike(F["usagetype"], q.filters["usagetype"])
      <3> DEFINE u == q.filters["usagetype"]
      <3>1. F["usagetype"] = Prefixed(u, q.region)
        BY <2>6 DEF F
      <3> HIDE DEF u
      <3>2. PICK pre, base : \E cls \in AnyClass : u = [pre |-> pre, base |-> base, cls |-> cls]
        BY <1>1, <2>6 DEF IsUsage, u
      <3>3. PICK cls \in AnyClass : u = [pre |-> pre, base |-> base, cls |-> cls]
        BY <3>2
      <3>4. \/ Prefixed(u, q.region) = u
            \/ Prefixed(u, q.region) = [pre |-> Short[q.region], base |-> base, cls |-> cls]
        BY <3>3 DEF Prefixed
      <3>5. \E first : F["usagetype"] = [pre |-> first, base |-> base, cls |-> cls]
        BY <3>1, <3>3, <3>4
      <3>6. PICK first : F["usagetype"] = [pre |-> first, base |-> base, cls |-> cls]
        BY <3>5
      <3>7. IsUsage(F["usagetype"])
        BY <3>6 DEF IsUsage
      <3>8. Alike(F["usagetype"], u)
        BY <3>3, <3>6 DEF Alike
      <3> QED  BY <3>7, <3>8 DEF u
    <2> QED  BY <1>4, <2>2, <2>3, <2>4, <2>5, <2>6 DEF y
  <1> QED  BY <1>3, <1>4

LEMMA AnswerFacts ==
  ASSUME NEW q, IsQuery(q), NEW p
  PROVE  Fits(AnswerIn(p, compose(q)), q)
  <1> DEFINE y == compose(q)
             a == AnswerIn(p, y)
  <1>1. /\ DOMAIN y = {"service", "region", "filters", "unit"}
        /\ y.service = q.service /\ y.unit = q.unit
        /\ DOMAIN y.filters = IF q.region = Global THEN DOMAIN q.filters
                              ELSE DOMAIN q.filters \cup {"location"}
        /\ \A f \in DOMAIN q.filters \ {"usagetype"} : y.filters[f] = q.filters[f]
        /\ "usagetype" \in DOMAIN q.filters =>
              IsUsage(y.filters["usagetype"])
              /\ Alike(y.filters["usagetype"], q.filters["usagetype"])
        /\ q.region # Global => y.filters["location"] = Location[q.region]
    BY ComposeFacts
  <1>2. "location" \notin DOMAIN q.filters
    BY DEF IsQuery, FiltersOK
  <1> HIDE DEF y
  <1>3. Fits(y, q)
    <2>1. y.service = q.service /\ y.unit = q.unit
      BY <1>1
    <2>2. \A f \in DOMAIN q.filters \ {"usagetype"} : y.filters[f] = q.filters[f]
      BY <1>1
    <2>3. "usagetype" \in DOMAIN q.filters =>
             Alike(y.filters["usagetype"], q.filters["usagetype"])
      BY <1>1
    <2>4. IF q.region = Global THEN "location" \notin DOMAIN y.filters
          ELSE "location" \in DOMAIN y.filters /\ y.filters["location"] = Location[q.region]
      BY <1>1, <1>2
    <2> QED  BY <2>1, <2>2, <2>3, <2>4 DEF Fits, Alike
  <1>4. ASSUME a # y PROVE Fits(a, q)
    <2>1. "usagetype" \in DOMAIN y.filters /\ a = abbrevUsagetype(y)
      BY <1>4 DEF AnswerIn, HasAbbreviation
    <2>2. "usagetype" \in DOMAIN q.filters
      BY <1>1, <2>1
    <2> DEFINE u == y.filters["usagetype"]
    <2>3. PICK pre, base : \E cls \in AnyClass : u = [pre |-> pre, base |-> base, cls |-> cls]
      BY <1>1, <2>2 DEF IsUsage
    <2>4. PICK cls \in AnyClass : u = [pre |-> pre, base |-> base, cls |-> cls]
      BY <2>3
    <2>5. DOMAIN cls = {"fam", "size", "n"}
      BY DEF AnyClass, ClassSet, NoClass
    <2> DEFINE v == [u EXCEPT !.cls.size = "Nxl"]
               F == [y.filters EXCEPT !["usagetype"] = v]
    <2>6. /\ a.service = y.service /\ a.unit = y.unit /\ a.filters = F
      BY <1>1, <2>1 DEF abbrevUsagetype
    <2>7. v.base = u.base /\ v.cls.fam = u.cls.fam /\ v.cls.n = u.cls.n
      <3> HIDE DEF u
      <3> QED  BY <2>4, <2>5
    <2>8. DOMAIN F = DOMAIN y.filters /\ F["usagetype"] = v
          /\ \A f \in DOMAIN y.filters \ {"usagetype"} : F[f] = y.filters[f]
      <3> HIDE DEF v
      <3> QED  BY <2>1
    <2> HIDE DEF v, F, a
    <2>9. a.service = q.service /\ a.unit = q.unit
      BY <1>1, <2>6
    <2>10. \A f \in DOMAIN q.filters \ {"usagetype"} : a.filters[f] = q.filters[f]
      BY <1>1, <2>6, <2>8
    <2>11. Alike(a.filters["usagetype"], q.filters["usagetype"])
      BY <1>1, <2>2, <2>6, <2>7, <2>8 DEF Alike
    <2>12. IF q.region = Global THEN "location" \notin DOMAIN a.filters
          ELSE "location" \in DOMAIN a.filters /\ a.filters["location"] = Location[q.region]
      BY <1>1, <1>2, <2>6, <2>8
    <2> QED  BY <2>9, <2>10, <2>11, <2>12 DEF Fits, Alike
  <1>5. Fits(a, q)
    <2> HIDE DEF a
    <2> QED  BY <1>3, <1>4
  <1> QED  BY <1>5 DEF y

\* A cached answer is as good as a fresh one.
LEMMA AnswerShared ==
  ASSUME NEW q, IsQuery(q), NEW x, IsQuery(x), NEW p,
         cacheKey(compose(x)) = cacheKey(compose(q))
  PROVE  Fits(AnswerIn(p, compose(x)), q)
  <1> DEFINE y == compose(q)
             z == compose(x)
             a == AnswerIn(p, y)
             b == AnswerIn(p, z)
  <1>1. /\ DOMAIN y = {"service", "region", "filters", "unit"}
        /\ DOMAIN z = {"service", "region", "filters", "unit"}
    BY ComposeFacts
  <1>2. Fits(a, q)
    BY AnswerFacts
  <1> HIDE DEF y, z
  <1>3. y.service = z.service /\ y.filters = z.filters /\ y.unit = z.unit
    BY DEF cacheKey, y, z
  <1>4. HasAbbreviation(y) <=> HasAbbreviation(z)
    BY <1>3 DEF HasAbbreviation
  <1>5. /\ abbrevUsagetype(y).service = y.service /\ abbrevUsagetype(y).unit = y.unit
        /\ abbrevUsagetype(y).filters = [y.filters EXCEPT !["usagetype"].cls.size = "Nxl"]
    BY <1>1 DEF abbrevUsagetype
  <1>6. /\ abbrevUsagetype(z).service = z.service /\ abbrevUsagetype(z).unit = z.unit
        /\ abbrevUsagetype(z).filters = [z.filters EXCEPT !["usagetype"].cls.size = "Nxl"]
    BY <1>1 DEF abbrevUsagetype
  <1>7. a.service = b.service /\ a.filters = b.filters /\ a.unit = b.unit
    <2>1. CASE HasAbbreviation(y) /\ p.abbreviates
      <3>1. a = abbrevUsagetype(y) /\ b = abbrevUsagetype(z)
        BY <1>4, <2>1 DEF AnswerIn
      <3> HIDE DEF a, b
      <3> QED  BY <1>3, <1>5, <1>6, <3>1
    <2>2. CASE ~(HasAbbreviation(y) /\ p.abbreviates)
      <3>1. a = y /\ b = z
        BY <1>4, <2>2 DEF AnswerIn
      <3> QED  BY <1>3, <3>1
    <2> QED  BY <2>1, <2>2
  <1> HIDE DEF a, b
  <1> QED  BY <1>2, <1>7 DEF Fits, a, b, y, z

-----------------------------------------------------------------------------
(* What the work is about, and what is still to come.                      *)

\* A directory is the project's, or the body of a module of another one.
GroundDir(o, p, O) ==
    \/ o = Root(p)
    \/ \E q \in O : \E m \in Range(q.dir.modules) :
          Opens(m) /\ o.dir = m.body /\ o.prefix \in Range(Instances(m, q.prefix))

GroundJob(j, p, O) ==
    \E o \in O :
        \/ \E r \in Range(o.dir.resources) :
              \/ j = ResourceJob(o, r)
              \/ \E row \in Rows(r) : j = RowJob(o, r, row) /\ row.n > 0
              \/ \E row \in Rows(r) : IsLookup(j, p, o, r, row)
        \/ \E m \in Range(o.dir.modules) :
              j = CallJob(o, m) \/ \E q \in Range(Instances(m, o.prefix)) : j = ModuleJob(m, q)

\* An item is of a place, at its own price if it has one, or of a closed module.
IsPlaced(it, p, o, r, row) ==
    /\ it.addr = Here(o, r, row)
    /\ it.priced =>
          /\ row.n > 0 /\ it.asked.region \in {Global, InRegion(p, o, r)}
          /\ it.price # None => Fits(it.price, it.asked)
          /\ Bills(p, it.nth, it.asked.service, it.asked.filters, it.times, o, r, row)

IsItem(it, p, O) ==
    /\ it.kind \in Kinds /\ (it.priced => it.kind = "Fixed" /\ it.times \in Nat)
    /\ \/ \E o \in O : \E r \in Range(o.dir.resources) : \E row \in Rows(r) :
             IsPlaced(it, p, o, r, row)
       \/ \E o \in O : \E m \in Range(o.dir.modules) : \E q \in Range(Instances(m, o.prefix)) :
             ~Opens(m) /\ it.addr = At(q, <<>>, <<>>) /\ ~it.priced

\* The lookups of a place that are to end in a price.
Owes(p, o, r, row, k) ==
    /\ row.n > 0
    /\ \/ ~DependsOn(o.dir) /\ k \in DOMAIN OnceIn(p, o.dir, r)
       \/ GroupPriced(o, r, row) /\ k = 1

LooksUp(j, a)  == j.do = "lookup" /\ j.addr = a
Touched(J, I, a) == (\E j \in J : LooksUp(j, a)) \/ (\E i \in DOMAIN I : I[i].addr = a)
Sold(J, I, p, o, r, row, k) ==
    \/ \E j \in J : LooksUp(j, Here(o, r, row)) /\ j.nth = k
    \/ \E i \in DOMAIN I : /\ I[i].addr = Here(o, r, row) /\ I[i].nth = k
                           /\ ~p.faults /\ InRegion(p, o, r) \in Region => I[i].priced

\* A place is still to come to, or is looked up, or has its items.
Covered(J, I, p, o, r, row) ==
    \/ ResourceJob(o, r) \in J
    \/ RowJob(o, r, row) \in J
    \/ /\ Touched(J, I, Here(o, r, row))
       /\ \A k : Owes(p, o, r, row, k) => Sold(J, I, p, o, r, row, k)

\* So is an instance of a module.
Entered(J, I, O, o, m, q) ==
    \/ CallJob(o, m) \in J \/ ModuleJob(m, q) \in J
    \/ Opens(m) /\ [dir |-> m.body, prefix |-> q] \in O
    \/ ~Opens(m) /\ \E i \in DOMAIN I : I[i].addr = At(q, <<>>, <<>>)

Covers(J, I, p, O) ==
    /\ \A o \in O : \A r \in Range(o.dir.resources) : \A row \in Rows(r) :
          Covered(J, I, p, o, r, row)
    /\ \A o \in O : \A m \in Range(o.dir.modules) : \A q \in Range(Instances(m, o.prefix)) :
          Entered(J, I, O, o, m, q)

Good(T, I, p, O) ==
    /\ IsSeq(T) /\ IsSeq(I) /\ Root(p) \in O
    /\ \A o \in O : GoodDir(o) /\ GroundDir(o, p, O)
    /\ Claims(T, I, O)
    /\ \A j \in Range(T) : GroundJob(j, p, O)
    /\ \A i \in DOMAIN I : IsItem(I[i], p, O)
    /\ Covers(Range(T), I, p, O)

Extends(I, K) == \A i \in DOMAIN I : i \in DOMAIN K /\ K[i] = I[i]

LEMMA CoveredStays ==
  ASSUME NEW J, NEW K, NEW h, \A j \in J : j = h \/ j \in K,
         NEW I, NEW M, Extends(I, M), NEW p, NEW o, NEW r, NEW row,
         Covered(J, I, p, o, r, row),
         h # ResourceJob(o, r), h # RowJob(o, r, row), ~LooksUp(h, Here(o, r, row))
  PROVE  Covered(K, M, p, o, r, row)
  <1> DEFINE a == Here(o, r, row)
  <1>1. Touched(J, I, a) => Touched(K, M, a)
    BY DEF Touched, Extends
  <1>2. \A k : Sold(J, I, p, o, r, row, k) => Sold(K, M, p, o, r, row, k)
    BY DEF Sold, Extends
  <1> QED  BY <1>1, <1>2 DEF Covered

LEMMA EnteredStays ==
  ASSUME NEW J, NEW K, NEW h, \A j \in J : j = h \/ j \in K,
         NEW I, NEW M, Extends(I, M), NEW O, NEW P, \A o \in O : o \in P,
         NEW o, NEW m, NEW q, Entered(J, I, O, o, m, q),
         h # CallJob(o, m), h # ModuleJob(m, q)
  PROVE  Entered(K, M, P, o, m, q)
  BY DEF Entered, Extends

LEMMA CoveredByItem ==
  ASSUME NEW J, NEW K, NEW h, \A j \in J : j = h \/ j \in K,
         NEW I, NEW M, Extends(I, M), NEW p, NEW o, NEW r, NEW row,
         Covered(J, I, p, o, r, row), LooksUp(h, Here(o, r, row)),
         NEW i \in DOMAIN M, M[i].addr = h.addr, M[i].nth = h.nth,
         (~p.faults /\ InRegion(p, o, r) \in Region) => M[i].priced
  PROVE  Covered(K, M, p, o, r, row)
  <1> DEFINE a == Here(o, r, row)
  <1>1. h # ResourceJob(o, r) /\ h # RowJob(o, r, row) /\ h.addr = a
    BY DEF LooksUp, ResourceJob, RowJob
  <1>2. Touched(K, M, a)
    BY <1>1 DEF Touched
  <1>3. \A k : Sold(J, I, p, o, r, row, k) => Sold(K, M, p, o, r, row, k)
    BY <1>1 DEF Sold, Extends
  <1> QED  BY <1>1, <1>2, <1>3 DEF Covered

LEMMA SplitGood ==
  ASSUME NEW T, NEW I, NEW p, NEW O, Good(T, I, p, O), T # <<>>,
         NEW N, IsSeq(N), Shares(N, Head(T)),
         \A j \in Range(N) : GroundJob(j, p, O),
         Covers(Range(N \o Tail(T)), I, p, O)
  PROVE  Good(N \o Tail(T), I, p, O)
  <1> DEFINE U == N \o Tail(T)
  <1>1. IsSeq(U) /\ \A x : x \in Range(U) <=> x \in Range(N) \/ x \in Range(Tail(T))
    BY Replaced DEF Good
  <1>2. \A x \in Range(Tail(T)) : x \in Range(T)
    BY EmptySeq, Replaced DEF Good
  <1>3. Claims(U, I, O)
    BY ClaimsSplit DEF Good
  <1>4. \A j \in Range(U) : GroundJob(j, p, O)
    BY <1>1, <1>2 DEF Good
  <1> HIDE DEF U
  <1> QED  BY <1>1, <1>3, <1>4 DEF Good, U

LEMMA EmitGood ==
  ASSUME NEW T, NEW I, NEW p, NEW O, Good(T, I, p, O), T # <<>>,
         NEW it, Owns(Head(T), CellOf(it)), IsItem(it, p, O),
         Covers(Range(Tail(T)), Append(I, it), p, O)
  PROVE  Good(Tail(T), Append(I, it), p, O)
  <1> DEFINE U == Tail(T)
             K == Append(I, it)
  <1>1. IsSeq(U) /\ \A x \in Range(U) : x \in Range(T)
    <2>1. IsSeq(<<>> \o Tail(T)) /\ \A x \in Range(Tail(T)) : x \in Range(T)
      BY EmptySeq, Replaced DEF Good
    <2> QED  BY <2>1, TailIsReplaced DEF Good
  <1>2. /\ IsSeq(K) /\ DOMAIN K = DOMAIN I \cup {Len(I) + 1}
        /\ \A i \in DOMAIN I : K[i] = I[i]
        /\ K[Len(I) + 1] = it
    BY Appended DEF Good
  <1>3. Claims(U, K, O)
    BY ClaimsEmit DEF Good
  <1> HIDE DEF U, K
  <1>4. \A i \in DOMAIN K : IsItem(K[i], p, O)
    BY <1>2 DEF Good
  <1> QED  BY <1>1, <1>2, <1>3, <1>4 DEF Good, U, K

\* What the head of the list is, by its kind.
LEMMA HeadIs ==
  ASSUME NEW T, NEW I, NEW p, NEW O, Good(T, I, p, O), T # <<>>
  PROVE  LET h == Head(T)
         IN  /\ h.do \in {"resource", "row", "lookup", "call", "module"}
             /\ h.do = "resource" => \E o \in O : \E r \in Range(o.dir.resources) :
                   h = ResourceJob(o, r)
             /\ h.do = "row" => \E o \in O : \E r \in Range(o.dir.resources) :
                   \E row \in Rows(r) : h = RowJob(o, r, row) /\ row.n > 0
             /\ h.do = "lookup" => \E o \in O : \E r \in Range(o.dir.resources) :
                   \E row \in Rows(r) : IsLookup(h, p, o, r, row)
             /\ h.do = "call" => \E o \in O : \E m \in Range(o.dir.modules) : h = CallJob(o, m)
             /\ h.do = "module" => \E o \in O : \E m \in Range(o.dir.modules) :
                   \E q \in Range(Instances(m, o.prefix)) : h = ModuleJob(m, q)
  <1> DEFINE h == Head(T)
  <1>1. h \in Range(T)
    BY EmptySeq, Replaced DEF Good
  <1> HIDE DEF h
  <1>2. GroundJob(h, p, O)
    BY <1>1 DEF Good
  <1>3. /\ \A o, r : ResourceJob(o, r).do = "resource"
        /\ \A o, r, row : RowJob(o, r, row).do = "row"
        /\ \A o, r, row : IsLookup(h, p, o, r, row) => h.do = "lookup"
        /\ \A o, m : CallJob(o, m).do = "call"
        /\ \A m, q : ModuleJob(m, q).do = "module"
    BY DEF ResourceJob, RowJob, IsLookup, CallJob, ModuleJob
  <1>4. PICK o \in O :
          \/ \E r \in Range(o.dir.resources) :
                \/ h = ResourceJob(o, r)
                \/ \E row \in Rows(r) : h = RowJob(o, r, row) /\ row.n > 0
                \/ \E row \in Rows(r) : IsLookup(h, p, o, r, row)
          \/ \E m \in Range(o.dir.modules) :
                h = CallJob(o, m) \/ \E q \in Range(Instances(m, o.prefix)) : h = ModuleJob(m, q)
    BY <1>2 DEF GroundJob
  <1> QED  BY <1>3, <1>4 DEF h

-----------------------------------------------------------------------------
(* What each step does to the places and the modules.                      *)

LEMMA JobKinds ==
  /\ \A o, r : ResourceJob(o, r).do = "resource"
  /\ \A o, r, row : RowJob(o, r, row).do = "row"
  /\ \A o, m : CallJob(o, m).do = "call"
  /\ \A m, q : ModuleJob(m, q).do = "module"
  /\ \A j, a : LooksUp(j, a) => j.do = "lookup"
  BY DEF ResourceJob, RowJob, CallJob, ModuleJob, LooksUp

\* The directories differ in their prefixes.
Apart(O) == \A o, q \in O : o.prefix = q.prefix => o = q

LEMMA SameResource ==
  ASSUME NEW O, Apart(O), NEW o \in O, NEW x \in O, NEW r, NEW s,
         ResourceJob(o, r) = ResourceJob(x, s)
  PROVE  o = x /\ r = s
  <1>1. ResourceJob(o, r).prefix = ResourceJob(x, s).prefix
        /\ ResourceJob(o, r).r = ResourceJob(x, s).r
    OBVIOUS
  <1> QED  BY <1>1 DEF ResourceJob, Apart

LEMMA SameRow ==
  ASSUME NEW O, Apart(O), NEW o \in O, NEW x \in O, GoodDir(o),
         NEW r \in Range(o.dir.resources), NEW s, NEW a \in Rows(r), NEW b \in Rows(s),
         RowJob(o, r, a) = RowJob(x, s, b)
  PROVE  o = x /\ r = s /\ a = b
  <1>1. /\ RowJob(o, r, a).prefix = RowJob(x, s, b).prefix
        /\ RowJob(o, r, a).r = RowJob(x, s, b).r
        /\ RowJob(o, r, a).key = RowJob(x, s, b).key
    OBVIOUS
  <1>2. o.prefix = x.prefix /\ r = s /\ a.key = b.key
    BY <1>1 DEF RowJob
  <1>3. IsMeta(r.meta)
    BY DEF GoodDir, IsDir, IsResource
  <1> QED  BY <1>2, <1>3, RowFacts DEF Apart

LEMMA SameCall ==
  ASSUME NEW O, Apart(O), NEW o \in O, NEW x \in O, NEW m, NEW n,
         CallJob(o, m) = CallJob(x, n)
  PROVE  o = x /\ m = n
  <1>1. CallJob(o, m).prefix = CallJob(x, n).prefix /\ CallJob(o, m).m = CallJob(x, n).m
    OBVIOUS
  <1> QED  BY <1>1 DEF CallJob, Apart

LEMMA SameModule ==
  ASSUME NEW m, NEW n, NEW q, NEW w, ModuleJob(m, q) = ModuleJob(n, w)
  PROVE  m = n /\ q = w
  <1>1. ModuleJob(m, q).prefix = ModuleJob(n, w).prefix /\ ModuleJob(m, q).m = ModuleJob(n, w).m
    OBVIOUS
  <1> QED  BY <1>1 DEF ModuleJob

LEMMA GoodDirs ==
  ASSUME NEW T, NEW I, NEW p, NEW O, Good(T, I, p, O)
  PROVE  /\ Apart(O) /\ \A o \in O : GoodDir(o)
         /\ IsSeq(T) /\ IsSeq(I)
         /\ \A o \in O : \A r \in Range(o.dir.resources) : \A row \in Rows(r) :
               Covered(Range(T), I, p, o, r, row)
         /\ \A o \in O : \A m \in Range(o.dir.modules) : \A q \in Range(Instances(m, o.prefix)) :
               Entered(Range(T), I, O, o, m, q)
  BY DEF Good, Claims, Covers, Apart

LEMMA AfterSplit ==
  ASSUME NEW T, IsSeq(T), T # <<>>, NEW N, IsSeq(N)
  PROVE  /\ \A j \in Range(T) : j = Head(T) \/ j \in Range(N \o Tail(T))
         /\ \A j \in Range(N) : j \in Range(N \o Tail(T))
  BY Replaced

LEMMA AfterTail ==
  ASSUME NEW T, IsSeq(T), T # <<>>
  PROVE  \A j \in Range(T) : j = Head(T) \/ j \in Range(Tail(T))
  BY EmptySeq, Replaced

LEMMA SplitResource ==
  ASSUME NEW T, NEW I, NEW p, NEW O, Good(T, I, p, O), T # <<>>,
         NEW o \in O, NEW r \in Range(o.dir.resources), Head(T) = ResourceJob(o, r),
         NEW N, IsSeq(N), Shares(N, Head(T)),
         \A row \in Rows(r) : RowJob(o, r, row) \in Range(N),
         \A j \in Range(N) : \E row \in Rows(r) : j = RowJob(o, r, row) /\ row.n > 0
  PROVE  Good(N \o Tail(T), I, p, O)
  <1> DEFINE J == Range(T)
             K == Range(N \o Tail(T))
             h == Head(T)
  <1>10. Apart(O) /\ \A x \in O : GoodDir(x)
    BY GoodDirs
  <1>1. \A j \in J : j = h \/ j \in K
    BY AfterSplit, GoodDirs
  <1>2. \A j \in Range(N) : j \in K
    BY AfterSplit, GoodDirs
  <1>3. Extends(I, I)
    BY DEF Extends
  <1>4. h = ResourceJob(o, r)
    OBVIOUS
  <1> HIDE DEF J, K, h
  <1>5. ASSUME NEW x \in O, NEW s \in Range(x.dir.resources), NEW b \in Rows(s)
        PROVE  Covered(K, I, p, x, s, b)
    <2>1. Covered(J, I, p, x, s, b)
      BY GoodDirs DEF J
    <2>2. CASE h = ResourceJob(x, s)
      <3>1. x = o /\ s = r
        <4>1. ResourceJob(o, r) = ResourceJob(x, s)
          BY <1>4, <2>2
        <4>2. o = x /\ r = s
          BY <1>10, <4>1, SameResource
        <4> QED  BY <4>2
      <3>2. RowJob(x, s, b) \in K
        BY <1>2, <3>1
      <3> QED  BY <3>2 DEF Covered
    <2>3. CASE h # ResourceJob(x, s)
      <3>1. h # RowJob(x, s, b) /\ ~LooksUp(h, Here(x, s, b))
        BY <1>4, JobKinds
      <3> QED  BY <1>1, <1>3, <2>1, <2>3, <3>1, CoveredStays
    <2> QED  BY <2>2, <2>3
  <1>6. ASSUME NEW x \in O, NEW m \in Range(x.dir.modules), NEW q \in Range(Instances(m, x.prefix))
        PROVE  Entered(K, I, O, x, m, q)
    <2>1. Entered(J, I, O, x, m, q)
      BY GoodDirs DEF J
    <2>2. h # CallJob(x, m) /\ h # ModuleJob(m, q)
      BY <1>4, JobKinds
    <2> QED  BY <1>1, <1>3, <2>1, <2>2, EnteredStays
  <1>7. Covers(K, I, p, O)
    BY <1>5, <1>6 DEF Covers
  <1>8. \A j \in Range(N) : GroundJob(j, p, O)
    BY DEF GroundJob
  <1> QED  BY <1>7, <1>8, SplitGood DEF K

\* An item without a price that stands for a row, in place of its job.
LEMMA EmitRow ==
  ASSUME NEW T, NEW I, NEW p, NEW O, Good(T, I, p, O), T # <<>>,
         NEW o \in O, NEW r \in Range(o.dir.resources), NEW row \in Rows(r),
         \/ Head(T) = ResourceJob(o, r) /\ Rows(r) = {row}
         \/ Head(T) = RowJob(o, r, row),
         \A k : ~Owes(p, o, r, row, k),
         NEW kind \in Kinds
  PROVE  Good(Tail(T), Append(I, Unpriced(Here(o, r, row), 1, kind)), p, O)
  <1> DEFINE J == Range(T)
             K == Range(Tail(T))
             h == Head(T)
             it == Unpriced(Here(o, r, row), 1, kind)
             M == Append(I, it)
  <1>10. Apart(O) /\ \A x \in O : GoodDir(x)
    BY GoodDirs
  <1>1. \A j \in J : j = h \/ j \in K
    BY AfterTail, GoodDirs
  <1>2. /\ it.addr = Here(o, r, row) /\ it.nth = 1 /\ it.kind = kind /\ it.priced = FALSE
    BY DEF Unpriced, Item
  <1> HIDE DEF it
  <1>3. Extends(I, M) /\ \E i \in DOMAIN M : M[i] = it
    <2>1. /\ DOMAIN M = DOMAIN I \cup {Len(I) + 1} /\ \A i \in DOMAIN I : M[i] = I[i]
          /\ M[Len(I) + 1] = it
      BY Appended, GoodDirs
    <2> HIDE DEF M
    <2> QED  BY <2>1 DEF Extends
  <1>4. \/ h = ResourceJob(o, r) /\ Rows(r) = {row}
        \/ h = RowJob(o, r, row)
    OBVIOUS
  <1>5. Owns(h, CellOf(it))
    <2>1. CellOf(it).addr = At(o.prefix, Addr(r), row.key)
      BY <1>2 DEF CellOf, Here
    <2> HIDE DEF h
    <2> QED  BY <1>4, <2>1 DEF Owns, ResourceJob, RowJob, At
  <1> HIDE DEF J, K, h, M
  <1>6. ASSUME NEW x \in O, NEW s \in Range(x.dir.resources), NEW b \in Rows(s)
        PROVE  Covered(K, M, p, x, s, b)
    <2>1. Covered(J, I, p, x, s, b)
      BY GoodDirs DEF J
    <2>2. CASE h = ResourceJob(x, s) \/ h = RowJob(x, s, b)
      <3>1. x = o /\ s = r /\ b = row
        BY <1>4, <2>2, <1>10, SameResource, SameRow, JobKinds
      <3>2. Touched(K, M, Here(x, s, b))
        BY <1>2, <1>3, <3>1 DEF Touched
      <3> QED  BY <3>1, <3>2 DEF Covered
    <2>3. CASE h # ResourceJob(x, s) /\ h # RowJob(x, s, b)
      <3>1. ~LooksUp(h, Here(x, s, b))
        BY <1>4, JobKinds
      <3> QED  BY <1>1, <1>3, <2>1, <2>3, <3>1, CoveredStays
    <2> QED  BY <2>2, <2>3
  <1>7. ASSUME NEW x \in O, NEW m \in Range(x.dir.modules), NEW q \in Range(Instances(m, x.prefix))
        PROVE  Entered(K, M, O, x, m, q)
    <2>1. Entered(J, I, O, x, m, q)
      BY GoodDirs DEF J
    <2>2. h # CallJob(x, m) /\ h # ModuleJob(m, q)
      BY <1>4, JobKinds
    <2> QED  BY <1>1, <1>3, <2>1, <2>2, EnteredStays
  <1>8. Covers(K, M, p, O)
    BY <1>6, <1>7 DEF Covers
  <1>9. IsItem(it, p, O)
    BY <1>2 DEF IsItem, IsPlaced
  <1> QED  BY <1>5, <1>8, <1>9, EmitGood DEF K, M, h, it

\* The lookups of a row take its place.
LEMMA SplitRow ==
  ASSUME NEW T, NEW I, NEW p, NEW O, Good(T, I, p, O), T # <<>>,
         NEW o \in O, NEW r \in Range(o.dir.resources), NEW row \in Rows(r),
         Head(T) = RowJob(o, r, row),
         NEW N, IsSeq(N), 1 \in DOMAIN N,
         \A i \in DOMAIN N : N[i].nth = i /\ IsLookup(N[i], p, o, r, row),
         ~DependsOn(o.dir) => DOMAIN OnceIn(p, o.dir, r) = DOMAIN N
  PROVE  Good(N \o Tail(T), I, p, O)
  <1> DEFINE J == Range(T)
             K == Range(N \o Tail(T))
             h == Head(T)
  <1>10. Apart(O) /\ \A x \in O : GoodDir(x)
    BY GoodDirs
  <1>1. \A j \in J : j = h \/ j \in K
    BY AfterSplit, GoodDirs
  <1>2. \A j \in Range(N) : j \in K
    BY AfterSplit, GoodDirs
  <1>3. Extends(I, I)
    BY DEF Extends
  <1>4. h = RowJob(o, r, row)
    OBVIOUS
  <1>5. Shares(N, h)
    BY SharesLines DEF IsLookup
  <1>6. \A i \in DOMAIN N : N[i] \in Range(N)
    BY DEF Range
  <1> HIDE DEF J, K, h
  <1>7. ASSUME NEW x \in O, NEW s \in Range(x.dir.resources), NEW b \in Rows(s)
        PROVE  Covered(K, I, p, x, s, b)
    <2>1. Covered(J, I, p, x, s, b)
      BY GoodDirs DEF J
    <2>2. CASE h = RowJob(x, s, b)
      <3>1. x = o /\ s = r /\ b = row
        <4>1. RowJob(o, r, row) = RowJob(x, s, b)
          BY <1>4, <2>2
        <4>2. o = x /\ r = s /\ row = b
          BY <1>10, <4>1, SameRow
        <4> QED  BY <4>2
      <3>2. \A i \in DOMAIN N : N[i] \in K /\ LooksUp(N[i], Here(o, r, row)) /\ N[i].nth = i
        BY <1>2, <1>6 DEF IsLookup, LooksUp
      <3>3. Touched(K, I, Here(o, r, row))
        BY <3>2 DEF Touched
      <3>4. ASSUME NEW k, Owes(p, o, r, row, k) PROVE Sold(K, I, p, o, r, row, k)
        <4>1. k \in DOMAIN N
          BY <3>4 DEF Owes
        <4> QED  BY <3>2, <4>1 DEF Sold
      <3> QED  BY <3>1, <3>3, <3>4 DEF Covered
    <2>3. CASE h # RowJob(x, s, b)
      <3>1. h # ResourceJob(x, s) /\ ~LooksUp(h, Here(x, s, b))
        BY <1>4, JobKinds
      <3> QED  BY <1>1, <1>3, <2>1, <2>3, <3>1, CoveredStays
    <2> QED  BY <2>2, <2>3
  <1>8. ASSUME NEW x \in O, NEW m \in Range(x.dir.modules), NEW q \in Range(Instances(m, x.prefix))
        PROVE  Entered(K, I, O, x, m, q)
    <2>1. Entered(J, I, O, x, m, q)
      BY GoodDirs DEF J
    <2>2. h # CallJob(x, m) /\ h # ModuleJob(m, q)
      BY <1>4, JobKinds
    <2> QED  BY <1>1, <1>3, <2>1, <2>2, EnteredStays
  <1>9. Covers(K, I, p, O)
    BY <1>7, <1>8 DEF Covers
  <1>11. \A j \in Range(N) : GroundJob(j, p, O)
    BY DEF GroundJob, Range
  <1> QED  BY <1>5, <1>9, <1>11, SplitGood DEF K, h

\* A lookup becomes an item, which has a price if it must.
LEMMA EmitLookup ==
  ASSUME NEW T, NEW I, NEW p, NEW O, Good(T, I, p, O), T # <<>>,
         NEW o \in O, NEW r \in Range(o.dir.resources), NEW row \in Rows(r),
         IsLookup(Head(T), p, o, r, row),
         NEW it, IsPlaced(it, p, o, r, row), it.addr = Head(T).addr, it.nth = Head(T).nth,
         it.kind \in Kinds, it.priced => it.kind = "Fixed" /\ it.times \in Nat,
         (~p.faults /\ InRegion(p, o, r) \in Region) => it.priced
  PROVE  Good(Tail(T), Append(I, it), p, O)
  <1> DEFINE J == Range(T)
             K == Range(Tail(T))
             h == Head(T)
             M == Append(I, it)
  <1>10. Apart(O) /\ \A x \in O : GoodDir(x)
    BY GoodDirs
  <1>1. \A j \in J : j = h \/ j \in K
    BY AfterTail, GoodDirs
  <1>2. h.do = "lookup" /\ h.addr = Here(o, r, row)
    BY DEF IsLookup
  <1>3. Extends(I, M) /\ \E i \in DOMAIN M : M[i] = it
    <2>1. /\ DOMAIN M = DOMAIN I \cup {Len(I) + 1} /\ \A i \in DOMAIN I : M[i] = I[i]
          /\ M[Len(I) + 1] = it
      BY Appended, GoodDirs
    <2> HIDE DEF M
    <2> QED  BY <2>1 DEF Extends
  <1>4. it.addr = h.addr /\ it.nth = h.nth
    OBVIOUS
  <1>5. Owns(h, CellOf(it))
    BY <1>2, <1>4 DEF Owns, CellOf
  <1> HIDE DEF J, K, h, M
  <1>6. ASSUME NEW x \in O, NEW s \in Range(x.dir.resources), NEW b \in Rows(s)
        PROVE  Covered(K, M, p, x, s, b)
    <2>1. Covered(J, I, p, x, s, b)
      BY GoodDirs DEF J
    <2>2. CASE LooksUp(h, Here(x, s, b))
      <3>1. x = o /\ s = r /\ b = row
        <4>1. Here(o, r, row) = Here(x, s, b)
          BY <1>2, <2>2 DEF LooksUp
        <4>2. IsDir(o.dir)
          BY <1>10 DEF GoodDir
        <4>3. o = x /\ r = s /\ row = b
          BY <1>10, <4>1, <4>2, HereOnce DEF Apart
        <4> QED  BY <4>3
      <3>2. PICK i \in DOMAIN M : M[i] = it
        BY <1>3
      <3>3. M[i].addr = h.addr /\ M[i].nth = h.nth
            /\ ((~p.faults /\ InRegion(p, x, s) \in Region) => M[i].priced)
        BY <1>4, <3>1, <3>2
      <3> QED  BY <1>1, <1>3, <2>1, <2>2, <3>3, CoveredByItem
    <2>3. CASE ~LooksUp(h, Here(x, s, b))
      <3>1. h # ResourceJob(x, s) /\ h # RowJob(x, s, b)
        BY <1>2, JobKinds
      <3> QED  BY <1>1, <1>3, <2>1, <2>3, <3>1, CoveredStays
    <2> QED  BY <2>2, <2>3
  <1>7. ASSUME NEW x \in O, NEW m \in Range(x.dir.modules), NEW q \in Range(Instances(m, x.prefix))
        PROVE  Entered(K, M, O, x, m, q)
    <2>1. Entered(J, I, O, x, m, q)
      BY GoodDirs DEF J
    <2>2. h # CallJob(x, m) /\ h # ModuleJob(m, q)
      BY <1>2, JobKinds
    <2> QED  BY <1>1, <1>3, <2>1, <2>2, EnteredStays
  <1>8. Covers(K, M, p, O)
    BY <1>6, <1>7 DEF Covers
  <1>9. IsItem(it, p, O)
    BY DEF IsItem
  <1> QED  BY <1>5, <1>8, <1>9, EmitGood DEF K, M, h

\* A call becomes its instances.
LEMMA SplitCall ==
  ASSUME NEW T, NEW I, NEW p, NEW O, Good(T, I, p, O), T # <<>>,
         NEW o \in O, NEW m \in Range(o.dir.modules), Head(T) = CallJob(o, m),
         NEW N, IsSeq(N), Shares(N, Head(T)),
         \A q \in Range(Instances(m, o.prefix)) : ModuleJob(m, q) \in Range(N),
         \A j \in Range(N) : \E q \in Range(Instances(m, o.prefix)) : j = ModuleJob(m, q)
  PROVE  Good(N \o Tail(T), I, p, O)
  <1> DEFINE J == Range(T)
             K == Range(N \o Tail(T))
             h == Head(T)
  <1>1. \A j \in J : j = h \/ j \in K
    BY AfterSplit, GoodDirs
  <1>2. \A j \in Range(N) : j \in K
    BY AfterSplit, GoodDirs
  <1>3. Extends(I, I) /\ \A x \in O : x \in O
    BY DEF Extends
  <1>4. h = CallJob(o, m)
    OBVIOUS
  <1>5. Apart(O)
    BY GoodDirs
  <1> HIDE DEF J, K, h
  <1>6. ASSUME NEW x \in O, NEW s \in Range(x.dir.resources), NEW b \in Rows(s)
        PROVE  Covered(K, I, p, x, s, b)
    <2>1. Covered(J, I, p, x, s, b)
      BY GoodDirs DEF J
    <2>2. h # ResourceJob(x, s) /\ h # RowJob(x, s, b) /\ ~LooksUp(h, Here(x, s, b))
      BY <1>4, JobKinds
    <2> QED  BY <1>1, <1>3, <2>1, <2>2, CoveredStays
  <1>7. ASSUME NEW x \in O, NEW n \in Range(x.dir.modules), NEW q \in Range(Instances(n, x.prefix))
        PROVE  Entered(K, I, O, x, n, q)
    <2>1. Entered(J, I, O, x, n, q)
      BY GoodDirs DEF J
    <2>2. CASE h = CallJob(x, n)
      <3>1. CallJob(o, m) = CallJob(x, n)
        BY <1>4, <2>2
      <3>2. o = x /\ m = n
        BY <1>5, <3>1, SameCall
      <3>3. ModuleJob(n, q) \in K
        BY <1>2, <3>2
      <3> QED  BY <3>3 DEF Entered
    <2>3. CASE h # CallJob(x, n)
      <3>1. h # ModuleJob(n, q)
        BY <1>4, JobKinds
      <3> QED  BY <1>1, <1>3, <2>1, <2>3, <3>1, EnteredStays
    <2> QED  BY <2>2, <2>3
  <1>8. Covers(K, I, p, O)
    BY <1>6, <1>7 DEF Covers
  <1>9. \A j \in Range(N) : GroundJob(j, p, O)
    BY DEF GroundJob
  <1> QED  BY <1>8, <1>9, SplitGood DEF K

\* A module that is not opened becomes an item.
LEMMA EmitModule ==
  ASSUME NEW T, NEW I, NEW p, NEW O, Good(T, I, p, O), T # <<>>,
         NEW o \in O, NEW m \in Range(o.dir.modules), NEW q \in Range(Instances(m, o.prefix)),
         IsSeq(q), Head(T) = ModuleJob(m, q), ~Opens(m), NEW kind \in Kinds
  PROVE  Good(Tail(T), Append(I, Unpriced(At(q, <<>>, <<>>), 1, kind)), p, O)
  <1> DEFINE J == Range(T)
             K == Range(Tail(T))
             h == Head(T)
             it == Unpriced(At(q, <<>>, <<>>), 1, kind)
             M == Append(I, it)
  <1>1. \A j \in J : j = h \/ j \in K
    BY AfterTail, GoodDirs
  <1>2. /\ it.addr = At(q, <<>>, <<>>) /\ it.nth = 1 /\ it.kind = kind /\ it.priced = FALSE
    BY DEF Unpriced, Item
  <1> HIDE DEF it
  <1>3. Extends(I, M) /\ \E i \in DOMAIN M : M[i] = it
    <2>1. /\ DOMAIN M = DOMAIN I \cup {Len(I) + 1} /\ \A i \in DOMAIN I : M[i] = I[i]
          /\ M[Len(I) + 1] = it
      BY Appended, GoodDirs
    <2> HIDE DEF M
    <2> QED  BY <2>1 DEF Extends
  <1>4. h = ModuleJob(m, q)
    OBVIOUS
  <1>5. Owns(h, CellOf(it))
    <2>1. CellOf(it).addr.prefix = q
      BY <1>2 DEF CellOf, At
    <2>2. Starts(q, q)
      BY StartsFacts
    <2> HIDE DEF h
    <2> QED  BY <1>4, <2>1, <2>2 DEF Owns, ModuleJob
  <1> HIDE DEF J, K, h, M
  <1>6. ASSUME NEW x \in O, NEW s \in Range(x.dir.resources), NEW b \in Rows(s)
        PROVE  Covered(K, M, p, x, s, b)
    <2>1. Covered(J, I, p, x, s, b)
      BY GoodDirs DEF J
    <2>2. h # ResourceJob(x, s) /\ h # RowJob(x, s, b) /\ ~LooksUp(h, Here(x, s, b))
      BY <1>4, JobKinds
    <2> QED  BY <1>1, <1>3, <2>1, <2>2, CoveredStays
  <1>7. ASSUME NEW x \in O, NEW n \in Range(x.dir.modules), NEW w \in Range(Instances(n, x.prefix))
        PROVE  Entered(K, M, O, x, n, w)
    <2>1. Entered(J, I, O, x, n, w)
      BY GoodDirs DEF J
    <2>2. CASE h = ModuleJob(n, w)
      <3>1. ModuleJob(m, q) = ModuleJob(n, w)
        BY <1>4, <2>2
      <3>2. m = n /\ q = w
        BY <3>1, SameModule
      <3> QED  BY <1>2, <1>3, <3>2 DEF Entered
    <2>3. CASE h # ModuleJob(n, w)
      <3>1. h # CallJob(x, n)
        BY <1>4, JobKinds
      <3>2. \A y \in O : y \in O
        OBVIOUS
      <3> QED  BY <1>1, <1>3, <2>1, <2>3, <3>1, <3>2, EnteredStays
    <2> QED  BY <2>2, <2>3
  <1>8. Covers(K, M, p, O)
    BY <1>6, <1>7 DEF Covers
  <1>9. IsItem(it, p, O)
    BY <1>2 DEF IsItem
  <1> QED  BY <1>5, <1>8, <1>9, EmitGood DEF K, M, h, it

\* The body of a module is opened.
LEMMA OpenGood ==
  ASSUME NEW T, NEW I, NEW p, NEW O, Good(T, I, p, O), T # <<>>,
         NEW o \in O, NEW m \in Range(o.dir.modules), NEW q \in Range(Instances(m, o.prefix)),
         IsSeq(q), Head(T) = ModuleJob(m, q), Opens(m), IsDir(m.body)
  PROVE  Good(priceDir(m.body, q) \o Tail(T), I, p, O \cup {[dir |-> m.body, prefix |-> q]})
  <1> DEFINE d == m.body
             c == [dir |-> d, prefix |-> q]
             N == priceDir(d, q)
             U == N \o Tail(T)
             J == Range(T)
             K == Range(U)
             h == Head(T)
             P == O \cup {c}
  <1>1. /\ IsSeq(N) /\ Shares(N, ModuleJob(m, q))
        /\ \A k \in DOMAIN N : ~Owns(N[k], DirCell(c))
        /\ \A r \in Range(d.resources) : ResourceJob(c, r) \in Range(N)
        /\ \A x \in Range(d.modules) : CallJob(c, x) \in Range(N)
        /\ \A j \in Range(N) : \/ \E r \in Range(d.resources) : j = ResourceJob(c, r)
                               \/ \E x \in Range(d.modules) : j = CallJob(c, x)
    BY SharesDir
  <1>2. h = ModuleJob(m, q) /\ c.dir = d /\ c.prefix = q /\ IsSeq(T)
    BY GoodDirs
  <1> HIDE DEF N, c, d
  <1>3. Owns(h, DirCell(c))
    <2>1. Starts(q, q) /\ DirCell(c).addr.prefix = q
      BY <1>2, StartsFacts DEF DirCell, At
    <2> HIDE DEF h
    <2> QED  BY <1>2, <2>1 DEF Owns, ModuleJob
  <1>4. Claims(U, I, P)
    <2>1. Claims(T, I, O)
      BY DEF Good
    <2> QED  BY <1>1, <1>2, <1>3, <2>1, ClaimsOpen
  <1>5. IsSeq(U) /\ (\A x : x \in K <=> x \in Range(N) \/ x \in Range(Tail(T)))
        /\ \A x : x \in J <=> x = h \/ x \in Range(Tail(T))
    BY <1>1, <1>2, Replaced
  <1>6. Extends(I, I) /\ (\A x \in O : x \in P) /\ c \in P
        /\ \A x \in P : x \in O \/ x = c
    BY DEF Extends
  <1> HIDE DEF U, J, K, h, P
  <1>7. \A j \in J : j = h \/ j \in K
    BY <1>5
  <1>8. \A x \in P : GoodDir(x) /\ GroundDir(x, p, P)
    <2>1. \A x \in O : GoodDir(x) /\ GroundDir(x, p, O)
      BY DEF Good
    <2>2. \A x \in O : GroundDir(x, p, P)
      BY <1>6, <2>1 DEF GroundDir
    <2>3. GoodDir(c)
      BY <1>2 DEF GoodDir, c, d
    <2>4. GroundDir(c, p, P)
      BY <1>2, <1>6 DEF GroundDir, d
    <2> QED  BY <1>6, <2>1, <2>2, <2>3, <2>4
  <1>9. \A j \in K : GroundJob(j, p, P)
    <2>1. \A j \in J : GroundJob(j, p, O)
      BY DEF Good, J
    <2>2. \A j \in J : GroundJob(j, p, P)
      BY <1>6, <2>1 DEF GroundJob
    <2>3. \A j \in Range(N) : GroundJob(j, p, P)
      BY <1>1, <1>2, <1>6 DEF GroundJob
    <2> QED  BY <1>5, <2>2, <2>3
  <1>10. \A i \in DOMAIN I : IsItem(I[i], p, P)
    <2>1. \A i \in DOMAIN I : IsItem(I[i], p, O)
      BY DEF Good
    <2>2. ASSUME NEW it, IsItem(it, p, O) PROVE IsItem(it, p, P)
      BY <1>6, <2>2 DEF IsItem
    <2> QED  BY <2>1, <2>2
  <1>11. ASSUME NEW x \in P, NEW s \in Range(x.dir.resources), NEW b \in Rows(s)
         PROVE  Covered(K, I, p, x, s, b)
    <2>1. CASE x = c
      <3>1. ResourceJob(c, s) \in Range(N)
        BY <1>1, <1>2, <2>1
      <3> QED  BY <1>5, <2>1, <3>1 DEF Covered
    <2>2. CASE x \in O
      <3>1. Covered(J, I, p, x, s, b)
        BY <2>2, GoodDirs DEF J
      <3>2. h # ResourceJob(x, s) /\ h # RowJob(x, s, b) /\ ~LooksUp(h, Here(x, s, b))
        BY <1>2, JobKinds
      <3> QED  BY <1>6, <1>7, <3>1, <3>2, CoveredStays
    <2> QED  BY <1>6, <2>1, <2>2
  <1>12. ASSUME NEW x \in P, NEW n \in Range(x.dir.modules), NEW w \in Range(Instances(n, x.prefix))
         PROVE  Entered(K, I, P, x, n, w)
    <2>1. CASE x = c
      <3>1. CallJob(c, n) \in Range(N)
        BY <1>1, <1>2, <2>1
      <3> QED  BY <1>5, <2>1, <3>1 DEF Entered
    <2>2. CASE x \in O
      <3>1. Entered(J, I, O, x, n, w)
        BY <2>2, GoodDirs DEF J
      <3>2. CASE h = ModuleJob(n, w)
        <4>1. ModuleJob(m, q) = ModuleJob(n, w)
          BY <1>2, <3>2
        <4>2. m = n /\ q = w
          BY <4>1, SameModule
        <4>3. Opens(n) /\ [dir |-> n.body, prefix |-> w] \in P
          BY <1>6, <4>2 DEF c, d
        <4> QED  BY <4>3 DEF Entered
      <3>3. CASE h # ModuleJob(n, w)
        <4>1. h # CallJob(x, n)
          BY <1>2, JobKinds
        <4> QED  BY <1>6, <1>7, <3>1, <3>3, <4>1, EnteredStays
      <3> QED  BY <3>2, <3>3
    <2> QED  BY <1>6, <2>1, <2>2
  <1>13. Covers(K, I, p, P)
    BY <1>11, <1>12 DEF Covers
  <1>14. Root(p) \in P /\ IsSeq(I)
    BY <1>6 DEF Good
  <1>15. Good(U, I, p, P)
    BY <1>4, <1>5, <1>8, <1>9, <1>10, <1>13, <1>14 DEF Good, K
  <1> QED  BY <1>15 DEF U, N, P, c, d

\* How the work begins.
LEMMA FirstGood ==
  ASSUME NEW p, IsDir(p.dir)
  PROVE  Good(priceDir(p.dir, <<>>), <<>>, p, {Root(p)})
  <1> DEFINE o == Root(p)
             N == priceDir(p.dir, <<>>)
             I == <<>>
             O == {o}
             m == CHOOSE x : TRUE
  <1>1. o = [dir |-> p.dir, prefix |-> <<>>] /\ o.dir = p.dir /\ o.prefix = <<>>
    BY DEF Root
  <1>2. IsSeq(o.prefix)
    BY <1>1, EmptySeq
  <1>3. /\ IsSeq(N) /\ Shares(N, ModuleJob(m, <<>>))
        /\ \A k \in DOMAIN N : ~Owns(N[k], DirCell(o))
        /\ \A r \in Range(p.dir.resources) : ResourceJob(o, r) \in Range(N)
        /\ \A x \in Range(p.dir.modules) : CallJob(o, x) \in Range(N)
        /\ \A j \in Range(N) : \/ \E r \in Range(p.dir.resources) : j = ResourceJob(o, r)
                               \/ \E x \in Range(p.dir.modules) : j = CallJob(o, x)
    <2> DEFINE q == <<>>
               c == [dir |-> p.dir, prefix |-> q]
    <2>1. IsSeq(q)
      BY EmptySeq
    <2>2. c = o
      BY <1>1
    <2> HIDE DEF m, q
    <2>3. /\ IsSeq(priceDir(p.dir, q)) /\ Shares(priceDir(p.dir, q), ModuleJob(m, q))
          /\ \A k \in DOMAIN priceDir(p.dir, q) : ~Owns(priceDir(p.dir, q)[k], DirCell(c))
          /\ \A r \in Range(p.dir.resources) : ResourceJob(c, r) \in Range(priceDir(p.dir, q))
          /\ \A x \in Range(p.dir.modules) : CallJob(c, x) \in Range(priceDir(p.dir, q))
          /\ \A j \in Range(priceDir(p.dir, q)) :
                \/ \E r \in Range(p.dir.resources) : j = ResourceJob(c, r)
                \/ \E x \in Range(p.dir.modules) : j = CallJob(c, x)
      BY <2>1, SharesDir
    <2> HIDE DEF c, o
    <2> QED  BY <2>2, <2>3 DEF q
  <1>4. IsSeq(I) /\ DOMAIN I = {}
    BY EmptySeq
  <1> HIDE DEF o, N, I, m
  <1>5. Claims(N, I, O)
    BY <1>3, <1>4 DEF Claims, Shares
  <1>6. \A j \in Range(N) : GroundJob(j, p, O)
    BY <1>1, <1>3 DEF GroundJob
  <1>7. Covers(Range(N), I, p, O)
    <2>1. \A r \in Range(o.dir.resources) : \A row \in Rows(r) : Covered(Range(N), I, p, o, r, row)
      BY <1>1, <1>3 DEF Covered
    <2>2. \A x \in Range(o.dir.modules) : \A q \in Range(Instances(x, o.prefix)) :
             Entered(Range(N), I, O, o, x, q)
      BY <1>1, <1>3 DEF Entered
    <2> QED  BY <2>1, <2>2 DEF Covers
  <1>8. GoodDir(o) /\ GroundDir(o, p, O)
    BY <1>1, <1>2 DEF GoodDir, GroundDir, Root
  <1>9. Good(N, I, p, O)
    BY <1>3, <1>4, <1>5, <1>6, <1>7, <1>8 DEF Good, o
  <1> QED  BY <1>9 DEF N, I, o

\* A lookup that ends in a price: a published fee, or one that fits.
LEMMA SoldGood ==
  ASSUME NEW T, NEW I, NEW p, NEW O, Good(T, I, p, O), T # <<>>,
         NEW o \in O, NEW r \in Range(o.dir.resources), NEW row \in Rows(r),
         IsLookup(Head(T), p, o, r, row),
         NEW price, price = None \/ Fits(price, QueryOf(Head(T)))
  PROVE  LET h == Head(T)
         IN  Good(Tail(T), Append(I, Item(h.addr, h.nth, "Fixed", TRUE, price, QueryOf(h),
                                          h.spec.qty * h.spec.count)), p, O)
  <1> DEFINE h == Head(T)
             q == QueryOf(h)
             times == h.spec.qty * h.spec.count
             it == Item(h.addr, h.nth, "Fixed", TRUE, price, q, times)
  <1>1. /\ h.addr = Here(o, r, row) /\ row.n > 0 /\ IsSpec(h.spec)
        /\ h.region \in {Global, InRegion(p, o, r)}
        /\ Bills(p, h.nth, h.spec.service, h.spec.filters, times, o, r, row)
    BY DEF IsLookup
  <1>2. q.service = h.spec.service /\ q.filters = h.spec.filters /\ q.region = h.region
    BY DEF QueryOf
  <1>3. times \in Nat
    <2>1. h.spec.qty \in Nat /\ h.spec.count \in Nat
      BY <1>1 DEF IsSpec
    <2> QED  BY <2>1, Products
  <1>4. price = None \/ Fits(price, q)
    OBVIOUS
  <1> HIDE DEF q, times
  <1>5. /\ it.addr = h.addr /\ it.nth = h.nth /\ it.kind = "Fixed" /\ it.priced = TRUE
        /\ it.price = price /\ it.asked = q /\ it.times = times
    BY DEF Item
  <1> HIDE DEF it
  <1>6. IsPlaced(it, p, o, r, row)
    <2> HIDE DEF h
    <2> QED  BY <1>1, <1>2, <1>4, <1>5 DEF IsPlaced
  <1>7. it.kind \in Kinds
    BY <1>5 DEF Kinds
  <1>8. Good(Tail(T), Append(I, it), p, O)
    BY <1>3, <1>5, <1>6, <1>7, EmitLookup
  <1> QED  BY <1>8 DEF it, q, times

LEMMA UnsoldGood ==
  ASSUME NEW T, NEW I, NEW p, NEW O, Good(T, I, p, O), T # <<>>,
         NEW o \in O, NEW r \in Range(o.dir.resources), NEW row \in Rows(r),
         IsLookup(Head(T), p, o, r, row),
         p.faults \/ InRegion(p, o, r) \notin Region
  PROVE  LET h == Head(T)
         IN  Good(Tail(T), Append(I, Unpriced(h.addr, h.nth, "Fixed")), p, O)
  <1> DEFINE h == Head(T)
             it == Unpriced(h.addr, h.nth, "Fixed")
  <1>1. h.addr = Here(o, r, row)
    BY DEF IsLookup
  <1>2. /\ it.addr = h.addr /\ it.nth = h.nth /\ it.kind = "Fixed" /\ it.priced = FALSE
    BY DEF Unpriced, Item
  <1> HIDE DEF it
  <1>3. IsPlaced(it, p, o, r, row) /\ it.kind \in Kinds
    BY <1>1, <1>2 DEF IsPlaced, Kinds
  <1>4. Good(Tail(T), Append(I, it), p, O)
    BY <1>2, <1>3, EmitLookup
  <1> QED  BY <1>4 DEF it

-----------------------------------------------------------------------------
(* The inductive invariant.                                                *)

\* The cache holds answers to composed queries, one per key.
Held(H, p) ==
    /\ \A h \in H : \E q : /\ IsQuery(q)
                           /\ h = [key |-> cacheKey(compose(q)), price |-> AnswerIn(p, compose(q))]
    /\ \A h, k \in H : h.key = k.key => h = k

Inv == /\ Good(todo, items, sc, opened)
       /\ Held(held, sc)
       /\ Done => /\ todo = <<>>
                  /\ report = [md |-> WriteMarkdown, compact |-> WriteCompact]

LEMMA BodyIsDir ==
  ASSUME NEW o, GoodDir(o), NEW m \in Range(o.dir.modules)
  PROVE  /\ IsMeta(m.meta) /\ m.type = "module" /\ IsSeq(o.prefix)
         /\ m.body # None => IsDir(m.body)
  BY CostAssumption DEF CostAssumption, GoodDir, IsDir

LEMMA ResourceMeta ==
  ASSUME NEW o, GoodDir(o), NEW r \in Range(o.dir.resources)
  PROVE  IsMeta(r.meta)
  BY DEF GoodDir, IsDir, IsResource

LEMMA GateGood ==
  ASSUME Good(todo, items, sc, opened), Gate
  PROVE  Good(todo', items', sc', opened')
  <1>1. todo # <<>> /\ Job.do = "resource" /\ metaCount(Job.r) = 0
    BY DEF Gate, Doing
  <1>2. PICK o \in opened : \E r \in Range(o.dir.resources) : Job = ResourceJob(o, r)
    BY <1>1, HeadIs DEF Job
  <1>3. PICK r \in Range(o.dir.resources) : Job = ResourceJob(o, r)
    BY <1>2
  <1>4. Job.r = r /\ Job.prefix = o.prefix
    BY <1>3 DEF ResourceJob
  <1>5. GoodDir(o)
    BY GoodDirs
  <1>6. IsMeta(r.meta)
    BY <1>5, ResourceMeta
  <1> DEFINE row == [key |-> <<>>, each |-> Unknown, n |-> metaCount(r)]
  <1>7. Rows(r) = {row}
    <2>1. ~Keyed(r)
      <3>1. ~(metaCount(r) > 0)
        BY <1>1, <1>4
      <3> QED  BY <1>6, <3>1, RowFacts
    <2> QED  BY <1>6, <2>1, RowFacts
  <1>8. row.n = 0 /\ row.key = <<>>
    BY <1>1, <1>4
  <1> HIDE DEF row
  <1>9. \A k : ~Owes(sc, o, r, row, k)
    BY <1>8 DEF Owes
  <1>10. "Fixed" \in Kinds
    BY DEF Kinds
  <1>11. Good(Tail(todo), Append(items, Unpriced(Here(o, r, row), 1, "Fixed")), sc, opened)
    BY <1>1, <1>3, <1>7, <1>9, <1>10, EmitRow DEF Job
  <1>12. Here(o, r, row) = At(Job.prefix, Addr(Job.r), <<>>)
    BY <1>4, <1>8 DEF Here
  <1> QED  BY <1>11, <1>12 DEF Gate

LEMMA ExpandGood ==
  ASSUME Good(todo, items, sc, opened), Expand
  PROVE  Good(todo', items', sc', opened')
  <1>1. todo # <<>> /\ Job.do = "resource" /\ Keyed(Job.r)
    BY DEF Expand, Doing
  <1>2. PICK o \in opened : \E r \in Range(o.dir.resources) : Job = ResourceJob(o, r)
    BY <1>1, HeadIs DEF Job
  <1>3. PICK r \in Range(o.dir.resources) : Job = ResourceJob(o, r)
    BY <1>2
  <1>4. Job.r = r
    BY <1>3 DEF ResourceJob
  <1>5. GoodDir(o)
    BY GoodDirs
  <1>6. IsMeta(r.meta)
    BY <1>5, ResourceMeta
  <1> DEFINE N == [i \in DOMAIN r.meta.items |->
                      RowOf(ResourceJob(o, r), <<r.meta.items[i][1]>>, r.meta.items[i][2], 1)]
  <1>7. /\ IsSeq(N) /\ Shares(N, ResourceJob(o, r))
        /\ \A row \in Rows(r) : RowJob(o, r, row) \in Range(N)
        /\ \A j \in Range(N) : \E row \in Rows(r) : j = RowJob(o, r, row) /\ row.n > 0
    <2>1. Keyed(r)
      BY <1>1, <1>4
    <2> QED  BY <1>6, <2>1, SharesRows
  <1>8. todo' = N \o Tail(todo) /\ items' = items /\ sc' = sc /\ opened' = opened
    BY <1>3, <1>4 DEF Expand
  <1> HIDE DEF N
  <1>9. Good(N \o Tail(todo), items, sc, opened)
    BY <1>1, <1>3, <1>7, SplitResource DEF Job
  <1> QED  BY <1>8, <1>9

LEMMA MultiplyGood ==
  ASSUME Good(todo, items, sc, opened), Multiply
  PROVE  Good(todo', items', sc', opened')
  <1>1. todo # <<>> /\ Job.do = "resource" /\ ~Expands(Job.r) /\ metaCount(Job.r) > 0
    BY DEF Multiply, Doing
  <1>2. PICK o \in opened : \E r \in Range(o.dir.resources) : Job = ResourceJob(o, r)
    BY <1>1, HeadIs DEF Job
  <1>3. PICK r \in Range(o.dir.resources) : Job = ResourceJob(o, r)
    BY <1>2
  <1>4. Job.r = r
    BY <1>3 DEF ResourceJob
  <1>5. GoodDir(o)
    BY GoodDirs
  <1>6. IsMeta(r.meta)
    BY <1>5, ResourceMeta
  <1> DEFINE row == [key |-> <<>>, each |-> Unknown, n |-> metaCount(r)]
             N == <<RowJob(o, r, row)>>
  <1>7. Rows(r) = {row} /\ row.n > 0
    <2>1. ~Keyed(r)
      BY <1>1, <1>4 DEF Keyed
    <2> QED  BY <1>1, <1>4, <1>6, <2>1, RowFacts
  <1>8. RowOf(Job, <<>>, Unknown, metaCount(Job.r)) = RowJob(o, r, row)
    BY <1>3, <1>4 DEF RowOf, RowJob, ResourceJob
  <1>9. todo' = N \o Tail(todo) /\ items' = items /\ sc' = sc /\ opened' = opened
    BY <1>8 DEF Multiply
  <1> HIDE DEF row
  <1>10. IsSeq(N) /\ Range(N) = {RowJob(o, r, row)} /\ Shares(N, ResourceJob(o, r))
    BY SharesRow
  <1> HIDE DEF N
  <1>11. Good(N \o Tail(todo), items, sc, opened)
    BY <1>1, <1>3, <1>7, <1>10, SplitResource DEF Job
  <1> QED  BY <1>9, <1>11

LEMMA PriceOneGood ==
  ASSUME Good(todo, items, sc, opened), PriceOne
  PROVE  Good(todo', items', sc', opened')
  <1>1. todo # <<>> /\ Job.do = "row"
    BY DEF PriceOne, Doing
  <1>2. PICK o \in opened : \E r \in Range(o.dir.resources) : \E row \in Rows(r) :
           Job = RowJob(o, r, row) /\ row.n > 0
    BY <1>1, HeadIs DEF Job
  <1>3. PICK r \in Range(o.dir.resources) : \E row \in Rows(r) :
           Job = RowJob(o, r, row) /\ row.n > 0
    BY <1>2
  <1>4. PICK row \in Rows(r) : Job = RowJob(o, r, row) /\ row.n > 0
    BY <1>3
  <1>5. GoodDir(o)
    BY GoodDirs
  <1> DEFINE j == RowJob(o, r, row)
             m == Mapped(j)
             N == Lookups(j)
  <1>6. /\ m.kind \in Kinds
        /\ m.specs = <<>> => /\ ~GroupPriced(o, r, row)
                             /\ ~DependsOn(o.dir) => OnceIn(sc, o.dir, r) = <<>>
        /\ m.specs # <<>> =>
              /\ IsSeq(N) /\ 1 \in DOMAIN N
              /\ \A i \in DOMAIN N : N[i].nth = i /\ IsLookup(N[i], sc, o, r, row)
              /\ ~DependsOn(o.dir) => DOMAIN OnceIn(sc, o.dir, r) = DOMAIN N
    BY <1>4, <1>5, RowLookups
  <1>7. /\ j.prefix = o.prefix /\ j.r = r /\ j.key = row.key
    BY DEF RowJob
  <1>8. Job = j /\ sc' = sc /\ opened' = opened
    BY <1>4 DEF PriceOne
  <1> HIDE DEF j, m, N
  <1>9. CASE m.specs = <<>>
    <2>1. todo' = Tail(todo)
          /\ items' = Append(items, Unpriced(At(j.prefix, Addr(j.r), j.key), 1, m.kind))
      BY <1>8, <1>9 DEF PriceOne, m
    <2>2. \A k : ~Owes(sc, o, r, row, k)
      <3>1. DOMAIN <<>> = {}
        OBVIOUS
      <3> QED  BY <1>6, <1>9, <3>1 DEF Owes
    <2>3. Good(Tail(todo), Append(items, Unpriced(Here(o, r, row), 1, m.kind)), sc, opened)
      BY <1>1, <1>6, <1>8, <2>2, EmitRow DEF Job, j
    <2>4. At(j.prefix, Addr(j.r), j.key) = Here(o, r, row)
      BY <1>7 DEF Here
    <2> QED  BY <1>8, <2>1, <2>3, <2>4
  <1>10. CASE m.specs # <<>>
    <2>1. todo' = N \o Tail(todo) /\ items' = items
      BY <1>8, <1>10 DEF PriceOne, m, N
    <2>2. Good(N \o Tail(todo), items, sc, opened)
      BY <1>1, <1>6, <1>8, <1>10, SplitRow DEF Job, j
    <2> QED  BY <1>8, <2>1, <2>2
  <1> QED  BY <1>9, <1>10

LEMMA HeadLookup ==
  ASSUME Good(todo, items, sc, opened), Doing("lookup")
  PROVE  /\ todo # <<>>
         /\ \E o \in opened : \E r \in Range(o.dir.resources) : \E row \in Rows(r) :
               IsLookup(Job, sc, o, r, row)
  <1>1. todo # <<>> /\ Job.do = "lookup"
    BY DEF Doing
  <1> QED  BY <1>1, HeadIs DEF Job

LEMMA PricedGood ==
  ASSUME Good(todo, items, sc, opened), Doing("lookup"), NEW price,
         price = None \/ Fits(price, Query), Priced(price), UNCHANGED <<sc, opened>>
  PROVE  Good(todo', items', sc', opened')
  <1>1. PICK o \in opened : \E r \in Range(o.dir.resources) : \E row \in Rows(r) :
           IsLookup(Job, sc, o, r, row)
    BY HeadLookup
  <1>2. PICK r \in Range(o.dir.resources) : \E row \in Rows(r) : IsLookup(Job, sc, o, r, row)
    BY <1>1
  <1>3. PICK row \in Rows(r) : IsLookup(Job, sc, o, r, row)
    BY <1>2
  <1>4. todo # <<>>
    BY HeadLookup
  <1>5. Good(Tail(todo), Append(items, Item(Job.addr, Job.nth, "Fixed", TRUE, price, Query,
                                            Job.spec.qty * Job.spec.count)), sc, opened)
    BY <1>3, <1>4, SoldGood DEF Job, Query
  <1> QED  BY <1>5 DEF Priced

LEMMA QueryIs ==
  ASSUME Good(todo, items, sc, opened), Doing("lookup"), Known
  PROVE  IsQuery(Query)
  <1>1. IsSpec(Job.spec)
    BY HeadLookup DEF IsLookup
  <1> QED  BY <1>1 DEF IsQuery, Query, QueryOf, Known, IsSpec

LEMMA FromCacheGood ==
  ASSUME Good(todo, items, sc, opened), Held(held, sc), FromCache
  PROVE  Good(todo', items', sc', opened')
  <1>1. /\ Doing("lookup") /\ Known /\ Holds(compose(Query)) /\ UNCHANGED <<sc, opened>>
        /\ Priced((CHOOSE h \in held : h.key = cacheKey(compose(Query))).price)
    BY DEF FromCache
  <1>2. IsQuery(Query)
    BY <1>1, QueryIs
  <1> DEFINE k == cacheKey(compose(Query))
             g == CHOOSE h \in held : h.key = k
  <1>3. g \in held /\ g.key = k
    BY <1>1 DEF Holds
  <1> HIDE DEF g, k
  <1>4. PICK q : /\ IsQuery(q)
                 /\ g = [key |-> cacheKey(compose(q)), price |-> AnswerIn(sc, compose(q))]
    BY <1>3 DEF Held
  <1>5. g.key = cacheKey(compose(q)) /\ g.price = AnswerIn(sc, compose(q))
    BY <1>4
  <1>6. Fits(g.price, Query)
    BY <1>2, <1>3, <1>4, <1>5, AnswerShared DEF k
  <1>7. Priced(g.price)
    BY <1>1 DEF g, k
  <1> QED  BY <1>1, <1>6, <1>7, PricedGood

LEMMA FromClientGood ==
  ASSUME Good(todo, items, sc, opened), Held(held, sc), FromClient
  PROVE  Good(todo', items', sc', opened') /\ Held(held', sc')
  <1>1. /\ Doing("lookup") /\ Known /\ ~Holds(compose(Query)) /\ UNCHANGED <<sc, opened>>
        /\ Priced(Answer(compose(Query)))
        /\ held' = held \cup {[key |-> cacheKey(compose(Query)), price |-> Answer(compose(Query))]}
    BY DEF FromClient
  <1>2. IsQuery(Query)
    BY <1>1, QueryIs
  <1>3. \A q : Answer(q) = AnswerIn(sc, q)
    BY DEF Answer, AnswerIn
  <1>4. Fits(Answer(compose(Query)), Query)
    BY <1>2, <1>3, AnswerFacts
  <1>5. Good(todo', items', sc', opened')
    BY <1>1, <1>4, PricedGood
  <1> DEFINE q == Query
             h == [key |-> cacheKey(compose(q)), price |-> AnswerIn(sc, compose(q))]
  <1>6. held' = held \cup {h} /\ h.key = cacheKey(compose(q)) /\ sc' = sc
    BY <1>1, <1>3
  <1>7. \A g \in held : g.key # cacheKey(compose(q))
    BY <1>1 DEF Holds
  <1> HIDE DEF q
  <1>8. IsQuery(q)
    BY <1>2 DEF q
  <1>9. Held(held \cup {h}, sc)
    <2> DEFINE H == held \cup {h}
    <2>1. h = [key |-> cacheKey(compose(q)), price |-> AnswerIn(sc, compose(q))]
      OBVIOUS
    <2> HIDE DEF h
    <2>2. \A g \in H : \E x : /\ IsQuery(x)
                 /\ g = [key |-> cacheKey(compose(x)), price |-> AnswerIn(sc, compose(x))]
      BY <1>8, <2>1 DEF Held
    <2>3. \A g, f \in H : g.key = f.key => g = f
      BY <1>6, <1>7 DEF Held
    <2> QED  BY <2>2, <2>3 DEF Held
  <1> QED  BY <1>5, <1>6, <1>9

LEMMA FlatFeeGood ==
  ASSUME Good(todo, items, sc, opened), FlatFee
  PROVE  Good(todo', items', sc', opened')
  BY PricedGood DEF FlatFee

LEMMA LookupFailsGood ==
  ASSUME Good(todo, items, sc, opened), LookupFails
  PROVE  Good(todo', items', sc', opened')
  <1>1. /\ Doing("lookup") /\ (~Known \/ sc.faults)
        /\ items' = Append(items, Unpriced(Job.addr, Job.nth, "Fixed"))
        /\ todo' = Tail(todo) /\ UNCHANGED <<sc, opened>>
    BY DEF LookupFails
  <1>2. PICK o \in opened : \E r \in Range(o.dir.resources) : \E row \in Rows(r) :
           IsLookup(Job, sc, o, r, row)
    BY <1>1, HeadLookup
  <1>3. PICK r \in Range(o.dir.resources) : \E row \in Rows(r) : IsLookup(Job, sc, o, r, row)
    BY <1>2
  <1>4. PICK row \in Rows(r) : IsLookup(Job, sc, o, r, row)
    BY <1>3
  <1>5. todo # <<>>
    BY <1>1, HeadLookup
  <1>6. sc.faults \/ InRegion(sc, o, r) \notin Region
    <2>1. Job.region \in {Global, InRegion(sc, o, r)}
      BY <1>4 DEF IsLookup
    <2> QED  BY <1>1, <2>1 DEF Known
  <1>7. Good(Tail(todo), Append(items, Unpriced(Job.addr, Job.nth, "Fixed")), sc, opened)
    BY <1>4, <1>5, <1>6, UnsoldGood DEF Job
  <1> QED  BY <1>1, <1>7

LEMMA InstantiateGood ==
  ASSUME Good(todo, items, sc, opened), Instantiate
  PROVE  Good(todo', items', sc', opened')
  <1>1. todo # <<>> /\ Job.do = "call"
    BY DEF Instantiate, Doing
  <1>2. PICK o \in opened : \E m \in Range(o.dir.modules) : Job = CallJob(o, m)
    BY <1>1, HeadIs DEF Job
  <1>3. PICK m \in Range(o.dir.modules) : Job = CallJob(o, m)
    BY <1>2
  <1>4. Job.m = m /\ Job.prefix = o.prefix
    BY <1>3 DEF CallJob
  <1>5. IsMeta(m.meta) /\ IsSeq(o.prefix)
    BY GoodDirs, BodyIsDir
  <1> DEFINE at == Instances(m, o.prefix)
             N  == [i \in DOMAIN at |-> [do |-> "module", m |-> m, prefix |-> at[i]]]
  <1>6. /\ IsSeq(N) /\ Shares(N, CallJob(o, m))
        /\ \A q \in Range(at) : ModuleJob(m, q) \in Range(N)
        /\ \A j \in Range(N) : \E q \in Range(at) : j = ModuleJob(m, q)
    BY <1>5, SharesModules
  <1>7. todo' = N \o Tail(todo) /\ items' = items /\ sc' = sc /\ opened' = opened
    BY <1>4 DEF Instantiate
  <1> HIDE DEF N
  <1>8. Good(N \o Tail(todo), items, sc, opened)
    BY <1>1, <1>3, <1>6, SplitCall DEF Job
  <1> QED  BY <1>7, <1>8

LEMMA HeadModule ==
  ASSUME Good(todo, items, sc, opened), Doing("module")
  PROVE  /\ todo # <<>>
         /\ \E o \in opened : \E m \in Range(o.dir.modules) : \E q \in Range(Instances(m, o.prefix)) :
               /\ Job = ModuleJob(m, q) /\ Job.m = m /\ Job.prefix = q /\ IsSeq(q)
               /\ IsMeta(m.meta) /\ m.type = "module" /\ (m.body # None => IsDir(m.body))
  <1>1. todo # <<>> /\ Job.do = "module"
    BY DEF Doing
  <1>2. PICK o \in opened : \E m \in Range(o.dir.modules) :
           \E q \in Range(Instances(m, o.prefix)) : Job = ModuleJob(m, q)
    BY <1>1, HeadIs DEF Job
  <1>3. PICK m \in Range(o.dir.modules) :
           \E q \in Range(Instances(m, o.prefix)) : Job = ModuleJob(m, q)
    BY <1>2
  <1>4. PICK q \in Range(Instances(m, o.prefix)) : Job = ModuleJob(m, q)
    BY <1>3
  <1>5. Job.m = m /\ Job.prefix = q
    BY <1>4 DEF ModuleJob
  <1>6. IsMeta(m.meta) /\ m.type = "module" /\ IsSeq(o.prefix) /\ (m.body # None => IsDir(m.body))
    BY GoodDirs, BodyIsDir
  <1>7. IsSeq(q)
    BY <1>6, InstanceFacts
  <1> QED  BY <1>1, <1>4, <1>5, <1>6, <1>7

\* A module that is not opened.
LEMMA NotOpenedGood ==
  ASSUME Good(todo, items, sc, opened), Doing("module"), NEW kind \in Kinds,
         ~Opens(Job.m), UNCHANGED <<sc, opened>>,
         items' = Append(items, Unpriced(At(Job.prefix, <<>>, <<>>), 1, kind)),
         todo' = Tail(todo)
  PROVE  Good(todo', items', sc', opened')
  <1>1. PICK o \in opened : \E m \in Range(o.dir.modules) :
           \E q \in Range(Instances(m, o.prefix)) :
              Job = ModuleJob(m, q) /\ Job.m = m /\ Job.prefix = q /\ IsSeq(q)
    BY HeadModule
  <1>2. PICK m \in Range(o.dir.modules) : \E q \in Range(Instances(m, o.prefix)) :
           Job = ModuleJob(m, q) /\ Job.m = m /\ Job.prefix = q /\ IsSeq(q)
    BY <1>1
  <1>3. PICK q \in Range(Instances(m, o.prefix)) :
           Job = ModuleJob(m, q) /\ Job.m = m /\ Job.prefix = q /\ IsSeq(q)
    BY <1>2
  <1>4. todo # <<>> /\ ~Opens(m)
    BY <1>3, HeadModule
  <1>5. Good(Tail(todo), Append(items, Unpriced(At(q, <<>>, <<>>), 1, kind)), sc, opened)
    BY <1>3, <1>4, EmitModule DEF Job
  <1> QED  BY <1>3, <1>5

LEMMA GateModuleGood ==
  ASSUME Good(todo, items, sc, opened), GateModule
  PROVE  Good(todo', items', sc', opened')
  <1>1. ~Opens(Job.m) /\ "Fixed" \in Kinds
    BY DEF GateModule, Opens, Kinds
  <1> QED  BY <1>1, NotOpenedGood DEF GateModule

LEMMA ClosedModuleGood ==
  ASSUME Good(todo, items, sc, opened), ClosedModule
  PROVE  Good(todo', items', sc', opened')
  <1> DEFINE kind == MapResource(Job.m, None, sc.region).kind
  <1>1. ~Opens(Job.m) /\ Doing("module")
    BY DEF ClosedModule, Opens
  <1>2. kind \in Kinds
    <2>1. Job.m.type = "module"
      BY <1>1, HeadModule
    <2>2. MapResource(Job.m, None, sc.region) = Row("Unsupported")
      BY <2>1 DEF MapResource
    <2> QED  BY <2>2 DEF Row, Kinds
  <1>3. /\ items' = Append(items, Unpriced(At(Job.prefix, <<>>, <<>>), 1, kind))
        /\ todo' = Tail(todo) /\ UNCHANGED <<sc, opened>>
    BY DEF ClosedModule
  <1> HIDE DEF kind
  <1> QED  BY <1>1, <1>2, <1>3, NotOpenedGood

LEMMA OpenModuleGood ==
  ASSUME Good(todo, items, sc, opened), OpenModule
  PROVE  Good(todo', items', sc', opened')
  <1>1. /\ Doing("module") /\ metaCount(Job.m) > 0 /\ Job.m.body # None
        /\ todo' = priceDir(Job.m.body, Job.prefix) \o Tail(todo)
        /\ opened' = opened \cup {[dir |-> Job.m.body, prefix |-> Job.prefix]}
        /\ UNCHANGED <<sc, items>>
    BY DEF OpenModule
  <1>2. PICK o \in opened : \E m \in Range(o.dir.modules) :
           \E q \in Range(Instances(m, o.prefix)) :
              /\ Job = ModuleJob(m, q) /\ Job.m = m /\ Job.prefix = q /\ IsSeq(q)
              /\ m.body # None => IsDir(m.body)
    BY <1>1, HeadModule
  <1>3. PICK m \in Range(o.dir.modules) : \E q \in Range(Instances(m, o.prefix)) :
              /\ Job = ModuleJob(m, q) /\ Job.m = m /\ Job.prefix = q /\ IsSeq(q)
              /\ m.body # None => IsDir(m.body)
    BY <1>2
  <1>4. PICK q \in Range(Instances(m, o.prefix)) :
              /\ Job = ModuleJob(m, q) /\ Job.m = m /\ Job.prefix = q /\ IsSeq(q)
              /\ m.body # None => IsDir(m.body)
    BY <1>3
  <1>5. todo # <<>> /\ Opens(m) /\ IsDir(m.body)
    BY <1>1, <1>4, HeadModule DEF Opens
  <1>6. Good(priceDir(m.body, q) \o Tail(todo), items, sc,
             opened \cup {[dir |-> m.body, prefix |-> q]})
    BY <1>4, <1>5, OpenGood DEF Job
  <1> QED  BY <1>1, <1>4, <1>6

LEMMA InvInit == Init => Inv
  <1> SUFFICES ASSUME Init PROVE Inv
    OBVIOUS
  <1>1. PICK F \in Families : sc \in F
    BY DEF Init
  <1>2. IsDir(sc.dir)
    BY <1>1, CostAssumption DEF CostAssumption
  <1>3. Good(priceDir(sc.dir, <<>>), <<>>, sc, {Root(sc)})
    BY <1>2, FirstGood
  <1>4. Good(todo, items, sc, opened)
    BY <1>3 DEF Init, Root
  <1>5. Held(held, sc)
    BY DEF Init, Held
  <1> QED  BY <1>4, <1>5 DEF Inv, Init, Done

LEMMA InvNext == Inv /\ [Next]_vars => Inv'
  <1> SUFFICES ASSUME Inv, [Next]_vars PROVE Inv'
    OBVIOUS
  <1> DEFINE Working == todo # <<>> /\ UNCHANGED <<sc, report>>
  <1>1. Good(todo, items, sc, opened) /\ Held(held, sc) /\ (todo # <<>> => report = None)
    BY DEF Inv, Done
  <1>2. ASSUME Working, Good(todo', items', sc', opened'), Held(held', sc') PROVE Inv'
    BY <1>1, <1>2 DEF Inv, Done
  <1>3. CASE Gate
    <2>1. Working /\ held' = held
      BY <1>3 DEF Gate, Doing
    <2> QED  BY <1>1, <1>2, <1>3, <2>1, GateGood
  <1>4. CASE Expand
    <2>1. Working /\ held' = held
      BY <1>4 DEF Expand, Doing
    <2> QED  BY <1>1, <1>2, <1>4, <2>1, ExpandGood
  <1>5. CASE Multiply
    <2>1. Working /\ held' = held
      BY <1>5 DEF Multiply, Doing
    <2> QED  BY <1>1, <1>2, <1>5, <2>1, MultiplyGood
  <1>6. CASE PriceOne
    <2>1. Working /\ held' = held
      BY <1>6 DEF PriceOne, Doing
    <2> QED  BY <1>1, <1>2, <1>6, <2>1, PriceOneGood
  <1>7. CASE FlatFee
    <2>1. Working /\ held' = held
      BY <1>7 DEF FlatFee, Doing
    <2> QED  BY <1>1, <1>2, <1>7, <2>1, FlatFeeGood
  <1>8. CASE FromCache
    <2>1. Working /\ held' = held
      BY <1>8 DEF FromCache, Doing
    <2> QED  BY <1>1, <1>2, <1>8, <2>1, FromCacheGood
  <1>9. CASE FromClient
    <2>1. Working
      BY <1>9 DEF FromClient, Doing
    <2> QED  BY <1>1, <1>2, <1>9, <2>1, FromClientGood
  <1>10. CASE LookupFails
    <2>1. Working /\ held' = held
      BY <1>10 DEF LookupFails, Doing
    <2> QED  BY <1>1, <1>2, <1>10, <2>1, LookupFailsGood
  <1>11. CASE Instantiate
    <2>1. Working /\ held' = held
      BY <1>11 DEF Instantiate, Doing
    <2> QED  BY <1>1, <1>2, <1>11, <2>1, InstantiateGood
  <1>12. CASE GateModule
    <2>1. Working /\ held' = held
      BY <1>12 DEF GateModule, Doing
    <2> QED  BY <1>1, <1>2, <1>12, <2>1, GateModuleGood
  <1>13. CASE OpenModule
    <2>1. Working /\ held' = held
      BY <1>13 DEF OpenModule, Doing
    <2> QED  BY <1>1, <1>2, <1>13, <2>1, OpenModuleGood
  <1>14. CASE ClosedModule
    <2>1. Working /\ held' = held
      BY <1>14 DEF ClosedModule, Doing
    <2> QED  BY <1>1, <1>2, <1>14, <2>1, ClosedModuleGood
  <1>15. CASE Write
    <2>1. /\ todo = <<>> /\ report' = [md |-> WriteMarkdown, compact |-> WriteCompact]
          /\ UNCHANGED <<sc, todo, held, items, opened>>
      BY <1>15 DEF Write
    <2>2. WriteMarkdown' = WriteMarkdown /\ WriteCompact' = WriteCompact
      BY <2>1 DEF WriteMarkdown, WriteCompact, OfKind
    <2> QED  BY <1>1, <2>1, <2>2 DEF Inv
  <1>16. CASE UNCHANGED vars
    <2>1. WriteMarkdown' = WriteMarkdown /\ WriteCompact' = WriteCompact
      BY <1>16 DEF WriteMarkdown, WriteCompact, OfKind, vars
    <2> QED  BY <1>16, <2>1 DEF Inv, vars, Done
  <1> QED
    BY <1>3, <1>4, <1>5, <1>6, <1>7, <1>8, <1>9, <1>10, <1>11, <1>12, <1>13, <1>14, <1>15,
       <1>16 DEF Next

LEMMA Always == Spec => []Inv
  BY InvInit, InvNext, PTL DEF Spec

-----------------------------------------------------------------------------
(* What the invariant says.                                                *)

LEMMA TypeHolds == Inv => TypeOK
  <1> SUFFICES ASSUME Inv PROVE TypeOK
    OBVIOUS
  <1>1. Good(todo, items, sc, opened) /\ Held(held, sc) /\ (Done => todo = <<>>)
    BY DEF Inv
  <1>2. ASSUME NEW i \in DOMAIN todo
        PROVE  todo[i].do \in {"resource", "row", "lookup", "call", "module"}
    <2> DEFINE j == todo[i]
    <2>1. j \in Range(todo)
      BY DEF Range
    <2> HIDE DEF j
    <2>2. GroundJob(j, sc, opened)
      BY <1>1, <2>1 DEF Good
    <2>3. /\ \A o, r : ResourceJob(o, r).do = "resource"
          /\ \A o, r, row : RowJob(o, r, row).do = "row"
          /\ \A o, r, row : IsLookup(j, sc, o, r, row) => j.do = "lookup"
          /\ \A o, m : CallJob(o, m).do = "call"
          /\ \A m, q : ModuleJob(m, q).do = "module"
      BY DEF ResourceJob, RowJob, IsLookup, CallJob, ModuleJob
    <2>4. j.do \in {"resource", "row", "lookup", "call", "module"}
      BY <2>2, <2>3 DEF GroundJob
    <2> QED  BY <2>4 DEF j
  <1>3. \A h, k \in held : h.key = k.key => h = k
    BY <1>1 DEF Held
  <1>4. ASSUME NEW i \in DOMAIN items
        PROVE  /\ items[i].kind \in {"Fixed", "Variable", "Free", "Unsupported"}
               /\ items[i].priced => items[i].kind = "Fixed" /\ items[i].times \in Nat
    BY <1>1 DEF Good, IsItem, Kinds
  <1> QED  BY <1>1, <1>2, <1>3, <1>4 DEF TypeOK

\* The place of an item that is priced.
LEMMA PricedPlace ==
  ASSUME Inv, NEW i \in DOMAIN items, items[i].priced
  PROVE  \E o \in opened : \E r \in Range(o.dir.resources) : \E row \in Rows(r) :
            IsPlaced(items[i], sc, o, r, row)
  <1>1. IsItem(items[i], sc, opened)
    BY DEF Inv, Good
  <1> QED  BY <1>1 DEF IsItem

\* Nothing is left to do: what is owed is billed.
LEMMA DoneCovers ==
  ASSUME Inv, Done
  PROVE  /\ \A o \in opened : \A r \in Range(o.dir.resources) : \A row \in Rows(r) :
               /\ \E i \in DOMAIN items : items[i].addr = Here(o, r, row)
               /\ \A k : Owes(sc, o, r, row, k) =>
                     \E i \in DOMAIN items :
                        /\ items[i].addr = Here(o, r, row) /\ items[i].nth = k
                        /\ ~sc.faults /\ InRegion(sc, o, r) \in Region => items[i].priced
         /\ \A o \in opened : \A m \in Range(o.dir.modules) : \A q \in Range(Instances(m, o.prefix)) :
               /\ Opens(m) => [dir |-> m.body, prefix |-> q] \in opened
               /\ ~Opens(m) => \E i \in DOMAIN items : items[i].addr = At(q, <<>>, <<>>)
  <1> DEFINE J == Range(todo)
  <1>1. Covers(J, items, sc, opened) /\ todo = <<>>
    BY DEF Inv, Good
  <1>2. \A j : j \notin J
    BY <1>1 DEF Range
  <1> HIDE DEF J
  <1>3. ASSUME NEW o \in opened, NEW r \in Range(o.dir.resources), NEW row \in Rows(r)
        PROVE  /\ \E i \in DOMAIN items : items[i].addr = Here(o, r, row)
               /\ \A k : Owes(sc, o, r, row, k) =>
                     \E i \in DOMAIN items :
                        /\ items[i].addr = Here(o, r, row) /\ items[i].nth = k
                        /\ ~sc.faults /\ InRegion(sc, o, r) \in Region => items[i].priced
    <2>1. Covered(J, items, sc, o, r, row)
      BY <1>1 DEF Covers
    <2>2. /\ Touched(J, items, Here(o, r, row))
          /\ \A k : Owes(sc, o, r, row, k) => Sold(J, items, sc, o, r, row, k)
      BY <1>2, <2>1 DEF Covered
    <2>3. \E i \in DOMAIN items : items[i].addr = Here(o, r, row)
      BY <1>2, <2>2 DEF Touched
    <2>4. ASSUME NEW k, Owes(sc, o, r, row, k)
          PROVE  \E i \in DOMAIN items :
                        /\ items[i].addr = Here(o, r, row) /\ items[i].nth = k
                        /\ ~sc.faults /\ InRegion(sc, o, r) \in Region => items[i].priced
      BY <1>2, <2>2, <2>4 DEF Sold
    <2> QED  BY <2>3, <2>4
  <1>4. ASSUME NEW o \in opened, NEW m \in Range(o.dir.modules),
               NEW q \in Range(Instances(m, o.prefix))
        PROVE  /\ Opens(m) => [dir |-> m.body, prefix |-> q] \in opened
               /\ ~Opens(m) => \E i \in DOMAIN items : items[i].addr = At(q, <<>>, <<>>)
    <2>1. Entered(J, items, opened, o, m, q)
      BY <1>1 DEF Covers
    <2> QED  BY <1>2, <2>1 DEF Entered
  <1> QED  BY <1>3, <1>4

LEMMA OwnPriceHolds == Inv => OwnPrice
  <1> SUFFICES ASSUME Inv PROVE OwnPrice
    OBVIOUS
  <1>1. ASSUME NEW i \in DOMAIN items, items[i].priced
        PROVE  \E o \in opened : \E r \in Range(o.dir.resources) : \E row \in Rows(r) :
                  /\ items[i].addr = Here(o, r, row)
                  /\ items[i].asked.region \in {Global, resourceRegion(o.dir, r, sc.region)}
                  /\ items[i].price # None => Answers(items[i])
                  /\ r.type = "aws_autoscaling_group" =>
                        items[i].asked.filters["instanceType"] \in TemplateTypes(o, r, row)
    <2>1. PICK o \in opened : \E r \in Range(o.dir.resources) : \E row \in Rows(r) :
             IsPlaced(items[i], sc, o, r, row)
      BY <1>1, PricedPlace
    <2>2. PICK r \in Range(o.dir.resources) : \E row \in Rows(r) :
             IsPlaced(items[i], sc, o, r, row)
      BY <2>1
    <2>3. PICK row \in Rows(r) : IsPlaced(items[i], sc, o, r, row)
      BY <2>2
    <2> DEFINE it == items[i]
    <2>4. it.priced /\ IsPlaced(it, sc, o, r, row)
      BY <1>1, <2>3
    <2> HIDE DEF it
    <2>5. /\ it.addr = Here(o, r, row)
          /\ it.asked.region \in {Global, InRegion(sc, o, r)}
          /\ it.price # None => Fits(it.price, it.asked)
          /\ r.type = "aws_autoscaling_group" =>
                it.asked.filters["instanceType"] \in TemplateTypes(o, r, row)
      BY <2>4 DEF IsPlaced, Bills
    <2>6. it.price # None => Answers(it)
      BY <2>5 DEF Fits, Answers
    <2>7. /\ it.addr = Here(o, r, row)
          /\ it.asked.region \in {Global, resourceRegion(o.dir, r, sc.region)}
          /\ it.price # None => Answers(it)
          /\ r.type = "aws_autoscaling_group" =>
                it.asked.filters["instanceType"] \in TemplateTypes(o, r, row)
      BY <2>5, <2>6 DEF InRegion
    <2> QED  BY <2>7 DEF it
  <1>2. ASSUME Done, ~sc.faults, NEW o \in opened, NEW r \in Range(o.dir.resources),
               NEW row \in Rows(r), r.type = "aws_autoscaling_group", row.n > 0,
               resourceRegion(o.dir, r, sc.region) \in Region,
               \E i \in DOMAIN ASGKeys : Given(r, ASGKeys[i]),
               Positive(Bind(r, row.each, {}), "desired_capacity"),
               TemplateTypes(o, r, row) # {}, Unknown \notin TemplateTypes(o, r, row)
        PROVE  \E i \in DOMAIN items : items[i].priced /\ items[i].addr = Here(o, r, row)
    <2>1. GroupPriced(o, r, row)
      BY <1>2 DEF GroupPriced
    <2>2. Owes(sc, o, r, row, 1)
      BY <1>2, <2>1 DEF Owes
    <2>3. InRegion(sc, o, r) \in Region
      BY <1>2 DEF InRegion
    <2>4. PICK i \in DOMAIN items :
             /\ items[i].addr = Here(o, r, row) /\ items[i].nth = 1
             /\ ~sc.faults /\ InRegion(sc, o, r) \in Region => items[i].priced
      BY <1>2, <2>2, DoneCovers
    <2> QED  BY <1>2, <2>3, <2>4
  <1> QED  BY <1>1, <1>2 DEF OwnPrice

\* An item that is priced and stands at a place is billed for that place.
LEMMA PricedHere ==
  ASSUME Inv, NEW i \in DOMAIN items, items[i].priced,
         NEW o \in opened, NEW r \in Range(o.dir.resources), NEW row \in Rows(r),
         items[i].addr = Here(o, r, row)
  PROVE  IsPlaced(items[i], sc, o, r, row)
  <1>1. PICK q \in opened : \E s \in Range(q.dir.resources) : \E other \in Rows(s) :
           IsPlaced(items[i], sc, q, s, other)
    BY PricedPlace
  <1>2. PICK s \in Range(q.dir.resources) : \E other \in Rows(s) :
           IsPlaced(items[i], sc, q, s, other)
    BY <1>1
  <1>3. PICK other \in Rows(s) : IsPlaced(items[i], sc, q, s, other)
    BY <1>2
  <1>4. Here(o, r, row) = Here(q, s, other)
    BY <1>3 DEF IsPlaced
  <1>5. IsDir(o.dir) /\ \A x, y \in opened : x.prefix = y.prefix => x = y
    BY DEF Inv, Good, GoodDir, Claims
  <1>6. o = q /\ r = s /\ row = other
    BY <1>4, <1>5, HereOnce
  <1> QED  BY <1>3, <1>6

LEMMA CountsHold == Inv => CountsMultiply
  <1> SUFFICES ASSUME Inv, Done, ~sc.faults,
                      NEW o \in opened, ~DependsOn(o.dir),
                      NEW r \in Range(o.dir.resources),
                      resourceRegion(o.dir, r, sc.region) \in Region,
                      NEW row \in Rows(r)
               PROVE  LET one  == Once(o.dir, r)
                          mine == {i \in DOMAIN items :
                                      items[i].priced /\ items[i].addr = Here(o, r, row)}
                          is(item, spec) == /\ item.asked.filters = spec.filters
                                            /\ item.asked.service = spec.service
                                            /\ item.times = row.n * (spec.qty * spec.count)
                      IN  /\ row.n = 0 => mine = {}
                          /\ \A i \in mine : items[i].nth \in DOMAIN one
                          /\ row.n > 0 => \A k \in DOMAIN one : \E i \in mine :
                                /\ items[i].nth = k /\ is(items[i], one[k])
                                /\ \A j \in mine : items[j].nth = k => j = i
    BY DEF CountsMultiply
  <1> DEFINE one  == Once(o.dir, r)
             mine == {i \in DOMAIN items :
                         items[i].priced /\ items[i].addr = Here(o, r, row)}
             is(item, spec) == /\ item.asked.filters = spec.filters
                               /\ item.asked.service = spec.service
                               /\ item.times = row.n * (spec.qty * spec.count)
  <1>1. one = OnceIn(sc, o.dir, r)
    BY DEF Once, OnceIn
  <1> HIDE DEF one
  <1>2. ASSUME NEW i \in mine
        PROVE  row.n > 0 /\ items[i].nth \in DOMAIN one /\ is(items[i], one[items[i].nth])
    <2>1. IsPlaced(items[i], sc, o, r, row)
      BY PricedHere
    <2> DEFINE it == items[i]
    <2>2. it.priced /\ IsPlaced(it, sc, o, r, row)
      BY <2>1
    <2> HIDE DEF it
    <2>3. row.n > 0 /\ it.nth \in DOMAIN one /\ is(it, one[it.nth])
      BY <1>1, <2>2 DEF IsPlaced, Bills
    <2> QED  BY <2>3 DEF it
  <1>3. row.n = 0 => mine = {}
    <2>1. ~(0 > 0)
      OBVIOUS
    <2> QED  BY <1>2, <2>1
  <1>4. ASSUME row.n > 0, NEW k \in DOMAIN one
        PROVE  \E i \in mine : /\ items[i].nth = k /\ is(items[i], one[k])
                               /\ \A j \in mine : items[j].nth = k => j = i
    <2>1. Owes(sc, o, r, row, k)
      BY <1>1, <1>4 DEF Owes
    <2>2. PICK i \in DOMAIN items :
             /\ items[i].addr = Here(o, r, row) /\ items[i].nth = k
             /\ ~sc.faults /\ InRegion(sc, o, r) \in Region => items[i].priced
      BY <2>1, DoneCovers
    <2>3. i \in mine
      BY <2>2 DEF InRegion
    <2>4. \A j \in mine : items[j].nth = k => j = i
      <3>1. \A x, y \in DOMAIN items : CellOf(items[x]) = CellOf(items[y]) => x = y
        BY DEF Inv, Good, Claims
      <3>2. ASSUME NEW j \in mine, items[j].nth = k PROVE CellOf(items[j]) = CellOf(items[i])
        BY <2>2, <3>2 DEF CellOf
      <3> QED  BY <3>1, <3>2
    <2>5. is(items[i], one[k])
      BY <1>2, <2>2, <2>3
    <2> HIDE DEF mine, is
    <2> QED  BY <2>2, <2>3, <2>4, <2>5
  <1> HIDE DEF mine, is
  <1> QED  BY <1>2, <1>3, <1>4 DEF one, mine, is

-----------------------------------------------------------------------------
(* The reports.                                                            *)

LEMMA SectionsHold ==
  ASSUME Inv, Done
  PROVE  LET sections == <<report.md.fixed, report.md.variable, report.md.free,
                           report.md.unsupported>>
             priced   == {i \in DOMAIN items : items[i].priced}
         IN  /\ \A i \in DOMAIN items : \E k \in DOMAIN sections :
                   i \in sections[k] /\ \A l \in DOMAIN sections \ {k} : i \notin sections[l]
             /\ report.compact.table \cap report.compact.others = {}
             /\ report.compact.table \cup report.compact.others = DOMAIN items
             /\ report.md.total = priced /\ report.compact.total = priced
  <1> DEFINE F == OfKind("Fixed")
             V == OfKind("Variable")
             E == OfKind("Free")
             U == OfKind("Unsupported")
             priced == {i \in DOMAIN items : items[i].priced}
             table == {i \in F : items[i].priced}
             s == <<F, V, E, U>>
  <1>1. report.md = WriteMarkdown /\ report.compact = WriteCompact
    BY DEF Inv
  <1>2. /\ report.md.fixed = F /\ report.md.variable = V /\ report.md.free = E
        /\ report.md.unsupported = U /\ report.md.total = table
    BY <1>1 DEF WriteMarkdown
  <1>3. /\ report.compact.table = table /\ report.compact.others = DOMAIN items \ table
        /\ report.compact.total = table
    BY <1>1 DEF WriteCompact
  <1>4. \A i \in DOMAIN items : /\ items[i].kind \in Kinds
                                /\ items[i].priced => items[i].kind = "Fixed"
    BY DEF Inv, Good, IsItem
  <1>5. table = priced /\ \A i \in table : i \in DOMAIN items
    BY <1>4 DEF OfKind
  <1>6. \A i \in DOMAIN items : /\ i \in F <=> items[i].kind = "Fixed"
                                /\ i \in V <=> items[i].kind = "Variable"
                                /\ i \in E <=> items[i].kind = "Free"
                                /\ i \in U <=> items[i].kind = "Unsupported"
    BY DEF OfKind
  <1> HIDE DEF F, V, E, U
  <1>7. DOMAIN s = 1..4 /\ s[1] = F /\ s[2] = V /\ s[3] = E /\ s[4] = U
    OBVIOUS
  <1> HIDE DEF s, table, priced
  <1>8. ASSUME NEW i \in DOMAIN items
        PROVE  \E k \in DOMAIN s : i \in s[k] /\ \A l \in DOMAIN s \ {k} : i \notin s[l]
    <2>1. items[i].kind \in {"Fixed", "Variable", "Free", "Unsupported"}
      BY <1>4 DEF Kinds
    <2>2. \A l \in DOMAIN s : l = 1 \/ l = 2 \/ l = 3 \/ l = 4
      BY <1>7
    <2>3. 1 \in DOMAIN s /\ 2 \in DOMAIN s /\ 3 \in DOMAIN s /\ 4 \in DOMAIN s
      BY <1>7
    <2>4. CASE items[i].kind = "Fixed"
      <3>1. i \in s[1] /\ i \notin s[2] /\ i \notin s[3] /\ i \notin s[4]
        BY <1>6, <1>7, <2>4
      <3> QED  BY <2>2, <2>3, <3>1
    <2>5. CASE items[i].kind = "Variable"
      <3>1. i \in s[2] /\ i \notin s[1] /\ i \notin s[3] /\ i \notin s[4]
        BY <1>6, <1>7, <2>5
      <3> QED  BY <2>2, <2>3, <3>1
    <2>6. CASE items[i].kind = "Free"
      <3>1. i \in s[3] /\ i \notin s[1] /\ i \notin s[2] /\ i \notin s[4]
        BY <1>6, <1>7, <2>6
      <3> QED  BY <2>2, <2>3, <3>1
    <2>7. CASE items[i].kind = "Unsupported"
      <3>1. i \in s[4] /\ i \notin s[1] /\ i \notin s[2] /\ i \notin s[3]
        BY <1>6, <1>7, <2>7
      <3> QED  BY <2>2, <2>3, <3>1
    <2> QED  BY <2>1, <2>4, <2>5, <2>6, <2>7
  <1>9. /\ report.compact.table \cap report.compact.others = {}
        /\ report.compact.table \cup report.compact.others = DOMAIN items
        /\ report.md.total = priced /\ report.compact.total = priced
    BY <1>2, <1>3, <1>5
  <1>10. s = <<report.md.fixed, report.md.variable, report.md.free, report.md.unsupported>>
    BY <1>2 DEF s
  <1> QED  BY <1>8, <1>9, <1>10 DEF priced

LEMMA PlacesHold ==
  ASSUME Inv, Done
  PROVE  LET opens(m) == metaCount(m) > 0 /\ m.body # None
         IN  /\ [dir |-> sc.dir, prefix |-> <<>>] \in opened
             /\ \A o, p \in opened : o.prefix = p.prefix => o = p
             /\ \A o \in opened :
                   \/ o = [dir |-> sc.dir, prefix |-> <<>>]
                   \/ \E p \in opened : \E m \in Range(p.dir.modules) :
                         opens(m) /\ o.dir = m.body /\ o.prefix \in Range(Instances(m, p.prefix))
             /\ \A o \in opened : \A m \in Range(o.dir.modules) :
                   \A q \in Range(Instances(m, o.prefix)) :
                       IF opens(m) THEN [dir |-> m.body, prefix |-> q] \in opened
                       ELSE \E i \in DOMAIN items : items[i].addr = At(q, <<>>, <<>>)
             /\ \A o \in opened : \A r \in Range(o.dir.resources) : \A row \in Rows(r) :
                   \E i \in DOMAIN items : items[i].addr = Here(o, r, row)
             /\ \A i \in DOMAIN items :
                   \/ \E o \in opened : \E r \in Range(o.dir.resources) : \E row \in Rows(r) :
                         items[i].addr = Here(o, r, row)
                   \/ \E o \in opened : \E m \in Range(o.dir.modules) :
                         \E q \in Range(Instances(m, o.prefix)) :
                             ~opens(m) /\ items[i].addr = At(q, <<>>, <<>>)
             /\ \A i, j \in DOMAIN items :
                   items[i].addr = items[j].addr /\ items[i].nth = items[j].nth => i = j
  <1>1. Root(sc) \in opened /\ \A o \in opened : GroundDir(o, sc, opened)
    BY DEF Inv, Good
  <1>2. \A o, p \in opened : o.prefix = p.prefix => o = p
    BY DEF Inv, Good, Claims
  <1>3. \A i, j \in DOMAIN items : CellOf(items[i]) = CellOf(items[j]) => i = j
    BY DEF Inv, Good, Claims
  <1>4. \A i \in DOMAIN items : IsItem(items[i], sc, opened)
    BY DEF Inv, Good
  <1>5. ASSUME NEW i \in DOMAIN items, NEW j \in DOMAIN items,
               items[i].addr = items[j].addr, items[i].nth = items[j].nth
        PROVE  i = j
    BY <1>3, <1>5 DEF CellOf
  <1>6. ASSUME NEW o \in opened
        PROVE  \/ o = [dir |-> sc.dir, prefix |-> <<>>]
               \/ \E p \in opened : \E m \in Range(p.dir.modules) :
                     /\ metaCount(m) > 0 /\ m.body # None
                     /\ o.dir = m.body /\ o.prefix \in Range(Instances(m, p.prefix))
    BY <1>1 DEF GroundDir, Root, Opens
  <1>7. ASSUME NEW i \in DOMAIN items
        PROVE  \/ \E o \in opened : \E r \in Range(o.dir.resources) : \E row \in Rows(r) :
                     items[i].addr = Here(o, r, row)
               \/ \E o \in opened : \E m \in Range(o.dir.modules) :
                     \E q \in Range(Instances(m, o.prefix)) :
                         ~(metaCount(m) > 0 /\ m.body # None) /\ items[i].addr = At(q, <<>>, <<>>)
    <2>1. CASE \E o \in opened : \E r \in Range(o.dir.resources) : \E row \in Rows(r) :
                  IsPlaced(items[i], sc, o, r, row)
      BY <2>1 DEF IsPlaced
    <2>2. CASE \E o \in opened : \E m \in Range(o.dir.modules) :
                  \E q \in Range(Instances(m, o.prefix)) :
                     ~Opens(m) /\ items[i].addr = At(q, <<>>, <<>>) /\ ~items[i].priced
      BY <2>2 DEF Opens
    <2> QED  BY <1>4, <2>1, <2>2 DEF IsItem
  <1>8. \A o \in opened : \A r \in Range(o.dir.resources) : \A row \in Rows(r) :
           \E i \in DOMAIN items : items[i].addr = Here(o, r, row)
    BY DoneCovers
  <1>9. ASSUME NEW o \in opened, NEW m \in Range(o.dir.modules),
               NEW q \in Range(Instances(m, o.prefix))
        PROVE  IF metaCount(m) > 0 /\ m.body # None
               THEN [dir |-> m.body, prefix |-> q] \in opened
               ELSE \E i \in DOMAIN items : items[i].addr = At(q, <<>>, <<>>)
    <2>1. /\ Opens(m) => [dir |-> m.body, prefix |-> q] \in opened
          /\ ~Opens(m) => \E i \in DOMAIN items : items[i].addr = At(q, <<>>, <<>>)
      BY DoneCovers
    <2> QED  BY <2>1 DEF Opens
  <1>10. [dir |-> sc.dir, prefix |-> <<>>] \in opened
    BY <1>1 DEF Root
  <1> QED  BY <1>2, <1>5, <1>6, <1>7, <1>8, <1>9, <1>10

LEMMA ReportedHolds == Inv => Reported
  BY SectionsHold, PlacesHold DEF Reported

-----------------------------------------------------------------------------
(* The same directory with a value for an attribute that does not resolve. *)

\* z is y with a value for one of its attributes, which has none in y.
Fills(y, z, key) ==
    /\ z.type = y.type /\ z.name = y.name /\ z.rules = y.rules
    /\ DOMAIN z.attrs = DOMAIN y.attrs /\ key \in DOMAIN y.attrs
    /\ ~Ok(y, key)
    /\ \A k \in DOMAIN y.attrs : /\ z.attrs[k].bare = y.attrs[k].bare
                                 /\ z.attrs[k].vars = y.attrs[k].vars
                                 /\ k # key => z.attrs[k].val = y.attrs[k].val

LEMMA SameReads ==
  ASSUME NEW y, NEW z, NEW key, Fills(y, z, key), NEW k, k # key
  PROVE  /\ Val(z, k) = Val(y, k) /\ (Ok(z, k) <=> Ok(y, k))
         /\ (Positive(z, k) <=> Positive(y, k))
         /\ \A d : Or(z, k, d) = Or(y, k, d)
  <1>1. Val(z, k) = Val(y, k)
    BY DEF Fills, Val, Given
  <1> QED  BY <1>1 DEF Ok, Positive, Or

LEMMA SameGiven ==
  ASSUME NEW y, NEW z, NEW key, Fills(y, z, key), NEW k
  PROVE  /\ Given(z, k) <=> Given(y, k)
         /\ Given(y, k) => z.attrs[k].bare = y.attrs[k].bare /\ z.attrs[k].vars = y.attrs[k].vars
  BY DEF Fills, Given

LEMMA FirstPositiveSame ==
  ASSUME NEW y, NEW z, NEW keys, DOMAIN keys \in SUBSET Nat, NEW d,
         \A i \in DOMAIN keys : Val(z, keys[i]) = Val(y, keys[i])
  PROVE  FirstPositive(z, keys, d) = FirstPositive(y, keys, d)
  <1> DEFINE N(r) == {i \in DOMAIN keys : Positive(r, keys[i])}
  <1>1. N(z) = N(y)
    BY DEF Positive, Ok
  <1>2. N(y) # {} => Min(N(y)) \in DOMAIN keys
    <2>1. N(y) \in SUBSET Nat
      OBVIOUS
    <2>2. N(y) # {} => Min(N(y)) \in N(y)
      <3> HIDE DEF N
      <3> QED  BY <2>1, MinIn
    <2> QED  BY <2>2
  <1>3. \A r : FirstPositive(r, keys, d) = IF N(r) = {} THEN d ELSE Val(r, keys[Min(N(r))])
    BY DEF FirstPositive
  <1> HIDE DEF N
  <1> QED  BY <1>1, <1>2, <1>3

\* The first of one or two keys that is positive decides.
LEMMA FirstOfOne ==
  ASSUME NEW y, NEW k, NEW d
  PROVE  FirstPositive(y, <<k>>, d) = IF Positive(y, k) THEN Val(y, k) ELSE d
  <1>1. <<k>>[1] = k /\ DOMAIN <<k>> = {1}
    OBVIOUS
  <1>2. Min({1}) = 1
    BY MinIn
  <1> DEFINE N == {i \in DOMAIN <<k>> : Positive(y, <<k>>[i])}
  <1>3. N = IF Positive(y, k) THEN {1} ELSE {}
    BY <1>1
  <1>4. FirstPositive(y, <<k>>, d) = IF N = {} THEN d ELSE Val(y, <<k>>[Min(N)])
    BY DEF FirstPositive
  <1> HIDE DEF N
  <1> QED  BY <1>1, <1>2, <1>3, <1>4

LEMMA FirstOfTwo ==
  ASSUME NEW y, NEW k, NEW l, NEW d
  PROVE  FirstPositive(y, <<k, l>>, d) = IF Positive(y, k) THEN Val(y, k)
                                         ELSE IF Positive(y, l) THEN Val(y, l) ELSE d
  <1>1. <<k, l>>[1] = k /\ <<k, l>>[2] = l /\ DOMAIN <<k, l>> = {1, 2}
    OBVIOUS
  <1>2. Min({2}) = 2
    BY MinIn
  <1> DEFINE N == {i \in DOMAIN <<k, l>> : Positive(y, <<k, l>>[i])}
  <1>3. (1 \in N <=> Positive(y, k)) /\ (2 \in N <=> Positive(y, l)) /\ N \subseteq {1, 2}
    BY <1>1
  <1>4. FirstPositive(y, <<k, l>>, d) = IF N = {} THEN d ELSE Val(y, <<k, l>>[Min(N)])
    BY DEF FirstPositive
  <1> HIDE DEF N
  <1>5. CASE Positive(y, k)
    <2>1. N \in SUBSET Nat /\ N # {} /\ 1 \in N
      BY <1>3, <1>5
    <2>2. Min(N) \in {1, 2} /\ Min(N) <= 1
      BY <1>3, <2>1, MinIn
    <2>3. Min(N) = 1
      BY <2>2
    <2> QED  BY <1>1, <1>4, <1>5, <2>1, <2>3
  <1>6. CASE ~Positive(y, k) /\ Positive(y, l)
    <2>1. N = {2}
      BY <1>3, <1>6
    <2> QED  BY <2>1, <1>1, <1>2, <1>4, <1>6
  <1>7. CASE ~Positive(y, k) /\ ~Positive(y, l)
    <2>1. N = {}
      BY <1>3, <1>7
    <2> QED  BY <2>1, <1>4, <1>7
  <1> QED  BY <1>5, <1>6, <1>7

\* d is c with z in the place of y.
Twins(c, d, y, z, key) ==
    /\ Fills(y, z, key) /\ y \in c.idx
    /\ d.idx = (c.idx \ {y}) \cup {z} /\ d.locals = c.locals
    /\ IsContext(c) /\ IsContext(d)
    /\ \A u, v \in c.idx : Addr(u) = Addr(v) => u = v

Put(u, y, z)  == IF u = y THEN z ELSE u
Swap(S, y, z) == {Put(u, y, z) : u \in S}

LEMMA PutFacts ==
  ASSUME NEW c, NEW d, NEW y, NEW z, NEW key, Twins(c, d, y, z, key)
  PROVE  /\ \A u : Addr(Put(u, y, z)) = Addr(u) /\ Put(u, y, z).type = u.type
         /\ \A u, v \in c.idx : Put(u, y, z) = Put(v, y, z) => u = v
         /\ d.idx = Swap(c.idx, y, z)
  <1>1. \A u : Addr(Put(u, y, z)) = Addr(u) /\ Put(u, y, z).type = u.type
    BY DEF Twins, Fills, Put, Addr
  <1>2. \A u, v \in c.idx : Put(u, y, z) = Put(v, y, z) => u = v
    BY <1>1 DEF Twins
  <1>3. d.idx = Swap(c.idx, y, z)
    BY DEF Twins, Swap, Put
  <1> QED  BY <1>1, <1>2, <1>3

LEMMA SwapFacts ==
  ASSUME NEW c, NEW d, NEW y, NEW z, NEW key, Twins(c, d, y, z, key),
         NEW S \in SUBSET c.idx, NEW T \in SUBSET c.idx
  PROVE  /\ Swap(S, y, z) = {} <=> S = {}
         /\ Swap(S, y, z) = Swap(T, y, z) => S = T
         /\ \A u : Swap({u}, y, z) = {Put(u, y, z)}
  <1>1. Swap(S, y, z) = {} <=> S = {}
    BY DEF Swap
  <1>2. ASSUME Swap(S, y, z) = Swap(T, y, z) PROVE S = T
    <2>1. ASSUME NEW A \in SUBSET c.idx, NEW B \in SUBSET c.idx,
                 Swap(A, y, z) = Swap(B, y, z), NEW u \in A
          PROVE  u \in B
      <3>1. Put(u, y, z) \in Swap(B, y, z)
        BY <2>1 DEF Swap
      <3>2. PICK v \in B : Put(u, y, z) = Put(v, y, z)
        BY <3>1 DEF Swap
      <3> QED  BY <2>1, <3>2, PutFacts
    <2> QED  BY <1>2, <2>1
  <1>3. \A u : Swap({u}, y, z) = {Put(u, y, z)}
    BY DEF Swap
  <1> QED  BY <1>1, <1>2, <1>3

LEMMA LookupTwin ==
  ASSUME NEW c, NEW d, NEW y, NEW z, NEW key, Twins(c, d, y, z, key), NEW a
  PROVE  /\ Lookup(d, a) = Swap(Lookup(c, a), y, z) /\ Lookup(c, a) \in SUBSET c.idx
         /\ Lookup(d, a) = {} <=> Lookup(c, a) = {}
         /\ Lookup(c, a) # {} => \E u \in c.idx : Lookup(c, a) = {u}
  <1>1. d.idx = Swap(c.idx, y, z) /\ \A u : Addr(Put(u, y, z)) = Addr(u)
    BY PutFacts
  <1>2. Lookup(d, a) = Swap(Lookup(c, a), y, z)
    BY <1>1 DEF Lookup, Swap
  <1>3. Lookup(c, a) \in SUBSET c.idx
    BY DEF Lookup
  <1>4. Lookup(c, a) # {} => \E u \in c.idx : Lookup(c, a) = {u}
    BY DEF Lookup, Twins
  <1> QED  BY <1>2, <1>3, <1>4, SwapFacts

\* What is found is found, the same or with the value.
Found(S, T, c, y, z) ==
    /\ T = Swap(S, y, z)
    /\ \/ S = {} /\ T = {}
       \/ \E u \in c.idx : S = {u} /\ T = {Put(u, y, z)}

LEMMA FoundOne ==
  ASSUME NEW S, NEW T, NEW c, NEW y, NEW z, Found(S, T, c, y, z)
  PROVE  /\ T = {} <=> S = {}
         /\ S # {} => The(S) \in c.idx /\ The(T) = Put(The(S), y, z)
  BY DEF Found, The

LEMMA LookupFound ==
  ASSUME NEW c, NEW d, NEW y, NEW z, NEW key, Twins(c, d, y, z, key), NEW a
  PROVE  Found(Lookup(c, a), Lookup(d, a), c, y, z)
  <1>1. \A u : Swap({u}, y, z) = {Put(u, y, z)}
    BY DEF Swap
  <1> QED  BY <1>1, LookupTwin DEF Found

LEMMA PutReads ==
  ASSUME NEW c, NEW d, NEW y, NEW z, NEW key, Twins(c, d, y, z, key), NEW u, NEW k
  PROVE  LET v == Put(u, y, z)
         IN  /\ Given(v, k) <=> Given(u, k)
             /\ Given(u, k) => /\ v.attrs[k].bare = u.attrs[k].bare
                               /\ v.attrs[k].vars = u.attrs[k].vars
             /\ k # key => /\ Val(v, k) = Val(u, k) /\ (Ok(v, k) <=> Ok(u, k))
                           /\ \A e : Or(v, k, e) = Or(u, k, e)
  BY SameReads, SameGiven DEF Put, Twins

LEMMA RefFound ==
  ASSUME NEW c, NEW d, NEW y, NEW z, NEW key, Twins(c, d, y, z, key), NEW u, NEW k
  PROVE  Found(refResource(u, k, c), refResource(Put(u, y, z), k, d), c, y, z)
  <1>1. CASE Given(u, k) /\ u.attrs[k].bare
    BY <1>1, PutReads, LookupFound DEF refResource
  <1>2. CASE ~(Given(u, k) /\ u.attrs[k].bare)
    <2>1. refResource(u, k, c) = {} /\ refResource(Put(u, y, z), k, d) = {}
      BY <1>2, PutReads DEF refResource
    <2> QED  BY <2>1 DEF Found, Swap
  <1> QED  BY <1>1, <1>2

\* A step of a chase, in either.
LEMMA FollowTwin ==
  ASSUME NEW c, NEW d, NEW y, NEW z, NEW key, Twins(c, d, y, z, key),
         NEW v, NEW w, w.left = v.left, w.seen = v.seen, Found(v.at, w.at, c, y, z)
  PROVE  LET v2 == Follow(v, c)
             w2 == Follow(w, d)
         IN  w2.left = v2.left /\ w2.seen = v2.seen /\ Found(v2.at, w2.at, c, y, z)
  <1>1. ASSUME NEW ref, NEW seen PROVE Stops(ref, seen, d) <=> Stops(ref, seen, c)
    <2>1. d.locals = c.locals
      BY DEF Twins
    <2>2. Lookup(d, ref) = {} <=> Lookup(c, ref) = {}
      BY LookupTwin
    <2> QED  BY <2>1, <2>2 DEF Stops
  <1>2. w.at = {} <=> v.at = {}
    BY FoundOne
  <1> DEFINE N    == {i \in DOMAIN v.left : Stops(v.left[i], v.seen, c)}
             ref  == v.left[Min(N)]
             rest == SubSeq(v.left, Min(N) + 1, Len(v.left))
  <1>3. Follow(v, c) = IF v.at # {} \/ N = {} THEN v
                       ELSE IF ref[1] = "local"
                       THEN [left |-> c.locals[ref[2]] \o rest, seen |-> v.seen \cup {ref[2]},
                             at |-> {}]
                       ELSE [left |-> rest, seen |-> v.seen, at |-> Lookup(c, ref)]
    BY DEF Follow
  <1>4. N = {i \in DOMAIN w.left : Stops(w.left[i], w.seen, d)}
    BY <1>1
  <1>5. Follow(w, d) = IF w.at # {} \/ N = {} THEN w
                       ELSE IF ref[1] = "local"
                       THEN [left |-> d.locals[ref[2]] \o rest, seen |-> w.seen \cup {ref[2]},
                             at |-> {}]
                       ELSE [left |-> rest, seen |-> w.seen, at |-> Lookup(d, ref)]
    BY <1>4 DEF Follow
  <1>6. d.locals = c.locals
    BY DEF Twins
  <1> HIDE DEF N
  <1>7. CASE v.at # {} \/ N = {}
    BY <1>2, <1>3, <1>5, <1>7
  <1>8. CASE ~(v.at # {} \/ N = {}) /\ ref[1] = "local"
    <2>1. Found({}, {}, c, y, z)
      BY DEF Found, Swap
    <2> HIDE DEF ref, rest
    <2> QED  BY <1>2, <1>3, <1>5, <1>6, <1>8, <2>1
  <1>9. CASE ~(v.at # {} \/ N = {}) /\ ref[1] # "local"
    <2> HIDE DEF ref, rest
    <2> QED  BY <1>2, <1>3, <1>5, <1>9, LookupFound
  <1> QED  BY <1>7, <1>8, <1>9

LEMMA ChaseFound ==
  ASSUME NEW c, NEW d, NEW y, NEW z, NEW key, Twins(c, d, y, z, key), NEW vs
  PROVE  Found(chase(vs, c), chase(vs, d), c, y, z)
  <1> DEFINE v == CHOOSE w : Walk(vs, c, w)
             w == CHOOSE u : Walk(vs, d, u)
             M == Cardinality(DOMAIN c.locals) + 1
  <1>1. chase(vs, c) = v[M].at /\ chase(vs, d) = w[M].at
    BY ChaseWalks DEF Twins
  <1>2. M \in Nat
    BY FS_CardinalityType DEF Twins, IsContext
  <1>3. Walk(vs, c, v) /\ Walk(vs, d, w)
    BY WalkExists
  <1> HIDE DEF v, w, M
  <1> DEFINE Same(n) == /\ w[n].left = v[n].left /\ w[n].seen = v[n].seen
                        /\ Found(v[n].at, w[n].at, c, y, z)
             D == {n \in Nat : ~Same(n)}
  <1>4. Same(0)
    <2>1. v[0] = Start(vs) /\ w[0] = Start(vs)
      BY <1>3 DEF Walk
    <2>2. Found({}, {}, c, y, z)
      BY DEF Found, Swap
    <2> QED  BY <2>1, <2>2 DEF Start
  <1>5. ASSUME NEW n \in Nat, n # 0, Same(n - 1) PROVE Same(n)
    <2>1. v[n] = Follow(v[n - 1], c) /\ w[n] = Follow(w[n - 1], d)
      BY <1>3, <1>5 DEF Walk
    <2> QED  BY <1>5, <2>1, FollowTwin
  <1>6. D = {}
    <2> SUFFICES ASSUME D # {} PROVE FALSE
      OBVIOUS
    <2>1. D \in SUBSET Nat
      OBVIOUS
    <2>2. Min(D) \in D /\ \A n \in D : Min(D) <= n
      <3> HIDE DEF D
      <3> QED  BY <2>1, MinIn
    <2> DEFINE n == Min(D)
    <2>3. n \in Nat /\ ~Same(n) /\ \A k \in Nat : ~Same(k) => n <= k
      BY <2>2
    <2> HIDE DEF n, D, Same
    <2>4. n # 0
      BY <1>4, <2>3
    <2>5. n - 1 \in Nat /\ ~(n <= n - 1)
      BY <2>3, <2>4
    <2> QED  BY <1>5, <2>3, <2>4, <2>5
  <1>7. Same(M)
    BY <1>2, <1>6
  <1> QED  BY <1>1, <1>7

LEMMA TemplateFound ==
  ASSUME NEW c, NEW d, NEW y, NEW z, NEW key, Twins(c, d, y, z, key), NEW u,
         NEW keys, DOMAIN keys \in SUBSET Nat
  PROVE  Found(Template(u, keys, c), Template(Put(u, y, z), keys, d), c, y, z)
  <1> DEFINE v == Put(u, y, z)
             k == FirstGiven(u, keys)
  <1>1. \A i \in DOMAIN keys : Given(v, keys[i]) <=> Given(u, keys[i])
    BY PutReads
  <1>2. {i \in DOMAIN keys : Given(v, keys[i])} = {i \in DOMAIN keys : Given(u, keys[i])}
    <2> HIDE DEF v
    <2> QED  BY <1>1
  <1>3. FirstGiven(v, keys) = k
    BY <1>2 DEF FirstGiven
  <1>4. CASE \A i \in DOMAIN keys : ~Given(u, keys[i])
    <2>1. Template(u, keys, c) = {} /\ Template(v, keys, d) = {}
      BY <1>1, <1>4 DEF Template
    <2> QED  BY <2>1 DEF Found, Swap
  <1>5. CASE ~\A i \in DOMAIN keys : ~Given(u, keys[i])
    <2>1. Given(u, k)
      <3> DEFINE G == {i \in DOMAIN keys : Given(u, keys[i])}
      <3>1. G \in SUBSET Nat /\ G # {}
        BY <1>5
      <3>2. Min(G) \in G
        <4> HIDE DEF G
        <4> QED  BY <3>1, MinIn
      <3> QED  BY <3>2 DEF FirstGiven
    <2>2. v.attrs[k].vars = u.attrs[k].vars
      BY <2>1, PutReads
    <2>3. Found(refResource(u, k, c), refResource(v, k, d), c, y, z)
      BY RefFound
    <2>4. Found(chase(u.attrs[k].vars, c), chase(v.attrs[k].vars, d), c, y, z)
      BY <2>2, ChaseFound
    <2>5. refResource(v, k, d) = {} <=> refResource(u, k, c) = {}
      BY <2>3, FoundOne
    <2>6. /\ Template(u, keys, c) = IF refResource(u, k, c) # {} THEN refResource(u, k, c)
                                    ELSE chase(u.attrs[k].vars, c)
          /\ Template(v, keys, d) = IF refResource(v, k, d) # {} THEN refResource(v, k, d)
                                    ELSE chase(v.attrs[k].vars, d)
      BY <1>1, <1>3, <1>5 DEF Template
    <2> HIDE DEF k
    <2> QED  BY <2>3, <2>4, <2>5, <2>6
  <1> QED  BY <1>4, <1>5

LEMMA SumTwin ==
  ASSUME NEW c, NEW d, NEW y, NEW z, NEW key, Twins(c, d, y, z, key),
         NEW S \in SUBSET c.idx, NEW F, DOMAIN F = S, NEW G, DOMAIN G = Swap(S, y, z),
         \A u \in S : F[u] \in Nat /\ G[Put(u, y, z)] = F[u]
  PROVE  SumFunction(G) = SumFunction(F)
  <1> DEFINE T == S \ {y}
  <1>1. IsFiniteSet(S) /\ IsFiniteSet(T)
    BY FS_Subset DEF Twins, IsContext
  <1>2. \A u \in T : Put(u, y, z) = u
    BY DEF Put
  <1>3. z \notin T
    <2>1. Addr(z) = Addr(y)
      BY DEF Twins, Fills, Addr
    <2> QED  BY <2>1 DEF Twins
  <1>4. \A u \in T : F[u] = G[u]
    BY <1>2
  <1>5. SumFunctionOnSet(F, T) = SumFunctionOnSet(G, T)
    <2> HIDE DEF T
    <2> QED  BY <1>1, <1>4, SumSame
  <1>6. SumFunction(F) = SumFunctionOnSet(F, S) /\ SumFunction(G) = SumFunctionOnSet(G, DOMAIN G)
    BY DEF SumFunction
  <1>7. CASE y \notin S
    <2>1. T = S /\ DOMAIN G = T
      BY <1>7, <1>2 DEF Swap
    <2> QED  BY <2>1, <1>5, <1>6
  <1>8. CASE y \in S
    <2>1. Put(y, y, z) = z
      BY DEF Put
    <2>2. DOMAIN G = T \cup {z}
      BY <1>8, <1>2, <2>1 DEF Swap
    <2>3. (T \cup {z}) \ {z} = T /\ IsFiniteSet(T \cup {z})
      BY <1>1, <1>3, FS_AddElement
    <2>4. G[z] = F[y] /\ \A u \in T \cup {z} : G[u] \in Int
      BY <1>2, <1>8, <2>1
    <2>5. SumFunctionOnSet(F, S) = F[y] + SumFunctionOnSet(F, T)
      <3>1. \A u \in S : F[u] \in Int
        OBVIOUS
      <3> QED  BY <1>1, <1>8, <3>1, SumRemove
    <2>6. SumFunctionOnSet(G, T \cup {z}) = G[z] + SumFunctionOnSet(G, (T \cup {z}) \ {z})
      <3> HIDE DEF T
      <3> QED  BY <2>3, <2>4, SumRemove
    <2> HIDE DEF T
    <2> QED  BY <1>5, <1>6, <2>2, <2>3, <2>4, <2>5, <2>6
  <1> QED  BY <1>7, <1>8

\* What refers to something, in either directory.
LEMMA ReferersTwin ==
  ASSUME NEW c, NEW d, NEW y, NEW z, NEW key, Twins(c, d, y, z, key),
         NEW type, NEW k, NEW A \in SUBSET c.idx
  PROVE  {u \in OfType(d, type) : refResource(u, k, d) = Swap(A, y, z)}
         = Swap({u \in OfType(c, type) : refResource(u, k, c) = A}, y, z)
  <1>1. ASSUME NEW u \in c.idx
        PROVE  refResource(Put(u, y, z), k, d) = Swap(A, y, z) <=> refResource(u, k, c) = A
    <2>1. refResource(Put(u, y, z), k, d) = Swap(refResource(u, k, c), y, z)
      BY RefFound DEF Found
    <2>2. refResource(u, k, c) \in SUBSET c.idx
      BY DEF refResource, Lookup
    <2> QED  BY <2>1, <2>2, SwapFacts
  <1>2. \A u : Put(u, y, z).type = u.type
    BY PutFacts
  <1>3. d.idx = {Put(u, y, z) : u \in c.idx}
    BY PutFacts DEF Swap
  <1> QED  BY <1>1, <1>2, <1>3 DEF OfType, Swap

LEMMA VCPUTwin ==
  ASSUME NEW c, NEW d, NEW y, NEW z, NEW key, Twins(c, d, y, z, key), key # "instance_class",
         NEW u
  PROVE  VCPU(Put(u, y, z)) = VCPU(u)
  BY PutReads DEF VCPU

LEMMA ProxyTwin ==
  ASSUME NEW c, NEW d, NEW y, NEW z, NEW key, Twins(c, d, y, z, key), key # "instance_class",
         NEW p \in c.idx
  PROVE  proxyTargetVCPU(Put(p, y, z), d) = proxyTargetVCPU(p, c)
  <1>1. ASSUME NEW A \in SUBSET c.idx
        PROVE  /\ clusterVCPU(Swap(A, y, z), d) = clusterVCPU(A, c)
               /\ clusterVCPU(A, c) \in Nat
    <2> DEFINE S == {u \in OfType(c, "aws_rds_cluster_instance") :
                        refResource(u, "cluster_identifier", c) = A}
               T == {u \in OfType(d, "aws_rds_cluster_instance") :
                        refResource(u, "cluster_identifier", d) = Swap(A, y, z)}
               F == [u \in S |-> VCPU(u)]
               G == [u \in T |-> VCPU(u)]
    <2>1. T = Swap(S, y, z)
      BY ReferersTwin
    <2>2. S \in SUBSET c.idx
      BY DEF OfType
    <2>3. \A u \in S : F[u] \in Nat
      BY <2>2, VCPUType DEF Twins, IsContext
    <2>4. \A u \in S : Put(u, y, z) \in T
      <3> HIDE DEF S, T
      <3> QED  BY <2>1 DEF Swap
    <2>5. \A u \in S : G[Put(u, y, z)] = F[u]
      <3> HIDE DEF S, T
      <3> QED  BY <2>4, VCPUTwin
    <2>6. DOMAIN F = S /\ DOMAIN G = Swap(S, y, z)
      BY <2>1
    <2>7. clusterVCPU(A, c) = SumFunction(F) /\ clusterVCPU(Swap(A, y, z), d) = SumFunction(G)
      BY DEF clusterVCPU
    <2> HIDE DEF F, G, S, T
    <2>8. SumFunction(G) = SumFunction(F)
      BY <2>2, <2>3, <2>5, <2>6, SumTwin
    <2>9. SumFunction(F) \in Nat
      <3>1. IsFiniteSet(S)
        BY <2>2, FS_Subset DEF Twins, IsContext
      <3> QED  BY <2>3, <2>6, <3>1, SumNat DEF SumFunction
    <2> QED  BY <2>7, <2>8, <2>9
  <1>2. ASSUME NEW t \in c.idx
        PROVE  targetVCPU(Put(t, y, z), d) = targetVCPU(t, c) /\ targetVCPU(t, c) \in Nat
    <2> DEFINE i == refResource(t, "db_instance_identifier", c)
               j == refResource(Put(t, y, z), "db_instance_identifier", d)
               k == refResource(t, "db_cluster_identifier", c)
               l == refResource(Put(t, y, z), "db_cluster_identifier", d)
    <2>1. Found(i, j, c, y, z) /\ Found(k, l, c, y, z)
      BY RefFound
    <2>2. /\ targetVCPU(t, c) = IF i # {} THEN VCPU(The(i)) ELSE IF k = {} THEN 0
                                ELSE clusterVCPU(k, c)
          /\ targetVCPU(Put(t, y, z), d) = IF j # {} THEN VCPU(The(j)) ELSE IF l = {} THEN 0
                                           ELSE clusterVCPU(l, d)
      BY DEF targetVCPU
    <2>3. k \in SUBSET c.idx
      BY DEF refResource, Lookup
    <2> HIDE DEF i, j, k, l
    <2>4. /\ j = {} <=> i = {}
          /\ i # {} => The(i) \in c.idx /\ The(j) = Put(The(i), y, z)
      BY <2>1, FoundOne
    <2>5. i # {} => VCPU(The(j)) = VCPU(The(i)) /\ VCPU(The(i)) \in Nat
      <3> SUFFICES ASSUME i # {} PROVE VCPU(The(j)) = VCPU(The(i)) /\ VCPU(The(i)) \in Nat
        OBVIOUS
      <3>1. IsBound(The(i))
        BY <2>4 DEF Twins, IsContext
      <3>2. VCPU(Put(The(i), y, z)) = VCPU(The(i))
        BY VCPUTwin
      <3> QED  BY <2>4, <3>1, <3>2, VCPUType
    <2>6. clusterVCPU(l, d) = clusterVCPU(k, c) /\ clusterVCPU(k, c) \in Nat
      <3>1. l = Swap(k, y, z)
        BY <2>1 DEF Found
      <3> QED  BY <1>1, <2>3, <3>1
    <2>7. l = {} <=> k = {}
      BY <2>1, FoundOne
    <2> QED  BY <2>2, <2>4, <2>5, <2>6, <2>7
  <1> DEFINE S == {u \in OfType(c, "aws_db_proxy_target") :
                      refResource(u, "db_proxy_name", c) = {p}}
             T == {u \in OfType(d, "aws_db_proxy_target") :
                      refResource(u, "db_proxy_name", d) = {Put(p, y, z)}}
             F == [u \in S |-> targetVCPU(u, c)]
             G == [u \in T |-> targetVCPU(u, d)]
  <1>3. T = Swap(S, y, z)
    <2>1. {Put(p, y, z)} = Swap({p}, y, z)
      BY DEF Swap
    <2>2. {p} \in SUBSET c.idx
      OBVIOUS
    <2>3. T = {u \in OfType(d, "aws_db_proxy_target") :
                  refResource(u, "db_proxy_name", d) = Swap({p}, y, z)}
      BY <2>1
    <2> DEFINE A == {p}
    <2>4. A \in SUBSET c.idx
      BY <2>2
    <2> HIDE DEF A
    <2>5. {u \in OfType(d, "aws_db_proxy_target") :
              refResource(u, "db_proxy_name", d) = Swap(A, y, z)}
          = Swap({u \in OfType(c, "aws_db_proxy_target") :
                     refResource(u, "db_proxy_name", c) = A}, y, z)
      BY <2>4, ReferersTwin
    <2> QED  BY <2>3, <2>5 DEF A
  <1>4. S \in SUBSET c.idx
    BY DEF OfType
  <1>5. \A u \in S : F[u] \in Nat
    BY <1>2, <1>4
  <1>6. \A u \in S : Put(u, y, z) \in T
    <2> HIDE DEF S, T
    <2> QED  BY <1>3 DEF Swap
  <1>7. \A u \in S : G[Put(u, y, z)] = F[u]
    <2> HIDE DEF S, T
    <2> QED  BY <1>2, <1>4, <1>6
  <1>8. DOMAIN F = S /\ DOMAIN G = Swap(S, y, z)
    BY <1>3
  <1>9. proxyTargetVCPU(p, c) = SumFunction(F) /\ proxyTargetVCPU(Put(p, y, z), d) = SumFunction(G)
    BY DEF proxyTargetVCPU
  <1> HIDE DEF F, G, S, T
  <1> QED  BY <1>4, <1>5, <1>7, <1>8, <1>9, SumTwin

\* The attributes in K read the same.
SameAt(p, q, K) ==
    \A k \in K : /\ Val(q, k) = Val(p, k) /\ (Ok(q, k) <=> Ok(p, k))
                 /\ (Positive(q, k) <=> Positive(p, k))
                 /\ \A e : Or(q, k, e) = Or(p, k, e)

LEMMA SameAll ==
  ASSUME NEW p, NEW q, NEW key, Fills(p, q, key), NEW K, key \notin K
  PROVE  SameAt(p, q, K)
  BY SameReads DEF SameAt

\* The extras of a type that has none.
LEMMA SameExtras ==
  ASSUME NEW p, NEW q, NEW key, Fills(p, q, key),
         p.type \notin {"aws_instance", "aws_eks_node_group", "aws_db_instance",
                        "aws_rds_cluster_instance", "aws_wafv2_web_acl"}
  PROVE  ExtraSpecs(q) = ExtraSpecs(p)
  BY DEF ExtraSpecs, Fills

LEMMA EC2Same ==
  ASSUME NEW p, NEW q, NEW key, Fills(p, q, key), p.type = "aws_instance",
         key \notin SilentOwn(p.type), mapEC2(p).specs # <<>>
  PROVE  mapEC2(q) = mapEC2(p) /\ ExtraSpecs(q) = ExtraSpecs(p)
  <1> DEFINE K == {"instance_type", "tenancy", "root_block_device.size",
                   "root_block_device.type", "ebs_block_device.size", "ebs_block_device.type"}
  <1>1. key \notin K \ {"instance_type"}
    BY DEF SilentOwn
  <1>2. key # "instance_type"
    BY DEF mapEC2, Unresolved, Fills
  <1>3. SameAt(p, q, K)
    BY <1>1, <1>2, SameAll
  <1>4. mapEC2(q) = mapEC2(p)
    BY <1>3 DEF SameAt, mapEC2
  <1>5. ExtraSpecs(p) = instanceStorageSpecs(p) /\ ExtraSpecs(q) = instanceStorageSpecs(q)
    BY DEF ExtraSpecs, Fills
  <1>6. /\ \A e : disk(q, "root_block_device.size", "root_block_device.type", e)
                  = disk(p, "root_block_device.size", "root_block_device.type", e)
        /\ \A e : disk(q, "ebs_block_device.size", "ebs_block_device.type", e)
                  = disk(p, "ebs_block_device.size", "ebs_block_device.type", e)
    BY <1>3 DEF SameAt, disk
  <1> QED  BY <1>4, <1>5, <1>6 DEF instanceStorageSpecs

LEMMA StorageSame ==
  ASSUME NEW p, NEW q,
         SameAt(p, q, {"storage_type", "multi_az", "allocated_storage", "engine"})
  PROVE  rdsStorageSpecs(q) = rdsStorageSpecs(p)
  <1>1. /\ Or(q, "storage_type", "gp3") = Or(p, "storage_type", "gp3")
        /\ Or(q, "multi_az", FALSE) = Or(p, "multi_az", FALSE)
        /\ Positive(q, "allocated_storage") <=> Positive(p, "allocated_storage")
        /\ Val(q, "allocated_storage") = Val(p, "allocated_storage")
        /\ Or(q, "engine", NoText) = Or(p, "engine", NoText)
    BY DEF SameAt
  <1> DEFINE base(vtype, multi) ==
                 CASE vtype = "gp2" /\ multi -> "RDS:Multi-AZ-StorageUsage"
                   [] vtype = "gp2" -> "RDS:StorageUsage"
                   [] vtype = "gp3" /\ multi -> "RDS:Multi-AZ-GP3-Storage"
                   [] OTHER -> "RDS:GP3-Storage"
             lines(b, engine, size) ==
                 <<line("AmazonRDS", [usagetype |-> Usage(b, NoClass),
                                      databaseEngine |-> rdsEngine(engine)], size, 1, "GB-Mo")>>
  <1>2. \A r : rdsStorageSpecs(r) =
                  IF ~Positive(r, "allocated_storage") THEN <<>>
                  ELSE lines(base(Or(r, "storage_type", "gp3"), Or(r, "multi_az", FALSE)),
                             Or(r, "engine", NoText), Val(r, "allocated_storage"))
    BY DEF rdsStorageSpecs
  <1> HIDE DEF base, lines
  <1> QED  BY <1>1, <1>2

LEMMA RDSSame ==
  ASSUME NEW p, NEW q, NEW key, Fills(p, q, key), p.type = "aws_db_instance",
         key \notin SilentOwn(p.type), mapRDS(p).specs # <<>>
  PROVE  mapRDS(q) = mapRDS(p) /\ ExtraSpecs(q) = ExtraSpecs(p)
  <1> DEFINE K == {"instance_class", "engine", "multi_az", "allocated_storage", "storage_type"}
  <1>1. key \notin {"multi_az", "allocated_storage", "storage_type"}
    BY DEF SilentOwn
  <1>2. Ok(p, "instance_class") /\ (Given(p, "engine") => Ok(p, "engine"))
    BY DEF mapRDS, Unresolved
  <1>3. key # "instance_class" /\ key # "engine"
    BY <1>2 DEF Fills, Given
  <1>4. SameAt(p, q, K)
    BY <1>1, <1>3, SameAll
  <1>5. mapRDS(q) = mapRDS(p)
    <2>1. Given(q, "engine") <=> Given(p, "engine")
      BY SameGiven
    <2>2. /\ Val(q, "instance_class") = Val(p, "instance_class")
          /\ Ok(q, "instance_class") /\ (Given(q, "engine") => Ok(q, "engine"))
          /\ Or(q, "engine", NoText) = Or(p, "engine", NoText)
          /\ Or(q, "multi_az", FALSE) = Or(p, "multi_az", FALSE)
      BY <1>2, <1>4, <2>1 DEF SameAt
    <2> DEFINE spec(cls, engine, multi) ==
                   Fixed(line("AmazonRDS",
                       [instanceType |-> cls, databaseEngine |-> rdsEngine(engine),
                        deploymentOption |-> IF multi THEN "Multi-AZ" ELSE "Single-AZ"],
                       730, 1, NoText))
    <2>3. \A r : (Ok(r, "instance_class") /\ (Given(r, "engine") => Ok(r, "engine"))) =>
                    mapRDS(r) = spec(Val(r, "instance_class"), Or(r, "engine", NoText),
                                     Or(r, "multi_az", FALSE))
      BY DEF mapRDS
    <2> HIDE DEF spec
    <2> QED  BY <1>2, <2>2, <2>3
  <1>6. ExtraSpecs(p) = rdsStorageSpecs(p) /\ ExtraSpecs(q) = rdsStorageSpecs(q)
    BY DEF ExtraSpecs, Fills
  <1>7. rdsStorageSpecs(q) = rdsStorageSpecs(p)
    BY <1>4, StorageSame DEF SameAt
  <1> QED  BY <1>5, <1>6, <1>7

LEMMA DBInstanceSame ==
  ASSUME NEW p, NEW q, NEW key, Fills(p, q, key), NEW service,
         mapDBInstance(p, service).specs # <<>>
  PROVE  mapDBInstance(q, service) = mapDBInstance(p, service)
  <1>1. Ok(p, "instance_class")
    BY DEF mapDBInstance, Unresolved
  <1>2. key # "instance_class"
    BY <1>1 DEF Fills
  <1>3. SameAt(p, q, {"instance_class"})
    BY <1>2, SameAll
  <1> QED  BY <1>3 DEF SameAt, mapDBInstance

LEMMA NodesSame ==
  ASSUME NEW p, NEW q, NEW key, Fills(p, q, key), NEW service, NEW field,
         NEW type, NEW number, key # number,
         mapNodes(p, service, field, type, number).specs # <<>>
  PROVE  mapNodes(q, service, field, type, number) = mapNodes(p, service, field, type, number)
  <1>1. Ok(p, type)
    BY DEF mapNodes, Unresolved
  <1>2. key # type
    BY <1>1 DEF Fills
  <1>3. SameAt(p, q, {type, number})
    BY <1>2, SameAll
  <1>4. \A e : FirstPositive(q, <<number>>, e) = FirstPositive(p, <<number>>, e)
    <2>1. \A r, e : FirstPositive(r, <<number>>, e)
                    = IF Positive(r, number) THEN Val(r, number) ELSE e
      BY FirstOfOne
    <2> QED  BY <1>3, <2>1 DEF SameAt
  <1> QED  BY <1>3, <1>4 DEF SameAt, mapNodes

LEMMA EKSClusterSame ==
  ASSUME NEW p, NEW q, NEW key, Fills(p, q, key), p.type = "aws_eks_cluster",
         key \notin SilentOwn(p.type)
  PROVE  mapEKSCluster(q) = mapEKSCluster(p)
  <1>1. key \notin {"version", "upgrade_policy.support_type"}
    BY DEF SilentOwn
  <1>2. SameAt(p, q, {"version", "upgrade_policy.support_type"})
    BY <1>1, SameAll
  <1>3. /\ Or(q, "version", NoText) = Or(p, "version", NoText)
        /\ Or(q, "upgrade_policy.support_type", NoText)
           = Or(p, "upgrade_policy.support_type", NoText)
    BY <1>2 DEF SameAt
  <1> QED  BY <1>3 DEF mapEKSCluster

LEMMA ElastiCacheSame ==
  ASSUME NEW p, NEW q, NEW key, Fills(p, q, key),
         p.type \in {"aws_elasticache_replication_group", "aws_elasticache_cluster"},
         key \notin SilentOwn(p.type), mapElastiCache(p).specs # <<>>
  PROVE  mapElastiCache(q) = mapElastiCache(p)
  <1> DEFINE groups == <<"num_node_groups", "number_of_node_groups">>
             nodes  == <<"num_cache_nodes", "num_cache_clusters", "number_of_cache_clusters">>
             K == {"node_type", "engine", "num_node_groups", "number_of_node_groups",
                   "replicas_per_node_group", "num_cache_nodes", "num_cache_clusters",
                   "number_of_cache_clusters"}
  <1>1. key \notin K \ {"node_type"}
    BY DEF SilentOwn
  <1>2. Ok(p, "node_type")
    BY DEF mapElastiCache, Unresolved
  <1>3. key # "node_type"
    BY <1>2 DEF Fills
  <1>4. SameAt(p, q, K)
    BY <1>1, <1>3, SameAll
  <1>5. FirstPositive(q, groups, 0) = FirstPositive(p, groups, 0)
    <2>2. DOMAIN groups = {1, 2}
      OBVIOUS
    <2>3. groups[1] = "num_node_groups" /\ groups[2] = "number_of_node_groups"
      OBVIOUS
    <2> HIDE DEF groups
    <2>4. \A i \in DOMAIN groups : Val(q, groups[i]) = Val(p, groups[i])
      BY <1>4, <2>2, <2>3 DEF SameAt
    <2> QED  BY <2>2, <2>4, FirstPositiveSame
  <1>6. FirstPositive(q, nodes, 1) = FirstPositive(p, nodes, 1)
    <2>2. DOMAIN nodes = {1, 2, 3}
      OBVIOUS
    <2>3. /\ nodes[1] = "num_cache_nodes" /\ nodes[2] = "num_cache_clusters"
          /\ nodes[3] = "number_of_cache_clusters"
      OBVIOUS
    <2> HIDE DEF nodes
    <2>4. \A i \in DOMAIN nodes : Val(q, nodes[i]) = Val(p, nodes[i])
      BY <1>4, <2>2, <2>3 DEF SameAt
    <2> QED  BY <2>2, <2>4, FirstPositiveSame
  <1>7. /\ Val(q, "node_type") = Val(p, "node_type") /\ Ok(q, "node_type")
        /\ Or(q, "engine", "redis") = Or(p, "engine", "redis")
        /\ Positive(q, "replicas_per_node_group") <=> Positive(p, "replicas_per_node_group")
        /\ Val(q, "replicas_per_node_group") = Val(p, "replicas_per_node_group")
    BY <1>2, <1>4 DEF SameAt
  <1> QED  BY <1>2, <1>5, <1>6, <1>7 DEF mapElastiCache

LEMMA SizedSame ==
  ASSUME NEW p, NEW q, NEW key, Fills(p, q, key)
  PROVE  /\ mapEBS(p).specs # <<>> /\ p.type = "aws_ebs_volume" /\ key \notin SilentOwn(p.type)
            => mapEBS(q) = mapEBS(p)
         /\ mapLB(p).specs # <<>> => mapLB(q) = mapLB(p)
         /\ mapFSxLustre(p).specs # <<>> => mapFSxLustre(q) = mapFSxLustre(p)
  <1>1. ASSUME mapEBS(p).specs # <<>>, p.type = "aws_ebs_volume", key \notin SilentOwn(p.type)
        PROVE  mapEBS(q) = mapEBS(p)
    <2>1. Ok(p, "size") /\ key # "type"
      BY <1>1 DEF mapEBS, Unresolved, SilentOwn
    <2>2. SameAt(p, q, {"size", "type"})
      BY <2>1, SameAll DEF Fills
    <2> QED  BY <2>2 DEF SameAt, mapEBS
  <1>2. ASSUME mapLB(p).specs # <<>> PROVE mapLB(q) = mapLB(p)
    <2>1. Ok(p, "load_balancer_type")
      BY <1>2 DEF mapLB, Unresolved, Or
    <2>2. SameAt(p, q, {"load_balancer_type"})
      BY <2>1, SameAll DEF Fills
    <2> QED  BY <2>2 DEF SameAt, mapLB
  <1>3. ASSUME mapFSxLustre(p).specs # <<>> PROVE mapFSxLustre(q) = mapFSxLustre(p)
    <2>1. Ok(p, "storage_capacity")
      BY <1>3 DEF mapFSxLustre, Unresolved
    <2>2. SameAt(p, q, {"storage_capacity"})
      BY <2>1, SameAll DEF Fills
    <2> QED  BY <2>2 DEF SameAt, mapFSxLustre
  <1> QED  BY <1>1, <1>2, <1>3

LEMMA RulesSame ==
  ASSUME NEW p, NEW q, NEW key, Fills(p, q, key), p.type = "aws_wafv2_web_acl",
         key \notin SilentOwn(p.type)
  PROVE  ExtraSpecs(q) = ExtraSpecs(p)
  <1>1. key # "rules"
    BY DEF SilentOwn
  <1>2. SameAt(p, q, {"rules"})
    BY <1>1, SameAll
  <1>3. FirstPositive(q, <<"rules">>, 0) = FirstPositive(p, <<"rules">>, 0)
    <2>1. \A r : FirstPositive(r, <<"rules">>, 0)
                 = IF Positive(r, "rules") THEN Val(r, "rules") ELSE 0
      BY FirstOfOne
    <2> QED  BY <1>2, <2>1 DEF SameAt
  <1>4. q.rules = p.rules
    BY DEF Fills
  <1>5. ExtraSpecs(p) = webACLRules(p) /\ ExtraSpecs(q) = webACLRules(q)
    BY DEF ExtraSpecs, Fills
  <1> QED  BY <1>3, <1>4, <1>5 DEF webACLRules

\* The attribute is one that the table does not list for a resource p.
Listed(p, y, key) == key \in (IF y = p THEN SilentOwn(p.type) ELSE SilentOther(p.type))

LEMMA AuroraSame ==
  ASSUME NEW c, NEW d, NEW y, NEW z, NEW key, Twins(c, d, y, z, key), NEW p \in c.idx,
         p.type = "aws_rds_cluster_instance", ~Listed(p, y, key),
         mapAuroraInstance(p, c).specs # <<>>
  PROVE  LET q == Put(p, y, z)
         IN  mapAuroraInstance(q, d) = mapAuroraInstance(p, c) /\ ExtraSpecs(q) = ExtraSpecs(p)
  <1> DEFINE q    == Put(p, y, z)
             cl   == refResource(p, "cluster_identifier", c)
             cl2  == refResource(q, "cluster_identifier", d)
             engine(r, found) == IF Given(r, "engine") THEN Val(r, "engine")
                                 ELSE IF found # {} THEN Or(The(found), "engine", NoText)
                                 ELSE NoText
             spec(cls, e) == Fixed(line("AmazonRDS",
                                 [instanceType |-> cls, databaseEngine |-> auroraEngine(e),
                                  deploymentOption |-> "Single-AZ"], 730, 1, NoText))
  <1>1. /\ mapAuroraInstance(p, c) = IF ~Ok(p, "instance_class") \/ engine(p, cl) = Unknown
                                     THEN Unresolved
                                     ELSE spec(Val(p, "instance_class"), engine(p, cl))
        /\ mapAuroraInstance(q, d) = IF ~Ok(q, "instance_class") \/ engine(q, cl2) = Unknown
                                     THEN Unresolved
                                     ELSE spec(Val(q, "instance_class"), engine(q, cl2))
    BY DEF mapAuroraInstance
  <1>2. Ok(p, "instance_class") /\ engine(p, cl) # Unknown
    <2> HIDE DEF engine, spec, q, cl, cl2
    <2> QED  BY <1>1 DEF Unresolved
  <1>3. /\ cl2 = {} <=> cl = {}
        /\ cl # {} => The(cl2) = Put(The(cl), y, z)
    <2>1. Found(cl, cl2, c, y, z)
      BY RefFound
    <2> HIDE DEF cl, cl2
    <2> QED  BY <2>1, FoundOne
  <1>4. CASE p = y
    <2>1. Fills(p, q, key)
      BY <1>4 DEF Twins, Put
    <2>2. key \notin {"multi_az", "allocated_storage", "storage_type"}
      BY <1>4 DEF Listed, SilentOwn
    <2>3. key # "instance_class"
      BY <1>2, <2>1 DEF Fills
    <2>4. key # "engine"
      BY <1>2, <2>1 DEF Fills, Given, Ok
    <2>5. SameAt(p, q, {"instance_class", "engine", "multi_az", "allocated_storage",
                        "storage_type"})
      BY <2>1, <2>2, <2>3, <2>4, SameAll
    <2>6. rdsStorageSpecs(q) = rdsStorageSpecs(p)
      BY <2>5, StorageSame DEF SameAt
    <2>7. ExtraSpecs(p) = rdsStorageSpecs(p) /\ ExtraSpecs(q) = rdsStorageSpecs(q)
      BY <2>1 DEF ExtraSpecs, Fills
    <2>8. Given(q, "engine") <=> Given(p, "engine")
      BY <2>1, SameGiven
    <2>9. cl # {} => Or(The(cl2), "engine", NoText) = Or(The(cl), "engine", NoText)
      BY <1>3, <2>4, PutReads
    <2>10. /\ Val(q, "instance_class") = Val(p, "instance_class") /\ Ok(q, "instance_class")
           /\ Val(q, "engine") = Val(p, "engine")
      BY <1>2, <2>5 DEF SameAt
    <2>11. engine(q, cl2) = engine(p, cl)
      <3> HIDE DEF cl, cl2, q
      <3> QED  BY <1>3, <2>8, <2>9, <2>10
    <2> HIDE DEF engine, spec, q, cl, cl2
    <2>12. mapAuroraInstance(q, d) = mapAuroraInstance(p, c)
      BY <1>1, <1>2, <2>10, <2>11
    <2> QED  BY <2>6, <2>7, <2>12 DEF q
  <1>5. CASE p # y
    <2>1. q = p
      BY <1>5 DEF Put
    <2>2. key # "engine"
      BY <1>5 DEF Listed, SilentOther
    <2>3. cl # {} => Or(The(cl2), "engine", NoText) = Or(The(cl), "engine", NoText)
      BY <1>3, <2>2, PutReads
    <2>4. engine(q, cl2) = engine(p, cl)
      <3> HIDE DEF cl, cl2, q
      <3> QED  BY <1>3, <2>1, <2>3
    <2> HIDE DEF engine, spec, q, cl, cl2
    <2>5. mapAuroraInstance(q, d) = mapAuroraInstance(p, c)
      BY <1>1, <1>2, <2>1, <2>4
    <2> QED  BY <2>1, <2>5 DEF q
  <1> QED  BY <1>4, <1>5

LEMMA ProxySame ==
  ASSUME NEW c, NEW d, NEW y, NEW z, NEW key, Twins(c, d, y, z, key), NEW p \in c.idx,
         p.type = "aws_db_proxy", ~Listed(p, y, key)
  PROVE  mapDBProxy(Put(p, y, z), d) = mapDBProxy(p, c)
  <1>1. key # "instance_class"
    BY DEF Listed, SilentOwn, SilentOther
  <1> QED  BY <1>1, ProxyTwin DEF mapDBProxy

LEMMA KeyLists == DOMAIN ASGKeys \in SUBSET Nat /\ DOMAIN GroupKeys \in SUBSET Nat
  BY DEF ASGKeys, GroupKeys

LEMMA ASGSame ==
  ASSUME NEW c, NEW d, NEW y, NEW z, NEW key, Twins(c, d, y, z, key), NEW p \in c.idx,
         p.type = "aws_autoscaling_group", ~Listed(p, y, key), mapASG(p, c).specs # <<>>
  PROVE  mapASG(Put(p, y, z), d) = mapASG(p, c)
  <1> DEFINE q   == Put(p, y, z)
             f   == Template(p, ASGKeys, c)
             f2  == Template(q, ASGKeys, d)
             count(r) == FirstPositive(r, <<"desired_capacity", "min_size">>, 0)
             tenancy(l) == Or(l, "placement_tenancy", Or(l, "placement.tenancy", "Shared"))
             spec(it, t, n) ==
                 Fixed(ec2InstanceSpec(it, IF t = "host" THEN "Dedicated" ELSE t, n))
  <1>1. /\ mapASG(p, c) = IF f = {} THEN Unresolved
                          ELSE IF ~Ok(The(f), "instance_type") \/ count(p) = 0 THEN Unresolved
                          ELSE spec(Val(The(f), "instance_type"), tenancy(The(f)), count(p))
        /\ mapASG(q, d) = IF f2 = {} THEN Unresolved
                          ELSE IF ~Ok(The(f2), "instance_type") \/ count(q) = 0 THEN Unresolved
                          ELSE spec(Val(The(f2), "instance_type"), tenancy(The(f2)), count(q))
    BY DEF mapASG
  <1>2. f # {} /\ Ok(The(f), "instance_type") /\ count(p) # 0
    <2> HIDE DEF q, f, f2, count, tenancy, spec
    <2> QED  BY <1>1 DEF Unresolved
  <1>3. f2 # {} /\ The(f2) = Put(The(f), y, z)
    <2>1. Found(f, f2, c, y, z)
      BY TemplateFound, KeyLists
    <2> HIDE DEF f, f2, q
    <2> QED  BY <1>2, <2>1, FoundOne
  <1>4. key \notin {"placement_tenancy", "placement.tenancy"}
    BY DEF Listed, SilentOwn, SilentOther
  <1>5. /\ Val(The(f2), "instance_type") = Val(The(f), "instance_type")
        /\ Ok(The(f2), "instance_type")
    <2>1. CASE The(f) = y
      <3>1. key # "instance_type"
        BY <1>2, <2>1 DEF Twins, Fills
      <3> HIDE DEF f, f2
      <3> QED  BY <1>2, <1>3, <3>1, PutReads
    <2>2. CASE The(f) # y
      <3> HIDE DEF f, f2
      <3> QED  BY <1>2, <1>3, <2>2 DEF Put
    <2> QED  BY <2>1, <2>2
  <1>6. tenancy(The(f2)) = tenancy(The(f))
    <2> HIDE DEF f, f2
    <2>1. \A k, e : k # key => Or(The(f2), k, e) = Or(The(f), k, e)
      BY <1>3, PutReads
    <2> QED  BY <1>4, <2>1
  <1>7. count(q) = count(p)
    <2>1. \A r : count(r) = IF Positive(r, "desired_capacity") THEN Val(r, "desired_capacity")
                            ELSE IF Positive(r, "min_size") THEN Val(r, "min_size") ELSE 0
      BY FirstOfTwo
    <2>2. CASE p = y
      <3>1. Fills(p, q, key)
        BY <2>2 DEF Twins, Put
      <3>2. key # "desired_capacity"
        BY <2>2 DEF Listed, SilentOwn
      <3>3. key = "min_size" => Positive(p, "desired_capacity")
        <4>1. key = "min_size" => ~Positive(p, "min_size")
          BY <3>1 DEF Fills, Positive
        <4> HIDE DEF count
        <4> QED  BY <1>2, <2>1, <4>1
      <3>4. SameAt(p, q, {"desired_capacity"}) /\ (key # "min_size" => SameAt(p, q, {"min_size"}))
        BY <3>1, <3>2, SameAll
      <3> HIDE DEF count, q
      <3> QED  BY <2>1, <3>3, <3>4 DEF SameAt
    <2>3. CASE p # y
      BY <2>3 DEF Put
    <2> QED  BY <2>2, <2>3
  <1> HIDE DEF f, f2, count, tenancy, spec, q
  <1>8. mapASG(q, d) = mapASG(p, c)
    BY <1>1, <1>2, <1>3, <1>5, <1>6, <1>7
  <1> QED  BY <1>8 DEF q

LEMMA NodeGroupSame ==
  ASSUME NEW c, NEW d, NEW y, NEW z, NEW key, Twins(c, d, y, z, key), NEW p \in c.idx,
         p.type = "aws_eks_node_group", ~Listed(p, y, key), mapEKSNodeGroup(p, c).specs # <<>>
  PROVE  LET q == Put(p, y, z)
         IN  mapEKSNodeGroup(q, d) = mapEKSNodeGroup(p, c) /\ ExtraSpecs(q) = ExtraSpecs(p)
  <1> DEFINE q   == Put(p, y, z)
             f   == Template(p, GroupKeys, c)
             f2  == Template(q, GroupKeys, d)
             count(r) == FirstPositive(r, <<"scaling_config.desired_size">>, 0)
             typed(t) == IF t = {} THEN FALSE ELSE Ok(The(t), "instance_type")
             its(r, t) == IF typed(t) THEN <<Val(The(t), "instance_type")>>
                          ELSE Or(r, "instance_types", <<>>)
             spec(s, n) == Fixed(ec2InstanceSpec(Head(s), "Shared", n))
  <1>1. /\ mapEKSNodeGroup(p, c) = IF its(p, f) = <<>> \/ count(p) = 0 THEN Unresolved
                                   ELSE spec(its(p, f), count(p))
        /\ mapEKSNodeGroup(q, d) = IF its(q, f2) = <<>> \/ count(q) = 0 THEN Unresolved
                                   ELSE spec(its(q, f2), count(q))
    BY DEF mapEKSNodeGroup
  <1>2. its(p, f) # <<>> /\ count(p) # 0
    <2> HIDE DEF q, f, f2, count, its, spec
    <2> QED  BY <1>1 DEF Unresolved
  <1>3. /\ f2 = {} <=> f = {}
        /\ f # {} => The(f2) = Put(The(f), y, z)
    <2>1. Found(f, f2, c, y, z)
      BY TemplateFound, KeyLists
    <2> HIDE DEF f, f2, q
    <2> QED  BY <2>1, FoundOne
  <1>4. key # "instance_type"
    BY DEF Listed, SilentOwn, SilentOther
  <1>5. /\ typed(f2) <=> typed(f)
        /\ typed(f) => Val(The(f2), "instance_type") = Val(The(f), "instance_type")
    <2> HIDE DEF f, f2
    <2> QED  BY <1>3, <1>4, PutReads
  <1>6. \A r : count(r) = IF Positive(r, "scaling_config.desired_size")
                          THEN Val(r, "scaling_config.desired_size") ELSE 0
    BY FirstOfOne
  <1>7. CASE p = y
    <2>1. Fills(p, q, key)
      BY <1>7 DEF Twins, Put
    <2>2. key \notin {"disk_size"} \cup Range(GroupKeys)
      BY <1>7 DEF Listed, SilentOwn
    <2>3. key # "scaling_config.desired_size"
      <3>1. Positive(p, "scaling_config.desired_size")
        <4> HIDE DEF count
        <4> QED  BY <1>2, <1>6
      <3> QED  BY <2>1, <3>1 DEF Fills, Positive
    <2>4. SameAt(p, q, {"scaling_config.desired_size", "disk_size"} \cup Range(GroupKeys))
      BY <2>1, <2>2, <2>3, SameAll
    <2>5. count(q) = count(p)
      <3> HIDE DEF count, q
      <3> QED  BY <1>6, <2>4 DEF SameAt
    <2>6. its(q, f2) = its(p, f)
      <3>1. CASE typed(f)
        <4> HIDE DEF typed, f, f2, q
        <4> QED  BY <1>5, <3>1
      <3>2. CASE ~typed(f)
        <4>1. /\ its(p, f) = Or(p, "instance_types", <<>>)
              /\ its(q, f2) = Or(q, "instance_types", <<>>)
          <5> HIDE DEF typed, f, f2, q
          <5> QED  BY <1>5, <3>2
        <4>2. Ok(p, "instance_types")
          <5> HIDE DEF its
          <5> QED  BY <1>2, <4>1 DEF Or
        <4>3. key # "instance_types"
          BY <2>1, <4>2 DEF Fills
        <4> HIDE DEF its, q, f, f2
        <4> QED  BY <2>1, <4>1, <4>3, SameReads
      <3> QED  BY <3>1, <3>2
    <2>7. ExtraSpecs(q) = ExtraSpecs(p)
      <3>1. ExtraSpecs(p) = nodeGroupStorageSpecs(p) /\ ExtraSpecs(q) = nodeGroupStorageSpecs(q)
        BY <2>1 DEF ExtraSpecs, Fills
      <3>2. \A i \in DOMAIN GroupKeys : Ok(q, GroupKeys[i]) <=> Ok(p, GroupKeys[i])
        <4>1. \A i \in DOMAIN GroupKeys : GroupKeys[i] \in Range(GroupKeys)
          BY DEF Range
        <4> HIDE DEF q
        <4> QED  BY <2>4, <4>1 DEF SameAt
      <3>3. /\ Positive(q, "disk_size") <=> Positive(p, "disk_size")
            /\ Val(q, "disk_size") = Val(p, "disk_size")
        BY <2>4 DEF SameAt
      <3> HIDE DEF q
      <3> QED  BY <3>1, <3>2, <3>3 DEF nodeGroupStorageSpecs
    <2> HIDE DEF f, f2, count, its, spec, q
    <2>8. mapEKSNodeGroup(q, d) = mapEKSNodeGroup(p, c)
      BY <1>1, <2>5, <2>6
    <2> QED  BY <2>7, <2>8 DEF q
  <1>8. CASE p # y
    <2>1. q = p
      BY <1>8 DEF Put
    <2>2. its(q, f2) = its(p, f)
      <3> HIDE DEF typed, f, f2, q
      <3> QED  BY <1>5, <2>1
    <2> HIDE DEF f, f2, count, its, spec, q
    <2>3. mapEKSNodeGroup(q, d) = mapEKSNodeGroup(p, c)
      BY <1>1, <2>1, <2>2
    <2> QED  BY <2>1, <2>3 DEF q
  <1> QED  BY <1>7, <1>8

LEMMA OwnSame ==
  ASSUME NEW p, NEW q, NEW key, Fills(p, q, key), key \notin SilentOwn(p.type),
         NEW c, NEW d, NEW region, MapResource(p, c, region).specs # <<>>,
         p.type \notin {"aws_rds_cluster_instance", "aws_db_proxy", "aws_autoscaling_group",
                        "aws_eks_node_group"}
  PROVE  MapResource(q, d, region) = MapResource(p, c, region) /\ ExtraSpecs(q) = ExtraSpecs(p)
  <1> q.type = p.type
    BY DEF Fills
  <1>1. CASE p.type = "aws_instance"
    <2>1. MapResource(p, c, region) = mapEC2(p) /\ MapResource(q, d, region) = mapEC2(q)
      BY <1>1 DEF MapResource
    <2> QED  BY <1>1, <2>1, EC2Same
  <1>2. CASE p.type = "aws_db_instance"
    <2>1. MapResource(p, c, region) = mapRDS(p) /\ MapResource(q, d, region) = mapRDS(q)
      BY <1>2 DEF MapResource
    <2> QED  BY <1>2, <2>1, RDSSame
  <1>3. CASE p.type = "aws_wafv2_web_acl"
    <2>1. MapResource(p, c, region) = mapWAFACL /\ MapResource(q, d, region) = mapWAFACL
      BY <1>3 DEF MapResource
    <2> QED  BY <1>3, <2>1, RulesSame
  <1> DEFINE rest == p.type \notin {"aws_instance", "aws_db_instance", "aws_wafv2_web_acl"}
  <1>4. rest => ExtraSpecs(q) = ExtraSpecs(p)
    BY SameExtras
  <1>5. CASE p.type = "aws_docdb_cluster_instance"
    <2>1. /\ MapResource(p, c, region) = mapDBInstance(p, "AmazonDocDB")
          /\ MapResource(q, d, region) = mapDBInstance(q, "AmazonDocDB")
      BY <1>5 DEF MapResource
    <2> QED  BY <1>4, <1>5, <2>1, DBInstanceSame
  <1>6. CASE p.type = "aws_neptune_cluster_instance"
    <2>1. /\ MapResource(p, c, region) = mapDBInstance(p, "AmazonNeptune")
          /\ MapResource(q, d, region) = mapDBInstance(q, "AmazonNeptune")
      BY <1>6 DEF MapResource
    <2> QED  BY <1>4, <1>6, <2>1, DBInstanceSame
  <1>7. CASE p.type = "aws_msk_cluster"
    <2> DEFINE type == "broker_node_group_info.instance_type"
               number == "number_of_broker_nodes"
    <2>1. /\ MapResource(p, c, region) = mapNodes(p, "AmazonMSK", "computeFamily", type, number)
          /\ MapResource(q, d, region) = mapNodes(q, "AmazonMSK", "computeFamily", type, number)
      BY <1>7 DEF MapResource
    <2>2. key # number
      BY <1>7 DEF SilentOwn
    <2> QED  BY <1>4, <1>7, <2>1, <2>2, NodesSame
  <1>8. CASE p.type = "aws_redshift_cluster"
    <2>1. /\ MapResource(p, c, region)
             = mapNodes(p, "AmazonRedshift", "instanceType", "node_type", "number_of_nodes")
          /\ MapResource(q, d, region)
             = mapNodes(q, "AmazonRedshift", "instanceType", "node_type", "number_of_nodes")
      BY <1>8 DEF MapResource
    <2>2. key # "number_of_nodes"
      BY <1>8 DEF SilentOwn
    <2> QED  BY <1>4, <1>8, <2>1, <2>2, NodesSame
  <1>9. CASE p.type = "aws_opensearch_domain"
    <2> DEFINE type == "cluster_config.instance_type"
               number == "cluster_config.instance_count"
    <2>1. /\ MapResource(p, c, region) = mapNodes(p, "AmazonES", "instanceType", type, number)
          /\ MapResource(q, d, region) = mapNodes(q, "AmazonES", "instanceType", type, number)
      BY <1>9 DEF MapResource
    <2>2. key # number
      BY <1>9 DEF SilentOwn
    <2> QED  BY <1>4, <1>9, <2>1, <2>2, NodesSame
  <1>10. CASE p.type = "aws_eks_cluster"
    <2>1. /\ MapResource(p, c, region) = mapEKSCluster(p)
          /\ MapResource(q, d, region) = mapEKSCluster(q)
      BY <1>10 DEF MapResource
    <2> QED  BY <1>4, <1>10, <2>1, EKSClusterSame
  <1>11. CASE p.type \in {"aws_elasticache_replication_group", "aws_elasticache_cluster"}
    <2>1. /\ MapResource(p, c, region) = mapElastiCache(p)
          /\ MapResource(q, d, region) = mapElastiCache(q)
      BY <1>11 DEF MapResource
    <2> QED  BY <1>4, <1>11, <2>1, ElastiCacheSame
  <1>12. CASE p.type = "aws_ebs_volume"
    <2>1. MapResource(p, c, region) = mapEBS(p) /\ MapResource(q, d, region) = mapEBS(q)
      BY <1>12 DEF MapResource
    <2> QED  BY <1>4, <1>12, <2>1, SizedSame
  <1>13. CASE p.type = "aws_lb"
    <2>1. MapResource(p, c, region) = mapLB(p) /\ MapResource(q, d, region) = mapLB(q)
      BY <1>13 DEF MapResource
    <2> QED  BY <1>4, <1>13, <2>1, SizedSame
  <1>14. CASE p.type = "aws_fsx_lustre_filesystem"
    <2>1. /\ MapResource(p, c, region) = mapFSxLustre(p)
          /\ MapResource(q, d, region) = mapFSxLustre(q)
      BY <1>14 DEF MapResource
    <2> QED  BY <1>4, <1>14, <2>1, SizedSame
  <1>15. CASE p.type \notin {"aws_instance", "aws_db_instance", "aws_wafv2_web_acl",
                 "aws_docdb_cluster_instance", "aws_neptune_cluster_instance",
                 "aws_msk_cluster", "aws_redshift_cluster", "aws_opensearch_domain",
                 "aws_eks_cluster", "aws_elasticache_replication_group",
                 "aws_elasticache_cluster", "aws_ebs_volume", "aws_lb",
                 "aws_fsx_lustre_filesystem"}
    <2>1. MapResource(q, d, region) = MapResource(p, c, region)
      BY <1>15 DEF MapResource
    <2> QED  BY <1>4, <1>15, <2>1
  <1> QED  BY <1>1, <1>2, <1>3, <1>5, <1>6, <1>7, <1>8, <1>9, <1>10, <1>11, <1>12, <1>13,
              <1>14, <1>15

LEMMA OtherSame ==
  ASSUME NEW p, NEW c, NEW d, NEW region,
         p.type \notin {"aws_rds_cluster_instance", "aws_db_proxy", "aws_autoscaling_group",
                        "aws_eks_node_group"}
  PROVE  MapResource(p, d, region) = MapResource(p, c, region)
  BY DEF MapResource

\* A priced resource is mapped to the same with the value.
LEMMA MapSame ==
  ASSUME NEW c, NEW d, NEW y, NEW z, NEW key, Twins(c, d, y, z, key), NEW p \in c.idx,
         ~Listed(p, y, key), NEW region, MapResource(p, c, region).specs # <<>>
  PROVE  LET q == Put(p, y, z)
         IN  MapResource(q, d, region) = MapResource(p, c, region) /\ ExtraSpecs(q) = ExtraSpecs(p)
  <1> DEFINE q == Put(p, y, z)
  <1>1. q.type = p.type
    BY PutFacts
  <1>2. (p = y => Fills(p, q, key)) /\ (p # y => q = p)
    BY DEF Twins, Put
  <1>3. CASE p.type = "aws_rds_cluster_instance"
    <2>1. /\ MapResource(p, c, region) = mapAuroraInstance(p, c)
          /\ MapResource(q, d, region) = mapAuroraInstance(q, d)
      BY <1>1, <1>3 DEF MapResource
    <2> QED  BY <1>3, <2>1, AuroraSame
  <1>4. CASE p.type = "aws_db_proxy"
    <2>1. /\ MapResource(p, c, region) = mapDBProxy(p, c)
          /\ MapResource(q, d, region) = mapDBProxy(q, d)
      BY <1>1, <1>4 DEF MapResource
    <2>2. ExtraSpecs(q) = ExtraSpecs(p)
      BY <1>1, <1>4 DEF ExtraSpecs
    <2> QED  BY <1>4, <2>1, <2>2, ProxySame
  <1>5. CASE p.type = "aws_autoscaling_group"
    <2>1. MapResource(p, c, region) = mapASG(p, c) /\ MapResource(q, d, region) = mapASG(q, d)
      BY <1>1, <1>5 DEF MapResource
    <2>2. ExtraSpecs(q) = ExtraSpecs(p)
      BY <1>1, <1>5 DEF ExtraSpecs
    <2> QED  BY <1>5, <2>1, <2>2, ASGSame
  <1>6. CASE p.type = "aws_eks_node_group"
    <2>1. /\ MapResource(p, c, region) = mapEKSNodeGroup(p, c)
          /\ MapResource(q, d, region) = mapEKSNodeGroup(q, d)
      BY <1>1, <1>6 DEF MapResource
    <2> QED  BY <1>6, <2>1, NodeGroupSame
  <1>7. CASE p.type \notin {"aws_rds_cluster_instance", "aws_db_proxy", "aws_autoscaling_group",
                            "aws_eks_node_group"}
    <2>1. CASE p = y
      <3>1. key \notin SilentOwn(p.type)
        BY <2>1 DEF Listed
      <3> HIDE DEF q
      <3>2. MapResource(q, d, region) = MapResource(p, c, region) /\ ExtraSpecs(q) = ExtraSpecs(p)
        BY <1>2, <1>7, <2>1, <3>1, OwnSame
      <3> QED  BY <3>2 DEF q
    <2>2. CASE p # y
      <3> HIDE DEF q
      <3>1. MapResource(q, d, region) = MapResource(p, c, region) /\ ExtraSpecs(q) = ExtraSpecs(p)
        BY <1>2, <1>7, <2>2, OtherSame
      <3> QED  BY <3>1 DEF q
    <2> QED  BY <2>1, <2>2
  <1> QED  BY <1>3, <1>4, <1>5, <1>6, <1>7

\* An attribute that gets a value.
LEMMA SuppliedFacts ==
  ASSUME NEW x, IsResource(x), NEW key \in DOMAIN x.attrs, x.attrs[key].val = Unknown,
         NEW v \in Values[key]
  PROVE  LET f == Supplied(x, key, v)
         IN  /\ Addr(f) = Addr(x) /\ f.alias = x.alias /\ IsBound(Bind(f, Unknown, {}))
             /\ Fills(Bind(x, Unknown, {}), Bind(f, Unknown, {}), key)
  <1> DEFINE f == Supplied(x, key, v)
             b(r) == Bind(r, Unknown, {})
  <1>1. /\ DOMAIN x = {"type", "name", "attrs", "rules", "alias", "meta"}
        /\ \A k \in DOMAIN x.attrs : DOMAIN x.attrs[k] = {"val", "bare", "vars", "indexed"}
    BY DEF IsResource
  <1>2. f = [x EXCEPT !.attrs = [x.attrs EXCEPT ![key] = [x.attrs[key] EXCEPT !.val = v]]]
    BY DEF Supplied
  <1>3. /\ DOMAIN f = DOMAIN x /\ f.type = x.type /\ f.name = x.name /\ f.rules = x.rules
        /\ f.alias = x.alias /\ f.meta = x.meta
        /\ f.attrs = [x.attrs EXCEPT ![key] = [x.attrs[key] EXCEPT !.val = v]]
    BY <1>1, <1>2
  <1>4. /\ DOMAIN f.attrs = DOMAIN x.attrs
        /\ \A k \in DOMAIN x.attrs : k # key => f.attrs[k] = x.attrs[k]
        /\ DOMAIN f.attrs[key] = {"val", "bare", "vars", "indexed"}
        /\ f.attrs[key].val = v /\ f.attrs[key].bare = x.attrs[key].bare
        /\ f.attrs[key].vars = x.attrs[key].vars /\ f.attrs[key].indexed = x.attrs[key].indexed
    BY <1>1, <1>3
  <1> HIDE DEF f
  <1>5. Addr(f) = Addr(x)
    BY <1>3 DEF Addr
  <1> DEFINE Shape(r) == /\ DOMAIN r = {"type", "name", "attrs", "rules", "alias", "meta"}
                         /\ \A k \in DOMAIN r.attrs :
                               DOMAIN r.attrs[k] = {"val", "bare", "vars", "indexed"}
  <1>6. Shape(x) /\ Shape(f)
    BY <1>1, <1>3, <1>4
  <1>7. \A r : Shape(r) =>
           /\ b(r).type = r.type /\ b(r).name = r.name /\ b(r).rules = r.rules
           /\ DOMAIN b(r).attrs = DOMAIN r.attrs
           /\ \A k \in DOMAIN r.attrs : /\ b(r).attrs[k].val = Resolved(r, k, Unknown, {})
                                        /\ b(r).attrs[k].bare = r.attrs[k].bare
                                        /\ b(r).attrs[k].vars = r.attrs[k].vars
    BY DEF Bind
  <1> HIDE DEF Shape, b
  <1>8. \A k \in DOMAIN x.attrs : k # key =>
           Resolved(f, k, Unknown, {}) = Resolved(x, k, Unknown, {})
    BY <1>4 DEF Resolved
  <1>9. /\ Resolved(x, key, Unknown, {}) = Unknown
        /\ Resolved(f, key, Unknown, {}) \in Values[key] \cup {Unknown}
    BY <1>4, MapperAssumption DEF Resolved, MapperAssumption, IsResource
  <1>10. ~Ok(b(x), key)
    BY <1>6, <1>7, <1>9 DEF Ok, Val, Given
  <1>11. Fills(b(x), b(f), key)
    BY <1>3, <1>4, <1>6, <1>7, <1>8, <1>10 DEF Fills
  <1>12. IsBound(b(x))
    BY BindFacts DEF b
  <1>13. IsBound(b(f))
    BY <1>3, <1>4, <1>6, <1>7, <1>8, <1>9, <1>12 DEF IsBound
  <1> QED  BY <1>3, <1>5, <1>11, <1>13 DEF f, b

\* The two directories, bound.
LEMMA TwinDirs ==
  ASSUME NEW dir, IsDir(dir), NEW x \in Range(dir.resources), NEW key \in DOMAIN x.attrs,
         x.attrs[key].val = Unknown, NEW v \in Values[key]
  PROVE  LET f == Supplied(x, key, v)
             e == Resolving(dir, x, key, v)
         IN  /\ Twins(Bound(dir, Unknown, {}), Bound(e, Unknown, {}),
                      Bind(x, Unknown, {}), Bind(f, Unknown, {}), key)
             /\ e.regions = dir.regions
             /\ \A r \in Range(dir.resources) : Bind(r, Unknown, {}) = Bind(x, Unknown, {}) => r = x
  <1> DEFINE f == Supplied(x, key, v)
             e == Resolving(dir, x, key, v)
             b(r) == Bind(r, Unknown, {})
             c == Bound(dir, Unknown, {})
             d == Bound(e, Unknown, {})
             s == dir.resources
             t == [i \in DOMAIN s |-> IF s[i] = x THEN f ELSE s[i]]
  <1>1. IsSeq(s) /\ Distinct(s, Addr) /\ \A r \in Range(s) : IsResource(r)
    BY DEF IsDir
  <1>2. e.resources = t /\ e.locals = dir.locals /\ e.regions = dir.regions
    BY DEF Resolving, IsDir
  <1>3. \A r, q \in Range(s) : Addr(r) = Addr(q) => r = q
    BY <1>1 DEF Distinct, Range
  <1>4. \A r \in Range(s) : Addr(b(r)) = Addr(r)
    BY <1>1, BindFacts
  <1>5. \A r, q \in Range(s) : Addr(b(r)) = Addr(b(q)) => r = q
    BY <1>3, <1>4
  <1>6. IsContext(c) /\ c.locals = dir.locals
        /\ \A u : u \in c.idx <=> \E r \in Range(s) : u = b(r)
    BY BoundFacts
  <1>7. \A u, w \in c.idx : Addr(u) = Addr(w) => u = w
    BY <1>5, <1>6
  <1>8. Fills(b(x), b(f), key) /\ IsBound(b(f))
    BY <1>1, SuppliedFacts
  <1>9. d.locals = c.locals
    BY <1>2, <1>6 DEF Bound
  <1>10. d.idx = (c.idx \ {b(x)}) \cup {b(f)}
    <2>1. d.idx = {b(t[i]) : i \in DOMAIN t}
      <3> HIDE DEF t, e
      <3> QED  BY <1>2 DEF Bound
    <2>2. DOMAIN t = DOMAIN s /\ \A i \in DOMAIN s : t[i] = IF s[i] = x THEN f ELSE s[i]
      OBVIOUS
    <2>3. \A i \in DOMAIN s : s[i] \in Range(s)
      BY DEF Range
    <2>4. \A r \in Range(s) : \E i \in DOMAIN s : r = s[i]
      BY DEF Range
    <2> HIDE DEF t, d, b, c, s, f
    <2>5. ASSUME NEW u \in d.idx PROVE u \in (c.idx \ {b(x)}) \cup {b(f)}
      <3>1. PICK i \in DOMAIN s : u = b(IF s[i] = x THEN f ELSE s[i])
        BY <2>1, <2>2
      <3>2. CASE s[i] = x
        BY <3>1, <3>2
      <3>3. CASE s[i] # x
        <4>1. u = b(s[i]) /\ s[i] \in Range(s) /\ x \in Range(s)
          BY <3>1, <3>3, <2>3 DEF s
        <4>2. u # b(x)
          BY <1>5, <3>3, <4>1
        <4> QED  BY <1>6, <4>1, <4>2
      <3> QED  BY <3>2, <3>3
    <2>6. ASSUME NEW u \in (c.idx \ {b(x)}) \cup {b(f)} PROVE u \in d.idx
      <3>1. CASE u = b(f)
        <4>1. PICK i \in DOMAIN s : x = s[i]
          BY <2>4 DEF s
        <4>2. t[i] = f
          BY <2>2, <4>1
        <4> QED  BY <2>1, <2>2, <3>1, <4>2
      <3>2. CASE u \in c.idx \ {b(x)}
        <4>1. PICK r \in Range(s) : u = b(r)
          BY <1>6, <3>2
        <4>2. PICK i \in DOMAIN s : r = s[i]
          BY <2>4
        <4>3. t[i] = r
          BY <2>2, <3>2, <4>1, <4>2
        <4> QED  BY <2>1, <2>2, <4>1, <4>3
      <3> QED  BY <2>6, <3>1, <3>2
    <2> QED  BY <2>5, <2>6
  <1>11. b(x) \in c.idx
    BY <1>6
  <1> HIDE DEF b, c, d, e, f, t
  <1>12. IsContext(d)
    <2>1. IsFiniteSet(c.idx \ {b(x)})
      BY <1>6, FS_Subset DEF IsContext
    <2>2. IsFiniteSet(d.idx)
      BY <1>10, <2>1, FS_AddElement
    <2> QED  BY <1>6, <1>8, <1>9, <1>10, <2>2 DEF IsContext
  <1>13. Twins(c, d, b(x), b(f), key)
    BY <1>6, <1>7, <1>8, <1>9, <1>10, <1>11, <1>12 DEF Twins
  <1>14. \A r \in Range(s) : b(r) = b(x) => r = x
    BY <1>5
  <1> QED  BY <1>2, <1>13, <1>14 DEF b, c, d, e, f

LEMMA SilentAt ==
  ASSUME NEW dir, IsDir(dir), NEW r \in Range(dir.resources), Once(dir, r) # <<>>,
         NEW x \in Range(dir.resources), NEW key \in DOMAIN x.attrs, x.attrs[key].val = Unknown,
         key \notin (IF x = r THEN SilentOwn(r.type) ELSE SilentOther(r.type)),
         NEW v \in Values[key]
  PROVE  Once(Resolving(dir, x, key, v), IF x = r THEN Supplied(x, key, v) ELSE r)
         = Once(dir, r)
  <1> DEFINE f == Supplied(x, key, v)
             e == Resolving(dir, x, key, v)
             g == IF x = r THEN f ELSE r
             c == Bound(dir, Unknown, {})
             d == Bound(e, Unknown, {})
             y == Bind(x, Unknown, {})
             z == Bind(f, Unknown, {})
             p == Bind(r, Unknown, {})
             q == Bind(g, Unknown, {})
             region == resourceRegion(dir, r, sc.region)
  <1>1. /\ Twins(c, d, y, z, key) /\ e.regions = dir.regions
        /\ p = y => r = x
    BY TwinDirs
  <1>2. IsResource(r) /\ IsResource(x)
    BY DEF IsDir
  <1>3. p.type = r.type
    BY <1>2, BindFacts
  <1>4. f.alias = x.alias
    BY <1>2, SuppliedFacts
  <1>5. resourceRegion(e, g, sc.region) = region
    <2>1. g.alias = r.alias
      <3> HIDE DEF f
      <3> QED  BY <1>4
    <2> HIDE DEF e, g
    <2> QED  BY <1>1, <2>1 DEF resourceRegion
  <1>6. q = Put(p, y, z)
    BY <1>1 DEF Put
  <1>7. p \in c.idx
    BY BoundFacts
  <1>8. y = p <=> x = r
    BY <1>1
  <1> DEFINE m    == MapResource(p, c, region)
             one(n, s) == IF n.specs = <<>> THEN <<>>
                          ELSE n.specs \o [i \in DOMAIN s |->
                                              [s[i] EXCEPT !.count = n.specs[1].count]]
  <1>9. Once(dir, r) = one(m, ExtraSpecs(p))
    BY DEF Once
  <1>10. Once(e, g) = one(MapResource(q, d, resourceRegion(e, g, sc.region)), ExtraSpecs(q))
    BY DEF Once
  <1> HIDE DEF f, e, g, c, d, y, z, p, q, region
  <1>11. m.specs # <<>>
    <2> HIDE DEF m
    <2> QED  BY <1>9
  <1>12. ~Listed(p, y, key)
    BY <1>3, <1>8 DEF Listed
  <1>13. MapResource(q, d, region) = m /\ ExtraSpecs(q) = ExtraSpecs(p)
    BY <1>1, <1>6, <1>7, <1>11, <1>12, MapSame
  <1>14. Once(e, g) = Once(dir, r)
    <2> HIDE DEF one, m
    <2> QED  BY <1>5, <1>9, <1>10, <1>13
  <1> QED  BY <1>14 DEF e, f, g

LEMMA SilentHolds == Inv => SilentDefaults
  <1> SUFFICES ASSUME Inv, NEW o \in opened, NEW r \in Range(o.dir.resources),
                      Once(o.dir, r) # <<>>,
                      NEW x \in Range(o.dir.resources), NEW key \in DOMAIN x.attrs,
                      x.attrs[key].val = Unknown,
                      key \notin (IF x = r THEN SilentOwn(r.type) ELSE SilentOther(r.type)),
                      NEW v \in Values[key]
               PROVE  Once(Resolving(o.dir, x, key, v),
                           IF x = r THEN Supplied(x, key, v) ELSE r) = Once(o.dir, r)
    BY DEF SilentDefaults
  <1>1. IsDir(o.dir)
    BY DEF Inv, Good, GoodDir
  <1> QED  BY <1>1, SilentAt

-----------------------------------------------------------------------------
(* The properties of the specification.                                    *)

\* The work list holds jobs of the five kinds and ends empty, the cache has one
\* price per key, an item is of one of the four kinds of the report, and only a
\* "Fixed" one has a price, times a natural number.
THEOREM TypeCorrect == Spec => []TypeOK
  BY Always, TypeHolds, PTL

\* Every price is the one of the resource's own product in its own region, also
\* when it comes from a cache whose key leaves the region out, and an auto
\* scaling group that refers to a template, through whatever locals, is priced
\* on it (pricedItem in analyze.go, cached.go, mapper.go:1035).
THEOREM PriceIsOwn == Spec => []OwnPrice
  BY Always, OwnPriceHolds, PTL

\* Without faults, each lookup that a resource needs is billed exactly once per
\* row, count times what one instance takes (priceResources, priceOneResource),
\* unless a counted module is on the way to it.
THEOREM CountsTimes == Spec => []CountsMultiply
  BY Always, CountsHold, PTL

\* Every resource of every opened directory and every module that cannot be
\* opened ends in the report, once, with nothing else in it, and both reports
\* add up the same prices (priceDir, priceModule, internal/output).
THEOREM ReportComplete == Spec => []Reported
  BY Always, ReportedHolds, PTL

\* A priced resource has no unresolved attribute that the price depends on, be
\* it its own or that of the cluster, template or target it refers to, except
\* for those the table lists: the list is complete for every directory
\* (MapResource and ExtraSpecs in mapper.go).
THEOREM DefaultsListed == Spec => []SilentDefaults
  BY Always, SilentHolds, PTL
=============================================================================
