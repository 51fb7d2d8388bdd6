------------------------------- MODULE Mapper -------------------------------
(***************************************************************************)
(* internal/mapper/mapper.go: from a resource to the queries and           *)
(* quantities that price it.                                               *)
(*                                                                         *)
(* A resource is [type, name, attrs, rules, ...], rules its number of rule *)
(* blocks.  attrs holds its expressions, each [val, bare, vars, indexed]:  *)
(* val is what the resolver makes of it, Unknown when that is nothing of   *)
(* the type the attribute has, and Each when it is each.value; vars are    *)
(* the resources <<type, name>> and locals <<"local", name>> it mentions,  *)
(* bare says that it is one of them and nothing else, and indexed that it  *)
(* goes through an index (x[0].attr).                                      *)
(*                                                                         *)
(* A context is [idx, locals]: the resources of the directory, bound, and  *)
(* the locals that did not resolve.                                        *)
(* Filters that are the same for all resources of a service (operating     *)
(* system, pre-installed software, the MSK operation) are left out, as are *)
(* labels.                                                                 *)
(***************************************************************************)
EXTENDS PriceQuery, Sequences, FiniteSetsExt, Functions

CONSTANTS
    Values,   \* the values of its type an attribute may have, by name
    Unknown, Each

\* Attributes the mapper reads as a number, and as an instance class.
Numbers  == {"size", "storage_capacity", "root_block_device.size",
             "ebs_block_device.size", "allocated_storage", "disk_size", "rules",
             "number_of_broker_nodes", "number_of_nodes",
             "cluster_config.instance_count", "num_node_groups",
             "number_of_node_groups", "replicas_per_node_group",
             "num_cache_nodes", "num_cache_clusters", "number_of_cache_clusters",
             "desired_capacity", "min_size", "scaling_config.desired_size"}
Classes  == {"instance_class", "node_type"}
ClassSet == [fam : STRING, size : STRING, n : Nat]

ASSUME MapperAssumption ==
    /\ \A key \in DOMAIN Values :
          /\ Unknown \notin Values[key]
          /\ key \in Numbers => Values[key] \subseteq Int
          /\ key \in {"size", "storage_capacity"} => Values[key] \subseteq Nat
          /\ key \in Classes => Values[key] \subseteq ClassSet

Addr(r) == <<r.type, r.name>>
Given(r, key) == key \in DOMAIN r.attrs

\* What the resolver makes of the attributes of r with `each` bound to each.
\* resolveResourceTraversal compacts the steps of an indexed reference in the
\* parsed expression itself: the steps it finds the next time lead nowhere.
\* spent are the resources whose indexed reference has been resolved before.
Resolved(r, key, each, spent) ==
    CASE r.attrs[key].indexed /\ Addr(r) \in spent -> Unknown
      [] ~r.attrs[key].indexed /\ r.attrs[key].val = Each ->
            IF each \in Values[key] THEN each ELSE Unknown
      [] OTHER -> r.attrs[key].val

Bind(r, each, spent) ==
    [r EXCEPT !.attrs = [key \in DOMAIN r.attrs |->
        [r.attrs[key] EXCEPT !.val = Resolved(r, key, each, spent)]]]

-----------------------------------------------------------------------------
(* Reading a resource that is bound.                                       *)

Val(r, key) == IF Given(r, key) THEN r.attrs[key].val ELSE Unknown
Ok(r, key)  == Val(r, key) # Unknown

\* MUTANT of Positive: a number is taken as it is.
PositiveAny(r, key)  == Ok(r, key)

Or(r, key, default)  == IF Ok(r, key) THEN Val(r, key) ELSE default
Positive(r, key)     == Ok(r, key) /\ Val(r, key) > 0

\* The first of the keys with a positive number decides.
FirstPositive(r, keys, default) ==
    LET N == {i \in DOMAIN keys : Positive(r, keys[i])}
    IN  IF N = {} THEN default ELSE Val(r, keys[Min(N)])

\* A look-up gives the set of what it finds, of at most one resource.
Lookup(c, a) == {x \in c.idx : Addr(x) = a}
The(found)   == CHOOSE x \in found : TRUE

refResource(r, key, c) ==
    IF Given(r, key) /\ r.attrs[key].bare THEN Lookup(c, Head(r.attrs[key].vars))
    ELSE {}

\* chaseResourceRef: the first resource that a list of references leads to,
\* through locals that did not resolve, each followed once.  A chase has the
\* references it is still to come to, the locals it has followed, and what it
\* has found: it goes on with the references of the next local.
Stops(ref, seen, c) == IF ref[1] = "local" THEN ref[2] \in DOMAIN c.locals \ seen
                       ELSE Lookup(c, ref) # {}

Follow(w, c) ==
    LET N    == {i \in DOMAIN w.left : Stops(w.left[i], w.seen, c)}
        ref  == w.left[Min(N)]
        rest == SubSeq(w.left, Min(N) + 1, Len(w.left))
    IN  IF w.at # {} \/ N = {} THEN w
        ELSE IF ref[1] = "local"
             THEN [left |-> c.locals[ref[2]] \o rest, seen |-> w.seen \cup {ref[2]},
                   at |-> {}]
             ELSE [left |-> rest, seen |-> w.seen, at |-> Lookup(c, ref)]

chase(vs, c) ==
    LET walk[n \in Nat] == IF n = 0 THEN [left |-> vs, seen |-> {}, at |-> {}]
                           ELSE Follow(walk[n - 1], c)
    IN  walk[Cardinality(DOMAIN c.locals) + 1].at

\* The launch template that the first of the keys leads to.
FirstGiven(r, keys) == keys[Min({i \in DOMAIN keys : Given(r, keys[i])})]

Template(r, keys, c) ==
    LET key == FirstGiven(r, keys)
    IN  IF \A i \in DOMAIN keys : ~Given(r, keys[i]) THEN {}
        ELSE IF refResource(r, key, c) # {} THEN refResource(r, key, c)
        ELSE chase(r.attrs[key].vars, c)

ASGKeys   == <<"launch_template.id", "launch_template_id", "launch_configuration">>
GroupKeys == <<"launch_template.id", "launch_template.name", "launch_template_name">>

-----------------------------------------------------------------------------
(* What MapResource returns: a kind, and a spec or none.                   *)

line(service, filters, qty, count, unit) ==
    [service |-> service, filters |-> filters, qty |-> qty, count |-> count,
     unit |-> unit, flat |-> FALSE, global |-> FALSE]

Fixed(spec)   == [kind |-> "Fixed", specs |-> <<spec>>]
Unresolved    == [kind |-> "Fixed", specs |-> <<>>]
Row(kind)     == [kind |-> kind, specs |-> <<>>]

flatHourly(service, base) ==
    line(service, [usagetype |-> Usage(base, NoClass)], 730, 1, NoText)

ec2InstanceSpec(it, tenancy, count) ==
    line("AmazonEC2", [instanceType |-> it, tenancy |-> tenancy], 730, count, NoText)

ebsSpec(size, vtype) ==
    line("AmazonEC2", [volumeApiName |-> vtype], size, 1, "GB-Mo")

rdsEngine(e)    == IF e \in {"mysql", "mariadb", "postgres"} THEN e ELSE "mysql"
auroraEngine(e) == IF e \in {"postgres", "aurora-postgresql"} THEN "Aurora PostgreSQL"
                   ELSE "Aurora MySQL"
elasticacheEngine(e) == IF e \in {"memcached", "valkey"} THEN e ELSE "redis"

mapEC2(r) ==
    IF ~Ok(r, "instance_type") THEN Unresolved
    ELSE Fixed(ec2InstanceSpec(Val(r, "instance_type"), Or(r, "tenancy", "Shared"), 1))

\* MUTANT of mapRDS: an engine that does not resolve is taken for no engine.
mapRDSDefault(r) ==
    IF ~Ok(r, "instance_class") THEN Unresolved
    ELSE Fixed(line("AmazonRDS",
             [instanceType |-> Val(r, "instance_class"),
              databaseEngine |-> rdsEngine(Or(r, "engine", NoText)),
              deploymentOption |->
                  IF Or(r, "multi_az", FALSE) THEN "Multi-AZ" ELSE "Single-AZ"],
             730, 1, NoText))

mapRDS(r) ==
    IF ~Ok(r, "instance_class") \/ (Given(r, "engine") /\ ~Ok(r, "engine"))
    THEN Unresolved
    ELSE Fixed(line("AmazonRDS",
             [instanceType |-> Val(r, "instance_class"),
              databaseEngine |-> rdsEngine(Or(r, "engine", NoText)),
              deploymentOption |->
                  IF Or(r, "multi_az", FALSE) THEN "Multi-AZ" ELSE "Single-AZ"],
             730, 1, NoText))

\* The engine is the cluster's unless the instance names one.
mapAuroraInstance(r, c) ==
    LET cl == refResource(r, "cluster_identifier", c)
        engine == IF Given(r, "engine") THEN Val(r, "engine")
                  ELSE IF cl # {} THEN Or(The(cl), "engine", NoText) ELSE NoText
    IN  IF ~Ok(r, "instance_class") \/ engine = Unknown THEN Unresolved
        ELSE Fixed(line("AmazonRDS",
                 [instanceType |-> Val(r, "instance_class"),
                  databaseEngine |-> auroraEngine(engine),
                  deploymentOption |-> "Single-AZ"], 730, 1, NoText))

\* Unit rates only: the storage type selects which, none is billed.
mapAuroraCluster == Row("Variable")

mapSecret == Fixed(line("AWSSecretsManager",
                 [usagetype |-> Usage("AWSSecretsManager-Secrets", NoClass)], 1, 1, "Secrets"))

classVCPU(cls) ==
    CASE cls.size = "Nxlarge" -> 4 * cls.n
      [] cls.size = "xlarge"  -> 4
      [] cls.fam \in {"t2", "db.t2"} /\ cls.size \in {"nano", "micro", "small"} -> 1
      [] cls.size \in {"nano", "micro", "small", "medium", "large"} -> 2
      [] OTHER -> 0

VCPU(r) == IF Ok(r, "instance_class") THEN classVCPU(Val(r, "instance_class"))
              ELSE 0

OfType(c, type) == {x \in c.idx : x.type = type}

\* The targets of a proxy, each an instance or all instances of a cluster; a
\* class that does not resolve adds nothing.
clusterVCPU(cl, c) ==
    SumFunction([x \in {y \in OfType(c, "aws_rds_cluster_instance") :
                            refResource(y, "cluster_identifier", c) = cl} |-> VCPU(x)])

targetVCPU(t, c) ==
    LET inst == refResource(t, "db_instance_identifier", c)
        cl   == refResource(t, "db_cluster_identifier", c)
    IN  IF inst # {} THEN VCPU(The(inst)) ELSE IF cl = {} THEN 0 ELSE clusterVCPU(cl, c)

proxyTargetVCPU(proxy, c) ==
    SumFunction([t \in {u \in OfType(c, "aws_db_proxy_target") :
                            refResource(u, "db_proxy_name", c) = {proxy}} |-> targetVCPU(t, c)])

mapDBProxy(r, c) ==
    IF proxyTargetVCPU(r, c) = 0 THEN Row("Variable")
    ELSE Fixed(line("AmazonRDS", [usagetype |-> Usage("RDS:ProxyUsage", NoClass)],
                    730, proxyTargetVCPU(r, c), "Hrs"))

mapDBInstance(r, service) ==
    IF ~Ok(r, "instance_class") THEN Unresolved
    ELSE Fixed(line(service,
             [instanceType |-> Val(r, "instance_class"),
              usagetype |-> Usage("InstanceUsage:", Val(r, "instance_class"))],
             730, 1, NoText))

\* Redshift, OpenSearch and MSK: a node type and a number of nodes.
mapNodes(r, service, field, type, number) ==
    IF ~Ok(r, type) THEN Unresolved
    ELSE Fixed(line(service, [f \in {field} |-> Val(r, type)], 730,
                    FirstPositive(r, <<number>>, 1), NoText))

\* past: where the version is in the support calendar on the day of the run.
mapEKSCluster(r) ==
    LET spec == flatHourly("AmazonEKS", "AmazonEKS-Hours:perCluster")
    IN  IF Or(r, "version", NoText) = "past"
           /\ Or(r, "upgrade_policy.support_type", NoText) # "STANDARD"
        THEN Fixed([spec EXCEPT !.flat = TRUE]) ELSE Fixed(spec)

\* Node groups times their nodes in cluster mode; when that makes one node,
\* the counts of the other modes.
mapElastiCache(r) ==
    LET groups   == FirstPositive(r, <<"num_node_groups", "number_of_node_groups">>, 0)
        replicas == IF Positive(r, "replicas_per_node_group")
                    THEN Val(r, "replicas_per_node_group") ELSE 0
        sharded  == IF groups = 0 THEN 1 ELSE groups * (replicas + 1)
        count    == IF sharded > 1 THEN sharded
                    ELSE FirstPositive(r, <<"num_cache_nodes", "num_cache_clusters",
                                            "number_of_cache_clusters">>, 1)
    IN  IF ~Ok(r, "node_type") THEN Unresolved
        ELSE Fixed(line("AmazonElastiCache",
                 [instanceType |-> Val(r, "node_type"),
                  cacheEngine |-> elasticacheEngine(Or(r, "engine", "redis")),
                  usagetype |-> Usage("NodeUsage:", Val(r, "node_type"))],
                 730, count, NoText))

mapEBS(r) ==
    IF ~Ok(r, "size") THEN Unresolved
    ELSE Fixed(ebsSpec(Val(r, "size"), Or(r, "type", "gp2")))

\* The launch template carries type and tenancy; host instances are billed as
\* dedicated ones.
mapASG(r, c) ==
    LET found   == Template(r, ASGKeys, c)
        lt      == The(found)
        count   == FirstPositive(r, <<"desired_capacity", "min_size">>, 0)
        tenancy == Or(lt, "placement_tenancy", Or(lt, "placement.tenancy", "Shared"))
    IN  IF found = {} THEN Unresolved
        ELSE IF ~Ok(lt, "instance_type") \/ count = 0 THEN Unresolved
        ELSE Fixed(ec2InstanceSpec(Val(lt, "instance_type"),
                       IF tenancy = "host" THEN "Dedicated" ELSE tenancy, count))

\* The type is the launch template's or else the first of the list.
mapEKSNodeGroup(r, c) ==
    LET found == Template(r, GroupKeys, c)
        typed == IF found = {} THEN FALSE ELSE Ok(The(found), "instance_type")
        its   == IF typed THEN <<Val(The(found), "instance_type")>>
                 ELSE Or(r, "instance_types", <<>>)
        count == FirstPositive(r, <<"scaling_config.desired_size">>, 0)
    IN  IF its = <<>> \/ count = 0 THEN Unresolved
        ELSE Fixed(ec2InstanceSpec(Head(its), "Shared", count))

mapNATGateway ==
    Fixed([flatHourly("AmazonEC2", "NatGateway-Hours") EXCEPT !.unit = "Hrs"])

\* A gateway load balancer is not priced.
mapLB(r) ==
    IF Or(r, "load_balancer_type", "gateway") = "gateway" THEN Unresolved
    ELSE Fixed(line("AmazonEC2",
             [usagetype |-> Usage("LoadBalancerUsage", NoClass),
              productFamily |-> Val(r, "load_balancer_type")], 730, 1, "Hrs"))

mapKMSKey(region) ==
    Fixed(line("AWSKMS",
        [usagetype |-> [Usage("KMS-Keys", NoClass) EXCEPT !.pre = region]], 1, 1, "Keys"))

mapRoute53Zone ==
    Fixed([line("AmazonRoute53", [usagetype |-> Usage("HostedZone", NoClass)], 1, 1,
                "HostedZone") EXCEPT !.global = TRUE])

mapWAFACL == Fixed(line("AWSWAF", [usagetype |-> Usage("WebACLV2", NoClass)], 1, 1, "Month"))

mapFSxLustre(r) ==
    IF ~Ok(r, "storage_capacity") THEN Unresolved
    ELSE Fixed(line("AmazonFSx",
             [usagetype |-> Usage("FSxLustre-Storage-GB-Mo", NoClass)],
             Val(r, "storage_capacity"), 1, "GB-Mo"))

\* One type stands for each of the tables usageTypes, freeTypes and infoTypes.
MapResource(r, c, region) ==
    CASE r.type = "aws_s3_bucket"                -> Row("Variable")
      [] r.type = "aws_db_proxy_target"          -> Row("Free")
      [] r.type \in {"aws_launch_template", "module"} -> Row("Unsupported")
      [] r.type = "aws_instance"                 -> mapEC2(r)
      [] r.type = "aws_db_instance"              -> mapRDS(r)
      [] r.type = "aws_rds_cluster"              -> mapAuroraCluster
      [] r.type = "aws_db_proxy"                 -> mapDBProxy(r, c)
      [] r.type = "aws_secretsmanager_secret"    -> mapSecret
      [] r.type = "aws_rds_cluster_instance"     -> mapAuroraInstance(r, c)
      [] r.type = "aws_docdb_cluster_instance"   -> mapDBInstance(r, "AmazonDocDB")
      [] r.type = "aws_neptune_cluster_instance" -> mapDBInstance(r, "AmazonNeptune")
      [] r.type = "aws_msk_cluster"  -> mapNodes(r, "AmazonMSK", "computeFamily",
                                           "broker_node_group_info.instance_type",
                                           "number_of_broker_nodes")
      [] r.type = "aws_eks_cluster"              -> mapEKSCluster(r)
      [] r.type \in {"aws_vpn_connection", "aws_vpn_gateway"} ->
            Fixed(flatHourly("AmazonVPC", "VPN-Usage-Hours:ipsec.1"))
      [] r.type = "aws_ec2_transit_gateway_vpc_attachment" ->
            Fixed(flatHourly("AmazonVPC", "TransitGateway-Hours"))
      [] r.type \in {"aws_elasticache_replication_group", "aws_elasticache_cluster"} ->
            mapElastiCache(r)
      [] r.type = "aws_redshift_cluster" -> mapNodes(r, "AmazonRedshift", "instanceType",
                                               "node_type", "number_of_nodes")
      [] r.type = "aws_opensearch_domain" -> mapNodes(r, "AmazonES", "instanceType",
                                               "cluster_config.instance_type",
                                               "cluster_config.instance_count")
      [] r.type = "aws_ebs_volume"               -> mapEBS(r)
      [] r.type = "aws_autoscaling_group"        -> mapASG(r, c)
      [] r.type = "aws_eks_node_group"           -> mapEKSNodeGroup(r, c)
      [] r.type = "aws_nat_gateway"              -> mapNATGateway
      [] r.type = "aws_lb"                       -> mapLB(r)
      [] r.type = "aws_kms_key"                  -> mapKMSKey(region)
      [] r.type = "aws_route53_zone"             -> mapRoute53Zone
      [] r.type = "aws_wafv2_web_acl"            -> mapWAFACL
      [] r.type = "aws_fsx_lustre_filesystem"    -> mapFSxLustre(r)
      [] OTHER                                   -> Row("Unsupported")

-----------------------------------------------------------------------------
(* ExtraSpecs: the storage and the rules that come with a resource.        *)

disk(r, size, type, default) ==
    IF Positive(r, size) THEN <<ebsSpec(Val(r, size), Or(r, type, default))>> ELSE <<>>

instanceStorageSpecs(r) ==
    disk(r, "root_block_device.size", "root_block_device.type", "gp3")
    \o disk(r, "ebs_block_device.size", "ebs_block_device.type", "gp2")

\* 20 GB unless there is a size, or a launch template that may have one.
nodeGroupStorageSpecs(r) ==
    IF Positive(r, "disk_size") THEN <<ebsSpec(Val(r, "disk_size"), "gp3")>>
    ELSE IF \E i \in DOMAIN GroupKeys : Ok(r, GroupKeys[i])
         THEN <<>> ELSE <<ebsSpec(20, "gp3")>>

rdsStorageSpecs(r) ==
    LET vtype == Or(r, "storage_type", "gp3")
        multi == Or(r, "multi_az", FALSE)
        base  == CASE vtype = "gp2" /\ multi -> "RDS:Multi-AZ-StorageUsage"
                   [] vtype = "gp2" -> "RDS:StorageUsage"
                   [] vtype = "gp3" /\ multi -> "RDS:Multi-AZ-GP3-Storage"
                   [] OTHER -> "RDS:GP3-Storage"
    IN  IF ~Positive(r, "allocated_storage") THEN <<>>
        ELSE <<line("AmazonRDS",
                 [usagetype |-> Usage(base, NoClass),
                  databaseEngine |-> rdsEngine(Or(r, "engine", NoText))],
                 Val(r, "allocated_storage"), 1, "GB-Mo")>>

\* Blocks are counted before the attribute `rules`, whose length is its val.
webACLRules(r) ==
    LET n == IF r.rules > 0 THEN r.rules ELSE FirstPositive(r, <<"rules">>, 0)
    IN  IF n = 0 THEN <<>>
        ELSE <<line("AWSWAF", [usagetype |-> Usage("RuleV2", NoClass)], n, 1, "Month")>>

ExtraSpecs(r) ==
    CASE r.type = "aws_instance"       -> instanceStorageSpecs(r)
      [] r.type = "aws_eks_node_group" -> nodeGroupStorageSpecs(r)
      [] r.type \in {"aws_db_instance", "aws_rds_cluster_instance"} -> rdsStorageSpecs(r)
      [] r.type = "aws_wafv2_web_acl"  -> webACLRules(r)
      [] OTHER                         -> <<>>
=============================================================================
