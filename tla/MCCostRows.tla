----------------------------- MODULE MCCostRows -----------------------------
(***************************************************************************)
(* Small projects for CostRows: every resource type with every combination *)
(* of its attributes given or not and resolved or not; directories of      *)
(* resources in several regions with modules below them; launch templates  *)
(* behind locals; database proxies; for_each.                              *)
(***************************************************************************)
EXTENDS CostRows, SequencesExt

Regions   == {"us-east-1", "us-west-2"}
Locations == "us-east-1" :> "US East (N. Virginia)" @@ "us-west-2" :> "US West (Oregon)"
UsagePrefixes == "us-east-1" :> "USE1" @@ "us-west-2" :> "USW2"

Class(fam, size, n) == [fam |-> fam, size |-> size, n |-> n]
r5  == Class("db.r5", "Nxlarge", 2)
t2  == Class("db.t2", "small", 0)

Candidates ==
    "instance_type" :> <<"t3.micro">> @@ "tenancy" :> <<"dedicated">>
    @@ "root_block_device.size" :> <<20>> @@ "root_block_device.type" :> <<"io1">>
    @@ "ebs_block_device.size" :> <<0, 30>> @@ "ebs_block_device.type" :> <<"io1">>
    @@ "instance_class" :> <<r5>> @@ "engine" :> <<"postgres", "valkey">>
    @@ "multi_az" :> <<TRUE>> @@ "allocated_storage" :> <<10>> @@ "storage_type" :> <<"gp2">>
    @@ "broker_node_group_info.instance_type" :> <<"m5.large">>
    @@ "number_of_broker_nodes" :> <<3>> @@ "node_type" :> <<r5>>
    @@ "number_of_nodes" :> <<2>> @@ "cluster_config.instance_type" :> <<r5>>
    @@ "cluster_config.instance_count" :> <<2>>
    @@ "version" :> <<"past", "recent">> @@ "upgrade_policy.support_type" :> <<"STANDARD">>
    @@ "num_node_groups" :> <<1, 2>> @@ "replicas_per_node_group" :> <<0, 1>>
    @@ "num_cache_clusters" :> <<3>> @@ "size" :> <<8>> @@ "type" :> <<"gp3">>
    @@ "load_balancer_type" :> <<"network", "gateway">> @@ "storage_capacity" :> <<1200>>
    @@ "rules" :> <<0, 2>> @@ "desired_capacity" :> <<-1, 2>> @@ "min_size" :> <<1>>
    @@ "placement_tenancy" :> <<"host">> @@ "placement.tenancy" :> <<"dedicated">>
    @@ "disk_size" :> <<50>> @@ "instance_types" :> <<<<>>, <<"m5.large", "t3.micro">>>>
    @@ "scaling_config.desired_size" :> <<2>> @@ "launch_template.id" :> <<"lt-1">>
    @@ "launch_template.name" :> <<"lt">> @@ "number_of_node_groups" :> <<2>>
    @@ "num_cache_nodes" :> <<2>> @@ "number_of_cache_clusters" :> <<3>>

\* Values that not every family goes through, and attributes that are only
\* given as references.
Others == "instance_type" :> {"m5.large"} @@ "instance_class" :> {t2}
          @@ [k \in {"cluster_identifier", "db_proxy_name", "db_instance_identifier",
                     "db_cluster_identifier"} |-> {}]

AttrValues == [k \in DOMAIN Candidates \cup DOMAIN Others |->
                  (IF k \in DOMAIN Candidates THEN ToSet(Candidates[k]) ELSE {})
                  \cup (IF k \in DOMAIN Others THEN Others[k] ELSE {})]

KeysOf ==
    "aws_instance" :> {"instance_type", "tenancy", "root_block_device.size",
                       "root_block_device.type", "ebs_block_device.size",
                       "ebs_block_device.type"}
    @@ "aws_db_instance" :> {"instance_class", "engine", "multi_az",
                             "allocated_storage", "storage_type"}
    @@ "aws_docdb_cluster_instance" :> {"instance_class"}
    @@ "aws_neptune_cluster_instance" :> {"instance_class"}
    @@ "aws_msk_cluster" :> {"broker_node_group_info.instance_type",
                             "number_of_broker_nodes"}
    @@ "aws_redshift_cluster" :> {"node_type", "number_of_nodes"}
    @@ "aws_opensearch_domain" :> {"cluster_config.instance_type",
                                   "cluster_config.instance_count"}
    @@ "aws_eks_cluster" :> {"version", "upgrade_policy.support_type"}
    @@ "aws_elasticache_replication_group" :> {"node_type", "engine", "num_node_groups",
                                    "replicas_per_node_group", "num_cache_clusters"}
    @@ "aws_elasticache_cluster" :> {"node_type", "number_of_node_groups",
                                     "num_cache_nodes", "number_of_cache_clusters"}
    @@ "aws_ebs_volume" :> {"size", "type"}
    @@ "aws_lb" :> {"load_balancer_type"}
    @@ "aws_fsx_lustre_filesystem" :> {"storage_capacity"}
    @@ "aws_wafv2_web_acl" :> {"rules"}
    @@ "aws_eks_node_group" :> {"disk_size", "instance_types",
                                "scaling_config.desired_size", "launch_template.id",
                                "launch_template.name"}
    @@ [t \in {"aws_s3_bucket", "aws_vpn_connection", "aws_vpn_gateway",
               "aws_ec2_transit_gateway_vpc_attachment", "aws_nat_gateway",
               "aws_secretsmanager_secret", "aws_kms_key", "aws_route53_zone",
               "aws_appsync_api"} |-> {}]

-----------------------------------------------------------------------------
(* Building projects.                                                      *)

Attr(v)     == [val |-> v, bare |-> FALSE, vars |-> <<>>, indexed |-> FALSE]
Ref(a)      == [val |-> Unknown, bare |-> TRUE, vars |-> <<a>>, indexed |-> FALSE]
Mentions(s) == [val |-> Unknown, bare |-> FALSE, vars |-> s, indexed |-> FALSE]

\* Every way to give some of the keys.
AllAttrs(keys) ==
    UNION {{[k \in K |-> Attr(IF g[k] = 0 THEN Unknown ELSE Candidates[k][g[k]])] :
               g \in {f \in [K -> 0..2] : \A k \in K : f[k] <= Len(Candidates[k])}} :
             K \in SUBSET keys}

Meta(kind, n, pairs) == [kind |-> kind, n |-> n, items |-> pairs]
Single  == Meta("none", 1, Unknown)
Count(n) == Meta("count", n, Unknown)
Pairs   == <<<<"a", "t3.micro">>, <<"b", "m5.large">>>>
Each2   == Meta("for_each", 2, Pairs)
Metas   == {Single, Count(0), Count(-1), Count(2), Count(Unknown), Each2,
            Meta("for_each", 0, <<>>), Meta("for_each", 2, Unknown),
            Meta("for_each", Unknown, Unknown)}

Res(type, name, attrs) == [type |-> type, name |-> name, attrs |-> attrs, rules |-> 0,
                           alias |-> None, meta |-> Single]
With(r, meta) == [r EXCEPT !.meta = meta]

Dir(s)     == [resources |-> s, locals |-> <<>>, regions |-> <<>>, modules |-> <<>>]
Project(d) == [dir |-> d, region |-> "us-east-1", faults |-> FALSE, abbreviates |-> TRUE]

Call(meta, body) == [type |-> "module", name |-> "m", meta |-> meta, body |-> body]

-----------------------------------------------------------------------------
(* The families, each a set of projects.                                   *)

\* One resource, all of its attributes.
Alone ==
    {{Project(Dir(<<[Res(t, "x", a) EXCEPT !.meta = m, !.rules = n]>>)) :
           a \in AllAttrs(KeysOf[t]), m \in {Single, Count(2)},
           n \in IF t = "aws_wafv2_web_acl" THEN {0, 3} ELSE {0}} :
         t \in DOMAIN KeysOf}

\* An Aurora instance and its cluster.
Aurora ==
    {Project(Dir(<<Res("aws_rds_cluster", "c", a),
                   Res("aws_rds_cluster_instance", "i",
                       b @@ ("cluster_identifier" :> Ref(<<"aws_rds_cluster", "c">>)))>>)) :
        a \in AllAttrs({"engine", "storage_type"}),
        b \in AllAttrs({"instance_class", "engine", "allocated_storage", "storage_type",
                        "multi_az"})}

lt(name, a) == Res("aws_launch_template", name, a)

\* A group and its launch template.
Groups ==
    LET of == "launch_template.id" :> Ref(<<"aws_launch_template", "t">>)
    IN  {{Project(Dir(<<lt("t", a),
                        With(Res("aws_autoscaling_group", "g", b @@ of), m)>>)) :
             a \in AllAttrs({"instance_type", "placement_tenancy", "placement.tenancy"}),
             b \in AllAttrs({"desired_capacity", "min_size"}), m \in {Single, Count(2)}},
         {Project(Dir(<<lt("t", a),
                        With(Res("aws_eks_node_group", "g", b @@ of), m)>>)) :
             a \in AllAttrs({"instance_type"}),
             b \in AllAttrs({"disk_size", "instance_types", "scaling_config.desired_size"}),
             m \in {Single, Count(2)}}}

\* A group whose template is behind locals, which may lead nowhere or in circles.
Behind ==
    LET Refs == {<<"local", "l">>, <<"local", "k">>,
                 <<"aws_launch_template", "t">>, <<"aws_launch_template", "u">>}
        Lists(n, m) == UNION {[1..i -> Refs] : i \in n..m}
    IN  {[Project(Dir(<<lt("t", "instance_type" :> Attr("t3.micro")),
                        lt("u", "instance_type" :> Attr("m5.large")),
                        Res("aws_autoscaling_group", "g",
                            "desired_capacity" :> Attr(2)
                            @@ "launch_template.id" :> Mentions(v))>>))
             EXCEPT !.dir.locals = ls] :
            v \in Lists(1, 2),
            ls \in UNION {[L -> Lists(0, 2)] : L \in SUBSET {"l", "k"}}}

\* Proxies, their targets, and what these lead to.
Proxies ==
    LET target(name, key, a) ==
            Res("aws_db_proxy_target", name,
                "db_proxy_name" :> Ref(<<"aws_db_proxy", "p">>) @@ key :> Ref(a))
        class(v) == "instance_class" :> Attr(v)
        member(name, v) ==
            Res("aws_rds_cluster_instance", name,
                class(v) @@ "cluster_identifier" :> Ref(<<"aws_rds_cluster", "c">>))
        C == {Unknown, r5, t2}
    IN  {Project(Dir(<<With(Res("aws_db_proxy", "p", <<>>), m), Res("aws_db_proxy", "q", <<>>),
                       Res("aws_db_instance", "d", class(x)),
                       Res("aws_rds_cluster", "c", <<>>), member("i", y), member("j", z)>>
                     \o ts)) :
            m \in {Single, Count(2)}, x \in C, y \in C, z \in C,
            ts \in {<<>>,
                    <<target("s", "db_instance_identifier", <<"aws_db_instance", "d">>)>>,
                    <<target("s", "db_instance_identifier", <<"aws_db_instance", "d">>),
                      target("t", "db_cluster_identifier", <<"aws_rds_cluster", "c">>)>>,
                    <<target("t", "db_cluster_identifier", <<"aws_rds_cluster", "gone">>)>>}}

\* Attributes that depend on each.value, and an indexed reference.
Eachwise ==
    LET each == "instance_type" :> Attr(Each)
        db(m) == With(Res("aws_db_instance", "d",
                     "instance_class" :> Attr(t2) @@ "allocated_storage" :> Attr(10)
                     @@ "engine" :> [Ref(<<"aws_rds_cluster", "c">>) EXCEPT
                                        !.val = "postgres", !.indexed = TRUE]), m)
        body  == Dir(<<Res("aws_rds_cluster", "c", "engine" :> Attr("postgres")), db(Single)>>)
    IN  {Project(Dir(<<With(Res("aws_instance", "x", each), m), With(lt("t", each), m),
                       With(Res("aws_autoscaling_group", "g",
                           "desired_capacity" :> Attr(2)
                           @@ "launch_template.id" :> Ref(<<"aws_launch_template", "t">>)), n),
                       Res("aws_rds_cluster", "c", "engine" :> Attr("postgres")), db(m)>>)) :
            m \in Metas, n \in Metas}
        \cup {[Project(Dir(<<>>)) EXCEPT !.dir.modules = <<Call(m, body)>>] : m \in Metas}

\* Directories below directories, in two regions and one that is not known.
Trees ==
    LET ec2 == Res("aws_instance", "x", "instance_type" :> Attr("t3.micro")
                                        @@ "root_block_device.size" :> Attr(20))
        doc == Res("aws_docdb_cluster_instance", "x", "instance_class" :> Attr(r5))
        Ts  == {ec2, doc, Res("aws_kms_key", "x", <<>>), Res("aws_route53_zone", "x", <<>>),
                Res("aws_nat_gateway", "x", <<>>)}
        dir(s, mods) == [Dir(s) EXCEPT !.regions = "west" :> "us-west-2", !.modules = mods]
        west(r) == [r EXCEPT !.name = "y", !.alias = "west"]
        leaf(r) == dir(<<r, west(r)>>, <<>>)
        Below(r) == {None, leaf(r), dir(<<>>, <<Call(Each2, leaf(r))>>),
                      dir(<<r>>, <<Call(Count(2), None),
                                   [Call(Count(0), leaf(r)) EXCEPT !.name = "n"]>>)}
        run(d, S) == {[dir |-> d, region |-> g, faults |-> f, abbreviates |-> b] :
                        g \in S, f \in BOOLEAN, b \in BOOLEAN}
        All == Regions \cup {"mars-north-1"}
    IN  {run(dir(<<With(r, m), [west(r) EXCEPT !.alias = al]>>, <<>>), All) :
            r \in Ts, m \in Metas, al \in {"west", "gone"}}
        \cup UNION {{run(dir(<<r>>, <<Call(m, b)>>), {"us-west-2"}) :
                        m \in Metas, b \in Below(r)} : r \in {ec2, doc}}

Small == Alone \cup Groups \cup Trees \cup {Aurora, Behind, Proxies, Eachwise}

\* The directories that are opened by calls, and by calls of theirs.
BodiesOf(S)  == {m.body : m \in UNION {ToSet(d.modules) : d \in S}} \ {None}
SmallBodies ==
    LET B == UNION {BodiesOf({p.dir : p \in F}) : F \in Trees \cup {Eachwise}}
    IN  B \cup BodiesOf(B)
=============================================================================
