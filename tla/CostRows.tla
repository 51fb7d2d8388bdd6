------------------------------ MODULE CostRows ------------------------------
(***************************************************************************)
(* priceDir (cmd/terraform-price/analyze.go) and the two reports           *)
(* (internal/output): a directory's resources and module calls become cost *)
(* items, one price lookup at a time, through the query composer and one   *)
(* cache; the items become a Markdown and a compact report.                *)
(*                                                                         *)
(* A price is the query it is the answer to.  A directory is [resources,   *)
(* locals, regions, modules]: regions maps the provider aliases that       *)
(* resolve to their regions.  A resource is one of Mapper with [alias,     *)
(* meta] besides: the alias of its provider or None, and its meta-argument *)
(* [kind, n, items]: n the value of count or the length of for_each, items *)
(* the <<key, value>> pairs of a for_each, Unknown if they do not resolve  *)
(* (the length may).  A module call is [type, name, meta, body], its body  *)
(* the directory it opens or None.                                         *)
(*                                                                         *)
(* The address of a row is [prefix, r, key]: the calls that lead to its    *)
(* directory, each <<name>> or <<name, key>>; the address of its resource, *)
(* or <<>> if the row stands for a module; and <<key>> or <<>>.  A row has *)
(* an item per lookup, nth counts them.                                    *)
(***************************************************************************)
EXTENDS Mapper

CONSTANTS
    Families, \* sets of [dir, region, faults, abbreviates]: what a behaviour is about
    Bodies,   \* the directories that their module calls open
    None

VARIABLES
    sc,     \* the project (never changes)
    todo,   \* the work that is left, in order
    held,   \* the prices the cache holds, by cacheKey
    spent,  \* <<prefix, resource>>: its indexed reference has been resolved
    items,  \* the cost items
    opened, \* history: the directories that were opened, and where
    report  \* the reports, or None

vars == <<sc, todo, held, spent, items, opened, report>>

-----------------------------------------------------------------------------
(* The projects that are looked at: what Terraform itself demands of names *)
(* and keys, and indexed references where the model follows them.          *)

IsSeq(s) == s \in Seq(Range(s))
IsRefs(s) == IsSeq(s) /\ \A a \in Range(s) : a = <<a[1], a[2]>>
Distinct(s, Of(_)) == \A i, j \in DOMAIN s : Of(s[i]) = Of(s[j]) => i = j

IsMeta(meta) ==
    /\ meta.kind \in {"none", "count", "for_each"} /\ meta.n \in Int \cup {Unknown}
    /\ (meta.kind = "for_each" /\ meta.items # Unknown) =>
          /\ IsSeq(meta.items) /\ meta.n = Len(meta.items)
          /\ Distinct(meta.items, LAMBDA x : x[1])

IsResource(r) ==
    /\ DOMAIN r = {"type", "name", "attrs", "rules", "alias", "meta"}
    /\ r.type # "local" /\ r.rules \in Nat /\ IsMeta(r.meta)
    /\ \A key \in DOMAIN r.attrs :
          LET a == r.attrs[key]
          IN  /\ DOMAIN a = {"val", "bare", "vars", "indexed"}
              /\ key \in DOMAIN Values /\ a.val \in Values[key] \cup {Unknown, Each}
              /\ IsRefs(a.vars) /\ (a.bare => a.vars # <<>>)
              /\ a.indexed => /\ r.type = "aws_db_instance" /\ key = "engine"
                              /\ a.val # Each

IsDir(d) ==
    /\ DOMAIN d = {"resources", "locals", "regions", "modules"}
    /\ IsSeq(d.resources) /\ Distinct(d.resources, Addr)
    /\ \A r \in Range(d.resources) : IsResource(r)
    /\ IsFiniteSet(DOMAIN d.locals) /\ \A l \in DOMAIN d.locals : IsRefs(d.locals[l])
    /\ IsSeq(d.modules) /\ Distinct(d.modules, LAMBDA m : m.name)
    /\ \A m \in Range(d.modules) :
          m.type = "module" /\ IsMeta(m.meta) /\ m.body \in Bodies \cup {None}

ASSUME CostAssumption ==
    /\ \A F \in Families : \A p \in F : IsDir(p.dir)
    /\ \A d \in Bodies : IsDir(d)

-----------------------------------------------------------------------------
(* The work that is left: jobs.                                            *)

\* resourceRegion: the region of an aliased provider, if it resolves.
resourceRegion(dir, r, base) ==
    IF r.alias \in DOMAIN dir.regions THEN dir.regions[r.alias] ELSE base

\* forEachItems: known only if the keys are.
Expands(m) == m.meta.kind = "for_each" /\ m.meta.items # Unknown
Keyed(m)   == Expands(m) /\ m.meta.items # <<>>

\* metaCount; 1 if it does not resolve.
metaCount(m) ==
    CASE m.meta.kind = "none" -> 1
      [] m.meta.n = Unknown   -> 1
      [] OTHER                -> IF m.meta.n < 1 THEN 0 ELSE m.meta.n

\* The work on a directory: its resources, and then its module calls.
priceDir(dir, prefix) ==
    [i \in DOMAIN dir.resources |->
        [do |-> "resource", r |-> dir.resources[i], dir |-> dir, prefix |-> prefix]]
    \o [i \in DOMAIN dir.modules |->
        [do |-> "call", m |-> dir.modules[i], prefix |-> prefix]]

Init ==
    /\ \E F \in Families : sc \in F
    /\ todo = priceDir(sc.dir, <<>>)
    /\ opened = {[dir |-> sc.dir, prefix |-> <<>>]}
    /\ held = {} /\ spent = {} /\ items = <<>> /\ report = None

Job == Head(todo)
Doing(what) == todo # <<>> /\ Job.do = what

-----------------------------------------------------------------------------
(* Cost items.                                                             *)

At(prefix, r, key) == [prefix |-> prefix, r |-> r, key |-> key]

Item(addr, nth, kind, priced, price, asked, times) ==
    [addr |-> addr, nth |-> nth, kind |-> kind, priced |-> priced, price |-> price,
     asked |-> asked, times |-> times]

\* A row without a price: "Fixed" and unresolved, or another kind.
Unpriced(addr, nth, kind) == Item(addr, nth, kind, FALSE, None, None, 0)

\* count = 0, or an empty for_each.
Gate ==
    /\ Doing("resource") /\ metaCount(Job.r) = 0
    /\ items' = Append(items, Unpriced(At(Job.prefix, Addr(Job.r), <<>>), 1, "Fixed"))
    /\ todo' = Tail(todo)
    /\ UNCHANGED <<sc, held, spent, opened, report>>

RowOf(job, key, each, n) ==
    [do |-> "row", r |-> job.r, dir |-> job.dir, prefix |-> job.prefix,
     key |-> key, each |-> each, n |-> n]

\* A row per item of a for_each, with `each` bound to it.
Expand ==
    /\ Doing("resource") /\ Keyed(Job.r)
    /\ todo' = [i \in DOMAIN Job.r.meta.items |->
                   RowOf(Job, <<Job.r.meta.items[i][1]>>, Job.r.meta.items[i][2], 1)]
               \o Tail(todo)
    /\ UNCHANGED <<sc, held, spent, items, opened, report>>

\* One row for all instances otherwise.
Multiply ==
    /\ Doing("resource") /\ ~Expands(Job.r) /\ metaCount(Job.r) > 0
    /\ todo' = <<RowOf(Job, <<>>, Unknown, metaCount(Job.r))>> \o Tail(todo)
    /\ UNCHANGED <<sc, held, spent, items, opened, report>>

\* Every instance of a module parses its files anew.
Before(prefix, S) == {x[2] : x \in {y \in S : y[1] = prefix}}
Mine(job, S)      == Bind(job.r, job.each, Before(job.prefix, S))

Bound(dir, each, S) ==
    [idx |-> {Bind(dir.resources[i], each, S) : i \in DOMAIN dir.resources},
     locals |-> dir.locals]

\* The indexed reference of r is followed when mapRDS comes to it.
Follows(r) == /\ r.type = "aws_db_instance" /\ Ok(r, "instance_class")
              /\ Given(r, "engine") /\ r.attrs["engine"].indexed

Reads(job) == IF Follows(Mine(job, spent)) THEN spent \cup {<<job.prefix, Addr(job.r)>>}
              ELSE spent

\* MUTANT of Times: what comes with a resource is multiplied by count alone.
TimesCountOnly(spec, extra, n) == [extra EXCEPT !.count = @ * n]

Times(spec, extra, n) == [extra EXCEPT !.count = @ * spec.count * n]

RegionOf(job) == resourceRegion(job.dir, job.r, sc.region)

Mapped(job) == MapResource(Mine(job, spent),
                           Bound(job.dir, job.each, Before(job.prefix, spent)),
                           RegionOf(job))

\* priceOneResource: the lookups of a row; those of the extras come after the
\* one of the resource, whatever becomes of it.
Lookups(job) ==
    LET spec   == Head(Mapped(job).specs)
        extras == ExtraSpecs(Mine(job, Reads(job)))
        lines  == <<[spec EXCEPT !.count = @ * job.n]>>
                  \o [i \in DOMAIN extras |-> Times(spec, extras[i], job.n)]
    IN  [i \in DOMAIN lines |->
            [do |-> "lookup", addr |-> At(job.prefix, Addr(job.r), job.key), nth |-> i,
             spec |-> lines[i],
             region |-> IF lines[i].global THEN Global ELSE RegionOf(job)]]

PriceOne ==
    /\ Doing("row")
    /\ spent' = Reads(Job)
    /\ IF Mapped(Job).specs = <<>>
       THEN /\ items' = Append(items, Unpriced(At(Job.prefix, Addr(Job.r), Job.key), 1,
                                               Mapped(Job).kind))
            /\ todo' = Tail(todo)
       ELSE /\ todo' = Lookups(Job) \o Tail(todo)
            /\ UNCHANGED items
    /\ UNCHANGED <<sc, held, opened, report>>

-----------------------------------------------------------------------------
(* pricedItem, the composer, the cache and the client behind it.           *)

QueryOf(job) == [service |-> job.spec.service, region |-> job.region,
                 filters |-> job.spec.filters, unit |-> job.spec.unit]
Query == QueryOf(Job)

Known == Job.region \in Region \cup {Global}

Priced(price) ==
    /\ items' = Append(items, Item(Job.addr, Job.nth, "Fixed", TRUE, price, Query,
                                   Job.spec.qty * Job.spec.count))
    /\ todo' = Tail(todo)

\* A published flat fee is not looked up.
FlatFee ==
    /\ Doing("lookup") /\ Job.spec.flat
    /\ Priced(None)
    /\ UNCHANGED <<sc, held, spent, opened, report>>

Holds(q) == \E h \in held : h.key = cacheKey(q)

FromCache ==
    /\ Doing("lookup") /\ ~Job.spec.flat /\ Known
    /\ LET q == compose(Query)
       IN  /\ Holds(q)
           /\ Priced((CHOOSE h \in held : h.key = cacheKey(q)).price)
    /\ UNCHANGED <<sc, held, spent, opened, report>>

\* The price list has the product under one of its two spellings; UnitPrice
\* asks for the second when there is no such row.
Answer(q) == IF HasAbbreviation(q) /\ sc.abbreviates THEN abbrevUsagetype(q) ELSE q

FromClient ==
    /\ Doing("lookup") /\ ~Job.spec.flat /\ Known
    /\ LET q == compose(Query)
       IN  /\ ~Holds(q)
           /\ held' = held \cup {[key |-> cacheKey(q), price |-> Answer(q)]}
           /\ Priced(Answer(q))
    /\ UNCHANGED <<sc, spent, opened, report>>

\* An unknown region, no such product, or no answer.
LookupFails ==
    /\ Doing("lookup") /\ ~Job.spec.flat
    /\ ~Known \/ (sc.faults /\ ~Holds(compose(Query)))
    /\ items' = Append(items, Unpriced(Job.addr, Job.nth, "Fixed"))
    /\ todo' = Tail(todo)
    /\ UNCHANGED <<sc, held, spent, opened, report>>

-----------------------------------------------------------------------------
(* priceModule.                                                            *)

\* moduleInstances: one per key of a for_each, or one for all.
Instances(m, prefix) ==
    IF Keyed(m) THEN [i \in DOMAIN m.meta.items |->
                         Append(prefix, <<m.name, m.meta.items[i][1]>>)]
    ELSE <<Append(prefix, <<m.name>>)>>

Instantiate ==
    /\ Doing("call")
    /\ LET at == Instances(Job.m, Job.prefix)
       IN  todo' = [i \in DOMAIN at |-> [do |-> "module", m |-> Job.m, prefix |-> at[i]]]
                   \o Tail(todo)
    /\ UNCHANGED <<sc, held, spent, items, opened, report>>

GateModule ==
    /\ Doing("module") /\ metaCount(Job.m) = 0
    /\ items' = Append(items, Unpriced(At(Job.prefix, <<>>, <<>>), 1, "Fixed"))
    /\ todo' = Tail(todo)
    /\ UNCHANGED <<sc, held, spent, opened, report>>

\* MUTANT of OpenModule: the prefix of the calling directory is kept.
OpenModuleFlat ==
    /\ Doing("module") /\ metaCount(Job.m) > 0 /\ Job.m.body # None
    /\ todo' = priceDir(Job.m.body, <<>>) \o Tail(todo)
    /\ opened' = opened \cup {[dir |-> Job.m.body, prefix |-> <<>>]}
    /\ UNCHANGED <<sc, held, spent, items, report>>

OpenModule ==
    /\ Doing("module") /\ metaCount(Job.m) > 0 /\ Job.m.body # None
    /\ todo' = priceDir(Job.m.body, Job.prefix) \o Tail(todo)
    /\ opened' = opened \cup {[dir |-> Job.m.body, prefix |-> Job.prefix]}
    /\ UNCHANGED <<sc, held, spent, items, report>>

\* A source that cannot be opened: one row stands for the module.
ClosedModule ==
    /\ Doing("module") /\ metaCount(Job.m) > 0 /\ Job.m.body = None
    /\ items' = Append(items, Unpriced(At(Job.prefix, <<>>, <<>>), 1,
                                       MapResource(Job.m, None, sc.region).kind))
    /\ todo' = Tail(todo)
    /\ UNCHANGED <<sc, held, spent, opened, report>>

-----------------------------------------------------------------------------
(* The reports: sections are sets of positions in items, a total the       *)
(* positions that were added up.                                           *)

OfKind(kind) == {i \in DOMAIN items : items[i].kind = kind}

WriteMarkdown ==
    [fixed |-> OfKind("Fixed"), variable |-> OfKind("Variable"), free |-> OfKind("Free"),
     unsupported |-> OfKind("Unsupported"),
     total |-> {i \in OfKind("Fixed") : items[i].priced}]

WriteCompact ==
    LET table == {i \in OfKind("Fixed") : items[i].priced}
    IN  [table |-> table, others |-> DOMAIN items \ table, total |-> table]

Write ==
    /\ todo = <<>> /\ report = None
    /\ report' = [md |-> WriteMarkdown, compact |-> WriteCompact]
    /\ UNCHANGED <<sc, todo, held, spent, items, opened>>

Next == \/ Gate \/ Expand \/ Multiply \/ PriceOne
        \/ FlatFee \/ FromCache \/ FromClient \/ LookupFails
        \/ Instantiate \/ GateModule \/ OpenModule \/ ClosedModule \/ Write

Spec == Init /\ [][Next]_vars

-----------------------------------------------------------------------------
(* Properties.                                                             *)

Done == report # None

TypeOK ==
    /\ \A i \in DOMAIN todo : todo[i].do \in {"resource", "row", "lookup", "call", "module"}
    /\ \A h, k \in held : h.key = k.key => h = k
    /\ \A i \in DOMAIN items :
          /\ items[i].kind \in {"Fixed", "Variable", "Free", "Unsupported"}
          /\ items[i].priced => items[i].kind = "Fixed" /\ items[i].times \in Nat
    /\ Done => todo = <<>>

\* The rows that a resource is to have, and how many instances each is for.
Created(m) == IF m.meta.kind = "none" \/ m.meta.n = Unknown THEN 1
              ELSE IF m.meta.n < 0 THEN 0 ELSE m.meta.n

Rows(r) ==
    IF Keyed(r) THEN {[key |-> <<x[1]>>, each |-> x[2], n |-> 1] : x \in Range(r.meta.items)}
    ELSE {[key |-> <<>>, each |-> Unknown, n |-> Created(r)]}

Here(o, r, row) == At(o.prefix, Addr(r), row.key)

\* What a list of references leads to by way of the locals it mentions.
Reach(refs, locals) ==
    LET All    == refs \cup UNION {Range(locals[l]) : l \in DOMAIN locals}
        Closed(T) == \A l \in DOMAIN locals : <<"local", l>> \in T => Range(locals[l]) \subseteq T
    IN  {a \in All : \A T \in SUBSET All : refs \subseteq T /\ Closed(T) => a \in T}

\* The instance types of the templates an auto scaling group may be about.
TemplateTypes(o, r, row) ==
    LET refs == Range(r.attrs[FirstGiven(r, ASGKeys)].vars)
    IN  {Val(Bind(x, row.each, {}), "instance_type") :
            x \in {y \in Range(o.dir.resources) : Addr(y) \in Reach(refs, o.dir.locals)}}

\* The price is the answer to what was asked for, in that region.
Answers(item) ==
    LET other == DOMAIN item.asked.filters \ {"usagetype"}
        price == item.price
    IN  /\ price.service = item.asked.service /\ price.unit = item.asked.unit
        /\ \A f \in other : price.filters[f] = item.asked.filters[f]
        /\ "usagetype" \in DOMAIN item.asked.filters =>
              LET u == price.filters["usagetype"]
                  w == item.asked.filters["usagetype"]
              IN  u.base = w.base /\ u.cls.fam = w.cls.fam /\ u.cls.n = w.cls.n
        /\ IF item.asked.region = Global THEN "location" \notin DOMAIN price.filters
           ELSE /\ "location" \in DOMAIN price.filters
                /\ price.filters["location"] = Location[item.asked.region]

\* Every price is the one of the resource's own product in its own region,
\* whatever else was looked up before: the cache key has no region in it, and
\* regions.go:133-134 relies on the composer for that.  An auto scaling group
\* is priced if its reference leads to a template, however many locals there
\* are on the way, and then on a template it leads to (mapper.go:1035).
OwnPrice ==
    /\ \A i \in DOMAIN items : items[i].priced =>
          \E o \in opened : \E r \in Range(o.dir.resources) : \E row \in Rows(r) :
              /\ items[i].addr = Here(o, r, row)
              /\ items[i].asked.region \in {Global, resourceRegion(o.dir, r, sc.region)}
              /\ items[i].price # None => Answers(items[i])
              /\ r.type = "aws_autoscaling_group" =>
                    items[i].asked.filters["instanceType"] \in TemplateTypes(o, r, row)
    /\ (Done /\ ~sc.faults) =>
          \A o \in opened : \A r \in Range(o.dir.resources) : \A row \in Rows(r) :
              (/\ r.type = "aws_autoscaling_group" /\ row.n > 0
               /\ resourceRegion(o.dir, r, sc.region) \in Region
               /\ \E i \in DOMAIN ASGKeys : Given(r, ASGKeys[i])
               /\ Positive(Bind(r, row.each, {}), "desired_capacity")
               /\ TemplateTypes(o, r, row) # {} /\ Unknown \notin TemplateTypes(o, r, row))
              => \E i \in DOMAIN items : items[i].priced /\ items[i].addr = Here(o, r, row)

\* A call on the way to a directory stands for several instances, but the
\* directory is opened once: priceModule asks metaCount only for a 0 (analyze.go:340).
Counted(o) == \E p \in opened : \E m \in Range(p.dir.modules) :
    /\ Created(m) > 1 /\ ~Keyed(m)
    /\ \E q \in Range(Instances(m, p.prefix)) :
          Len(q) <= Len(o.prefix) /\ q = SubSeq(o.prefix, 1, Len(q))

\* count = n of a resource is billed as n times one instance and for_each as
\* one per key, what comes with a resource included, and once: the disks of a
\* node group as often as it has nodes.  The count of a module is left out:
\* README.md:83 says that a resolvable count multiplies, and what a counted
\* module declares is billed once.  So are attributes that depend on the key,
\* and references through an index, which only resolve once (resolver.go:407).
DependsOn(dir) == \E r \in Range(dir.resources) : \E key \in DOMAIN r.attrs :
                      r.attrs[key].indexed \/ r.attrs[key].val = Each

Once(dir, r) ==
    LET m      == MapResource(Bind(r, Unknown, {}), Bound(dir, Unknown, {}),
                              resourceRegion(dir, r, sc.region))
        extras == ExtraSpecs(Bind(r, Unknown, {}))
    IN  IF m.specs = <<>> THEN <<>>
        ELSE m.specs \o [i \in DOMAIN extras |-> [extras[i] EXCEPT !.count = m.specs[1].count]]

CountsMultiply ==
    (Done /\ ~sc.faults) =>
        \A o \in {x \in opened : ~DependsOn(x.dir) /\ ~Counted(x)} :
        \A r \in {x \in Range(o.dir.resources) :
                     resourceRegion(o.dir, x, sc.region) \in Region} :
        \A row \in Rows(r) :
            LET one  == Once(o.dir, r)
                mine == {i \in DOMAIN items : items[i].priced /\ items[i].addr = Here(o, r, row)}
                is(item, spec) == /\ item.asked.filters = spec.filters
                                  /\ item.asked.service = spec.service
                                  /\ item.times = row.n * (spec.qty * spec.count)
            IN  /\ row.n = 0 => mine = {}
                /\ \A i \in mine : items[i].nth \in DOMAIN one
                /\ row.n > 0 => \A k \in DOMAIN one : \E i \in mine :
                                   /\ items[i].nth = k /\ is(items[i], one[k])
                                   /\ \A j \in mine : items[j].nth = k => j = i

\* "affected resources print as unresolved" (README.md:82) holds but for these
\* attributes, which the code replaces by a default without a word when they
\* are given and do not resolve: of a resource of some type, and of the
\* cluster, the targets or the template that its references lead to.
SilentOwn(type) ==
    CASE type = "aws_instance" -> {"tenancy", "root_block_device.size", "root_block_device.type",
                                   "ebs_block_device.size", "ebs_block_device.type"}
      [] type \in {"aws_db_instance", "aws_rds_cluster_instance"} ->
            {"multi_az", "allocated_storage", "storage_type"}
      [] type = "aws_db_proxy"          -> {"instance_class"}
      [] type = "aws_msk_cluster"       -> {"number_of_broker_nodes"}
      [] type = "aws_redshift_cluster"  -> {"number_of_nodes"}
      [] type = "aws_opensearch_domain" -> {"cluster_config.instance_count"}
      [] type = "aws_eks_cluster"       -> {"version", "upgrade_policy.support_type"}
      [] type \in {"aws_elasticache_replication_group", "aws_elasticache_cluster"} ->
            {"engine", "num_node_groups", "number_of_node_groups", "replicas_per_node_group",
             "num_cache_nodes", "num_cache_clusters", "number_of_cache_clusters"}
      [] type = "aws_ebs_volume"        -> {"type"}
      [] type = "aws_autoscaling_group" -> {"desired_capacity", "placement_tenancy",
                                            "placement.tenancy"}
      [] type = "aws_eks_node_group"    -> {"disk_size", "instance_type"} \cup Range(GroupKeys)
      [] type = "aws_wafv2_web_acl"     -> {"rules"}
      [] OTHER                          -> {}

SilentOther(type) ==
    CASE type = "aws_rds_cluster_instance" -> {"engine"}
      [] type = "aws_db_proxy"             -> {"instance_class"}
      [] type = "aws_autoscaling_group"    -> {"placement_tenancy", "placement.tenancy"}
      [] type = "aws_eks_node_group"       -> {"instance_type"}
      [] OTHER                             -> {}

\* x and its directory if the attribute did resolve, to v.
Supplied(x, key, v) == [x EXCEPT !.attrs[key].val = v]

Resolving(dir, x, key, v) ==
    [dir EXCEPT !.resources = [i \in DOMAIN dir.resources |->
        IF dir.resources[i] = x THEN Supplied(x, key, v) ELSE dir.resources[i]]]

\* A row is not priced on an attribute that is given and does not resolve,
\* be it of the resource or of one it refers to, except for those.
SilentDefaults ==
    Done => \A o \in opened : \A r \in Range(o.dir.resources) :
        Once(o.dir, r) # <<>> =>
            \A x \in Range(o.dir.resources) : \A key \in DOMAIN x.attrs :
                (/\ x.attrs[key].val = Unknown
                 /\ key \notin (IF x = r THEN SilentOwn(r.type) ELSE SilentOther(r.type))) =>
                    \A v \in Values[key] :
                        Once(Resolving(o.dir, x, key, v), IF x = r THEN Supplied(x, key, v) ELSE r)
                        = Once(o.dir, r)

\* Nothing is dropped (delta.go:5) and nothing is counted twice: the project's
\* directory and the body of every module instance that can be opened are
\* opened, each at a prefix of its own; every row of every resource of theirs
\* and every module instance that is not opened has its items, each of them
\* once and nothing else has; each item is in one section of either report, and
\* both totals add up the same items.
Reported ==
    Done =>
        LET opens(m)  == metaCount(m) > 0 /\ m.body # None
            sections  == <<report.md.fixed, report.md.variable, report.md.free,
                           report.md.unsupported>>
            priced    == {i \in DOMAIN items : items[i].priced}
        IN  /\ [dir |-> sc.dir, prefix |-> <<>>] \in opened
            /\ \A o, p \in opened : o.prefix = p.prefix => o = p
            /\ \A o \in opened :
                  \/ o = [dir |-> sc.dir, prefix |-> <<>>]
                  \/ \E p \in opened : \E m \in Range(p.dir.modules) :
                        opens(m) /\ o.dir = m.body /\ o.prefix \in Range(Instances(m, p.prefix))
            /\ \A o \in opened : \A m \in Range(o.dir.modules) :
                  \A q \in Range(Instances(m, o.prefix)) :
                      IF opens(m) THEN [dir |-> m.body, prefix |-> q] \in opened
                      ELSE \E i \in DOMAIN items : items[i].addr = At(q, <<>>, <<>>)
            /\ \A o \in opened : \A r \in Range(o.dir.resources) : \A row \in Rows(r) :
                  \E i \in DOMAIN items : items[i].addr = Here(o, r, row)
            /\ \A i \in DOMAIN items :
                  \/ \E o \in opened : \E r \in Range(o.dir.resources) : \E row \in Rows(r) :
                        items[i].addr = Here(o, r, row)
                  \/ \E o \in opened : \E m \in Range(o.dir.modules) :
                        \E q \in Range(Instances(m, o.prefix)) :
                            ~opens(m) /\ items[i].addr = At(q, <<>>, <<>>)
            /\ \A i, j \in DOMAIN items :
                  items[i].addr = items[j].addr /\ items[i].nth = items[j].nth => i = j
            /\ \A i \in DOMAIN items : \E k \in DOMAIN sections :
                  i \in sections[k] /\ \A l \in DOMAIN sections \ {k} : i \notin sections[l]
            /\ report.compact.table \cap report.compact.others = {}
            /\ report.compact.table \cup report.compact.others = DOMAIN items
            /\ report.md.total = priced /\ report.compact.total = priced
=============================================================================
