# terraform-price: TLA+ models

terraform-price reads a Terraform directory, resolves variables, locals,
references and modules without running Terraform, maps each resource to AWS
price queries, answers them through a chain of price sources, and prints a
monthly cost report or the difference to a baseline directory. This directory
holds the TLA+ models of its core logic, the TLC configurations that check
them on small instances, and TLAPS proofs.

Contents: [inventory](#inventory-of-the-system), [how the models are
built](#how-the-models-are-built), [modules](#modules),
[runs](#runs), [proofs](#proofs), [divergences](#divergences-found),
[other observations](#other-observations), [not modelled](#not-modelled),
[roadmap](#roadmap).

## Inventory of the system

| Part | Code | State | Operations | Correct when | Model |
| --- | --- | --- | --- | --- | --- |
| price chain | `cmd/terraform-price/main.go`, `internal/provider` | two cache maps and their files, dirty flags, catalog hit counter | start, lookup, report, save | cached prices have the provenance and age the layers promise; a run prices a key once | `PriceChain` |
| bulk price list | `awsprice/bulk.go` | one gzip file per service and region, its `.tmp`, an index in memory | load, download, parse, select | the cached file is whole, an old one still answers, the answer is one the API could give | `BulkPrice`, `BulkLoads`, one step of `PriceChain` |
| live client | `awsprice/price.go` | none | query, pick, retry with the abbreviated usage type | a price that fits the query | `BulkPrice!pickPrice`, one step of `PriceChain`, the retry in `CostRows` |
| composer | `awsprice/regions.go` | none | compose a query with its region | two regions never share a cache key | `PriceQuery`, at work in `CostRows` |
| reference resolver | `internal/tf/refs` | memo table, in-flight set | verify, resolve all, reset | result independent of map order; ends on cycles; `Verify` finds exactly the cycles | `RefResolve`, `RefVerify`, `RefMeaning` |
| locals and variables | `internal/tf/resolver` | vars, locals, pending locals, resource scope, module entries | retry locals, resolve expression, force module, bind `each` | fixpoint complete, nothing read early is stale (but for fallbacks) | `DirScope`; `each` and indexed references in `CostRows` |
| directory analysis | `cmd/terraform-price/analyze.go` | directory scopes, module instances (built, scope, outputs) | build, register, force, fixpoint, price | each module built once, references seen in any order; a row per instance | `DirScope`, `CostRows` |
| module fetching | `cmd/terraform-price/modfetch.go`, `analyze.go` | module cache directories with a marker file | pick versions, fetch, extract | newest version that fits; never a half-extracted module, except where two processes fetch one version at once | `ModuleFetch` |
| delta | `internal/delta` | rows and totals | compute, write | every item in one row, the headline adds up | `DeltaCompute` |
| report | `internal/output` | none | totals, classification | totals are sums of rows, each row in one section | `CostRows` |
| mapper | `internal/mapper` | none | map a resource to specs, chase references | counts of resources multiply, nothing unresolved is priced by accident | `Mapper`, at work in `CostRows` |

How they interact. `main` builds the chain of `Pricer`s and calls `analyze`
once for the proposed directory and, for a delta, once for the baseline, with
the same chain. `analyze` builds a `dirScope`: the parser's result goes to the
resolver (locals), to the reference resolver (attributes of resources) and
back, in a fixpoint; module calls are registered as callbacks which build the
`dirScope` of the called directory the first time someone refers to them, after
`registryModuleDir` has fetched it. The resources of the finished scope are
mapped to specs, composed with the region, and priced through the chain; the
rows go to the report or to `delta.Compute`. At the end `main` saves the
caches.

What is hard here. The tool is one goroutine (the mutex of `Bulk` and the
atomic counter of `Embedded` guard against callers it does not have), so there
are no data races; what makes it hard is

- state that outlives a run: `prices.json`, the price file, the bulk price
  lists and the module cache, with expiry, crashes between any two file
  operations, and several processes (CI jobs on one runner) on one
  `~/.cache/terraform-price`;
- order: Go's map iteration decides in which order resources, attributes,
  locals and module inputs are resolved, and the first reference decides when
  a module is built;
- reentrancy: the resolvers call each other through callbacks, and only the
  `resolving`, `running` and `built` flags stop cycles;
- partial failure: every request, file and candidate version may fail on its
  own and the code goes on with the next best thing.

`PROJECT.json` lists every hazard at its line with the properties that cover
it.

## How the models are built

- One module per component; its `MC` module holds the instances as
  definitions and its `.cfg` files name them. A `.cfg` gives values to
  constants and replaces no definition.
- A constant `Dirs`, `Inputs`, `Scenarios` or `Families` holds the inputs a behaviour may
  be about, and `Init` picks one. The MC module makes it a family of all small
  inputs; the proofs assume only what the named `ASSUME` says of it.
- Data are abstracted to what the properties tell apart. A price is its
  provenance (source, time it was obtained, time it was stored). A resolved
  value is the set of leaves it is built from, `{}` being "unresolved": so a
  fallback, a default or a stale value cannot be taken for the right one. A
  price list is two sections of pieces tagged with their version. In
  `CostRows` a price is the query it is the answer to, so that the price of
  another product or region cannot be taken for the right one.
- Order nondeterminism of Go maps is an existential choice per iteration.
  Recursion in the code is an explicit stack of frames, so that every
  interleaving of callbacks is a path of the graph.
- Bounds: `MaxTime` and `MaxRun` (clock), `MaxRuns` (runs of a process on one
  module cache), `MaxTries` (the 10 of `registryModuleDir`), `MaxItems`, `Ranks`
  (witnesses of acyclicity), `Nums` (items of a `for_each`) and `OverlapBound`
  (a constraint of the price chain's run) are named where they are declared.
- Operators with a comment "MUTANT of X" are not part of a specification. Each
  is X with a bug somebody could plausibly write; with it in place of X the
  property named in `PROJECT.json` fails, which is how we know that the
  property speaks about X.

## Modules

### PriceChain (`main.go`, `internal/provider`)

| Model | Code |
| --- | --- |
| `file`, `blank`, `bulk` | the JSON files of both `Cached` layers, whether they hold a byte, the mtime of the bulk file |
| `mem`, `dirty` | `Cached.data`, `Cached.dirty` |
| `idx`, `hit`, `layers`, `cred` | `Bulk.idx`, `Embedded.hits > 0`, the flags `--no-cache` and `--price-file`, the credentials |
| `Start` | the wiring of the chain and `NewCached`/`load` |
| `ServePriceFile`, `ServeDisk`, `FromBulk`, `FromCatalog`, `FromClient`, `LookupFails` | `Cached.UnitPrice` twice, `Fallback`, `Embedded`, `Client`: one action per layer that answers, storing in every layer above |
| `Loads`, `BulkErrs` | `loadIndex` as one step: what it may leave in memory and on disk |
| `Report`, `SkipSave`, `Truncate`, `Write`, `SaveFails` | the end of `main`; `os.WriteFile` is a truncation and a write |
| `Crash`, `Tick` | a kill or `os.Exit(1)`; time passing |

A key is a composed query. Which keys the catalog answers and which the bulk
index knows are constants. `started`, and `asOf` of an entry, are history.

### BulkPrice (`awsprice/bulk.go`, `price.go` for `pickPrice`)

Files are inodes with contents; `path` and `tmp` are directory entries, so a
process goes on writing to a file that was renamed or removed under it.
`Ask`, `Stat`, `Request`, `Create` (`O_TRUNC` on the file `.tmp` names, or a new
one), `Copy` (a piece at the process's own offset), `CopyFails`, `Copied`,
`Rename`, `Open`, `Parse`, `Select` are the statements of `UnitPrice`,
`loadIndex` and `download`; `End` is the end of the process in any way,
`Publish` a new version at AWS, `Expire` the TTL. `parseBulkFile` and
`selectPrice` are operators over a document; `pickPrice` is the set of prices
the live API could answer with. `shared` is history: the files that were
created while another process was downloading.

`BulkLoads` adds what `PriceChain` knows of a price list: a clock (`Tick`, between
calls), `mtime`, the time the cached file was written, and the TTL, so that `Expire`
happens when it is due. History is `pub`, when each version was published, `idx`, what
`PriceChain` has for the index of each process, and `clash`: two calls of `loadIndex`
have overlapped, after which nothing is remembered and nothing claimed.

### RefResolve (`internal/tf/refs`)

`expr` is the parsed directory, `memo` the `resolved` map, `stack` the calls of
`ResolveResource` in flight (whose addresses are `resolving`), `pass` the
resources `AllResolved` has not come to. `Visit` and `Choose` are the two map
iterations, `Descend` a call made by `resolveExpr`, `Assign` its result,
`Return` the memoisation, `Reset` is `RefResolver.Reset`.

`RefVerify` puts `RefResolver.Verify` before it, as `buildScope` does: `path` is the
calls of `check` in flight with what their loops have left, `VerifyNext` and
`CheckDep` are the two range loops, in any order. `check` has its three outcomes
(`Error`, `Skip`, `Enter`), and the resolver runs whatever the verdict was, which
`buildScope` drops. `VerifyExact` compares the verdict with `Circular`, which speaks
of closed sets and knows no search.

`RefMeaning` is what the resolver promises: one step settles the attributes of
one resource to what they mean (`Denotes`), and only after everything it refers
to is settled. The exception is a cycle, whose first member cannot wait
(`Reaches(s, r)` in `Learn`); `Forget` is a caller starting over. `RefResolve!Implements` is this specification with `known <- memo`, and
`RefResolve` takes `Denotes` from it.

### DirScope (`analyze.go`, `internal/tf/resolver`)

`locals`, `rsrc`, `entry`/`out` are the maps of `Resolver`; `insts`, `built`,
`given` are the module instances of the `dirScope` and what they were built
with; `stack` the module calls and expressions at work; `pc`, `i`, `todo`,
`changed` the loops. `Retry`, `SweepAgain`, `SweepDone` are `RetryLocals` and
`fixpoint`; `Register`/`EachKnown` and `Settle` the two loops of
`registerModules`; `Ask` the direct reference that forces a module,
`NextInstance`/`EntryDone` the module's callback; `Price` the last forcing by
`priceModule`. The directory of a called module is a function of its inputs,
which is all its caller can see of it: its output carries each input or that
input's default. References between resources are left to RefResolve.

### ModuleFetch (`modfetch.go`, `registryModuleDir`)

`pickVersions`, `satisfiesOp`, `versionLess` and `newestPerMajor` are operators
on sequences of numbers. Every process `p` has a state `st[p]` and runs several
times on the cache `files`, `dirs`, `marker`. `Start`, `Try`, `GiveUp` are the
walk back over the candidates, `Download`, `Open`, `Copy`, `ExtractFails`,
`Remove`, `RemoveMarker`, `Removed`, `Extracted`, `Mark` the extraction file by
file, `Crash` a kill. `Disturb` is what one process's `O_TRUNC` or `RemoveAll`
does to a file another is writing. `shared` is history: the versions that two
processes fetched, or fetched and used, at once.

### PriceQuery (`awsprice/regions.go`, `price.go`, `cached.go`)

Operators: `compose` puts the location filter in and the region's prefix on
the usage type, `cacheKey` is what a cache compares, `abbrevUsagetype` the
second spelling of an instance class. A usage type is its prefix, its name and
its class. The tables of regions are constants; `QueryAssumption` says that no
two regions have one location name, which holds of `regionToLocation`.

### Mapper (`internal/mapper/mapper.go`)

Operators: `MapResource`, one operator for each mapper with its defaults and
guards, and `ExtraSpecs`. A context is the resources of the directory, bound, and
the locals that did not resolve. `chase` is `chaseResourceRef`: its recursion over
the references of a local is a list of references still to come to (`Follow`), with the
`seen` map beside it, stepped as often as there are locals and once more.
`Bind` is what the resolver makes of the attributes of a resource, with
`each.value` bound to an item and an indexed reference that resolves only once
(`Resolved`); the mappers read resources that are bound.

### CostRows (`analyze.go`, `internal/output`)

`todo` is the work that is left of `priceDir` and `priceResources`, in order: jobs
of five kinds (resource, row, lookup, call, module). `Gate`, `Expand`, `Multiply` are
the branches of `priceResources` (`RowOf` is the row they leave to do), `PriceOne` is
`priceOneResource` up to its lookups (`Lookups`), `FlatFee`, `FromCache`,
`FromClient`, `LookupFails` are `pricedItem` with the composer, one cache (`held`) and
the client's retry, `Instantiate` is `moduleInstances`, `GateModule`, `OpenModule`,
`ClosedModule` are `priceModule`, `Write` both reports. `spent` holds the resources
whose indexed reference has been resolved, `items` the cost items; `opened`, the
directories that were opened and where, is history.

The inputs are directories whose attributes carry their resolved values. `IsDir` is
what they have to be: what Terraform itself demands of them (two resources or calls of a
directory have different addresses, two items of a `for_each` different keys), and
one thing the model demands, that an indexed reference is the engine of an
`aws_db_instance`. There the model knows which rows come to it (`Follows`); for
the other attributes, which a mapper may read several times or not at all, it
keeps no such account.

### DeltaCompute (`internal/delta`)

One action per iteration of the loops of `Compute`: `NextAddr`, `PairEqual`,
`PairLeftover`, `Emit`, `Removed`; `used` and `pair` are `bUsed` and `cPair`.

### Abstraction and composition

`PriceChain!Loads` says in one step what `BulkPrice` does in a dozen. That it may is
`OneStepLoads`, over the instance `BulkLoads!Chain` of PriceChain: as long as calls do
not overlap, every step of BulkPrice leaves the cached file and the indexes of the
processes alone, or is a `Loads`, or the end of a process. A process without credentials
is there one whose every request fails. What happens when calls overlap is
`DamageNeedsSharing`; PriceChain does not model it. `RefResolve`
implements `RefMeaning`. `DirScope` takes the result of `RefResolve` as the
operator `Resources`: the equation that `AcyclicExact` shows every `AllResolved`
to satisfy. `CostRows` composes mapper, composer, cache and reports; it takes
what the resolvers compute as given, and the chain as one cache in front of
one client (ages and layers are `PriceChain`'s). `RefMeaning!Denotes` and
`DirScope!Means` are abstract meanings of a directory, independent of any order
of evaluation, `ModuleFetch!Means`/`Fits` the meaning of a constraint in
Terraform, and `CostRows!Once` one instance of a resource, mapped on its own;
the properties compare what the code computes with them.

## Runs

Expected to pass:

| Run | Question and what it shows |
| --- | --- |
| `price_chain` | Two processes run again and again on one cache directory, with every combination of flags and credentials, failing calls, failing, torn and overlapping saves, and crashes at every step. `DiskProvenance`: nothing from a price file leaks into the disk cache, and a live or bulk price was at most a TTL old when stored. `BoundedStaleness`: two expiring caches in a row allow two TTLs, and no more. `FirstHandDisclosed`: a catalog price a run gets first-hand is disclosed. `StableWithinRun`: baseline and proposal see the same price of a key. |
| `delta` | All pairs of lists of up to three items of one address, and two addresses with free and unpriced items: pairing is one-to-one, equal specs pair first, no item is lost or counted twice, the headline adds up, reordering is silent. |
| `refs` | All directories of three resources with one attribute, templates of two references and cycles included, and of two resources, one of them with two attributes of any kind, in all map orders: without a cycle the result is the meaning of the directory, with one no value is invented, the recursion implements the one-step resolver (`Implements`) and ends, and `Verify` reports a cycle exactly when there is one (`VerifyExact`). |
| `scope` | All ways three modules refer to each other, two modules with `for_each`, and two locals, a resource and a module in any references: modules run once and are settled, direct references are seen in any order of declaration, the last fixpoint is complete, evaluation ends. `Coherent`: with `try()` anywhere, the only thing that can be stale at the end is the fallback of a `try()` that was read early; that it can be is divergence 7. |
| `module_fetch` | Every constraint of one token or a range against every registry of one or two versions, the walk back over three majors with failing requests, broken tarballs, kills and a second run, and two processes on one cache. `WholeUnlessShared`: a version with a marker, or analysed, is complete unless two processes fetched it at once. `SharedSettles`: even then it is once both have written it and nothing failed. `NewestThatFits`, `PinHonoured`: the newest version that fits is used, constraints are honoured. |
| `bulk` | Two processes on one bulk directory with failures, kills, expiry and a new version: only simultaneous downloads can damage the cached list, and an old list answers when a download fails; without overlap, a call of `loadIndex` is the one step that `PriceChain` has for it (`OneStepLoads`). Every small price list against every query in both section orders: bulk never gives a price the live API could not. |
| `rows` | Every resource type with every combination of its attributes given or not and resolved or not; groups and their launch templates, directly and behind every graph of two locals; proxies and targets; `for_each`; trees of modules in several regions with failing lookups. `OwnPrice`: every price is that of the resource's own product and region, whatever the cache was asked before, and an auto scaling group is priced on a template its reference leads to, however many locals are on the way. `CountsMultiply`: `count` and `for_each` of a resource multiply everything that comes with it; directories below a module that is called with a count above one are left out, see divergence 6. `SilentDefaults`: a given attribute that does not resolve changes nothing that is priced, except those in the tables `SilentOwn` and `SilentOther`. `Reported`: every instance has its row at its own address, in one section, and both reports add up the same rows. |

Expected to be violated, each a divergence described below:
`catalog_disclosed`, `fresher_wins`, `refs_cycle`, `scope_later`, `module_pin`.

Why the bounds are enough:

- PriceChain. TTL 1 with a clock to 5 lets a price be stored, expire, be stored
  again from an old bulk file and expire again, in runs of up to two ticks
  (a run may outlast a TTL). `OverlapBound` keeps the time at which both
  processes run to the first three ticks, and then to plain runs that fill the
  same files: what they can do to each other is in the files. Keys do not
  influence each other except through the common file writes and the common
  index, and are symmetric, so one key that every layer may answer is taken; the
  proofs cover any number of keys and processes without any bound.
- BulkPrice. Two pieces per file suffice for a torn file; two versions for a
  mixed one; a third inode is needed because a new `.tmp` may be created while
  one process reads the cached file and the other still writes a file without
  a name. A TTL of 1 and a clock to 3 (`until`) let a list expire, be replaced or
  outlive a failed download, and expire again. Symmetric in inodes and processes.
- RefResolve and DirScope. Three names allow a chain, a diamond's half and a
  cycle through a bystander; two attributes allow a resource that is in flight
  with one of them resolved. Two items of a `for_each` suffice because only the
  first builds the entry and only the last gives the outputs.
- ModuleFetch. `MaxTries` is 2 instead of 10, with three majors, so that the
  limit is reached. Components 0 and 1 around each boundary decide every
  comparison; two runs let one meet what the other left. Two processes with
  two files of one or two versions suffice for one to cut, to remove, to mark and to
  analyse what the other writes.
- CostRows. Two regions suffice for a cached price of the wrong one, two items
  for a stale `each`, two locals for a chain, a diamond and a cycle; each
  attribute takes the values around the guards of its mapper (0, negative, an
  empty list, a class that is a multiple of its size or not).
- DeltaCompute. Three items per side are the least for which a greedy pairing
  can take the partner of a later item and leave it to a third one.

Deadlock checking is off only in the runs whose system stops when its work is
done (`delta`, `scope`, `scope_later`, `module_fetch`, `module_pin`, `rows`).

Fairness. Only `refs` and `scope` have liveness properties. They assume weak
fairness of the next step as a whole: the resolver is one goroutine that runs
straight through, and nothing it does can block. No fairness between actions is
assumed, so the choice of a map order stays free, and `Reset` is not fair,
because the caller decides whether there is another pass.

## Proofs

All checked by TLAPS for every value of the constants that satisfies the
assumption of the module. The assumptions say of the inputs what the code's types and
formats say, and nothing of their size:

| Assumption | Besides the types of the constants |
| --- | --- |
| `ConstAssumption` (PriceChain) | the TTL is positive, the bounds are numbers |
| `BulkAssumption` | a price list has its two sections, and the terms have one entry per SKU (they are a JSON object) |
| `LoadAssumption` (BulkLoads) | the TTL is a number, 0 included; `None` is neither a time nor an index |
| `RefAssumption` | a directory gives every resource an expression per attribute, and an absent or a constant one refers to nothing |
| `ScopeAssumption` | finitely many modules, each at one place of `Order`; an absent attribute refers to nothing, a direct one to one thing |
| `FetchAssumption` | finitely many versions; a pin has one to three components, and one with three names a version |
| `DeltaAssumption` | finitely many addresses; an item is its spec, its cost and whether it is priced |
| `QueryAssumption` (PriceQuery) | no two regions have one location name |
| `MapperAssumption` | an attribute that resolves has the type its mapper reads it with: numbers, sizes that are not negative, instance classes |
| `CostAssumption` | every project, and every directory its module calls open, is one (`IsDir`, see CostRows) |

### PriceChainProofs

`TypeCorrect`, `DiskCacheProvenance`, `Staleness`, `Stability` prove `TypeOK`,
`DiskProvenance`, `BoundedStaleness` and `StableWithinRun` for any number of
processes and keys. The properties are not inductive. `ClockOK` adds that an
index memoised as fresh was within its TTL when the run started, which bounds
the age of what the run stores; `AnswersCached` adds that the outermost caching
layer holds each answer of the run, which is why the second lookup of a key
finds the same price. Every lookup is reduced to `FillKeeps`, which says what
storing one entry preserves. `CatalogCounted` proves `FirstHandDisclosed`: a run
that has counted no catalog hit has a catalog price, as an answer or in a layer,
only for keys it inherited one for from a file (`Origins`).

### RefResolveProofs

`TypeCorrect`, `ReentryGuard` and `OrderIndependence` prove `TypeOK`,
`InFlightOnce` and `AcyclicExact` for every directory and every order
(`InFlightOnce` is proved only, no run has it). The invariant adds, per frame of the
stack, that the attributes already assigned are what they denote over the memo table
and that everything they refer to is memoised (`FrameOK`), and that the rank falls along the stack (`Falling`), so
that in an acyclic directory no reference meets a call in flight. The memo table
only grows until `Reset`, so a denotation once right stays right.

`CyclesOnlyLose` proves `SoundValues`, which is about directories with cycles. The
invariant is the same one for the attributes that a cycle cannot have changed
(`Firm`): all of them without a cycle, and with one the plain references that
have a value.

`Refinement` proves `Implements`: RefResolve implements RefMeaning in every
directory, cycles included, for every order. Only `Return`, which memoises a resource, is a
`Learn`, and `Reset` a `Forget`; everything else stutters. What is to be shown of a `Return` is
that the attributes it memoises were evaluated over a memo table that holds
all the resource refers to, or that the resource is on a cycle. The invariant
for that: each call on the stack is reached by references from those below it
(`OnPath`), so that a reference to a call in flight closes a cycle; an assigned
attribute is what it denotes, and all it refers to is memoised or in flight
below (`AllHeld`); and what `AllResolved` has passed is memoised or in flight
(`Passed`), so that a `Reset` finds everything memoised.

`VerifyFindsCycles` proves `VerifyExact`. While the search runs (`Searching`), the
addresses whose call of `check` has returned (`Black`) refer to such addresses
only and none of them is on a cycle; the calls in flight refer to one another in
order and have no address twice; and what a call has come past is black or the
call above it. When `check` returns for an address, the black set is closed, has
everything the address refers to and not the address itself, so nothing it
refers to leads back. `VerifyHarmless` says that the specification of the run
implies `Spec`, which the other theorems about RefResolve are of.

### BulkPriceProofs

`TypeCorrect`, `DamageTheorem` and `StaleTheorem` prove `TypeOK`,
`DamageNeedsSharing` and `StaleBeatsFailure` for any number of processes, files
and versions. The invariant adds `Alone` (a process that writes an unshared
file is the only one that writes, its file is the one called `.tmp`, and it
holds exactly the pieces copied so far), `Names` (the cached file and the
temporary one are different, a file that is read is not the temporary one) and
`ReadsWhole` (a file being read is whole or shared). All actions that leave a
process without an open file are one lemma, `LeavesKeeps`.

`BulkAgreesWithLive` proves `LiveAgrees` for every price list and query. The
invariant is small (`Loaded`: who selects has a price list, and only a query whose
fields are indexed gets there); the work is in the operators. `Parsed` says what
an entry of the index is, `Selected` that `selectPrice` finds a wanted price if any
matching product has one, and `SelectAgrees` puts them next to `pickPrice`.

`LoadIsOneStep` proves `OneStepLoads` for any number of processes, files and versions
and any TTL. What holds as long as no two calls have overlapped is `Steady`: at most one
call is in flight, no file is shared, and a file is old exactly when it is past the TTL;
the cached file is, whole, the version that was published when it was written (`Listed`);
and, per process (`Holder`), who downloads does so because there is no file or an old one,
for a version that is published now, and who has found the file holds its time until the
call returns. So only three steps are a `Loads`: a `Stat` that finds a file that is not
old, a `Rename`, and a failed download that falls back on an old file; a kill
loses the index of its process, and all other steps stutter. `LoadsHarmless`
says that `LoadSpec` implies `Spec`: the other theorems about BulkPrice hold of the run.

### DirScopeProofs

`TypeCorrect`, `GuardMatchesStack`, `AllSettled`, `FixpointReached`, `OnlyFallbacksStale`,
`ReferencesSeen` and `SharedEvaluation` prove `TypeOK`, `RunningOnce`, `SettledAll`,
`FixpointComplete`, `Coherent`, `DirectSeen` and `EvaluatedOnce` for any number of
locals, resources, modules and instances, in any references. The invariant has
three layers:

- control: the call of the walk over the modules is at the bottom of the stack and
  forced modules are above it (`Nested`), each frame knows what it has built
  (`Frames`), a module is running while exactly one of its calls is in flight
  (`Running`), and what the walk has passed is registered and forced (`Registered`,
  `Forced`). The loop that forces modules in order may meet one that an earlier
  reference has forced already: that is why `Forced` speaks of what is behind the
  walk and of single instances;
- fixpoints: a sweep that has changed nothing has shown every pending local it
  passed to be unresolvable (`Swept`). Outside of the sweeps no local changes, so
  the resources stay those of the locals there are;
- values: a value that was read is the value there still is, or the fallback of a `try()`
  (`Lasting`). What a scope gives goes from nothing to something and then stays, with one
  exception: a resource may go from the fallback of its `try()` to its value
  (`ScopeKept`, `AtFallback`). So a value stays accounted for, with one resource more
  read at its fallback (`StandsKept`). `Coherent` is this invariant at the end.

`DirectSeen` needs two more facts: in an acyclic directory a rank falls along the
calls in flight (`Falling`), so that a direct reference never meets a running
module and has its outputs when the call returns; and what is built and not seen
is still to be evaluated by a call on the stack (`Seen`, `Ahead`).

### ModuleFetchProofs

`TypeCorrect`, `WholeModules`, `SharingSettles`, `NewestUsed` and `PinsHonoured` prove
`TypeOK`, `WholeUnlessShared`, `SharedSettles`, `NewestThatFits` and `PinHonoured` for
any number of processes, versions, files and runs. A version that is not shared has
one process at work on it, which has written what it no longer has to do, and is
unmarked and in nobody's use until it is complete (`Private`, `Progress`). Where
nothing fails, a file that is not whole has a writer whose turn it is
(`Settling`). The walk back goes down the order of versions (`Walk`): that it
starts at the newest needs a maximum of every finite set of versions (`NewestIn`,
by the well-foundedness of the finite subsets). `PinMeans` shows on the components
that `~>`, `>=`, `<` and every operator with a full version mean what they mean in
Terraform; a shorter version with another operator is divergence 5.

### DeltaComputeProofs

`TypeCorrect`, `PairingAgrees`, `EqualSpecsPairFirst`, `NothingDropped`,
`ReorderingSilent` and `HeadlineAddsUp` prove `TypeOK`, `PairingOK`,
`EqualSpecsFirst`, `EachItemOnce`, `ReorderedSilent` and `DeltaAddsUp` for lists of
any length at any number of addresses.

- `EqualSpecsFirst`: at each point of the first pass, an item and a base item of
  its spec are not both left to others (`FirstPass`, `Met`).
- `EachItemOnce`: the rows of the address at work are those of its items so far, no
  two for one pair and none missing (`RowsRight`), and those of the other addresses
  are complete or not begun (`RowsElsewhere`).
- `DeltaAddsUp` is `Balance`: the headline, what is hidden and the worth of all that
  is still to be written add up to the difference of the totals, at every step. A row
  takes one item out of the sums over what is left. The sums are defined by
  a recursive function on the subsets of a finite set; that taking out an element
  lowers them by its worth is proved from a smallest set for which it does not
  (`FS_StrictSubsetOrderingWellFounded`, `WFMin`).

### CostRowsProofs

`TypeCorrect`, `PriceIsOwn`, `CountsTimes`, `DefaultsListed` and `ReportComplete` prove
all five properties of the run, `TypeOK`, `OwnPrice`, `CountsMultiply`,
`SilentDefaults` and `Reported`, for every project: any number of resources, locals
and modules, nested to any depth, with any counts and keys.

Their common invariant `Inv` is about the work that is left, and none of the
properties is inductive without it:

- every job belongs to an opened directory, to one of its resources, and to one of
  the rows of that (`GroundDir`, `GroundJob`), and a priced item has the answer to what
  the row asked for, as often as it is billed (`IsItem`);
- the jobs and the items share out the addresses: no two jobs will ever write an item of
  one address and number, and no job one that is there (`Claims`). It is why an
  item is in the report once, and it needs all that is known of names: a row is
  told from its siblings by its key, a resource by its address, a directory by its prefix;
- every row of every resource, and every instance of every call, of an opened
  directory is ahead, in progress or in the items (`Covers`). At the end nothing is
  ahead, so nothing was lost;
- the cache holds answers to composed queries, one per key (`Held`).

`KeysTellRegions` says why the last is enough: two queries with one cache key were
composed for one region, for every set of services, filters and units. The key has no
region in it; what saves it is that `compose` adds a location to every query that has
a region, that no mapper names a location itself, and that location names are distinct
(`ComposeLocates`, `QueryAssumption`).

For auto scaling groups, `ChaseEnds` counts the locals a chase has followed: each
step that is not the last follows a new one. `ChaseFinds` says that it then has
found something its references lead to if there is anything, and `Reach`, which knows
no order, is what they lead to.

`DefaultsListed` is about two directories that differ in one attribute (`Twins`): it
does not resolve in one and has any value of its type in the other. Lookups, chases,
templates and the sums over the targets of a proxy commute with the exchange
(`FoundOne`, `ChaseFound`, `SumTwin`). Then, mapper by mapper, an attribute is in the
table, or is not read, or leaves the row without a price as long as it does not
resolve. The first version of the table was shown wrong by the proof attempt and not by
TLC, whose resources did not have these attributes: it lacked the storage type and
`multi_az` of an Aurora instance, three spellings of the sizes of an ElastiCache
group, and a launch template that a node group refers to by name.

`CountsTimes` has the exclusion of `CountsMultiply` in it, and does not need it: below a
counted module, everything is billed as for one instance of the module.

The sums are those of `SumLemmas`, which DeltaComputeProofs uses too.

### Model-checked only

- Liveness (`Terminates` of RefResolve and DirScope): the prover has no rules for
  fairness and ENABLED.
- The runs that are expected to be violated.

The library's induction theorems take an operator as a parameter, which no prover
here can instantiate. Where a proof needs induction over data, as for a sum, a
maximum or the first hit of a search, it is stated for a set that has a minimal
element (`WFMin`).

## Divergences found

1. `catalog_disclosed`: README.md:131-132 promises that a catalog price is
   disclosed. `main.go:112` looks at the hits of this process only, while the
   caches store catalog answers like any other, stamped now: the next run
   reports the same price without the disclosure.
2. `fresher_wins`: README.md:130-131 and `embedded.go:10-11` put the live API
   before the catalog. `main.go:71-73` puts `Embedded` in front of the client:
   with credentials, a query the bulk index cannot serve gets the catalog
   price. This includes every query with `databaseEngine`, a field
   `indexFields` has under the name `database_engine`.
3. `refs_cycle`: `analyze.go:100-101` and `refs.go:71-73` say a cycle leaves its
   members unresolved, also behind `try()`. The error of `Verify` is dropped, and
   a `try()` evaluated while its reference is in flight takes the fallback.
4. `scope_later`: `analyze.go:127-128` settles modules in order "so later modules
   see earlier ones' outputs". A module forced early by a direct reference is
   built before the ones declared before it, and its template inputs that
   refer to them are dropped for good.
5. `module_pin`: `modfetch.go:101-102` says a bare version is an exact match, as
   in Terraform. `"1.0"` matches no published version, the empty match means "no
   constraint", and the newest major is used.

Two more have no run; the property next to each names the case in its formula and
claims nothing of it:

6. `CountsMultiply` (`Counted`): README.md:83 says that a resolvable `count` multiplies the
   estimate and that one that does not resolve is flagged inline. For a module,
   `priceModule` compares the count with 0 (`analyze.go:340`) and opens the directory
   once: with `count = 2`, or a `for_each` whose length is known and whose keys are not, what
   the module declares is priced once. Nor is an unresolved `count` or
   `for_each` of a module flagged.
7. `Coherent` (`Fallible`): `analyze.go:44-45` says that registration must precede parent
   evaluation, or earlier resolution would miss outputs. `buildDirScope` has run a
   fixpoint by then. With `l1 = "${module.a.o}"`, the resource attribute
   `try(local.l1, "lit")` and a local `l2` that reads the attribute, `l2` is
   committed to "lit", and not revisited when `l1` and the attribute have the value of the
   output (`resolver.go:147-157`). A local `try(module.a.o, y)` keeps `y` in the same way.

## Other observations

Seen while modelling; not runs. Most are about behaviour for which the repository
promises nothing; where a sentence of the README says otherwise, it is quoted.

- A `for_each` that refers to a module output forces that module while the
  modules after it are not registered yet (`DirectSeen` excludes it).
- A `for_each` on a module declared later counts as one instance, not flagged.
- README.md:82 says that resources affected by an unresolved variable print as
  unresolved. The tables `CostRows!SilentOwn` and `SilentOther` list the attributes for which a
  default is used without a word instead; `DefaultsListed` shows that the list is
  complete, for every directory. One entry is worse than a default: an RDS proxy is priced on those
  of its targets that resolve (`mapper.go:433`).
- `resolver.go:407` compacts the steps of a traversal in the parsed expression
  itself (`filtered := rest[:0]`): a reference with an index (`x[0].attr`)
  resolves the first time and leads nowhere the second, so that a second instance
  of a `for_each` may lose an attribute the first one had.
- `each` stays bound while the attributes of a launch template are resolved
  (`analyze.go:382`): an `each.value` in the template, if it has a `for_each` of
  its own, takes the group's item.
- README.md:74 lists VPN connections, KMS keys and Route53 zones as
  unsupported; the mapper prices them.
- README.md:84 says module outputs are not resolved; they are.
- Two processes on one `.tmp` can leave a mixed price list, or an older version
  over a newer one, until the TTL passes: the exception `DamageNeedsSharing`
  makes.
- Two processes that fetch one module version at once can analyse a file the
  other has just cut, and if one fails or is killed leave a marker next to an
  incomplete module, for good, as the module cache has no TTL: the exceptions
  `WholeUnlessShared` and `SharedSettles` make.
- `bulk.go:106-108` says `selectPrice` mirrors the order of `pickPrice`, which
  ranges over Go maps and has none; `LiveAgrees` asks for a possible answer.

## Not modelled

- The HCL parser and the function library: pure data without state.
- Of the mapper: the filters that are the same for all resources of a service,
  the unit rates shown for Aurora and proxies, labels, the Oracle and SQL Server
  names of `rdsEngine`, load balancers of types `mapLB` does not know, and the tables of
  usage-based, free and informational types, each of which one type stands for.
  Of the composer: the contents of the tables of regions.
- Of the bulk list: a directory that cannot be made and a cached file that cannot be
  opened (`bulk.go:150`, `162-165`). Either is an error without an answer, so
  `StaleBeatsFailure` is about requests, bodies and files that fail otherwise.
- Localisation and the layout of reports: wording.
- HTTP, AWS SDK, gzip and tar: external; a call answers, fails or breaks off.
  The embedded catalog's generation by the Makefile and the GitHub action are
  not modelled; their effect (a catalog, a shared cache) is.
- Several bulk keys at once: each service and region has its own files and
  index entry.
- cty values, nested blocks, conditional branches and dynamic types of
  expressions.
- Sources and URLs of modules, and the parsing of tarballs.

## Roadmap

In order of importance:

1. Composition of CostRows with DeltaCompute: the headline of the delta is the
   difference of the totals of two reports.
2. DirScope with the resources resolved by RefResolve instead of its equation,
   and with an indexed reference that is spent.
