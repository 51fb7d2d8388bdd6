----------------------------- MODULE PriceChain -----------------------------
(***************************************************************************)
(* The Pricer chain that main.go builds for one run of terraform-price,    *)
(* and the files the runs leave behind for each other:                     *)
(*                                                                         *)
(*   Cached(price file, ttl 0) -> Cached(disk cache, 7 days)               *)
(*      -> Fallback(Bulk, Embedded -> Client)                              *)
(*                                                                         *)
(* Several processes (CI jobs sharing a cache directory) run the tool over *)
(* and over, with and without credentials.  A price is abstracted to its   *)
(* provenance: which source produced it and at what time the source        *)
(* obtained it.  A Key is a composed query, i.e. a cacheKey.               *)
(***************************************************************************)
EXTENDS Naturals

CONSTANTS
    Proc,       \* processes that may run the tool
    Key,        \* cache keys looked up
    Catalog,    \* keys the embedded catalog answers
    Indexed,    \* keys whose filters the bulk index knows (indexFields)
    Flags,      \* the sets of Cached layers the command line may ask for
    TTL,        \* priceCacheTTL, in ticks
    MaxRun,     \* bound: ticks one analysis may take
    MaxTime,    \* bound: last tick of the clock
    Flaky,      \* TRUE: calls to AWS may fail even with credentials
    None        \* "no such entry"

Layer  == {"disk", "price"}
Source == {"seed", "catalog", "live", "bulk", "staleBulk"}
Time   == 0..MaxTime
Entry  == [src : Source, asOf : Time, at : Time]
Index  == [asOf : Time, stale : BOOLEAN]

ASSUME ConstAssumption ==
    /\ Catalog \subseteq Key /\ Indexed \subseteq Key
    /\ Flags \subseteq SUBSET Layer
    /\ TTL \in Nat \ {0} /\ MaxRun \in Nat /\ MaxTime \in Nat
    /\ Flaky \in BOOLEAN
    /\ None \notin Entry /\ None \notin Index /\ None \notin Nat

VARIABLES
    now,      \* the clock
    file,     \* file[l][k]: what parsing the JSON file of layer l yields
    blank,    \* layers whose file is missing or holds no byte
    bulk,     \* mtime of the downloaded bulk price list, or None
    pc,       \* pc[p]: where process p is in main
    cred,     \* cred[p]: p has AWS credentials
    layers,   \* layers[p]: the Cached layers p's flags put in the chain
    mem,      \* mem[p][l]: Cached.data
    dirty,    \* dirty[p]: the layers whose Cached.dirty is set
    idx,      \* idx[p]: Bulk.idx, the parsed price list memoised by p
    hit,      \* hit[p]: Embedded.Hits() > 0
    started,  \* started[p]: when p's analysis started (ghost)
    answer    \* answer[p][k]: the last answer of this run for k, .at = when

files == <<file, blank>>
local == <<pc, cred, layers, mem, dirty, idx, hit, started, answer>>
vars  == <<now, file, blank, bulk, pc, cred, layers, mem, dirty, idx, hit,
           started, answer>>

Saving == {"saveDisk", "writeDisk", "savePrice", "writePrice"}
NoData == [k \in Key |-> None]
Seeds  == {NoData} \cup {[k \in Key |-> [src |-> "seed", asOf |-> 0, at |-> 0]]}

Init ==
    /\ now = 0
    /\ \E s \in Seeds :
          /\ file  = [l \in Layer |-> IF l = "price" THEN s ELSE NoData]
          /\ blank = IF s = NoData THEN Layer ELSE {"disk"}
    /\ bulk = None
    /\ pc = [p \in Proc |-> "idle"]
    /\ cred = [p \in Proc |-> FALSE]
    /\ layers = [p \in Proc |-> {}]
    /\ mem = [p \in Proc |-> [l \in Layer |-> NoData]]
    /\ dirty = [p \in Proc |-> {}]
    /\ idx = [p \in Proc |-> None]
    /\ hit = [p \in Proc |-> FALSE]
    /\ started = [p \in Proc |-> 0]
    /\ answer = [p \in Proc |-> NoData]

-----------------------------------------------------------------------------
(* One run: main up to analyze, every flag combination.                    *)

\* NewCached/load: a missing or unparsable file is an empty map.
Start(p) ==
    /\ pc[p] = "idle"
    /\ \E c \in BOOLEAN, ls \in Flags :
          /\ cred' = [cred EXCEPT ![p] = c]
          /\ layers' = [layers EXCEPT ![p] = ls]
          /\ mem' = [mem EXCEPT ![p] =
                        [l \in Layer |-> IF l \in ls THEN file[l] ELSE NoData]]
    /\ pc' = [pc EXCEPT ![p] = "run"]
    /\ started' = [started EXCEPT ![p] = now]
    /\ UNCHANGED <<now, file, blank, bulk, dirty, idx, hit, answer>>

Fresh(e) == now <= e.at + TTL

\* MUTANT of Hit: ttl 0 read as "always expired".
HitZeroTTLExpires(p, l, k) ==
    /\ l \in layers[p]
    /\ mem[p][l][k] # None
    /\ IF l = "price" THEN now <= mem[p][l][k].at ELSE Fresh(mem[p][l][k])

\* Does layer l answer k?  ttl <= 0 (the price file) never expires.
Hit(p, l, k) ==
    /\ l \in layers[p]
    /\ mem[p][l][k] # None
    /\ l = "price" \/ Fresh(mem[p][l][k])

New(src, asOf) == [src |-> src, asOf |-> asOf, at |-> now]
Served(e)      == New(e.src, e.asOf)

\* Every layer in ls passes e up: it stores it, stamped now, and is dirty.
Fill(p, k, e, ls) ==
    /\ mem' = [mem EXCEPT ![p] = [l \in Layer |->
                  IF l \in ls THEN [mem[p][l] EXCEPT ![k] = Served(e)]
                  ELSE mem[p][l]]]
    /\ dirty' = [dirty EXCEPT ![p] = @ \cup ls]
    /\ answer' = [answer EXCEPT ![p][k] = Served(e)]
    /\ UNCHANGED <<now, file, blank, pc, cred, layers, started>>

\* MUTANT of ServePriceFile: the Cached layers the other way round.
PriceFileInside(p, k) ==
    /\ pc[p] = "run"
    /\ Hit(p, "price", k)
    /\ Fill(p, k, mem[p]["price"][k], layers[p] \ {"price"})
    /\ UNCHANGED <<bulk, idx, hit>>

\* Cached.UnitPrice of the --price-file layer, the outermost one.
ServePriceFile(p, k) ==
    /\ pc[p] = "run"
    /\ Hit(p, "price", k)
    /\ Fill(p, k, mem[p]["price"][k], {})
    /\ UNCHANGED <<bulk, idx, hit>>

\* MUTANT of ServeDisk: a hit renews CachedAt (sliding expiration).
DiskHitRestamps(p, k) ==
    /\ pc[p] = "run"
    /\ ~Hit(p, "price", k)
    /\ Hit(p, "disk", k)
    /\ Fill(p, k, mem[p]["disk"][k], layers[p])
    /\ UNCHANGED <<bulk, idx, hit>>

\* The disk cache answers; the price file, if any, missed and stores it.
ServeDisk(p, k) ==
    /\ pc[p] = "run"
    /\ ~Hit(p, "price", k)
    /\ Hit(p, "disk", k)
    /\ Fill(p, k, mem[p]["disk"][k], layers[p] \ {"disk"})
    /\ UNCHANGED <<bulk, idx, hit>>

Missed(p, k) == pc[p] = "run" /\ \A l \in Layer : ~Hit(p, l, k)

\* loadIndex: what memoising the price list may leave in idx and on disk.
\* The last set stands for a file that cannot be opened or parsed, or a
\* failed first download: nothing is memoised.
Loads(p) ==
    IF idx[p] # None THEN {<<idx[p], bulk>>}
    ELSE (IF bulk # None /\ now <= bulk + TTL
          THEN {<<[asOf |-> bulk, stale |-> FALSE], bulk>>}
          ELSE   {<<[asOf |-> now, stale |-> FALSE], t>> :
                     t \in {u \in {now} : cred[p]}}
            \cup {<<[asOf |-> t, stale |-> TRUE], t>> :
                     t \in {u \in {bulk} : u # None /\ (Flaky \/ ~cred[p])}})
      \cup {<<None, bulk>>}

\* Bulk.UnitPrice answers from the memoised price list.
FromBulk(p, k) ==
    /\ Missed(p, k)
    /\ "disk" \in layers[p]
    /\ k \in Indexed
    /\ \E r \in Loads(p) :
          /\ r[1] # None
          /\ idx' = [idx EXCEPT ![p] = r[1]]
          /\ bulk' = r[2]
          /\ Fill(p, k, New(IF r[1].stale THEN "staleBulk" ELSE "bulk",
                            r[1].asOf), layers[p])
    /\ UNCHANGED hit

\* Bulk.UnitPrice errors: unknown field (before any load), no index, or no
\* matching price in it.  With --no-cache there is no Bulk to ask.
BulkErrs(p, k) ==
    IF "disk" \in layers[p] /\ k \in Indexed
    THEN \E r \in Loads(p) : /\ idx' = [idx EXCEPT ![p] = r[1]]
                             /\ bulk' = r[2]
    ELSE UNCHANGED <<idx, bulk>>

\* MUTANT of FromCatalog: the hit is not counted.
CatalogUncounted(p, k) ==
    /\ Missed(p, k)
    /\ "disk" \in layers[p]
    /\ k \in Catalog
    /\ BulkErrs(p, k)
    /\ Fill(p, k, New("catalog", 0), layers[p])
    /\ UNCHANGED hit

\* Fallback.Secondary is Embedded: the catalog is asked before the client.
FromCatalog(p, k) ==
    /\ Missed(p, k)
    /\ "disk" \in layers[p]
    /\ k \in Catalog
    /\ BulkErrs(p, k)
    /\ hit' = [hit EXCEPT ![p] = TRUE]
    /\ Fill(p, k, New("catalog", 0), layers[p])

AsksClient(p, k) == Missed(p, k) /\ ("disk" \in layers[p] => k \notin Catalog)

\* Client.UnitPrice: the live Price List API.
FromClient(p, k) ==
    /\ AsksClient(p, k)
    /\ cred[p]
    /\ BulkErrs(p, k)
    /\ Fill(p, k, New("live", now), layers[p])
    /\ UNCHANGED hit

\* Every source errs: nothing is cached, the row becomes unresolved.
LookupFails(p, k) ==
    /\ AsksClient(p, k)
    /\ Flaky \/ ~cred[p]
    /\ BulkErrs(p, k)
    /\ UNCHANGED <<now, file, blank, pc, cred, layers, mem, dirty, hit,
                   started, answer>>

Lookup(p, k) ==
    \/ ServePriceFile(p, k)
    \/ ServeDisk(p, k)
    \/ FromBulk(p, k)
    \/ FromCatalog(p, k)
    \/ FromClient(p, k)
    \/ LookupFails(p, k)

-----------------------------------------------------------------------------
(* The end of main: report, then Save every cacher, disk cache first.      *)

Report(p) ==
    /\ pc[p] = "run"
    /\ pc' = [pc EXCEPT ![p] = "saveDisk"]
    /\ UNCHANGED <<now, file, blank, bulk, cred, layers, mem, dirty, idx, hit,
                   started, answer>>

\* os.Exit or a process that dies: memory is gone, files stay as they are.
Clear(p) ==
    /\ pc' = [pc EXCEPT ![p] = "idle"]
    /\ cred' = [cred EXCEPT ![p] = FALSE]
    /\ layers' = [layers EXCEPT ![p] = {}]
    /\ mem' = [mem EXCEPT ![p] = [l \in Layer |-> NoData]]
    /\ dirty' = [dirty EXCEPT ![p] = {}]
    /\ idx' = [idx EXCEPT ![p] = None]
    /\ hit' = [hit EXCEPT ![p] = FALSE]
    /\ started' = [started EXCEPT ![p] = 0]
    /\ answer' = [answer EXCEPT ![p] = NoData]

\* After layer l: the next cacher, or the end of main.
Advance(p, l) ==
    IF l = "disk"
    THEN /\ pc' = [pc EXCEPT ![p] = "savePrice"]
         /\ UNCHANGED <<cred, layers, mem, dirty, idx, hit, started, answer>>
    ELSE Clear(p)

SaveAt  == [disk |-> "saveDisk",  price |-> "savePrice"]
WriteAt == [disk |-> "writeDisk", price |-> "writePrice"]

\* Save returns at once when the layer is clean (or not in the chain).
SkipSave(p, l) ==
    /\ pc[p] = SaveAt[l]
    /\ l \notin dirty[p]
    /\ Advance(p, l)
    /\ UNCHANGED <<now, file, blank, bulk>>

\* MUTANT of Truncate: an empty file loads as a nil map.
TruncateToNil(p, l) ==
    /\ pc[p] = SaveAt[l]
    /\ l \in dirty[p]
    /\ file' = [file EXCEPT ![l] = None]
    /\ blank' = blank \cup {l}
    /\ pc' = [pc EXCEPT ![p] = WriteAt[l]]
    /\ UNCHANGED <<now, bulk, cred, layers, mem, dirty, idx, hit, started,
                   answer>>

\* os.WriteFile truncates the file before it writes.
Truncate(p, l) ==
    /\ pc[p] = SaveAt[l]
    /\ l \in dirty[p]
    /\ file' = [file EXCEPT ![l] = NoData]
    /\ blank' = blank \cup {l}
    /\ pc' = [pc EXCEPT ![p] = WriteAt[l]]
    /\ UNCHANGED <<now, bulk, cred, layers, mem, dirty, idx, hit, started,
                   answer>>

\* The write starts at offset 0: when another process wrote in between and
\* its bytes are longer than ours, its tail stays and the file no longer parses.
Write(p, l) ==
    /\ pc[p] = WriteAt[l]
    /\ \E d \in {mem[p][l]} \cup {e \in {NoData} : l \notin blank} :
          file' = [file EXCEPT ![l] = d]
    /\ blank' = blank \ {l}
    /\ Advance(p, l)
    /\ UNCHANGED <<now, bulk>>

\* A Save error is printed and the next cacher is saved all the same.
SaveFails(p, l) ==
    /\ pc[p] \in {SaveAt[l], WriteAt[l]}
    /\ l \in dirty[p]
    /\ Advance(p, l)
    /\ UNCHANGED <<now, file, blank, bulk>>

Save(p, l) ==
    SkipSave(p, l) \/ Truncate(p, l) \/ Write(p, l) \/ SaveFails(p, l)

\* The process dies anywhere, or leaves by os.Exit(1) on a parse error of
\* either directory, before any Save.
Crash(p) ==
    /\ pc[p] # "idle"
    /\ Clear(p)
    /\ UNCHANGED <<now, file, blank, bulk>>

Tick ==
    /\ now < MaxTime
    /\ \A p \in Proc : pc[p] = "run" => now < started[p] + MaxRun
    /\ now' = now + 1
    /\ UNCHANGED <<files, bulk, local>>

Next ==
    \/ \E p \in Proc :
          \/ Start(p) \/ Report(p) \/ Crash(p)
          \/ \E k \in Key : Lookup(p, k)
          \/ \E l \in Layer : Save(p, l)
    \/ Tick

Spec == Init /\ [][Next]_vars

-----------------------------------------------------------------------------
(* Properties.                                                             *)

Data == [Key -> Entry \cup {None}]

\* Every variable stays in its range: the type invariant of the chain.
TypeOK ==
    /\ now \in Time
    /\ file \in [Layer -> Data]
    /\ blank \in SUBSET Layer
    /\ bulk \in Time \cup {None}
    /\ pc \in [Proc -> {"idle", "run"} \cup Saving]
    /\ cred \in [Proc -> BOOLEAN]
    /\ layers \in [Proc -> SUBSET Layer]
    /\ mem \in [Proc -> [Layer -> Data]]
    /\ dirty \in [Proc -> SUBSET Layer]
    /\ idx \in [Proc -> Index \cup {None}]
    /\ hit \in [Proc -> BOOLEAN]
    /\ started \in [Proc -> Time]
    /\ answer \in [Proc -> Data]

\* The sources whose age the cache and bulk TTLs are meant to bound.
Timed == {"live", "bulk"}

\* A disk-cache entry is a price some source below the cache gave: its stamp
\* is in the past, a freshly downloaded or live price was at most TTL old
\* (plus the length of the run whose parsed price list answered) when it was
\* stamped, and no price seeded in a price file ever gets into the disk cache.
DiskEntryOK(e) ==
    e # None => /\ e.asOf <= e.at /\ e.at <= now
                /\ e.src \in Timed => e.at <= e.asOf + TTL + MaxRun
                /\ e.src # "seed"
DiskProvenance ==
    \A k \in Key : /\ DiskEntryOK(file["disk"][k])
                   /\ \A p \in Proc : DiskEntryOK(mem[p]["disk"][k])

\* Two caches in a row (the bulk file and prices.json) each allow a price to
\* be TTL old: a run without a price file never reports a live or downloaded
\* price obtained more than two TTLs and one run ago.
BoundedStaleness ==
    \A p \in Proc, k \in Key :
        (answer[p][k] # None /\ "price" \notin layers[p])
        => (answer[p][k].src \in Timed
            => answer[p][k].at <= answer[p][k].asOf + 2 * TTL + MaxRun)

SameDatum(e, f) == e.src = f.src /\ e.asOf = f.asOf

\* The proposed and the baseline directory are priced in one run: a key that
\* was answered keeps its price for the rest of the run, unless no layer
\* caches or the disk entry that answered has expired meanwhile.  Otherwise
\* the delta report would show price drift as a change of the code.
StableWithinRun ==
    [][\A p \in Proc, k \in Key :
         (pc[p] = "run" /\ pc'[p] = "run" /\ answer[p][k] # None)
         => \/ SameDatum(answer[p][k], answer'[p][k])
            \/ layers[p] = {}
            \/ layers[p] = {"disk"} /\ ~Fresh(mem[p]["disk"][k])]_vars

\* The strengthening the proofs need.  Clocks run forward, and an index that
\* was fresh when it was memoised was so during the run that holds it; a
\* process that does not run holds none.
ClockOK ==
    /\ bulk # None => bulk <= now
    /\ \A p \in Proc :
          /\ pc[p] = "run" => started[p] <= now /\ now <= started[p] + MaxRun
          /\ idx[p] # None
             => /\ pc[p] # "idle"
                /\ idx[p].asOf <= now
                /\ ~idx[p].stale => started[p] <= idx[p].asOf + TTL

\* The outermost caching layer holds every answer of the run, and a process
\* that is not running has none.
AnswersCached ==
    \A p \in Proc, k \in Key :
        answer[p][k] # None
        => /\ pc[p] # "idle"
           /\ "price" \in layers[p] =>
                 /\ mem[p]["price"][k] # None
                 /\ SameDatum(answer[p][k], mem[p]["price"][k])
           /\ layers[p] = {"disk"} =>
                 /\ mem[p]["disk"][k] # None
                 /\ SameDatum(answer[p][k], mem[p]["disk"][k])

IInv == TypeOK /\ ClockOK /\ DiskProvenance /\ BoundedStaleness /\ AnswersCached

\* A report shows a catalog price without the disclosure line only if the
\* price came out of a cache file: the key was in a layer's file before this
\* run began (its stamp is older than every answer of this run can be, or the
\* layer was loaded with it and is not dirty for it).
FirstHandDisclosed ==
    \A p \in Proc, k \in Key :
        (answer[p][k] # None /\ answer[p][k].src = "catalog" /\ ~hit[p])
        => \E l \in layers[p] : /\ mem[p][l][k] # None
                                /\ mem[p][l][k].src = "catalog"
                                /\ mem[p][l][k].at <= started[p]

\* README.md:131-132: "When the catalog answers, the report says so".
CatalogDisclosed ==
    \A p \in Proc, k \in Key :
        (pc[p] = "saveDisk" /\ answer[p][k] # None)
        => (answer[p][k].src = "catalog" => hit[p])

\* README.md:130-131 and embedded.go:10-11: credentials enabling the live
\* Price List API win over the catalog.
LiveBeatsCatalog ==
    [][\A p \in Proc, k \in Key :
         (answer'[p][k] # answer[p][k] /\ answer'[p][k] # None)
         => (answer'[p][k].src = "catalog" => ~cred[p])]_vars

=============================================================================
