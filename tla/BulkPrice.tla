------------------------------ MODULE BulkPrice ------------------------------
(***************************************************************************)
(* Bulk.UnitPrice (internal/provider/awsprice/bulk.go): the price list of  *)
(* one service and region is downloaded to a temporary file, renamed over  *)
(* the cached one, parsed and memoised; a query is answered with the first *)
(* price that fits in file order.  Processes that share the directory use  *)
(* the same temporary name.                                                *)
(*                                                                         *)
(* A file is a sequence of pieces <<version, section>>: a version of the   *)
(* price list is a document of two sections, products and terms, whichever *)
(* comes first.  The checksum of gzip is external: a file parses if it is  *)
(* one version, whole.                                                     *)
(***************************************************************************)
EXTENDS Naturals, Sequences, SequencesExt

CONSTANTS
    Proc,       \* processes that share the cache directory
    Inode,      \* files of the directory, by any name or none
    Field,      \* filter fields
    Indexed,    \* indexFields
    Scenarios,  \* [docs, query, procs, faults]: what a behaviour is about
    None,       \* no file, no preferred unit, no answer yet
    Err         \* the answer that is an error

IsList(s) == s \in Seq(ToSet(s))

\* A price list has both sections; the terms are a JSON object whose keys are
\* the SKUs.
PriceList(doc) ==
    \E products, terms \in 1..2 :
        /\ products # terms
        /\ doc[products].kind = "products" /\ doc[terms].kind = "terms"
        /\ IsList(doc[products].items) /\ IsList(doc[terms].items)
        /\ \A n \in DOMAIN doc[terms].items :
              LET t == doc[terms].items[n]
              IN  /\ IsList(t.onDemand) /\ Err \notin ToSet(t.onDemand)
                  /\ \A m \in DOMAIN doc[terms].items : doc[terms].items[m].sku = t.sku => m = n

ASSUME BulkAssumption ==
    /\ Indexed \subseteq Field
    /\ None \notin Inode /\ Err # None
    /\ \A s \in Scenarios :
          /\ Len(s.docs) \in Nat \ {0} /\ DOMAIN s.docs = 1..Len(s.docs)
          /\ \A v \in DOMAIN s.docs : PriceList(s.docs[v])
          /\ s.procs \subseteq Proc /\ s.faults \in BOOLEAN

VARIABLES
    sc,       \* the scenario (never changes)
    latest,   \* the version AWS publishes now
    data,     \* the pieces of each file
    path,     \* <service>_<region>.json.gz
    tmp,      \* <service>_<region>.json.gz.tmp
    old,      \* the mtime of the cached file is more than the TTL ago
    shared,   \* files created while another process was downloading (ghost)
    pc, fd, at, ver,  \* of each process: where it is, its open file, its offset
                      \* in it, the version it downloads
    memo,     \* Bulk.idx: the version parsed, or 0
    ans       \* what UnitPrice returned last

disk  == <<data, path, tmp, old, shared>>
vars  == <<sc, latest, disk, pc, fd, at, ver, memo, ans>>

Sections == 1..2

-----------------------------------------------------------------------------
(* The price list.                                                         *)

Section(doc, kind) == CHOOSE n \in Sections : doc[n].kind = kind
Items(doc, kind)   == doc[Section(doc, kind)].items

\* MUTANT of parseTermDims: the Reserved terms are taken, too.
parseTermDimsAll(term) == term.reserved \o term.onDemand

parseTermDims(term) == term.onDemand

\* parseBulkFile: the terms of a SKU no product has been seen for are skipped.
parseBulkFile(doc) ==
    LET ts    == Items(doc, "terms")
        Of(p) == {n \in DOMAIN ts : ts[n].sku = p.sku
                                    /\ Section(doc, "products") < Section(doc, "terms")}
        Dims(p) == IF Of(p) = {} THEN <<>>
                   ELSE parseTermDims(ts[CHOOSE n \in Of(p) : TRUE])
    IN  [i \in DOMAIN Items(doc, "products") |->
            LET p == Items(doc, "products")[i]
            IN  [attrs |-> p.attrs, prices |-> Dims(p)]]

matchesAll(p, filters) == \A f \in filters : p.attrs[f.field] = f.value

\* A positive price, with the preferred unit if there is one.
Wanted(d, q) == d.usd > 0 /\ (q.unit # None => d.unit = q.unit)

\* The first such price: products in order, then their prices in order.
selectPrice(ix, q) ==
    LET hits(n) == {k \in DOMAIN ix[n].prices : Wanted(ix[n].prices[k], q)}
        rows    == {n \in DOMAIN ix : matchesAll(ix[n], q.filters) /\ hits(n) # {}}
        n       == Min(rows)
    IN  IF rows = {} THEN Err ELSE ix[n].prices[Min(hits(n))]

\* pickPrice over the products GetProducts returns: the live API's answer to
\* the same query.  The rows come in any order, and terms and dimensions are
\* Go maps, so any of these prices may be the first.
pickPrice(doc, q) ==
    LET rows == {n \in DOMAIN Items(doc, "products") :
                    matchesAll(Items(doc, "products")[n], q.filters)}
        of(n) == {m \in DOMAIN Items(doc, "terms") :
                    Items(doc, "terms")[m].sku = Items(doc, "products")[n].sku}
        dims == UNION {ToSet(Items(doc, "terms")[m].onDemand) :
                          m \in UNION {of(n) : n \in rows}}
    IN  {d \in dims : d.usd > 0 /\ (q.unit # None => d.unit = q.unit)}

-----------------------------------------------------------------------------
(* UnitPrice and loadIndex.                                                *)

Init ==
    /\ sc \in Scenarios
    /\ latest = 1
    /\ data = [i \in Inode |-> <<>>]
    /\ path = None /\ tmp = None /\ old = FALSE /\ shared = {}
    /\ pc = [p \in Proc |-> "ready"] /\ fd = [p \in Proc |-> None]
    /\ at = [p \in Proc |-> 0] /\ ver = [p \in Proc |-> 0]
    /\ memo = [p \in Proc |-> 0] /\ ans = [p \in Proc |-> None]

Goto(p, l)  == pc' = [pc EXCEPT ![p] = l]
Answer(p, a) == Goto(p, "ready") /\ ans' = [ans EXCEPT ![p] = a]
Close(p) == /\ fd' = [fd EXCEPT ![p] = None]
            /\ at' = [at EXCEPT ![p] = 0] /\ ver' = [ver EXCEPT ![p] = 0]
Known(q) == \A f \in q.filters : f.field \in Indexed

\* A filter field that is not indexed is an error before anything is loaded.
Ask(p) ==
    /\ pc[p] = "ready" /\ p \in sc.procs
    /\ IF Known(sc.query)
       THEN /\ Goto(p, IF memo[p] # 0 THEN "select" ELSE "stat")
            /\ ans' = [ans EXCEPT ![p] = None]
       ELSE Answer(p, Err)
    /\ UNCHANGED <<sc, latest, disk, fd, at, ver, memo>>

Stat(p) ==
    /\ pc[p] = "stat"
    /\ Goto(p, IF path # None /\ ~old THEN "open" ELSE "request")
    /\ UNCHANGED <<sc, latest, disk, fd, at, ver, memo, ans>>

\* MUTANT of Stale: only a file that has not expired is used.
StaleRefused(p) ==
    IF path # None /\ ~old THEN Goto(p, "open") /\ UNCHANGED ans
    ELSE Answer(p, Err)

\* The download failed: a stale file beats a failed download.
Stale(p) == IF path # None THEN Goto(p, "open") /\ UNCHANGED ans
            ELSE Answer(p, Err)

\* No credentials, no price list, a failed request or a file not created.
RequestFails(p) ==
    /\ pc[p] \in {"request", "create"} /\ sc.faults
    /\ Close(p) /\ Stale(p)
    /\ UNCHANGED <<sc, latest, disk, memo>>

\* MUTANT of Request: the download goes on without a file.
RequestNoFile(p) ==
    /\ pc[p] = "request"
    /\ ver' = [ver EXCEPT ![p] = latest]
    /\ Goto(p, "copy")
    /\ UNCHANGED <<sc, latest, disk, fd, at, memo, ans>>

\* MUTANT of Request: the effective date is not today's.
RequestDated(p) ==
    /\ pc[p] = "request"
    /\ ver' = [ver EXCEPT ![p] = 1]
    /\ Goto(p, "create")
    /\ UNCHANGED <<sc, latest, disk, fd, at, memo, ans>>

\* ListPriceLists, GetPriceListFileUrl and the GET of the file.
Request(p) ==
    /\ pc[p] = "request"
    /\ ver' = [ver EXCEPT ![p] = latest]
    /\ Goto(p, "create")
    /\ UNCHANGED <<sc, latest, disk, fd, at, memo, ans>>

Writing(p) == pc[p] \in {"copy", "rename"}

\* MUTANT of Target: the price list is written in place.
TargetInPlace == IF path # None THEN path ELSE tmp

Target == tmp

\* os.Create opens and truncates the temporary file there is, or makes one.
Create(p) ==
    /\ pc[p] = "create"
    /\ \E i \in Inode :
          /\ IF Target # None THEN i = Target
             ELSE i # path /\ \A q \in Proc : i # fd[q]
          /\ data' = [data EXCEPT ![i] = <<>>]
          /\ tmp' = i
          /\ fd' = [fd EXCEPT ![p] = i]
          /\ shared' = IF \E q \in Proc \ {p} : Writing(q)
                       THEN shared \cup {i} ELSE shared \ {i}
    /\ Goto(p, "copy")
    /\ UNCHANGED <<sc, latest, path, old, at, ver, memo, ans>>

\* s with x at place n; a gap before it is filled with holes.
Put(s, n, x) == [k \in 1..(IF n > Len(s) THEN n ELSE Len(s)) |->
                    IF k = n THEN x ELSE IF k <= Len(s) THEN s[k] ELSE <<0, k>>]

\* The next piece, at the offset of this process, whatever the file has become.
Copy(p) ==
    /\ pc[p] = "copy" /\ at[p] < 2
    /\ data' = [data EXCEPT ![fd[p]] = Put(@, at[p] + 1, <<ver[p], at[p] + 1>>)]
    /\ at' = [at EXCEPT ![p] = @ + 1]
    /\ old' = (old /\ fd[p] # path)
    /\ UNCHANGED <<sc, latest, path, tmp, shared, pc, fd, ver, memo, ans>>

\* The body breaks off: whatever the temporary name means now is removed.
CopyFails(p) ==
    /\ pc[p] = "copy" /\ sc.faults
    /\ tmp' = None
    /\ Close(p)
    /\ Stale(p)
    /\ UNCHANGED <<sc, latest, data, path, old, shared, memo>>

Copied(p) ==
    /\ pc[p] = "copy" /\ at[p] = 2
    /\ Goto(p, "rename")
    /\ UNCHANGED <<sc, latest, disk, fd, at, ver, memo, ans>>

\* os.Rename; it fails if another process has renamed or removed the file.
Rename(p) ==
    /\ pc[p] = "rename"
    /\ Close(p)
    /\ IF tmp = None THEN Stale(p) /\ UNCHANGED <<path, tmp, old>>
       ELSE /\ path' = tmp /\ tmp' = None /\ old' = FALSE
            /\ Goto(p, "open") /\ UNCHANGED ans
    /\ UNCHANGED <<sc, latest, data, shared, memo>>

Open(p) ==
    /\ pc[p] = "open"
    /\ fd' = [fd EXCEPT ![p] = path]
    /\ Goto(p, "read")
    /\ UNCHANGED <<sc, latest, disk, at, ver, memo, ans>>

Whole(s, v) == s = [n \in Sections |-> <<v, n>>]

\* The file, which a process that shares it may still be writing, is parsed
\* and memoised, or the call fails.
Parse(p) ==
    /\ pc[p] = "read"
    /\ \/ \E v \in DOMAIN sc.docs :
             /\ Whole(data[fd[p]], v)
             /\ memo' = [memo EXCEPT ![p] = v]
             /\ Goto(p, "select") /\ UNCHANGED ans
       \/ /\ \A v \in DOMAIN sc.docs : ~Whole(data[fd[p]], v)
          /\ Answer(p, Err) /\ UNCHANGED memo
    /\ fd' = [fd EXCEPT ![p] = None]
    /\ UNCHANGED <<sc, latest, disk, at, ver>>

Select(p) ==
    /\ pc[p] = "select"
    /\ Answer(p, selectPrice(parseBulkFile(sc.docs[memo[p]]), sc.query))
    /\ UNCHANGED <<sc, latest, disk, fd, at, ver, memo>>

\* The run ends, in any way: the files stay.
End(p) ==
    /\ pc[p] = "ready" \/ sc.faults
    /\ Close(p) /\ Answer(p, None)
    /\ memo' = [memo EXCEPT ![p] = 0]
    /\ UNCHANGED <<sc, latest, disk>>

\* AWS publishes the next version.
Publish ==
    /\ latest < Len(sc.docs)
    /\ latest' = latest + 1
    /\ UNCHANGED <<sc, disk, pc, fd, at, ver, memo, ans>>

\* The TTL of the cached file passes.
Expire ==
    /\ path # None /\ ~old
    /\ old' = TRUE
    /\ UNCHANGED <<sc, latest, data, path, tmp, shared, pc, fd, at, ver, memo, ans>>

Next ==
    \/ \E p \in Proc :
          \/ Ask(p) \/ Stat(p) \/ RequestFails(p) \/ Request(p) \/ Create(p)
          \/ Copy(p) \/ CopyFails(p) \/ Copied(p) \/ Rename(p)
          \/ Open(p) \/ Parse(p) \/ Select(p) \/ End(p)
    \/ Publish \/ Expire

Spec == Init /\ [][Next]_vars

-----------------------------------------------------------------------------
(* Properties.                                                             *)

Labels == {"ready", "stat", "request", "create", "copy", "rename", "open", "read", "select"}
Version == DOMAIN sc.docs
Piece == (0..Len(sc.docs)) \X Sections

TypeOK ==
    /\ latest \in Version
    /\ data \in [Inode -> Seq(Piece)] /\ \A i \in Inode : Len(data[i]) <= 2
    /\ path \in Inode \cup {None} /\ tmp \in Inode \cup {None}
    /\ old \in BOOLEAN /\ shared \subseteq Inode
    /\ pc \in [Proc -> Labels] /\ fd \in [Proc -> Inode \cup {None}]
    /\ at \in [Proc -> 0..2] /\ ver \in [Proc -> 0..Len(sc.docs)]
    /\ memo \in [Proc -> 0..Len(sc.docs)]
    /\ \A p \in Proc : Writing(p) => fd[p] # None /\ ver[p] # 0

\* A kill at any point, a broken download or an expired file never damages
\* the cached price list: only a process that creates the temporary file
\* while another one has not renamed its own does.
DamageNeedsSharing ==
    path # None => \/ \E v \in Version : Whole(data[path], v)
                   \/ path \in shared

\* bulk.go:156, "a stale local file beats a failed download": when loading
\* fails there is no cached file, or the one that was read had been shared.
StaleBeatsFailure ==
    [][\A p \in Proc :
         (pc[p] \notin {"ready", "select"} /\ ans[p] = None /\ ans'[p] = Err)
         => path = None \/ (pc[p] = "read" /\ fd[p] \in shared)]_vars

\* The order of the file never makes the bulk price one that the live API
\* could not give for the same products, and when the products come first
\* bulk has a price exactly when the live API has one.
LiveAgrees ==
    \A p \in Proc : (memo[p] # 0 /\ pc[p] = "ready" /\ ans[p] # None) =>
        LET doc  == sc.docs[memo[p]]
            live == pickPrice(doc, sc.query)
        IN  /\ ans[p] # Err => ans[p] \in live
            /\ (ans[p] = Err /\ live # {}) =>
                   Section(doc, "terms") < Section(doc, "products")
=============================================================================
