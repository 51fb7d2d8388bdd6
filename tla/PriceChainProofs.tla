-------------------------- MODULE PriceChainProofs --------------------------
(***************************************************************************)
(* Proofs about the Pricer chain, for any set of processes and keys, any   *)
(* catalog and any TTL.  IInv is inductive; the age bounds follow from it, *)
(* and StableWithinRun follows from its part AnswersCached.                *)
(***************************************************************************)
EXTENDS PriceChain, TLAPS

\* An empty cache and a seeded price file are both well-typed.
LEMMA SeedType == ASSUME NEW s \in Seeds PROVE s \in Data
  <1> USE ConstAssumption
  <1>1. NoData \in Data BY DEF NoData, Data
  <1>2. [k \in Key |-> [src |-> "seed", asOf |-> 0, at |-> 0]] \in Data
    BY DEF Data, Entry, Source, Time
  <1> QED BY <1>1, <1>2 DEF Seeds

\* What loadIndex may leave behind: a price list obtained by now, fresh
\* unless marked stale, and a file no younger than the clock.
LEMMA LoadsResult ==
  ASSUME TypeOK, ClockOK, NEW p \in Proc, NEW r \in Loads(p)
  PROVE  /\ r[1] \in Index \cup {None}
         /\ r[2] \in Time \cup {None}
         /\ r[2] # None => r[2] <= now
         /\ r[1] # None /\ idx[p] = None
            => /\ r[1].asOf <= now
               /\ ~r[1].stale => now <= r[1].asOf + TTL
         /\ idx[p] # None => r[1] = idx[p]
  <1> USE ConstAssumption DEF TypeOK, ClockOK
  <1>1. CASE idx[p] # None
    BY <1>1 DEF Loads
  <1>2. CASE idx[p] = None
    <2>1. CASE r = <<None, bulk>>
      BY <1>2, <2>1
    <2>2. CASE /\ bulk # None /\ now <= bulk + TTL
               /\ r = <<[asOf |-> bulk, stale |-> FALSE], bulk>>
      BY <1>2, <2>2 DEF Index
    <2>3. CASE r = <<[asOf |-> now, stale |-> FALSE], now>>
      BY <1>2, <2>3 DEF Index, Time
    <2>4. CASE bulk # None /\ r = <<[asOf |-> bulk, stale |-> TRUE], bulk>>
      BY <1>2, <2>4 DEF Index
    <2> QED BY <1>2, <2>1, <2>2, <2>3, <2>4 DEF Loads
  <1> QED BY <1>1, <1>2

-----------------------------------------------------------------------------
(* The steps that answer a lookup.                                         *)

\* Asking Bulk, whether it answers or errs, keeps the clocks in order.
LEMMA BulkKeeps ==
  ASSUME IInv, NEW p \in Proc, pc[p] = "run", UNCHANGED <<now, pc, started>>,
         \/ UNCHANGED <<idx, bulk>>
         \/ \E r \in Loads(p) : idx' = [idx EXCEPT ![p] = r[1]] /\ bulk' = r[2]
  PROVE  /\ idx' \in [Proc -> Index \cup {None}]
         /\ bulk' \in Time \cup {None}
         /\ ClockOK'
  <1> USE ConstAssumption DEF IInv
  <1>1. CASE UNCHANGED <<idx, bulk>>
    BY <1>1 DEF TypeOK, ClockOK
  <1>2. ASSUME NEW r \in Loads(p), idx' = [idx EXCEPT ![p] = r[1]], bulk' = r[2]
        PROVE  /\ idx' \in [Proc -> Index \cup {None}]
               /\ bulk' \in Time \cup {None}
               /\ ClockOK'
    <2>1. /\ r[1] \in Index \cup {None} /\ r[2] \in Time \cup {None}
          /\ r[2] # None => r[2] <= now
          /\ r[1] # None /\ idx[p] = None
             => /\ r[1].asOf <= now
                /\ ~r[1].stale => now <= r[1].asOf + TTL
          /\ idx[p] # None => r[1] = idx[p]
      BY LoadsResult
    <2>2. /\ idx' \in [Proc -> Index \cup {None}]
          /\ bulk' \in Time \cup {None}
      BY <1>2, <2>1 DEF TypeOK
    <2>3. started[p] <= now
      BY DEF ClockOK
    <2>4. ASSUME NEW q \in Proc, idx'[q] # None
          PROVE  /\ pc[q] # "idle"
                 /\ idx'[q].asOf <= now
                 /\ ~idx'[q].stale => started[q] <= idx'[q].asOf + TTL
      <3>1. CASE q = p /\ idx[p] = None
        <4>1. idx'[q] = r[1] /\ r[1] \in Index
          BY <1>2, <2>1, <2>4, <3>1 DEF TypeOK
        <4> QED BY <2>1, <2>3, <3>1, <4>1 DEF TypeOK, Index, Time
      <3>2. CASE ~(q = p /\ idx[p] = None)
        BY <1>2, <2>1, <2>4, <3>2 DEF TypeOK, ClockOK
      <3> QED BY <3>1, <3>2
    <2> QED BY <1>2, <2>1, <2>2, <2>4 DEF ClockOK
  <1> QED BY <1>1, <1>2

\* Storing an answer keeps every part of the invariant, provided the price is
\* not from the future, is young enough for the layers that store it, and
\* every layer that does not store it already holds that very price.
LEMMA FillKeeps ==
  ASSUME IInv, NEW p \in Proc, NEW k \in Key, NEW e \in Entry,
         NEW ls \in SUBSET layers[p],
         pc[p] = "run", Fill(p, k, e, ls), hit' \in [Proc -> BOOLEAN],
         \/ UNCHANGED <<idx, bulk>>
         \/ \E r \in Loads(p) : idx' = [idx EXCEPT ![p] = r[1]] /\ bulk' = r[2],
         "disk" \in ls => /\ e.src # "seed"
                          /\ e.asOf <= now
                          /\ e.src \in Timed => now <= e.asOf + TTL + MaxRun,
         "price" \notin layers[p] /\ e.src \in Timed
            => now <= e.asOf + 2 * TTL + MaxRun,
         "price" \in layers[p] => \/ "price" \in ls
                                  \/ /\ mem[p]["price"][k] # None
                                     /\ SameDatum(e, mem[p]["price"][k]),
         layers[p] = {"disk"}  => \/ "disk" \in ls
                                  \/ /\ mem[p]["disk"][k] # None
                                     /\ SameDatum(e, mem[p]["disk"][k])
  PROVE  IInv'
  <1> USE ConstAssumption DEF IInv
  <1>a. /\ idx' \in [Proc -> Index \cup {None}]
        /\ bulk' \in Time \cup {None}
        /\ ClockOK'
    BY BulkKeeps DEF Fill
  <1>0. PICK f \in Entry : f = Served(e)
    BY DEF Served, New, Entry, TypeOK
  <1>1. /\ f.src = e.src /\ f.asOf = e.asOf /\ f.at = now
        /\ f # None
    BY <1>0 DEF Served, New, Entry
  <1>2. /\ UNCHANGED <<now, file, blank, pc, cred, layers, started>>
        /\ dirty' = [dirty EXCEPT ![p] = @ \cup ls]
        /\ answer' = [answer EXCEPT ![p][k] = f]
        /\ mem' = [mem EXCEPT ![p] = [l \in Layer |->
              IF l \in ls THEN [mem[p][l] EXCEPT ![k] = f] ELSE mem[p][l]]]
    BY <1>0 DEF Fill
  <1>3. \A q \in Proc, l \in Layer, j \in Key :
           mem'[q][l][j] = IF q = p /\ l \in ls /\ j = k THEN f
                           ELSE mem[q][l][j]
    BY <1>2 DEF TypeOK, Data
  <1>4. \A q \in Proc, j \in Key :
           answer'[q][j] = IF q = p /\ j = k THEN f ELSE answer[q][j]
    BY <1>2 DEF TypeOK, Data
  <1>5. TypeOK'
    <2>1. mem' \in [Proc -> [Layer -> Data]]
      BY <1>1, <1>2 DEF TypeOK, Data
    <2>2. answer' \in [Proc -> Data]
      BY <1>1, <1>2 DEF TypeOK, Data
    <2>3. dirty' \in [Proc -> SUBSET Layer]
      BY <1>2 DEF TypeOK
    <2> QED BY <1>a, <1>2, <2>1, <2>2, <2>3 DEF TypeOK
  <1>6. DiskProvenance'
    <2>1. DiskEntryOK(f)' \/ "disk" \notin ls
      BY <1>1, <1>2 DEF DiskEntryOK, TypeOK, Time
    <2>2. \A q \in Proc, j \in Key : DiskEntryOK(mem[q]["disk"][j])'
      BY <1>2, <1>3, <2>1 DEF DiskProvenance, DiskEntryOK, Layer
    <2>3. \A j \in Key : DiskEntryOK(file["disk"][j])'
      BY <1>2 DEF DiskProvenance, DiskEntryOK
    <2> QED BY <2>2, <2>3 DEF DiskProvenance
  <1>7. BoundedStaleness'
    BY <1>1, <1>2, <1>4 DEF BoundedStaleness
  <1>8. AnswersCached'
    <2> SUFFICES ASSUME NEW q \in Proc, NEW j \in Key, answer'[q][j] # None
                 PROVE  /\ pc'[q] # "idle"
                        /\ "price" \in layers'[q] =>
                              /\ mem'[q]["price"][j] # None
                              /\ SameDatum(answer'[q][j], mem'[q]["price"][j])
                        /\ layers'[q] = {"disk"} =>
                              /\ mem'[q]["disk"][j] # None
                              /\ SameDatum(answer'[q][j], mem'[q]["disk"][j])
      BY DEF AnswersCached, SameDatum
    <2>1. CASE q = p /\ j = k
      BY <1>1, <1>2, <1>3, <1>4, <2>1 DEF SameDatum, Layer
    <2>2. CASE ~(q = p /\ j = k)
      BY <1>2, <1>3, <1>4, <2>2 DEF AnswersCached, Layer
    <2> QED BY <2>1, <2>2
  <1> QED BY <1>a, <1>5, <1>6, <1>7, <1>8

\* Whichever layer or source answers the lookup, or none, the invariant holds.
LEMMA LookupKeeps ==
  ASSUME IInv, NEW p \in Proc, NEW k \in Key, Lookup(p, k)
  PROVE  IInv'
  <1> USE ConstAssumption
  <1>0. TypeOK /\ ClockOK /\ DiskProvenance /\ layers[p] \subseteq Layer
    BY DEF IInv, TypeOK
  <1>1. CASE ServePriceFile(p, k)
    <2> DEFINE e == mem[p]["price"][k]
    <2>1. e \in Entry /\ "price" \in layers[p] /\ pc[p] = "run" /\ e # None
      BY <1>0, <1>1 DEF ServePriceFile, Hit, TypeOK, Data, Layer
    <2>2. Fill(p, k, e, {}) /\ UNCHANGED <<bulk, idx, hit>>
      BY <1>1 DEF ServePriceFile
    <2>3. layers[p] # {"disk"} /\ SameDatum(e, mem[p]["price"][k])
      BY <2>1 DEF SameDatum
    <2>4. hit' \in [Proc -> BOOLEAN]
      BY <1>0, <2>2 DEF TypeOK
    <2> HIDE DEF e
    <2> QED BY <2>1, <2>2, <2>3, <2>4, FillKeeps DEF e
  <1>2. CASE ServeDisk(p, k)
    <2> DEFINE e == mem[p]["disk"][k]
    <2>1. e \in Entry /\ "disk" \in layers[p] /\ pc[p] = "run" /\ e # None
      BY <1>0, <1>2 DEF ServeDisk, Hit, TypeOK, Data, Layer
    <2>2. /\ Fill(p, k, e, layers[p] \ {"disk"}) /\ UNCHANGED <<bulk, idx, hit>>
          /\ Fresh(e)
      BY <1>2 DEF ServeDisk, Hit
    <2>3. SameDatum(e, mem[p]["disk"][k])
      BY DEF SameDatum
    <2>4. hit' \in [Proc -> BOOLEAN]
      BY <1>0, <2>2 DEF TypeOK
    <2>5. e.src \in Timed => now <= e.asOf + 2 * TTL + MaxRun
      BY <1>0, <2>1, <2>2 DEF DiskProvenance, DiskEntryOK, Fresh, TypeOK, Entry,
                              Time
    <2> QED BY <2>1, <2>2, <2>3, <2>4, <2>5, FillKeeps
  <1>3. ASSUME NEW src \in Source \ {"seed"}, NEW asOf \in Time,
               asOf <= now, src \in Timed => now <= asOf + TTL + MaxRun,
               Fill(p, k, New(src, asOf), layers[p]), pc[p] = "run",
               hit' \in [Proc -> BOOLEAN],
               \/ UNCHANGED <<idx, bulk>>
               \/ \E r \in Loads(p) :
                     idx' = [idx EXCEPT ![p] = r[1]] /\ bulk' = r[2]
        PROVE  IInv'
    <2>1. PICK e \in Entry : e = New(src, asOf)
      BY <1>0 DEF New, Entry, TypeOK
    <2>2. e.src = src /\ e.asOf = asOf
      BY <2>1 DEF New
    <2>3. now <= asOf + TTL + MaxRun => now <= asOf + 2 * TTL + MaxRun
      BY <1>0 DEF TypeOK, Time
    <2> QED BY <1>3, <2>1, <2>2, <2>3, FillKeeps
  <1>4. CASE FromBulk(p, k)
    <2>1. PICK r \in Loads(p) :
             /\ r[1] # None
             /\ idx' = [idx EXCEPT ![p] = r[1]] /\ bulk' = r[2]
             /\ Fill(p, k, New(IF r[1].stale THEN "staleBulk" ELSE "bulk",
                               r[1].asOf), layers[p])
      BY <1>4 DEF FromBulk
    <2>2. pc[p] = "run" /\ hit' \in [Proc -> BOOLEAN]
      BY <1>0, <1>4 DEF FromBulk, Missed, TypeOK
    <2>3. r[1] \in Index
      BY <1>0, <2>1, LoadsResult
    <2>4. /\ r[1].asOf \in Time /\ r[1].asOf <= now
          /\ ~r[1].stale => now <= r[1].asOf + TTL + MaxRun
      <3>1. CASE idx[p] = None
        BY <1>0, <2>1, <2>3, <3>1, LoadsResult DEF Index, TypeOK, Time
      <3>2. CASE idx[p] # None
        <4>1. r[1] = idx[p]
          BY <1>0, <2>1, <3>2, LoadsResult
        <4>2. /\ started[p] <= now /\ now <= started[p] + MaxRun
              /\ idx[p].asOf <= now
              /\ ~idx[p].stale => started[p] <= idx[p].asOf + TTL
          BY <1>0, <2>2, <3>2 DEF ClockOK
        <4> QED BY <1>0, <2>3, <4>1, <4>2 DEF TypeOK, Index, Time
      <3> QED BY <3>1, <3>2
    <2>5. CASE r[1].stale
      BY <1>3, <2>1, <2>2, <2>4, <2>5 DEF Source, Timed
    <2>6. CASE ~r[1].stale
      BY <1>3, <2>1, <2>2, <2>4, <2>6 DEF Source, Timed
    <2> QED BY <2>5, <2>6
  <1>b. ASSUME BulkErrs(p, k)
        PROVE  \/ UNCHANGED <<idx, bulk>>
               \/ \E r \in Loads(p) :
                     idx' = [idx EXCEPT ![p] = r[1]] /\ bulk' = r[2]
    BY <1>b DEF BulkErrs
  <1>5. CASE FromCatalog(p, k)
    <2>1. /\ pc[p] = "run" /\ BulkErrs(p, k) /\ hit' \in [Proc -> BOOLEAN]
          /\ Fill(p, k, New("catalog", 0), layers[p])
      BY <1>0, <1>5 DEF FromCatalog, Missed, TypeOK
    <2>2. 0 \in Time /\ 0 <= now /\ "catalog" \in Source \ {"seed"}
      BY <1>0 DEF Time, Source, TypeOK
    <2> QED BY <1>3, <1>b, <2>1, <2>2 DEF Timed
  <1>6. CASE FromClient(p, k)
    <2>1. /\ pc[p] = "run" /\ BulkErrs(p, k) /\ hit' \in [Proc -> BOOLEAN]
          /\ Fill(p, k, New("live", now), layers[p])
      BY <1>0, <1>6 DEF FromClient, AsksClient, Missed, TypeOK
    <2>2. now \in Time /\ now <= now + TTL + MaxRun /\ now <= now
      BY <1>0 DEF Time, TypeOK
    <2>3. "live" \in Source \ {"seed"}
      BY DEF Source
    <2> QED BY <1>3, <1>b, <2>1, <2>2, <2>3
  <1>7. CASE LookupFails(p, k)
    <2>1. /\ pc[p] = "run" /\ BulkErrs(p, k)
          /\ UNCHANGED <<now, file, blank, pc, cred, layers, mem, dirty, hit,
                         started, answer>>
      BY <1>7 DEF LookupFails, AsksClient, Missed
    <2>2. /\ idx' \in [Proc -> Index \cup {None}]
          /\ bulk' \in Time \cup {None}
          /\ ClockOK'
      BY <1>b, <2>1, BulkKeeps
    <2> QED BY <2>1, <2>2 DEF IInv, TypeOK, DiskProvenance, DiskEntryOK,
                              BoundedStaleness, AnswersCached, SameDatum
  <1> QED BY <1>1, <1>2, <1>4, <1>5, <1>6, <1>7 DEF Lookup

-----------------------------------------------------------------------------
(* The steps that end a run.                                               *)

\* A process that ends forgets what it knew; what it leaves in the files must
\* be well-typed and, in the disk cache, of good provenance.
LEMMA ClearKeeps ==
  ASSUME IInv, NEW p \in Proc, Clear(p), UNCHANGED <<now, bulk>>,
         file' \in [Layer -> Data], blank' \in SUBSET Layer,
         \A k \in Key : DiskEntryOK(file'["disk"][k])
  PROVE  IInv'
  <1> USE ConstAssumption DEF IInv
  <1>1. \A q \in Proc, k \in Key :
           /\ answer'[q][k] = IF q = p THEN None ELSE answer[q][k]
           /\ \A l \in Layer : mem'[q][l][k] = IF q = p THEN None
                                               ELSE mem[q][l][k]
    BY DEF Clear, TypeOK, Data, NoData
  <1>2. TypeOK'
    <2>1. NoData \in Data BY DEF NoData, Data
    <2>2. 0 \in Time BY DEF Time
    <2> QED BY <2>1, <2>2 DEF Clear, TypeOK
  <1>3. ClockOK'
    BY DEF Clear, ClockOK, TypeOK
  <1>4. DiskProvenance'
    BY <1>1 DEF DiskProvenance, DiskEntryOK, Layer
  <1>5. BoundedStaleness'
    BY <1>1 DEF BoundedStaleness, Clear, TypeOK
  <1>6. AnswersCached'
    BY <1>1 DEF AnswersCached, SameDatum, Clear, TypeOK, Layer
  <1> QED BY <1>2, <1>3, <1>4, <1>5, <1>6

\* The same for a process that goes on to save its next cacher.
LEMMA PcKeeps ==
  ASSUME IInv, NEW p \in Proc, NEW to \in Saving, pc[p] # "idle",
         pc' = [pc EXCEPT ![p] = to],
         UNCHANGED <<now, bulk, cred, layers, mem, dirty, idx, hit, started,
                     answer>>,
         file' \in [Layer -> Data], blank' \in SUBSET Layer,
         \A k \in Key : DiskEntryOK(file'["disk"][k])
  PROVE  IInv'
  <1> USE ConstAssumption DEF IInv
  <1>1. TypeOK'
    BY DEF TypeOK
  <1>2. ClockOK'
    BY DEF ClockOK, TypeOK, Saving
  <1>3. DiskProvenance'
    BY DEF DiskProvenance, DiskEntryOK
  <1>4. BoundedStaleness'
    BY DEF BoundedStaleness
  <1>5. AnswersCached'
    BY DEF AnswersCached, SameDatum, TypeOK, Saving
  <1> QED BY <1>1, <1>2, <1>3, <1>4, <1>5

LEMMA SaveKeeps ==
  ASSUME IInv, NEW p \in Proc, NEW l \in Layer, Save(p, l)
  PROVE  IInv'
  <1> USE ConstAssumption
  <1>0. TypeOK /\ DiskProvenance
    BY DEF IInv
  <1>1. ASSUME Advance(p, l), UNCHANGED <<now, bulk>>, pc[p] # "idle",
               file' \in [Layer -> Data], blank' \in SUBSET Layer,
               \A k \in Key : DiskEntryOK(file'["disk"][k])
        PROVE  IInv'
    <2>1. CASE l = "disk"
      BY <1>1, <2>1, PcKeeps DEF Advance, Saving
    <2>2. CASE l # "disk"
      BY <1>1, <2>2, ClearKeeps DEF Advance
    <2> QED BY <2>1, <2>2
  <1>2. SaveAt[l] \notin {"idle"} /\ WriteAt[l] \notin {"idle"}
        /\ SaveAt[l] \in Saving /\ WriteAt[l] \in Saving
    BY DEF SaveAt, WriteAt, Layer, Saving
  <1>3. /\ file \in [Layer -> Data] /\ blank \in SUBSET Layer
        /\ mem[p][l] \in Data /\ NoData \in Data
        /\ \A k \in Key : DiskEntryOK(file["disk"][k])
        /\ \A k \in Key : DiskEntryOK(mem[p]["disk"][k])
        /\ \A k \in Key : DiskEntryOK(NoData[k])
    BY <1>0 DEF TypeOK, DiskProvenance, NoData, DiskEntryOK, Data
  <1>4. ASSUME NEW d \in {mem[p][l], NoData}, file' = [file EXCEPT ![l] = d]
        PROVE  /\ file' \in [Layer -> Data]
               /\ \A k \in Key : DiskEntryOK(file'["disk"][k])
    <2>1. file' \in [Layer -> Data]
      BY <1>3, <1>4
    <2>2. file'["disk"] = IF l = "disk" THEN d ELSE file["disk"]
      BY <1>3, <1>4 DEF Layer
    <2> QED BY <1>3, <2>1, <2>2
  <1>5. CASE SkipSave(p, l)
    BY <1>1, <1>2, <1>3, <1>5 DEF SkipSave
  <1>6. CASE SaveFails(p, l)
    BY <1>1, <1>2, <1>3, <1>6 DEF SaveFails
  <1>7. CASE Truncate(p, l)
    <2>1. /\ pc[p] # "idle" /\ pc' = [pc EXCEPT ![p] = WriteAt[l]]
          /\ file' = [file EXCEPT ![l] = NoData] /\ blank' \in SUBSET Layer
          /\ UNCHANGED <<now, bulk, cred, layers, mem, dirty, idx, hit, started,
                         answer>>
      BY <1>2, <1>3, <1>7 DEF Truncate
    <2> QED BY <1>2, <1>4, <2>1, PcKeeps
  <1>8. CASE Write(p, l)
    <2>1. PICK d \in {mem[p][l], NoData} : file' = [file EXCEPT ![l] = d]
      BY <1>8 DEF Write
    <2>2. /\ pc[p] # "idle" /\ Advance(p, l) /\ UNCHANGED <<now, bulk>>
          /\ blank' \in SUBSET Layer
      BY <1>2, <1>3, <1>8 DEF Write
    <2> QED BY <1>1, <1>4, <2>1, <2>2
  <1> QED BY <1>5, <1>6, <1>7, <1>8 DEF Save

LEMMA StartKeeps ==
  ASSUME IInv, NEW p \in Proc, Start(p)
  PROVE  IInv'
  <1> USE ConstAssumption DEF IInv
  <1>1. PICK c \in BOOLEAN, ls \in Flags :
           /\ cred' = [cred EXCEPT ![p] = c]
           /\ layers' = [layers EXCEPT ![p] = ls]
           /\ mem' = [mem EXCEPT ![p] =
                         [l \in Layer |-> IF l \in ls THEN file[l] ELSE NoData]]
    BY DEF Start
  <1>2. /\ pc[p] = "idle" /\ pc' = [pc EXCEPT ![p] = "run"]
        /\ started' = [started EXCEPT ![p] = now]
        /\ UNCHANGED <<now, file, blank, bulk, dirty, idx, hit, answer>>
    BY DEF Start
  <1>3. /\ NoData \in Data /\ ls \in SUBSET Layer
        /\ \A k \in Key : DiskEntryOK(NoData[k])
    BY DEF NoData, Data, DiskEntryOK
  <1>4. \A k \in Key : answer[p][k] = None
    BY <1>2 DEF AnswersCached
  <1>5. TypeOK'
    BY <1>1, <1>2, <1>3 DEF TypeOK
  <1>6. ClockOK'
    <2>1. idx[p] = None
      BY <1>2 DEF ClockOK
    <2> QED BY <1>2, <2>1 DEF ClockOK, TypeOK, Time
  <1>7. DiskProvenance'
    <2>1. \A q \in Proc, k \in Key :
             mem'[q]["disk"][k] = IF q # p THEN mem[q]["disk"][k]
                                  ELSE IF "disk" \in ls THEN file["disk"][k]
                                  ELSE None
      BY <1>1 DEF TypeOK, Layer, NoData
    <2> QED BY <1>2, <2>1 DEF DiskProvenance, DiskEntryOK
  <1>8. BoundedStaleness'
    BY <1>1, <1>2, <1>4 DEF BoundedStaleness, TypeOK
  <1>9. AnswersCached'
    <2> SUFFICES ASSUME NEW q \in Proc, NEW k \in Key, answer'[q][k] # None
                 PROVE  /\ q # p
                        /\ mem'[q] = mem[q] /\ layers'[q] = layers[q]
                        /\ pc'[q] = pc[q]
      BY <1>2 DEF AnswersCached, SameDatum
    <2> QED BY <1>1, <1>2, <1>4 DEF TypeOK
  <1> QED BY <1>5, <1>6, <1>7, <1>8, <1>9

LEMMA TickKeeps ==
  ASSUME IInv, Tick
  PROVE  IInv'
  <1> USE ConstAssumption DEF IInv, Tick, files, local
  <1>1. TypeOK' /\ now \in Nat
    BY DEF TypeOK, Time
  <1>2. ClockOK'
    BY <1>1 DEF ClockOK, TypeOK, Time, Index
  <1>3. DiskProvenance'
    <2>1. ASSUME NEW e \in Entry, e.at <= now
          PROVE  e.at <= now'
      BY <1>1, <2>1 DEF Entry, Time
    <2>2. \A k \in Key : /\ file["disk"][k] \in Entry \cup {None}
                         /\ \A p \in Proc : mem[p]["disk"][k] \in Entry \cup {None}
      BY DEF TypeOK, Data, Layer
    <2> QED BY <2>1, <2>2 DEF DiskProvenance, DiskEntryOK
  <1>4. BoundedStaleness' /\ AnswersCached'
    BY DEF BoundedStaleness, AnswersCached, SameDatum
  <1> QED BY <1>1, <1>2, <1>3, <1>4

-----------------------------------------------------------------------------
(* The invariant is inductive.                                             *)

LEMMA InitIInv == Init => IInv
  <1> SUFFICES ASSUME Init PROVE IInv
    OBVIOUS
  <1> USE ConstAssumption
  <1>1. PICK s \in Seeds :
           /\ file  = [l \in Layer |-> IF l = "price" THEN s ELSE NoData]
           /\ blank = IF s = NoData THEN Layer ELSE {"disk"}
    BY DEF Init
  <1>2. NoData \in Data /\ s \in Data /\ 0 \in Time /\ now = 0
    BY SeedType DEF NoData, Data, Time, Init
  <1>3. TypeOK
    BY <1>1, <1>2 DEF Init, TypeOK, Layer
  <1>4. ClockOK
    BY DEF Init, ClockOK
  <1>5. DiskProvenance
    BY <1>1 DEF Init, DiskProvenance, DiskEntryOK, NoData, Layer
  <1>6. BoundedStaleness /\ AnswersCached
    BY DEF Init, BoundedStaleness, AnswersCached, NoData
  <1> QED BY <1>3, <1>4, <1>5, <1>6 DEF IInv

LEMMA NextIInv == IInv /\ [Next]_vars => IInv'
  <1> SUFFICES ASSUME IInv, [Next]_vars PROVE IInv'
    OBVIOUS
  <1>1. ASSUME NEW p \in Proc, Start(p) PROVE IInv'
    BY <1>1, StartKeeps
  <1>2. ASSUME NEW p \in Proc, Report(p) PROVE IInv'
    BY <1>2, PcKeeps DEF Report, Saving, IInv, TypeOK, DiskProvenance
  <1>3. ASSUME NEW p \in Proc, Crash(p) PROVE IInv'
    BY <1>3, ClearKeeps DEF Crash, IInv, TypeOK, DiskProvenance
  <1>4. ASSUME NEW p \in Proc, NEW k \in Key, Lookup(p, k) PROVE IInv'
    BY <1>4, LookupKeeps
  <1>5. ASSUME NEW p \in Proc, NEW l \in Layer, Save(p, l) PROVE IInv'
    BY <1>5, SaveKeeps
  <1>6. CASE Tick
    BY <1>6, TickKeeps
  <1>7. CASE UNCHANGED vars
    BY <1>7 DEF vars, IInv, TypeOK, ClockOK, DiskProvenance, DiskEntryOK,
                BoundedStaleness, AnswersCached, SameDatum
  <1> QED BY <1>1, <1>2, <1>3, <1>4, <1>5, <1>6, <1>7 DEF Next

-----------------------------------------------------------------------------
(* Where a catalog price comes from when the run has not asked the catalog. *)

\* A layer of the chain was loaded with the catalog's price of k.
Inherits(p, l, k) == /\ mem[p][l][k] # None
                     /\ mem[p][l][k].src = "catalog"
                     /\ mem[p][l][k].at <= started[p]
Inherited(p, k) == \E l \in layers[p] : Inherits(p, l, k)

FromCat(e) == e # None /\ e.src = "catalog"

Origins ==
    /\ \A l \in Layer, k \in Key : file[l][k] # None => file[l][k].at <= now
    /\ \A p \in Proc, l \in Layer, k \in Key :
          mem[p][l][k] # None => l \in layers[p] /\ mem[p][l][k].at <= now
    /\ \A p \in Proc, k \in Key :
          (~hit[p] /\ (FromCat(answer[p][k]) \/ \E l \in Layer : FromCat(mem[p][l][k])))
          => Inherited(p, k)

\* An answer that is stored keeps the catalog's prices accounted for, if the
\* run has counted a hit, or an inherited price of the key stays, or there is
\* none and the answer is not one.
LEMMA FillOrigins ==
  ASSUME TypeOK, Origins, NEW p \in Proc, NEW k \in Key, NEW e \in Entry,
         NEW ls \in SUBSET layers[p], Fill(p, k, e, ls),
         hit' \in [Proc -> BOOLEAN], \A q \in Proc \ {p} : hit'[q] = hit[q],
         ~hit'[p] => /\ ~hit[p]
                     /\ \/ \E l \in layers[p] \ ls : Inherits(p, l, k)
                        \/ /\ e.src # "catalog"
                           /\ \A l \in layers[p] \ ls : ~FromCat(mem[p][l][k])
  PROVE  Origins'
  <1> USE ConstAssumption
  <1>0. PICK f \in Entry : f = Served(e)
    BY DEF Served, New, Entry, TypeOK
  <1>1. f.src = e.src /\ f.at = now /\ f # None
    BY <1>0 DEF Served, New, Entry
  <1>2. /\ UNCHANGED <<now, file, layers, started>>
        /\ answer' = [answer EXCEPT ![p][k] = f]
        /\ mem' = [mem EXCEPT ![p] = [l \in Layer |->
              IF l \in ls THEN [mem[p][l] EXCEPT ![k] = f] ELSE mem[p][l]]]
    BY <1>0 DEF Fill
  <1>3. \A q \in Proc, l \in Layer, j \in Key :
           mem'[q][l][j] = IF q = p /\ l \in ls /\ j = k THEN f
                           ELSE mem[q][l][j]
    BY <1>2 DEF TypeOK, Data
  <1>4. \A q \in Proc, j \in Key :
           answer'[q][j] = IF q = p /\ j = k THEN f ELSE answer[q][j]
    BY <1>2 DEF TypeOK, Data
  <1>5. layers[p] \subseteq Layer /\ \A q \in Proc : layers[q] \subseteq Layer
    BY DEF TypeOK
  <1>6. \A q \in Proc, l \in Layer, j \in Key :
           mem'[q][l][j] # None => l \in layers'[q] /\ mem'[q][l][j].at <= now'
    <2>1. now <= now
      BY DEF TypeOK, Time
    <2> QED BY <1>1, <1>2, <1>3, <2>1 DEF Origins
  <1>7. ASSUME NEW q \in Proc, NEW j \in Key, ~hit'[q],
               FromCat(answer'[q][j]) \/ \E l \in Layer : FromCat(mem'[q][l][j])
        PROVE  \E l \in layers[q] : /\ mem'[q][l][j] # None
                                    /\ mem'[q][l][j].src = "catalog"
                                    /\ mem'[q][l][j].at <= started[q]
    <2>1. CASE q = p /\ j = k
      <3>1. CASE \E l \in layers[p] \ ls : Inherits(p, l, k)
        BY <1>3, <1>5, <2>1, <3>1 DEF Inherits
      <3>2. CASE /\ e.src # "catalog"
                 /\ \A l \in layers[p] \ ls : ~FromCat(mem[p][l][k])
        <4>1. ~FromCat(answer'[p][k])
          BY <1>1, <1>4, <3>2 DEF FromCat
        <4>2. ASSUME NEW l \in Layer PROVE ~FromCat(mem'[p][l][k])
          <5>1. CASE l \in ls
            BY <1>1, <1>3, <3>2, <5>1 DEF FromCat
          <5>2. CASE l \notin ls
            BY <1>3, <3>2, <5>2 DEF FromCat, Origins
          <5> QED BY <5>1, <5>2
        <4> QED BY <1>7, <2>1, <4>1, <4>2
      <3> QED BY <1>7, <2>1, <3>1, <3>2
    <2>2. CASE ~(q = p /\ j = k)
      <3>1. ~hit[q]
        BY <1>7
      <3>2. answer'[q][j] = answer[q][j] /\ \A l \in Layer : mem'[q][l][j] = mem[q][l][j]
        BY <1>3, <1>4, <2>2
      <3>3. Inherited(q, j)
        BY <1>7, <3>1, <3>2 DEF Origins
      <3> QED BY <1>5, <3>2, <3>3 DEF Inherited, Inherits
    <2> QED BY <2>1, <2>2
  <1>8. \A l \in Layer, j \in Key : file'[l][j] # None => file'[l][j].at <= now'
    BY <1>2 DEF Origins
  <1>9. \A q \in Proc, j \in Key :
          (~hit'[q] /\ (FromCat(answer'[q][j]) \/ \E l \in Layer : FromCat(mem'[q][l][j])))
          => \E l \in layers'[q] : /\ mem'[q][l][j] # None
                                   /\ mem'[q][l][j].src = "catalog"
                                   /\ mem'[q][l][j].at <= started'[q]
    BY <1>2, <1>7
  <1> QED BY <1>6, <1>8, <1>9 DEF Origins, Inherited, Inherits, FromCat

LEMMA LookupOrigins ==
  ASSUME IInv, Origins, NEW p \in Proc, NEW k \in Key, Lookup(p, k)
  PROVE  Origins'
  <1> USE ConstAssumption
  <1>0. TypeOK /\ ClockOK /\ layers[p] \subseteq Layer
    BY DEF IInv, TypeOK
  <1>1. \A l \in layers[p] : FromCat(mem[p][l][k]) /\ ~hit[p] => Inherited(p, k)
    BY <1>0 DEF Origins
  <1>2. CASE ServePriceFile(p, k)
    <2> DEFINE e == mem[p]["price"][k]
    <2>1. e \in Entry /\ "price" \in layers[p] /\ e # None
      BY <1>0, <1>2 DEF ServePriceFile, Hit, TypeOK, Data, Layer
    <2>2. Fill(p, k, e, {}) /\ hit' = hit /\ hit' \in [Proc -> BOOLEAN]
      BY <1>0, <1>2 DEF ServePriceFile, TypeOK
    <2>3. ~hit[p] => \/ \E l \in layers[p] \ {} : Inherits(p, l, k)
                     \/ /\ e.src # "catalog"
                        /\ \A l \in layers[p] \ {} : ~FromCat(mem[p][l][k])
      BY <1>1, <2>1 DEF Inherited, FromCat
    <2> HIDE DEF e
    <2> QED BY <1>0, <2>1, <2>2, <2>3, FillOrigins
  <1>3. CASE ServeDisk(p, k)
    <2> DEFINE e == mem[p]["disk"][k]
    <2>1. /\ e \in Entry /\ "disk" \in layers[p] /\ e # None
          /\ "price" \in layers[p] => mem[p]["price"][k] = None
      BY <1>0, <1>3 DEF ServeDisk, Hit, TypeOK, Data, Layer
    <2>2. Fill(p, k, e, layers[p] \ {"disk"}) /\ hit' = hit /\ hit' \in [Proc -> BOOLEAN]
      BY <1>0, <1>3 DEF ServeDisk, TypeOK
    <2> DEFINE ls == layers[p] \ {"disk"}
    <2>3. ~hit[p] => \/ \E l \in layers[p] \ ls : Inherits(p, l, k)
                     \/ /\ e.src # "catalog"
                        /\ \A l \in layers[p] \ ls : ~FromCat(mem[p][l][k])
      <3>1. CASE e.src = "catalog"
        <4>1. ~hit[p] => \E l \in layers[p] : Inherits(p, l, k)
          BY <1>1, <2>1, <3>1 DEF Inherited, FromCat
        <4>2. \A l \in layers[p] : Inherits(p, l, k) => l = "disk"
          BY <1>0, <2>1 DEF Inherits, Layer
        <4> QED BY <2>1, <4>1, <4>2
      <3>2. CASE e.src # "catalog"
        <4>1. \A l \in layers[p] \ ls : l = "disk"
          OBVIOUS
        <4> QED BY <3>2, <4>1 DEF FromCat
      <3> QED BY <3>1, <3>2
    <2>4. ls \in SUBSET layers[p]
      OBVIOUS
    <2> HIDE DEF e, ls
    <2>5. Fill(p, k, e, ls)
      BY <2>2 DEF ls
    <2> QED BY <1>0, <2>1, <2>2, <2>3, <2>4, <2>5, FillOrigins
  <1>4. ASSUME NEW src \in Source, NEW asOf \in Time,
               Fill(p, k, New(src, asOf), layers[p]), hit' \in [Proc -> BOOLEAN],
               \A q \in Proc \ {p} : hit'[q] = hit[q],
               hit'[p] \/ (hit'[p] = hit[p] /\ src # "catalog")
        PROVE  Origins'
    <2>1. PICK e \in Entry : e = New(src, asOf)
      BY <1>0 DEF New, Entry, TypeOK
    <2>2. e.src = src
      BY <2>1 DEF New
    <2> QED BY <1>0, <1>4, <2>1, <2>2, FillOrigins
  <1>5. CASE FromBulk(p, k)
    <2>1. PICK r \in Loads(p) :
             /\ r[1] # None
             /\ Fill(p, k, New(IF r[1].stale THEN "staleBulk" ELSE "bulk",
                               r[1].asOf), layers[p])
      BY <1>5 DEF FromBulk
    <2>2. r[1] \in Index
      BY <1>0, <2>1, LoadsResult
    <2>3. r[1].asOf \in Time /\ hit' = hit /\ hit' \in [Proc -> BOOLEAN]
      BY <1>0, <1>5, <2>2 DEF FromBulk, TypeOK, Index
    <2> DEFINE src == IF r[1].stale THEN "staleBulk" ELSE "bulk"
    <2>4. src \in Source /\ src # "catalog"
      BY DEF Source
    <2>5. Fill(p, k, New(src, r[1].asOf), layers[p])
      BY <2>1
    <2> HIDE DEF src
    <2> QED BY <1>4, <2>3, <2>4, <2>5
  <1>6. CASE FromCatalog(p, k)
    <2>1. /\ Fill(p, k, New("catalog", 0), layers[p]) /\ hit' = [hit EXCEPT ![p] = TRUE]
          /\ "catalog" \in Source /\ 0 \in Time /\ hit \in [Proc -> BOOLEAN]
      BY <1>0, <1>6 DEF FromCatalog, Source, Time, TypeOK
    <2>2. hit'[p] /\ (\A q \in Proc \ {p} : hit'[q] = hit[q]) /\ hit' \in [Proc -> BOOLEAN]
      BY <2>1
    <2> QED BY <1>4, <2>1, <2>2
  <1>7. CASE FromClient(p, k)
    <2>1. /\ Fill(p, k, New("live", now), layers[p]) /\ hit' = hit
          /\ "live" \in Source /\ now \in Time /\ hit' \in [Proc -> BOOLEAN]
      BY <1>0, <1>7 DEF FromClient, Source, TypeOK
    <2> QED BY <1>4, <2>1
  <1>8. CASE LookupFails(p, k)
    BY <1>8 DEF LookupFails, Origins, Inherited, Inherits, FromCat
  <1> QED BY <1>2, <1>3, <1>5, <1>6, <1>7, <1>8 DEF Lookup

\* What a run leaves in its files was stamped by now, and a run that ends
\* leaves nothing to account for.
LEMMA ClearOrigins ==
  ASSUME TypeOK, Origins, NEW p \in Proc, Clear(p), UNCHANGED now,
         \A l \in Layer, k \in Key : file'[l][k] # None => file'[l][k].at <= now
  PROVE  Origins'
  <1>1. \A q \in Proc, k \in Key :
           /\ answer'[q][k] = IF q = p THEN None ELSE answer[q][k]
           /\ \A l \in Layer : mem'[q][l][k] = IF q = p THEN None ELSE mem[q][l][k]
    BY DEF Clear, TypeOK, Data, NoData
  <1>2. \A q \in Proc \ {p} : /\ hit'[q] = hit[q] /\ started'[q] = started[q]
                              /\ layers'[q] = layers[q] /\ layers[q] \subseteq Layer
    BY DEF Clear, TypeOK
  <1>3. \A q \in Proc, l \in Layer, k \in Key :
           mem'[q][l][k] # None => l \in layers'[q] /\ mem'[q][l][k].at <= now'
    BY <1>1, <1>2 DEF Origins
  <1>4. ASSUME NEW q \in Proc, NEW k \in Key, ~hit'[q],
               FromCat(answer'[q][k]) \/ \E l \in Layer : FromCat(mem'[q][l][k])
        PROVE  \E l \in layers'[q] : /\ mem'[q][l][k] # None
                                     /\ mem'[q][l][k].src = "catalog"
                                     /\ mem'[q][l][k].at <= started'[q]
    <2>1. q # p
      BY <1>1, <1>4 DEF FromCat
    <2>2. Inherited(q, k)
      BY <1>1, <1>2, <1>4, <2>1 DEF Origins
    <2> QED BY <1>1, <1>2, <2>1, <2>2 DEF Inherited, Inherits
  <1> QED BY <1>3, <1>4 DEF Origins, Inherited, Inherits, FromCat

LEMMA SaveOrigins ==
  ASSUME TypeOK, Origins, NEW p \in Proc, NEW l \in Layer, Save(p, l)
  PROVE  Origins'
  <1>1. now' = now
    BY DEF Save, SkipSave, SaveFails, Truncate, Write
  <1>2. \A m \in Layer, k \in Key : file'[m][k] # None => file'[m][k].at <= now
    <2>1. file' = file \/ \E d \in {mem[p][l], NoData} : file' = [file EXCEPT ![l] = d]
      BY DEF Save, SkipSave, SaveFails, Truncate, Write
    <2>2. ASSUME NEW d \in {mem[p][l], NoData}, file' = [file EXCEPT ![l] = d],
                 NEW m \in Layer, NEW k \in Key, file'[m][k] # None
          PROVE  file'[m][k].at <= now
      <3>1. file'[m] = IF m = l THEN d ELSE file[m]
        BY <2>2 DEF TypeOK
      <3> QED BY <2>2, <3>1 DEF Origins, NoData
    <2> QED BY <2>1, <2>2 DEF Origins
  <1>3. CASE Clear(p)
    BY <1>1, <1>2, <1>3, ClearOrigins
  <1>4. CASE UNCHANGED <<layers, mem, hit, started, answer>>
    BY <1>1, <1>2, <1>4 DEF Origins, Inherited, Inherits, FromCat
  <1> QED BY <1>3, <1>4 DEF Save, SkipSave, SaveFails, Truncate, Write, Advance

LEMMA StartOrigins ==
  ASSUME IInv, Origins, NEW p \in Proc, Start(p)
  PROVE  Origins'
  <1> USE ConstAssumption
  <1>1. PICK ls \in Flags :
           /\ layers' = [layers EXCEPT ![p] = ls]
           /\ mem' = [mem EXCEPT ![p] =
                         [l \in Layer |-> IF l \in ls THEN file[l] ELSE NoData]]
    BY DEF Start
  <1>2. /\ pc[p] = "idle" /\ started' = [started EXCEPT ![p] = now]
        /\ UNCHANGED <<now, file, hit, answer>>
    BY DEF Start
  <1>3. TypeOK /\ ls \subseteq Layer /\ \A k \in Key : answer[p][k] = None
    BY <1>2 DEF IInv, AnswersCached
  <1>4. /\ layers'[p] = ls /\ started'[p] = now
        /\ \A q \in Proc \ {p} : /\ layers'[q] = layers[q] /\ mem'[q] = mem[q]
                                 /\ started'[q] = started[q] /\ layers[q] \subseteq Layer
    BY <1>1, <1>2, <1>3 DEF TypeOK
  <1>5. \A l \in Layer, k \in Key :
           mem'[p][l][k] = IF l \in ls THEN file[l][k] ELSE None
    BY <1>1, <1>3 DEF TypeOK, NoData
  <1>6. \A q \in Proc, l \in Layer, k \in Key :
           mem'[q][l][k] # None => l \in layers'[q] /\ mem'[q][l][k].at <= now'
    BY <1>2, <1>4, <1>5 DEF Origins
  <1>7. ASSUME NEW q \in Proc, NEW k \in Key, ~hit'[q],
               FromCat(answer'[q][k]) \/ \E l \in Layer : FromCat(mem'[q][l][k])
        PROVE  \E l \in layers'[q] : /\ mem'[q][l][k] # None
                                     /\ mem'[q][l][k].src = "catalog"
                                     /\ mem'[q][l][k].at <= started'[q]
    <2>1. CASE q = p
      <3>1. PICK l \in Layer : FromCat(mem'[p][l][k])
        BY <1>2, <1>3, <1>7, <2>1 DEF FromCat
      <3>2. l \in ls /\ mem'[p][l][k].at <= now
        BY <1>2, <1>4, <1>6, <3>1 DEF FromCat
      <3> QED BY <1>4, <2>1, <3>1, <3>2 DEF FromCat
    <2>2. CASE q # p
      <3>1. Inherited(q, k)
        BY <1>2, <1>4, <1>7, <2>2 DEF Origins
      <3> QED BY <1>4, <2>2, <3>1 DEF Inherited, Inherits
    <2> QED BY <2>1, <2>2
  <1>8. \A l \in Layer, k \in Key : file'[l][k] # None => file'[l][k].at <= now'
    BY <1>2 DEF Origins
  <1> QED BY <1>6, <1>7, <1>8 DEF Origins, Inherited, Inherits, FromCat

LEMMA InitOrigins == Init => Origins
  <1> SUFFICES ASSUME Init PROVE Origins
    OBVIOUS
  <1>1. PICK s \in Seeds : file = [l \in Layer |-> IF l = "price" THEN s ELSE NoData]
    BY DEF Init
  <1>2. \A l \in Layer, k \in Key : file[l][k] # None => file[l][k].at = 0
    BY <1>1 DEF Seeds, NoData
  <1>3. /\ now = 0 /\ \A p \in Proc, k \in Key :
              answer[p][k] = None /\ \A l \in Layer : mem[p][l][k] = None
    BY DEF Init, NoData
  <1> QED BY <1>2, <1>3 DEF Origins, FromCat

LEMMA NextOrigins == IInv /\ Origins /\ [Next]_vars => Origins'
  <1> SUFFICES ASSUME IInv, Origins, [Next]_vars PROVE Origins'
    OBVIOUS
  <1>0. TypeOK
    BY DEF IInv
  <1>1. ASSUME NEW p \in Proc, Start(p) PROVE Origins'
    BY <1>1, StartOrigins
  <1>2. ASSUME NEW p \in Proc, Report(p) PROVE Origins'
    BY <1>2 DEF Report, Origins, Inherited, Inherits, FromCat
  <1>3. ASSUME NEW p \in Proc, Crash(p) PROVE Origins'
    <2>1. Clear(p) /\ now' = now /\ file' = file
      BY <1>3 DEF Crash
    <2> QED BY <1>0, <2>1, ClearOrigins DEF Origins
  <1>4. ASSUME NEW p \in Proc, NEW k \in Key, Lookup(p, k) PROVE Origins'
    BY <1>4, LookupOrigins
  <1>5. ASSUME NEW p \in Proc, NEW l \in Layer, Save(p, l) PROVE Origins'
    BY <1>0, <1>5, SaveOrigins
  <1>6. CASE Tick
    <2>1. /\ UNCHANGED <<file, layers, mem, hit, started, answer>>
          /\ now \in Nat /\ now' = now + 1
      BY <1>0, <1>6, ConstAssumption DEF Tick, files, local, TypeOK, Time
    <2>2. \A e \in Entry : e.at <= now => e.at <= now'
      BY <2>1 DEF Entry, Time
    <2>3. \A l \in Layer, k \in Key :
             /\ file[l][k] \in Entry \cup {None}
             /\ \A p \in Proc : mem[p][l][k] \in Entry \cup {None}
      BY <1>0 DEF TypeOK, Data
    <2>4. \A l \in Layer, k \in Key : file'[l][k] # None => file'[l][k].at <= now'
      BY <2>1, <2>2, <2>3 DEF Origins
    <2>5. \A p \in Proc, l \in Layer, k \in Key :
             mem'[p][l][k] # None => l \in layers'[p] /\ mem'[p][l][k].at <= now'
      BY <2>1, <2>2, <2>3 DEF Origins
    <2>6. \A p \in Proc, k \in Key : Inherited(p, k) => Inherited(p, k)'
      BY <2>1 DEF Inherited, Inherits
    <2> QED BY <2>1, <2>4, <2>5, <2>6 DEF Origins, FromCat
  <1>7. CASE UNCHANGED vars
    BY <1>7 DEF vars, Origins, Inherited, Inherits, FromCat
  <1> QED BY <1>1, <1>2, <1>3, <1>4, <1>5, <1>6, <1>7 DEF Next

-----------------------------------------------------------------------------
(* The theorems.                                                           *)

\* Type correctness of the whole chain.
THEOREM TypeCorrect == Spec => []TypeOK
  <1>1. IInv => TypeOK
    BY DEF IInv
  <1> QED BY <1>1, InitIInv, NextIInv, PTL DEF Spec

\* Every entry of the disk cache, in memory or in prices.json, came from below
\* the cache and was at most one TTL and one run old when it was stamped.
THEOREM DiskCacheProvenance == Spec => []DiskProvenance
  <1>1. IInv => DiskProvenance
    BY DEF IInv
  <1> QED BY <1>1, InitIInv, NextIInv, PTL DEF Spec

\* Without a price file no live or downloaded price is reported more than two
\* TTLs and one run after it was obtained, however many processes run.
THEOREM Staleness == Spec => []BoundedStaleness
  <1>1. IInv => BoundedStaleness
    BY DEF IInv
  <1> QED BY <1>1, InitIInv, NextIInv, PTL DEF Spec

\* The price of a key never drifts within a run that caches it.
THEOREM Stability == Spec => StableWithinRun
  <1> DEFINE Drift == \A p \in Proc, k \in Key :
         (pc[p] = "run" /\ pc'[p] = "run" /\ answer[p][k] # None)
         => \/ SameDatum(answer[p][k], answer'[p][k])
            \/ layers[p] = {}
            \/ layers[p] = {"disk"} /\ ~Fresh(mem[p]["disk"][k])
  <1>1. IInv /\ [Next]_vars => [Drift]_vars
    <2> SUFFICES ASSUME IInv, Next, NEW p \in Proc, NEW k \in Key,
                        pc[p] = "run", pc'[p] = "run", answer[p][k] # None,
                        layers[p] # {},
                        ~(layers[p] = {"disk"} /\ ~Fresh(mem[p]["disk"][k]))
                 PROVE  SameDatum(answer[p][k], answer'[p][k])
      OBVIOUS
    <2>1. CASE answer'[p][k] = answer[p][k]
      BY <2>1 DEF SameDatum
    <2>2. CASE answer'[p][k] # answer[p][k]
      <3>1. TypeOK /\ layers[p] \in SUBSET Layer
        BY DEF IInv, TypeOK
      <3>2. PICK q \in Proc, j \in Key : Lookup(q, j) /\ ~LookupFails(q, j)
        <4>1. ASSUME NEW q \in Proc, Clear(q), pc[q] # "run" \/ q = p
              PROVE  FALSE
          BY <2>2, <3>1, <4>1 DEF Clear, TypeOK
        <4>2. ASSUME NEW q \in Proc, NEW l \in Layer, Save(q, l)
              PROVE  FALSE
          <5>1. pc[q] # "run"
            BY <4>2 DEF Save, SkipSave, Truncate, Write, SaveFails, SaveAt,
                        WriteAt, Layer
          <5> QED BY <2>2, <4>1, <4>2, <5>1 DEF Save, SkipSave, Truncate,
                                                Write, SaveFails, Advance
        <4>3. ASSUME NEW q \in Proc, Crash(q) PROVE FALSE
          BY <2>2, <3>1, <4>3 DEF Crash, Clear, TypeOK
        <4> QED BY <2>2, <4>2, <4>3 DEF Next, Start, Report, Tick, local,
                                        LookupFails
      <3>3. PICK e, ls : Fill(q, j, e, ls)
        BY <3>2 DEF Lookup, ServePriceFile, ServeDisk, FromBulk, FromCatalog,
                    FromClient
      <3>4. q = p /\ j = k
        BY <2>2, <3>1, <3>3 DEF Fill, TypeOK, Data
      <3>5. /\ "price" \in layers[p] => /\ mem[p]["price"][k] # None
                                        /\ Hit(p, "price", k)
            /\ layers[p] = {"disk"} => Hit(p, "disk", k)
            /\ "price" \in layers[p] \/ layers[p] = {"disk"}
        BY <3>1 DEF IInv, AnswersCached, Hit, Layer
      <3>6. ServePriceFile(p, k) \/ ServeDisk(p, k)
        <4>1. ~Missed(p, k)
          BY <3>5 DEF Missed, Layer
        <4> QED BY <3>2, <3>4, <4>1 DEF Lookup, FromBulk, FromCatalog,
                                        FromClient, AsksClient
      <3>7. ASSUME NEW l \in Layer, NEW es,
                   SameDatum(answer[p][k], mem[p][l][k]),
                   Fill(p, k, mem[p][l][k], es)
            PROVE  SameDatum(answer[p][k], answer'[p][k])
        <4>1. answer'[p][k] = Served(mem[p][l][k])
          BY <3>1, <3>7 DEF Fill, TypeOK, Data
        <4> QED BY <3>7, <4>1 DEF Served, New, SameDatum
      <3>8. CASE ServePriceFile(p, k)
        <4>1. "price" \in layers[p]
          BY <3>8 DEF ServePriceFile, Hit
        <4> QED BY <3>7, <3>8, <4>1 DEF ServePriceFile, IInv, AnswersCached,
                                        Layer
      <3>9. CASE ServeDisk(p, k)
        <4>1. layers[p] = {"disk"}
          BY <3>5, <3>9 DEF ServeDisk
        <4>2. SameDatum(answer[p][k], mem[p]["disk"][k])
          BY <4>1 DEF IInv, AnswersCached
        <4> QED BY <3>7, <3>9, <4>2 DEF ServeDisk, Layer
      <3> QED BY <3>6, <3>8, <3>9
    <2> QED BY <2>1, <2>2
  <1> QED BY <1>1, InitIInv, NextIInv, PTL DEF Spec, StableWithinRun

\* A run that reports a price of the embedded catalog without the disclosure
\* line has it from a cache file it was started with, which some earlier run
\* filled: Embedded.Hits counts every price the run itself took from the
\* catalog, whatever layers stand in front of it and whoever else is saving.
THEOREM CatalogCounted == Spec => []FirstHandDisclosed
  <1>1. Origins => FirstHandDisclosed
    BY DEF Origins, FirstHandDisclosed, Inherited, Inherits, FromCat
  <1>2. Init => IInv /\ Origins
    BY InitIInv, InitOrigins
  <1>3. IInv /\ Origins /\ [Next]_vars => (IInv /\ Origins)'
    BY NextIInv, NextOrigins
  <1> QED BY <1>1, <1>2, <1>3, PTL DEF Spec

=============================================================================
