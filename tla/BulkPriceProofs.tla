--------------------------- MODULE BulkPriceProofs ---------------------------
(***************************************************************************)
(* BulkPrice for any number of processes and files: what can damage the    *)
(* cached price list, and when loading it fails.                           *)
(***************************************************************************)
EXTENDS BulkLoads, WellFoundedInduction, TLAPS

-----------------------------------------------------------------------------
(* The inductive invariant.                                                *)

\* The first k sections of version v.
Prefix(v, k) == [n \in 1..k |-> <<v, n>>]

\* A download whose file was created alone is alone, its file is the one
\* called .tmp, and it holds what the download has copied.
Alone(p) ==
    (Writing(p) /\ fd[p] \notin shared) =>
        /\ tmp = fd[p]
        /\ \A q \in Proc \ {p} : ~Writing(q)
        /\ data[fd[p]] = Prefix(ver[p], at[p])

\* The names of the directory and the files that are open.
Names ==
    /\ tmp # None => tmp # path
    /\ \A p \in Proc :
          /\ (tmp # None /\ tmp \notin shared /\ Writing(p)) => fd[p] = tmp
          /\ pc[p] = "open" => path # None
          /\ pc[p] = "read" => fd[p] # None /\ fd[p] # tmp
          /\ pc[p] \notin {"copy", "rename", "read"} => fd[p] = None
          /\ pc[p] = "create" => ver[p] # 0
          /\ ~Writing(p) => at[p] = 0
          /\ pc[p] = "rename" => at[p] = 2

\* A file that is read is whole unless it was shared.
ReadsWhole ==
    \A p \in Proc : (pc[p] = "read" /\ fd[p] \notin shared)
                    => \E v \in Version : Whole(data[fd[p]], v)

IInv == /\ sc \in Scenarios /\ TypeOK
        /\ \A p \in Proc : Alone(p)
        /\ Names /\ ReadsWhole /\ DamageNeedsSharing

-----------------------------------------------------------------------------
(* Types.                                                                  *)

LEMMA DocsType ==
  ASSUME sc \in Scenarios
  PROVE  Len(sc.docs) \in Nat \ {0} /\ Version = 1..Len(sc.docs)
  BY BulkAssumption DEF Version

LEMMA PutType ==
  ASSUME NEW n \in Nat, NEW s \in Seq((0..n) \X Sections), Len(s) <= 2,
         NEW k \in Sections, NEW v \in 0..n
  PROVE  /\ Put(s, k, <<v, k>>) \in Seq((0..n) \X Sections)
         /\ Len(Put(s, k, <<v, k>>)) <= 2
  <1> DEFINE m    == IF k > Len(s) THEN k ELSE Len(s)
             e(j) == IF j = k THEN <<v, k>>
                     ELSE IF j <= Len(s) THEN s[j] ELSE <<0, j>>
  <1>1. m \in Nat /\ m <= 2
    BY DEF Sections
  <1>2. ASSUME NEW j \in 1..m
        PROVE  e(j) \in (0..n) \X Sections
    <2>1. j \in Sections
      BY <1>1 DEF Sections
    <2>2. CASE j = k
      <3>1. e(j) = <<v, k>>
        BY <2>2
      <3> QED BY <3>1
    <2>3. CASE j # k /\ j <= Len(s)
      <3>1. j \in 1..Len(s)
        BY <1>1, <2>3
      <3>2. s[j] \in (0..n) \X Sections
        BY <3>1
      <3>3. e(j) = s[j]
        BY <2>3
      <3> QED BY <3>2, <3>3
    <2>4. CASE j # k /\ ~(j <= Len(s))
      <3>1. e(j) = <<0, j>>
        BY <2>4
      <3> QED BY <2>1, <3>1
    <2> QED BY <2>2, <2>3, <2>4
  <1>3. Put(s, k, <<v, k>>) = [j \in 1..m |-> e(j)]
    BY DEF Put
  <1> HIDE DEF m, e
  <1>4. Put(s, k, <<v, k>>) \in [1..m -> (0..n) \X Sections]
    BY <1>2, <1>3
  <1>5. /\ Put(s, k, <<v, k>>) \in Seq((0..n) \X Sections)
        /\ Len(Put(s, k, <<v, k>>)) = m
    <2> DEFINE r == Put(s, k, <<v, k>>)
    <2>1. r \in [1..m -> (0..n) \X Sections]
      BY <1>4
    <2> HIDE DEF r
    <2>2. r \in Seq((0..n) \X Sections) /\ Len(r) = m
      BY <1>1, <2>1
    <2> QED BY <2>2 DEF r
  <1> QED BY <1>1, <1>5

-----------------------------------------------------------------------------
(* Steps that leave the process without an open file.                      *)

Closed == Labels \ {"copy", "rename", "read"}

\* The process p goes on at l with no file open; v is the version it is about
\* to download, if any.
Leaves(p, l, v) ==
    /\ pc' = [pc EXCEPT ![p] = l] /\ fd' = [fd EXCEPT ![p] = None]
    /\ at' = [at EXCEPT ![p] = 0] /\ ver' = [ver EXCEPT ![p] = v]

\* Such a step keeps the invariant whether it leaves the names alone, removes
\* the temporary file or renames it, the latter two by a process that writes,
\* the last by one whose file is whole or shared.
LEMMA LeavesKeeps ==
  ASSUME IInv, NEW p \in Proc, NEW l \in Closed, NEW v \in 0..Len(sc.docs),
         Leaves(p, l, v), UNCHANGED <<sc, data, shared>>,
         latest' \in Version, memo' \in [Proc -> 0..Len(sc.docs)], old' \in BOOLEAN,
         l = "open" => path' # None,
         l = "create" => v # 0,
         tmp' \in {tmp, None},
         tmp' # tmp => Writing(p),
         path' # path => /\ tmp # None /\ path' = tmp /\ tmp' = None
                         /\ \/ tmp \in shared
                            \/ \E w \in Version : Whole(data[tmp], w)
  PROVE  IInv'
  <1> USE DEF IInv
  <1>v. Len(sc.docs) \in Nat /\ Version' = Version /\ Piece' = Piece
    BY DocsType DEF Version, Piece
  <1>1. /\ pc' \in [Proc -> Labels] /\ fd' \in [Proc -> Inode \cup {None}]
        /\ at' \in [Proc -> 0..2] /\ ver' \in [Proc -> 0..Len(sc.docs)]
    BY <1>v DEF TypeOK, Leaves, Closed
  <1>2. \A q \in Proc : /\ pc'[q] = IF q = p THEN l ELSE pc[q]
                        /\ fd'[q] = IF q = p THEN None ELSE fd[q]
                        /\ at'[q] = IF q = p THEN 0 ELSE at[q]
                        /\ ver'[q] = IF q = p THEN v ELSE ver[q]
    BY DEF TypeOK, Leaves
  <1>3. \A q \in Proc : Writing(q)' <=> q # p /\ Writing(q)
    BY <1>2 DEF Writing, Closed
  <1>4. TypeOK'
    <2>1. path' \in Inode \cup {None} /\ tmp' \in Inode \cup {None}
      BY DEF TypeOK
    <2>2. \A q \in Proc : Writing(q)' => fd'[q] # None /\ ver'[q] # 0
      BY <1>2, <1>3 DEF TypeOK
    <2> QED BY <1>v, <1>1, <2>1, <2>2 DEF TypeOK
  <1>5. ASSUME NEW q \in Proc
        PROVE  Alone(q)'
    <2> SUFFICES ASSUME Writing(q)', fd'[q] \notin shared'
                 PROVE  /\ tmp' = fd'[q]
                        /\ \A r \in Proc \ {q} : ~Writing(r)'
                        /\ data'[fd'[q]] = Prefix(ver'[q], at'[q])
      BY DEF Alone
    <2>1. q # p /\ Writing(q) /\ fd'[q] = fd[q] /\ ver'[q] = ver[q] /\ at'[q] = at[q]
      BY <1>2, <1>3
    <2>2. /\ tmp = fd[q] /\ \A r \in Proc \ {q} : ~Writing(r)
          /\ data[fd[q]] = Prefix(ver[q], at[q])
      BY <2>1 DEF Alone
    <2>3. tmp' = tmp
      BY <2>1, <2>2
    <2> QED BY <1>3, <2>1, <2>2, <2>3
  <1>6. Names'
    <2>1. tmp' # None => tmp' = tmp /\ path' = path
      OBVIOUS
    <2>2. tmp' # None => tmp' # path'
      BY <2>1 DEF Names
    <2>3. ASSUME NEW q \in Proc
          PROVE  /\ (tmp' # None /\ tmp' \notin shared' /\ Writing(q)') => fd'[q] = tmp'
                 /\ pc'[q] = "open" => path' # None
                 /\ pc'[q] = "read" => fd'[q] # None /\ fd'[q] # tmp'
                 /\ pc'[q] \notin {"copy", "rename", "read"} => fd'[q] = None
                 /\ pc'[q] = "create" => ver'[q] # 0
                 /\ ~Writing(q)' => at'[q] = 0
                 /\ pc'[q] = "rename" => at'[q] = 2
      <3>1. CASE q = p
        BY <1>2, <1>3, <3>1 DEF Closed
      <3>2. CASE q # p
        <4>1. /\ pc'[q] = pc[q] /\ fd'[q] = fd[q] /\ ver'[q] = ver[q] /\ at'[q] = at[q]
              /\ Writing(q)' = Writing(q)
          BY <1>2, <3>2 DEF Writing
        <4>2. path # None => path' # None
          OBVIOUS
        <4> QED BY <2>1, <4>1, <4>2 DEF Names
      <3> QED BY <3>1, <3>2
    <2> QED BY <2>2, <2>3 DEF Names
  <1>7. ReadsWhole'
    BY <1>2, <1>v DEF ReadsWhole, Closed
  <1>8. DamageNeedsSharing'
    BY <1>v DEF DamageNeedsSharing
  <1> QED BY <1>4, <1>5, <1>6, <1>7, <1>8

\* A process without an open file that only moves on.
LEMMA StaysClosed ==
  ASSUME IInv, NEW p \in Proc, NEW l, Goto(p, l), UNCHANGED <<fd, at, ver>>,
         pc[p] \in Closed
  PROVE  Leaves(p, l, ver[p]) /\ ver[p] \in 0..Len(sc.docs)
  <1>1. fd[p] = None /\ at[p] = 0
    BY DEF IInv, Names, Closed, Writing
  <1>2. fd = [fd EXCEPT ![p] = None] /\ at = [at EXCEPT ![p] = 0]
        /\ ver = [ver EXCEPT ![p] = ver[p]]
    BY <1>1 DEF IInv, TypeOK
  <1> QED BY <1>2 DEF Leaves, Goto, IInv, TypeOK

LEMMA AskKeeps ==
  ASSUME IInv, NEW p \in Proc, Ask(p)
  PROVE  IInv'
  <1>1. PICK l \in {"ready", "select", "stat"} : Goto(p, l)
    BY DEF Ask, Answer
  <1>2. pc[p] \in Closed /\ l \in Closed
    BY DEF Ask, Closed, Labels
  <1>3. Leaves(p, l, ver[p]) /\ ver[p] \in 0..Len(sc.docs)
    BY <1>1, <1>2, StaysClosed DEF Ask
  <1> QED BY <1>2, <1>3, LeavesKeeps DEF Ask, disk, IInv, TypeOK

LEMMA StatKeeps ==
  ASSUME IInv, NEW p \in Proc, Stat(p)
  PROVE  IInv'
  <1>1. PICK l \in {"open", "request"} : Goto(p, l) /\ (l = "open" => path # None)
    BY DEF Stat
  <1>2. pc[p] \in Closed /\ l \in Closed
    BY DEF Stat, Closed, Labels
  <1>3. Leaves(p, l, ver[p]) /\ ver[p] \in 0..Len(sc.docs)
    BY <1>1, <1>2, StaysClosed DEF Stat
  <1> QED BY <1>1, <1>2, <1>3, LeavesKeeps DEF Stat, disk, IInv, TypeOK

\* Where a process goes when its download fails.
LEMMA StaleLeaves ==
  ASSUME IInv, NEW p \in Proc, Close(p), Stale(p)
  PROVE  \E l \in Closed : Leaves(p, l, 0) /\ l # "create" /\ (l = "open" => path # None)
  BY DEF Stale, Close, Leaves, Goto, Answer, Closed, Labels

LEMMA RequestFailsKeeps ==
  ASSUME IInv, NEW p \in Proc, RequestFails(p)
  PROVE  IInv'
  <1>1. PICK l \in Closed : Leaves(p, l, 0) /\ l # "create" /\ (l = "open" => path # None)
    BY StaleLeaves DEF RequestFails
  <1>2. 0 \in 0..Len(sc.docs)
    BY DocsType DEF IInv
  <1> QED BY <1>1, <1>2, LeavesKeeps DEF RequestFails, disk, IInv, TypeOK

LEMMA RequestKeeps ==
  ASSUME IInv, NEW p \in Proc, Request(p)
  PROVE  IInv'
  <1>1. latest \in 0..Len(sc.docs) /\ latest # 0
    BY DocsType DEF IInv, TypeOK
  <1>2. fd[p] = None /\ at[p] = 0
    BY DEF IInv, Names, Request, Writing
  <1>3. fd = [fd EXCEPT ![p] = None] /\ at = [at EXCEPT ![p] = 0]
    BY <1>2 DEF IInv, TypeOK
  <1>4. Leaves(p, "create", latest) /\ "create" \in Closed
    BY <1>3 DEF Leaves, Request, Goto, Closed, Labels
  <1> QED BY <1>1, <1>4, LeavesKeeps DEF Request, disk, IInv, TypeOK

LEMMA CopyFailsKeeps ==
  ASSUME IInv, NEW p \in Proc, CopyFails(p)
  PROVE  IInv'
  <1>1. PICK l \in Closed : Leaves(p, l, 0) /\ l # "create" /\ (l = "open" => path # None)
    BY StaleLeaves DEF CopyFails
  <1>2. 0 \in 0..Len(sc.docs)
    BY DocsType DEF IInv
  <1>3. Writing(p)
    BY DEF CopyFails, Writing
  <1> QED BY <1>1, <1>2, <1>3, LeavesKeeps DEF CopyFails, IInv, TypeOK

\* The file that is renamed is whole unless it is shared: the process that
\* renames is the one that wrote it.
LEMMA RenameKeeps ==
  ASSUME IInv, NEW p \in Proc, Rename(p)
  PROVE  IInv'
  <1>0. Len(sc.docs) \in Nat /\ Version = 1..Len(sc.docs) /\ 0 \in 0..Len(sc.docs)
    BY DocsType DEF IInv
  <1>1. Writing(p) /\ at[p] = 2
    BY DEF Rename, Writing, IInv, Names
  <1>2. ASSUME tmp # None, tmp \notin shared
        PROVE  \E w \in Version : Whole(data[tmp], w)
    <2>1. fd[p] = tmp
      BY <1>1, <1>2 DEF IInv, Names
    <2>2. data[tmp] = Prefix(ver[p], 2)
      BY <1>1, <1>2, <2>1 DEF IInv, Alone
    <2>3. ver[p] \in Version
      BY <1>0, <1>1 DEF IInv, TypeOK
    <2> QED BY <2>2, <2>3 DEF Whole, Prefix, Sections
  <1>3. CASE tmp = None
    <2>1. PICK l \in Closed : Leaves(p, l, 0) /\ l # "create" /\ (l = "open" => path # None)
      BY <1>3, StaleLeaves DEF Rename
    <2> QED BY <1>0, <1>1, <1>3, <2>1, LeavesKeeps DEF Rename, IInv, TypeOK
  <1>4. CASE tmp # None
    <2>1. Leaves(p, "open", 0) /\ "open" \in Closed
      BY <1>4 DEF Rename, Close, Goto, Leaves, Closed, Labels
    <2> QED BY <1>0, <1>1, <1>2, <1>4, <2>1, LeavesKeeps DEF Rename, IInv, TypeOK
  <1> QED BY <1>3, <1>4

LEMMA ParseKeeps ==
  ASSUME IInv, NEW p \in Proc, Parse(p)
  PROVE  IInv'
  <1>0. Len(sc.docs) \in Nat /\ Version = 1..Len(sc.docs)
    BY DocsType DEF IInv
  <1>1. PICK l \in {"select", "ready"} : Goto(p, l)
    BY DEF Parse, Answer
  <1>2. memo' \in [Proc -> 0..Len(sc.docs)]
    <2>1. CASE memo' = memo
      BY <2>1 DEF IInv, TypeOK
    <2>2. CASE \E v \in Version : memo' = [memo EXCEPT ![p] = v]
      BY <1>0, <2>2 DEF IInv, TypeOK
    <2> QED BY <2>1, <2>2 DEF Parse, Version
  <1>3. at[p] = 0 /\ ver[p] \in 0..Len(sc.docs)
    BY DEF Parse, IInv, TypeOK, Names, Writing
  <1>4. at = [at EXCEPT ![p] = 0] /\ ver = [ver EXCEPT ![p] = ver[p]]
    BY <1>3 DEF IInv, TypeOK
  <1>5. Leaves(p, l, ver[p]) /\ l \in Closed
    BY <1>1, <1>4 DEF Parse, Leaves, Goto, Closed, Labels
  <1> QED BY <1>2, <1>3, <1>5, LeavesKeeps DEF Parse, disk, IInv, TypeOK

LEMMA SelectKeeps ==
  ASSUME IInv, NEW p \in Proc, Select(p)
  PROVE  IInv'
  <1>1. Goto(p, "ready") /\ pc[p] \in Closed /\ "ready" \in Closed
    BY DEF Select, Answer, Closed, Labels
  <1>2. UNCHANGED <<sc, latest, disk, fd, at, ver, memo>>
    BY DEF Select
  <1>3. Leaves(p, "ready", ver[p]) /\ ver[p] \in 0..Len(sc.docs)
    BY <1>1, <1>2, StaysClosed
  <1> QED BY <1>1, <1>2, <1>3, LeavesKeeps DEF disk, IInv, TypeOK

LEMMA EndKeeps ==
  ASSUME IInv, NEW p \in Proc, End(p)
  PROVE  IInv'
  <1>1. 0 \in 0..Len(sc.docs)
    BY DocsType DEF IInv
  <1>2. Leaves(p, "ready", 0) /\ "ready" \in Closed
    BY DEF End, Close, Answer, Goto, Leaves, Closed, Labels
  <1>3. memo' \in [Proc -> 0..Len(sc.docs)]
    BY <1>1 DEF End, IInv, TypeOK
  <1> QED BY <1>1, <1>2, <1>3, LeavesKeeps DEF End, disk, IInv, TypeOK

-----------------------------------------------------------------------------
(* Steps on an open file.                                                  *)

\* The file a process creates is not the cached one nor one that is being read,
\* and it is unshared only if no other process writes.
LEMMA CreateKeeps ==
  ASSUME IInv, NEW p \in Proc, Create(p)
  PROVE  IInv'
  <1> USE DEF IInv
  <1>0. PICK i \in Inode :
           /\ IF tmp # None THEN i = tmp ELSE i # path /\ \A q \in Proc : i # fd[q]
           /\ data' = [data EXCEPT ![i] = <<>>]
           /\ tmp' = i
           /\ fd' = [fd EXCEPT ![p] = i]
           /\ shared' = IF \E q \in Proc \ {p} : Writing(q)
                        THEN shared \cup {i} ELSE shared \ {i}
    BY DEF Create, Target
  <1>v. Len(sc.docs) \in Nat /\ Version' = Version /\ Piece' = Piece
    BY DocsType DEF Version, Piece, Create
  <1>1. /\ i # None /\ pc[p] = "create" /\ at[p] = 0 /\ ver[p] # 0
        /\ pc' = [pc EXCEPT ![p] = "copy"]
        /\ UNCHANGED <<sc, latest, path, old, at, ver, memo, ans>>
    BY BulkAssumption DEF Create, Goto, Names, Writing
  <1>2. \A q \in Proc : /\ pc'[q] = IF q = p THEN "copy" ELSE pc[q]
                        /\ fd'[q] = IF q = p THEN i ELSE fd[q]
    BY <1>0, <1>1 DEF TypeOK
  <1>3. \A q \in Proc : Writing(q)' <=> q = p \/ Writing(q)
    BY <1>2 DEF Writing
  <1>4. i # path /\ \A q \in Proc : pc[q] = "read" => i # fd[q]
    BY <1>0 DEF Names
  <1>5. \A j \in Inode : data'[j] = IF j = i THEN <<>> ELSE data[j]
    BY <1>0 DEF TypeOK
  <1>6. TypeOK'
    <2>1. data' \in [Inode -> Seq(Piece)] /\ \A j \in Inode : Len(data'[j]) <= 2
      <3>1. <<>> \in Seq(Piece) /\ Len(<<>>) <= 2
        OBVIOUS
      <3> QED BY <1>0, <1>5, <3>1 DEF TypeOK
    <2>2. pc' \in [Proc -> Labels] /\ fd' \in [Proc -> Inode \cup {None}]
      BY <1>0, <1>1 DEF TypeOK, Labels
    <2>3. \A q \in Proc : Writing(q)' => fd'[q] # None /\ ver'[q] # 0
      BY <1>1, <1>2, <1>3 DEF TypeOK
    <2>4. shared' \subseteq Inode
      BY <1>0 DEF TypeOK
    <2> QED BY <1>0, <1>1, <1>v, <2>1, <2>2, <2>3, <2>4 DEF TypeOK
  <1>7. ASSUME NEW q \in Proc
        PROVE  Alone(q)'
    <2> SUFFICES ASSUME Writing(q)', fd'[q] \notin shared'
                 PROVE  /\ tmp' = fd'[q]
                        /\ \A r \in Proc \ {q} : ~Writing(r)'
                        /\ data'[fd'[q]] = Prefix(ver'[q], at'[q])
      BY DEF Alone
    <2>1. CASE q = p
      <3>1. fd'[q] = i /\ at'[q] = 0 /\ data'[i] = <<>>
        BY <1>1, <1>2, <1>5, <2>1
      <3>2. \A r \in Proc \ {q} : ~Writing(r)'
        BY <1>0, <1>3, <2>1, <3>1
      <3>3. Prefix(ver'[q], 0) = <<>>
        BY DEF Prefix
      <3> QED BY <1>0, <3>1, <3>2, <3>3
    <2>2. CASE q # p
      <3>1. Writing(q) /\ fd'[q] = fd[q] /\ shared' = shared \cup {i}
        BY <1>0, <1>2, <1>3, <2>2
      <3>2. tmp = fd[q] /\ tmp # None
        BY <3>1 DEF Alone, TypeOK
      <3> QED BY <1>0, <3>1, <3>2
    <2> QED BY <2>1, <2>2
  <1>8. Names'
    <2>1. tmp' # path'
      BY <1>0, <1>1, <1>4
    <2>2. ASSUME NEW q \in Proc
          PROVE  /\ (tmp' # None /\ tmp' \notin shared' /\ Writing(q)') => fd'[q] = tmp'
                 /\ pc'[q] = "open" => path' # None
                 /\ pc'[q] = "read" => fd'[q] # None /\ fd'[q] # tmp'
                 /\ pc'[q] \notin {"copy", "rename", "read"} => fd'[q] = None
                 /\ pc'[q] = "create" => ver'[q] # 0
                 /\ ~Writing(q)' => at'[q] = 0
                 /\ pc'[q] = "rename" => at'[q] = 2
      <3>1. CASE q = p
        BY <1>0, <1>1, <1>2, <1>3, <3>1
      <3>2. CASE q # p
        <4>1. pc'[q] = pc[q] /\ fd'[q] = fd[q] /\ Writing(q)' = Writing(q)
          BY <1>2, <3>2 DEF Writing
        <4>2. Writing(q) => tmp' \in shared'
          BY <1>0, <3>2
        <4> QED BY <1>0, <1>1, <1>4, <4>1, <4>2 DEF Names
      <3> QED BY <3>1, <3>2
    <2> QED BY <2>1, <2>2 DEF Names
  <1>9. ReadsWhole'
    <2> SUFFICES ASSUME NEW q \in Proc, pc'[q] = "read", fd'[q] \notin shared'
                 PROVE  \E v \in Version' : Whole(data'[fd'[q]], v)
      BY DEF ReadsWhole
    <2>1. pc[q] = "read" /\ fd'[q] = fd[q] /\ fd[q] # i /\ fd[q] \in Inode
      BY <1>2, <1>4 DEF Names, TypeOK
    <2>2. fd[q] \notin shared /\ data'[fd[q]] = data[fd[q]]
      BY <1>0, <1>5, <2>1
    <2> QED BY <1>v, <2>1, <2>2 DEF ReadsWhole
  <1>10. DamageNeedsSharing'
    <2> SUFFICES ASSUME path # None
                 PROVE  \/ \E v \in Version' : Whole(data'[path], v)
                        \/ path \in shared'
      BY <1>1 DEF DamageNeedsSharing
    <2>1. data'[path] = data[path] /\ (path \in shared <=> path \in shared')
      BY <1>0, <1>4, <1>5 DEF TypeOK
    <2> QED BY <1>v, <2>1 DEF DamageNeedsSharing
  <1> QED BY <1>1, <1>6, <1>7, <1>8, <1>9, <1>10

\* A piece goes into the file of this process alone, or into a shared one.
LEMMA CopyKeeps ==
  ASSUME IInv, NEW p \in Proc, Copy(p)
  PROVE  IInv'
  <1> USE DEF IInv
  <1> DEFINE f == fd[p]
             n == at[p] + 1
             x == Put(data[f], n, <<ver[p], n>>)
  <1>v. Len(sc.docs) \in Nat /\ Version' = Version /\ Piece' = Piece
    BY DocsType DEF Version, Piece, Copy
  <1>1. /\ pc[p] = "copy" /\ Writing(p) /\ f \in Inode /\ n \in Sections
        /\ ver[p] \in 0..Len(sc.docs) /\ at[p] \in 0..1 /\ ver[p] # 0
    BY DEF Copy, Writing, TypeOK, Sections
  <1>2. /\ data' = [data EXCEPT ![f] = x] /\ at' = [at EXCEPT ![p] = n]
        /\ old' = (old /\ f # path)
        /\ UNCHANGED <<sc, latest, path, tmp, shared, pc, fd, ver, memo, ans>>
    BY DEF Copy
  <1>3. x \in Seq(Piece) /\ Len(x) <= 2
    BY <1>v, <1>1, PutType DEF TypeOK, Piece
  <1>4. f \in shared \/ (f = tmp /\ f # path /\ \A q \in Proc \ {p} : ~Writing(q))
    BY <1>1 DEF Alone, Names, TypeOK
  <1>5. f \notin shared => x = Prefix(ver[p], n)
    <2> SUFFICES ASSUME f \notin shared
                 PROVE  x = Prefix(ver[p], n)
      OBVIOUS
    <2>1. data[f] = Prefix(ver[p], at[p])
      BY <1>1 DEF Alone
    <2>2. Len(data[f]) = at[p]
      BY <1>1, <2>1 DEF Prefix, TypeOK
    <2>3. \A k \in 1..at[p] : data[f][k] = <<ver[p], k>>
      BY <2>1 DEF Prefix
    <2> QED BY <1>1, <2>2, <2>3 DEF Put, Prefix
  <1> HIDE DEF x
  <1>6. \A j \in Inode : data'[j] = IF j = f THEN x ELSE data[j]
    BY <1>2 DEF TypeOK
  <1>7. \A q \in Proc : at'[q] = IF q = p THEN n ELSE at[q]
    BY <1>2 DEF TypeOK
  <1>8. \A q \in Proc : Writing(q)' = Writing(q)
    BY <1>2 DEF Writing
  <1>9. TypeOK'
    <2>1. data' \in [Inode -> Seq(Piece)] /\ \A j \in Inode : Len(data'[j]) <= 2
      BY <1>1, <1>2, <1>3, <1>6 DEF TypeOK
    <2>2. at' \in [Proc -> 0..2]
      BY <1>1, <1>2 DEF TypeOK
    <2>3. \A q \in Proc : Writing(q)' => fd'[q] # None /\ ver'[q] # 0
      BY <1>2, <1>8 DEF TypeOK
    <2>4. old' \in BOOLEAN
      BY <1>2
    <2> QED BY <1>v, <1>2, <2>1, <2>2, <2>3, <2>4 DEF TypeOK
  <1>10. ASSUME NEW q \in Proc
         PROVE  Alone(q)'
    <2> SUFFICES ASSUME Writing(q), fd[q] \notin shared
                 PROVE  /\ tmp = fd[q]
                        /\ \A r \in Proc \ {q} : ~Writing(r)
                        /\ data'[fd[q]] = Prefix(ver[q], at'[q])
      BY <1>2, <1>8 DEF Alone
    <2>1. tmp = fd[q] /\ \A r \in Proc \ {q} : ~Writing(r)
      BY DEF Alone
    <2>2. q = p
      BY <1>1, <2>1
    <2> QED BY <1>1, <1>5, <1>6, <1>7, <2>1, <2>2
  <1>11. Names'
    BY <1>1, <1>2, <1>7, <1>8 DEF Names
  <1>12. ReadsWhole'
    <2> SUFFICES ASSUME NEW q \in Proc, pc[q] = "read", fd[q] \notin shared
                 PROVE  \E v \in Version : Whole(data'[fd[q]], v)
      BY <1>2, <1>v DEF ReadsWhole
    <2>1. fd[q] # f /\ fd[q] \in Inode
      BY <1>4 DEF Names, TypeOK
    <2> QED BY <1>6, <2>1 DEF ReadsWhole
  <1>13. DamageNeedsSharing'
    <2> SUFFICES ASSUME path # None, path \notin shared
                 PROVE  \E v \in Version : Whole(data'[path], v)
      BY <1>2, <1>v DEF DamageNeedsSharing
    <2>1. path # f /\ path \in Inode
      BY <1>4 DEF TypeOK
    <2> QED BY <1>6, <2>1 DEF DamageNeedsSharing
  <1> QED BY <1>2, <1>9, <1>10, <1>11, <1>12, <1>13

LEMMA CopiedKeeps ==
  ASSUME IInv, NEW p \in Proc, Copied(p)
  PROVE  IInv'
  <1> USE DEF IInv
  <1>1. /\ pc[p] = "copy" /\ at[p] = 2 /\ pc' = [pc EXCEPT ![p] = "rename"]
        /\ UNCHANGED <<sc, latest, data, path, tmp, old, shared, fd, at, ver, memo, ans>>
    BY DEF Copied, Goto, disk
  <1>v. Version' = Version /\ Piece' = Piece
    BY <1>1 DEF Version, Piece
  <1>2. \A q \in Proc : /\ pc'[q] = IF q = p THEN "rename" ELSE pc[q]
                        /\ Writing(q)' = Writing(q)
    BY <1>1 DEF TypeOK, Writing
  <1>3. TypeOK'
    BY <1>1, <1>2, <1>v DEF TypeOK, Labels
  <1>4. ASSUME NEW q \in Proc PROVE Alone(q)'
    BY <1>1, <1>2 DEF Alone
  <1>5. Names'
    BY <1>1, <1>2 DEF Names
  <1>6. ReadsWhole' /\ DamageNeedsSharing'
    BY <1>1, <1>2, <1>v DEF ReadsWhole, DamageNeedsSharing
  <1> QED BY <1>1, <1>3, <1>4, <1>5, <1>6

LEMMA OpenKeeps ==
  ASSUME IInv, NEW p \in Proc, Open(p)
  PROVE  IInv'
  <1> USE DEF IInv
  <1>1. /\ pc[p] = "open" /\ pc' = [pc EXCEPT ![p] = "read"] /\ fd' = [fd EXCEPT ![p] = path]
        /\ UNCHANGED <<sc, latest, data, path, tmp, old, shared, at, ver, memo, ans>>
    BY DEF Open, Goto, disk
  <1>v. Version' = Version /\ Piece' = Piece
    BY <1>1 DEF Version, Piece
  <1>2. \A q \in Proc : /\ pc'[q] = IF q = p THEN "read" ELSE pc[q]
                        /\ fd'[q] = IF q = p THEN path ELSE fd[q]
                        /\ Writing(q)' = Writing(q)
    BY <1>1 DEF TypeOK, Writing
  <1>3. TypeOK'
    <2>1. pc' \in [Proc -> Labels] /\ fd' \in [Proc -> Inode \cup {None}]
      BY <1>1 DEF TypeOK, Labels
    <2>2. \A q \in Proc : Writing(q)' => fd'[q] # None /\ ver'[q] # 0
      BY <1>1, <1>2 DEF TypeOK, Writing
    <2> QED BY <1>1, <1>v, <2>1, <2>2 DEF TypeOK
  <1>4. ASSUME NEW q \in Proc PROVE Alone(q)'
    BY <1>1, <1>2 DEF Alone, Writing
  <1>5. Names'
    BY <1>1, <1>2 DEF Names, Writing
  <1>6. ReadsWhole'
    BY <1>1, <1>2, <1>v DEF ReadsWhole, DamageNeedsSharing, Names
  <1>7. DamageNeedsSharing'
    BY <1>1, <1>v DEF DamageNeedsSharing
  <1> QED BY <1>1, <1>3, <1>4, <1>5, <1>6, <1>7

\* What happens outside of the processes, or nothing.
LEMMA OthersKeep ==
  ASSUME IInv, Publish \/ Expire \/ UNCHANGED vars
  PROVE  IInv'
  <1> USE DEF IInv
  <1>1. UNCHANGED <<sc, data, path, tmp, shared, pc, fd, at, ver, memo>>
    BY DEF Publish, Expire, vars, disk
  <1>v. Version' = Version /\ Piece' = Piece
    BY <1>1 DEF Version, Piece
  <1>2. \A q \in Proc : Writing(q)' = Writing(q)
    BY <1>1 DEF Writing
  <1>3. latest' \in Version /\ old' \in BOOLEAN
    <2>1. CASE Publish
      BY <2>1, DocsType DEF Publish, disk, TypeOK
    <2>2. CASE Expire \/ UNCHANGED vars
      BY <1>1, <1>v, <2>2 DEF Expire, vars, disk, TypeOK
    <2> QED BY <2>1, <2>2
  <1>4. TypeOK'
    <2>1. \A q \in Proc : Writing(q)' => fd'[q] # None /\ ver'[q] # 0
      BY <1>1, <1>2 DEF TypeOK
    <2> QED BY <1>1, <1>3, <1>v, <2>1 DEF TypeOK
  <1>5. ASSUME NEW q \in Proc PROVE Alone(q)'
    BY <1>1, <1>2 DEF Alone
  <1>6. Names' /\ ReadsWhole' /\ DamageNeedsSharing'
    BY <1>1, <1>2, <1>v DEF Names, ReadsWhole, DamageNeedsSharing
  <1> QED BY <1>1, <1>4, <1>5, <1>6

-----------------------------------------------------------------------------
(* The theorems.                                                           *)

LEMMA InitInv == Init => IInv
  <1> SUFFICES ASSUME Init PROVE IInv
    OBVIOUS
  <1>1. Len(sc.docs) \in Nat \ {0} /\ Version = 1..Len(sc.docs)
    BY DocsType DEF Init
  <1>2. TypeOK
    <2>1. <<>> \in Seq(Piece) /\ Len(<<>>) <= 2
      OBVIOUS
    <2>2. data \in [Inode -> Seq(Piece)] /\ \A i \in Inode : Len(data[i]) <= 2
      BY <2>1 DEF Init
    <2>3. 1 \in Version /\ 0 \in 0..Len(sc.docs) /\ "ready" \in Labels
      BY <1>1 DEF Labels
    <2>4. \A p \in Proc : ~Writing(p)
      BY DEF Init, Writing
    <2>5. /\ pc \in [Proc -> Labels] /\ fd \in [Proc -> Inode \cup {None}]
          /\ at \in [Proc -> 0..2] /\ ver \in [Proc -> 0..Len(sc.docs)]
          /\ memo \in [Proc -> 0..Len(sc.docs)]
      BY <1>1, <2>3 DEF Init
    <2> QED BY <2>2, <2>3, <2>4, <2>5 DEF Init, TypeOK
  <1>3. \A p \in Proc : Alone(p)
    BY DEF Init, Alone, Writing
  <1>4. Names /\ ReadsWhole /\ DamageNeedsSharing
    BY DEF Init, Names, Writing, ReadsWhole, DamageNeedsSharing
  <1> QED BY <1>2, <1>3, <1>4 DEF Init, IInv

LEMMA NextInv == IInv /\ [Next]_vars => IInv'
  BY AskKeeps, StatKeeps, RequestFailsKeeps, RequestKeeps, CreateKeeps, CopyKeeps,
     CopyFailsKeeps, CopiedKeeps, RenameKeeps, OpenKeeps, ParseKeeps, SelectKeeps,
     EndKeeps, OthersKeep DEF Next

\* bulk.go: the cache directory, the open files and the memo of every process
\* keep their types, for any number of processes and files.
THEOREM TypeCorrect == Spec => []TypeOK
  <1>1. IInv => TypeOK
    BY DEF IInv
  <1> QED BY <1>1, InitInv, NextInv, PTL DEF Spec

\* bulk.go download: whatever fails, expires or is killed, only processes that
\* use the temporary name at the same time can damage the cached price list.
THEOREM DamageTheorem == Spec => []DamageNeedsSharing
  <1>1. IInv => DamageNeedsSharing
    BY DEF IInv
  <1> QED BY <1>1, InitInv, NextInv, PTL DEF Spec

\* Every process has its own answer.
AnswerOK == ans = [q \in Proc |-> ans[q]]

LEMMA AnswerKeeps == AnswerOK /\ [Next]_vars => AnswerOK'
  <1> SUFFICES ASSUME AnswerOK, [Next]_vars PROVE AnswerOK'
    OBVIOUS
  <1>1. ans' = ans \/ \E p \in Proc : \E a : ans' = [ans EXCEPT ![p] = a]
    BY DEF Next, Ask, Stat, RequestFails, Request, Create, Copy, CopyFails, Copied,
           Rename, Open, Parse, Select, End, Publish, Expire, vars, Stale, Answer
  <1> QED BY <1>1 DEF AnswerOK

\* bulk.go:156: loading fails only without a cached file, or on one that was
\* shared; a stale file that nobody else writes always answers.
THEOREM StaleTheorem == Spec => StaleBeatsFailure
  <1> DEFINE Fair == \A p \in Proc :
         (pc[p] \notin {"ready", "select"} /\ ans[p] = None /\ ans'[p] = Err)
         => path = None \/ (pc[p] = "read" /\ fd[p] \in shared)
  <1>1. IInv /\ AnswerOK /\ [Next]_vars => [Fair]_vars
    <2> SUFFICES ASSUME IInv, AnswerOK, Next, NEW p \in Proc,
                        pc[p] \notin {"ready", "select"}, ans[p] = None,
                        ans'[p] = Err, path # None
                 PROVE  pc[p] = "read" /\ fd[p] \in shared
      OBVIOUS
    <2>1. Err # None
      BY BulkAssumption
    <2>2. PICK q \in Proc : ans' = [ans EXCEPT ![q] = Err] /\ (Ask(q) \/ Parse(q) \/ Select(q))
      <3>1. ans' # ans
        BY <2>1
      <3>2. ASSUME NEW q \in Proc, End(q) PROVE FALSE
        BY <2>1, <3>2 DEF End, Answer, AnswerOK
      <3>3. ASSUME NEW q \in Proc, Stale(q) PROVE FALSE
        BY <3>1, <3>3 DEF Stale
      <3>4. ASSUME NEW q \in Proc, Ask(q) PROVE ans' = [ans EXCEPT ![q] = Err]
        BY <2>1, <3>4 DEF Ask, Answer, AnswerOK
      <3>5. ASSUME NEW q \in Proc, Parse(q) PROVE ans' = [ans EXCEPT ![q] = Err]
        BY <3>1, <3>5 DEF Parse, Answer
      <3>6. ASSUME NEW q \in Proc, Select(q) PROVE q = p
        BY <2>1, <3>6 DEF Select, Answer, AnswerOK
      <3>7. ASSUME NEW q \in Proc, RequestFails(q) \/ CopyFails(q) \/ Rename(q) PROVE FALSE
        BY <3>1, <3>3, <3>7 DEF RequestFails, CopyFails, Rename
      <3>8. ASSUME NEW q \in Proc, Stat(q) \/ Request(q) \/ Create(q) \/ Copy(q)
                                   \/ Copied(q) \/ Open(q)
            PROVE  FALSE
        BY <3>1, <3>8 DEF Stat, Request, Create, Copy, Copied, Open
      <3>9. ~Publish /\ ~Expire
        BY <3>1 DEF Publish, Expire
      <3>10. ASSUME NEW q \in Proc, Select(q) PROVE FALSE
        BY <3>6, <3>10 DEF Select
      <3> QED BY <3>2, <3>4, <3>5, <3>7, <3>8, <3>9, <3>10 DEF Next
    <2>3. q = p
      BY <2>1, <2>2 DEF AnswerOK
    <2>4. Parse(p)
      BY <2>2, <2>3 DEF Ask, Select
    <2>5. pc[p] = "read" /\ ~\E v \in Version : Whole(data[fd[p]], v)
      BY <2>1, <2>4 DEF Parse, Version
    <2> QED BY <2>5 DEF IInv, ReadsWhole
  <1>2. Init => AnswerOK
    BY DEF Init, AnswerOK
  <1> QED BY <1>1, <1>2, InitInv, NextInv, AnswerKeeps, PTL DEF Spec, StaleBeatsFailure

-----------------------------------------------------------------------------
(* Bulk and live agree.                                                    *)

LEMMA MinExists ==
  ASSUME NEW S \in SUBSET Nat, S # {}
  PROVE  Min(S) \in S
  <1>1. PICK x \in S : \A y \in S : ~(<<y, x>> \in OpToRel(<, Nat))
    BY NatLessThanWellFounded, WFMin
  <1>2. \A y \in S : x <= y
    <2>1. \A y \in S : x \in Nat /\ y \in Nat /\ ~(y < x)
      BY <1>1 DEF OpToRel
    <2> QED BY <2>1
  <1> QED BY <1>1, <1>2 DEF Min

\* Where the sections of a price list are.
LEMMA SectionsOf ==
  ASSUME NEW doc, PriceList(doc)
  PROVE  /\ Section(doc, "products") \in Sections /\ Section(doc, "terms") \in Sections
         /\ Section(doc, "products") # Section(doc, "terms")
         /\ IsList(Items(doc, "products")) /\ IsList(Items(doc, "terms"))
         /\ \A n \in DOMAIN Items(doc, "terms") :
               /\ IsList(Items(doc, "terms")[n].onDemand)
               /\ Err \notin ToSet(Items(doc, "terms")[n].onDemand)
               /\ \A m \in DOMAIN Items(doc, "terms") :
                     Items(doc, "terms")[m].sku = Items(doc, "terms")[n].sku => m = n
  <1>1. PICK x, y \in 1..2 :
           /\ x # y /\ doc[x].kind = "products" /\ doc[y].kind = "terms"
           /\ IsList(doc[x].items) /\ IsList(doc[y].items)
           /\ \A n \in DOMAIN doc[y].items :
                 /\ IsList(doc[y].items[n].onDemand)
                 /\ Err \notin ToSet(doc[y].items[n].onDemand)
                 /\ \A m \in DOMAIN doc[y].items :
                       doc[y].items[m].sku = doc[y].items[n].sku => m = n
    BY DEF PriceList
  <1>2. Section(doc, "products") = x
    BY <1>1 DEF Section, Sections
  <1>3. Section(doc, "terms") = y
    BY <1>1 DEF Section, Sections
  <1>4. Items(doc, "products") = doc[x].items /\ Items(doc, "terms") = doc[y].items
    BY <1>2, <1>3 DEF Items
  <1> QED BY <1>1, <1>2, <1>3, <1>4 DEF Sections

LEMMA ListType ==
  ASSUME NEW s, IsList(s)
  PROVE  /\ DOMAIN s \subseteq Nat /\ \A k \in DOMAIN s : s[k] \in ToSet(s)
         /\ \A x \in ToSet(s) : \E k \in DOMAIN s : s[k] = x
  <1>1. s \in Seq(ToSet(s))
    BY DEF IsList
  <1> QED BY <1>1 DEF ToSet

\* parseBulkFile: an entry of the index is a product with the prices of its
\* SKU, if the products came first.
LEMMA Parsed ==
  ASSUME NEW doc, PriceList(doc), NEW n \in DOMAIN Items(doc, "products"), NEW F
  PROVE  LET ts == Items(doc, "terms")
             p  == Items(doc, "products")[n]
             x  == parseBulkFile(doc)[n]
         IN  /\ matchesAll(x, F) <=> matchesAll(p, F)
             /\ IF Section(doc, "products") < Section(doc, "terms")
                THEN \/ x.prices = <<>> /\ \A m \in DOMAIN ts : ts[m].sku # p.sku
                     \/ \E m \in DOMAIN ts : ts[m].sku = p.sku /\ x.prices = ts[m].onDemand
                ELSE x.prices = <<>>
  <1> DEFINE ts == Items(doc, "terms")
             p  == Items(doc, "products")[n]
             before == Section(doc, "products") < Section(doc, "terms")
             Of == {m \in DOMAIN ts : ts[m].sku = p.sku /\ before}
             dims == IF Of = {} THEN <<>> ELSE parseTermDims(ts[CHOOSE m \in Of : TRUE])
  <1>1. parseBulkFile(doc)[n] = [attrs |-> p.attrs, prices |-> dims]
    BY DEF parseBulkFile
  <1>2. parseBulkFile(doc)[n].attrs = p.attrs /\ parseBulkFile(doc)[n].prices = dims
    BY <1>1
  <1>3. matchesAll(parseBulkFile(doc)[n], F) <=> matchesAll(p, F)
    BY <1>2 DEF matchesAll
  <1>4. CASE Of = {}
    <2>1. dims = <<>>
      BY <1>4
    <2>2. before => \A m \in DOMAIN ts : ts[m].sku # p.sku
      BY <1>4
    <2> QED BY <1>2, <1>3, <2>1, <2>2
  <1>5. CASE Of # {}
    <2>1. (CHOOSE m \in Of : TRUE) \in Of
      BY <1>5
    <2>2. PICK m \in Of : dims = ts[m].onDemand
      BY <1>5, <2>1 DEF parseTermDims
    <2>3. before /\ m \in DOMAIN ts /\ ts[m].sku = p.sku
      BY <2>2
    <2> HIDE DEF dims, Of
    <2> QED BY <1>2, <1>3, <2>2, <2>3
  <1> QED BY <1>4, <1>5

\* selectPrice: a wanted price of a product that matches, if there is any.
LEMMA Selected ==
  ASSUME NEW ix, NEW q, DOMAIN ix \subseteq Nat,
         \A n \in DOMAIN ix : DOMAIN ix[n].prices \subseteq Nat
  PROVE  \/ /\ selectPrice(ix, q) = Err
            /\ \A n \in DOMAIN ix : matchesAll(ix[n], q.filters) =>
                  \A k \in DOMAIN ix[n].prices : ~Wanted(ix[n].prices[k], q)
         \/ \E n \in DOMAIN ix : \E k \in DOMAIN ix[n].prices :
               /\ matchesAll(ix[n], q.filters) /\ Wanted(ix[n].prices[k], q)
               /\ selectPrice(ix, q) = ix[n].prices[k]
  <1> DEFINE hits(n) == {k \in DOMAIN ix[n].prices : Wanted(ix[n].prices[k], q)}
             rows    == {n \in DOMAIN ix : matchesAll(ix[n], q.filters) /\ hits(n) # {}}
             r       == Min(rows)
  <1>1. selectPrice(ix, q) = IF rows = {} THEN Err ELSE ix[r].prices[Min(hits(r))]
    BY DEF selectPrice
  <1>2. CASE rows = {}
    <2>1. ASSUME NEW n \in DOMAIN ix, matchesAll(ix[n], q.filters),
                 NEW k \in DOMAIN ix[n].prices, Wanted(ix[n].prices[k], q)
          PROVE  FALSE
      <3>1. k \in hits(n)
        BY <2>1
      <3> HIDE DEF hits
      <3> QED BY <1>2, <2>1, <3>1
    <2> QED BY <1>1, <1>2, <2>1
  <1>3. CASE rows # {}
    <2>1. rows \in SUBSET Nat
      OBVIOUS
    <2>2. r \in rows
      <3> HIDE DEF rows
      <3> QED BY <1>3, <2>1, MinExists
    <2>3. PICK n : n = r
      OBVIOUS
    <2>4. n \in DOMAIN ix /\ matchesAll(ix[n], q.filters) /\ hits(n) # {}
      <3> HIDE DEF r, hits
      <3> QED BY <2>2, <2>3
    <2>5. hits(n) \in SUBSET Nat
      BY <2>4
    <2>6. Min(hits(n)) \in hits(n)
      <3> HIDE DEF hits
      <3> QED BY <2>4, <2>5, MinExists
    <2>7. PICK k : k = Min(hits(n))
      OBVIOUS
    <2>8. k \in DOMAIN ix[n].prices /\ Wanted(ix[n].prices[k], q)
      BY <2>6, <2>7
    <2>9. selectPrice(ix, q) = ix[n].prices[k]
      <3> HIDE DEF r, hits, rows
      <3> QED BY <1>1, <1>3, <2>3, <2>7
    <2> QED BY <2>4, <2>8, <2>9
  <1> QED BY <1>2, <1>3

\* The price a live call may give: a wanted price of a matching product's SKU.
LEMMA Live ==
  ASSUME NEW doc, NEW q, NEW d
  PROVE  d \in pickPrice(doc, q) <=>
           /\ Wanted(d, q)
           /\ \E n \in DOMAIN Items(doc, "products") : \E m \in DOMAIN Items(doc, "terms") :
                 /\ matchesAll(Items(doc, "products")[n], q.filters)
                 /\ Items(doc, "terms")[m].sku = Items(doc, "products")[n].sku
                 /\ d \in ToSet(Items(doc, "terms")[m].onDemand)
  BY DEF pickPrice, Wanted

LEMMA SelectAgrees ==
  ASSUME NEW doc, PriceList(doc), NEW q, NEW a, a = selectPrice(parseBulkFile(doc), q)
  PROVE  /\ a # Err => a \in pickPrice(doc, q)
         /\ (a = Err /\ pickPrice(doc, q) # {}) =>
               Section(doc, "terms") < Section(doc, "products")
  <1> DEFINE ps == Items(doc, "products")
             ts == Items(doc, "terms")
             before == Section(doc, "products") < Section(doc, "terms")
  <1>1. PICK ix : ix = parseBulkFile(doc)
    OBVIOUS
  <1>2. DOMAIN ix = DOMAIN ps
    BY <1>1 DEF parseBulkFile
  <1>3. /\ DOMAIN ps \subseteq Nat
        /\ \A n \in DOMAIN ts : /\ IsList(ts[n].onDemand) /\ Err \notin ToSet(ts[n].onDemand)
                                /\ \A m \in DOMAIN ts : ts[m].sku = ts[n].sku => m = n
    BY SectionsOf, ListType
  <1>4. ASSUME NEW n \in DOMAIN ps
        PROVE  /\ matchesAll(ix[n], q.filters) <=> matchesAll(ps[n], q.filters)
               /\ IF before
                  THEN \/ ix[n].prices = <<>> /\ \A m \in DOMAIN ts : ts[m].sku # ps[n].sku
                       \/ \E m \in DOMAIN ts : ts[m].sku = ps[n].sku /\ ix[n].prices = ts[m].onDemand
                  ELSE ix[n].prices = <<>>
    BY <1>1, Parsed
  <1> HIDE DEF ps, ts, before
  <1>5. \A n \in DOMAIN ix : DOMAIN ix[n].prices \subseteq Nat
    <2> SUFFICES ASSUME NEW n \in DOMAIN ix PROVE DOMAIN ix[n].prices \subseteq Nat
      OBVIOUS
    <2>1. \/ ix[n].prices = <<>>
          \/ \E m \in DOMAIN ts : ix[n].prices = ts[m].onDemand
      BY <1>2, <1>4
    <2>2. CASE ix[n].prices = <<>>
      BY <2>2
    <2>3. CASE \E m \in DOMAIN ts : ix[n].prices = ts[m].onDemand
      BY <1>3, <2>3, ListType
    <2> QED BY <2>1, <2>2, <2>3
  <1>6. CASE \E n \in DOMAIN ix : \E k \in DOMAIN ix[n].prices :
               /\ matchesAll(ix[n], q.filters) /\ Wanted(ix[n].prices[k], q)
               /\ a = ix[n].prices[k]
    <2>1. PICK n \in DOMAIN ps : \E k \in DOMAIN ix[n].prices :
             /\ matchesAll(ix[n], q.filters) /\ Wanted(ix[n].prices[k], q)
             /\ a = ix[n].prices[k]
      BY <1>2, <1>6
    <2>2. PICK k \in DOMAIN ix[n].prices :
             /\ matchesAll(ix[n], q.filters) /\ Wanted(ix[n].prices[k], q)
             /\ a = ix[n].prices[k]
      BY <2>1
    <2>3. ix[n].prices # <<>>
      OBVIOUS
    <2>4. PICK m \in DOMAIN ts : ts[m].sku = ps[n].sku /\ ix[n].prices = ts[m].onDemand
      BY <1>4, <2>3
    <2>5. a \in ToSet(ts[m].onDemand)
      BY <1>3, <2>2, <2>4, ListType
    <2>6. a # Err
      BY <1>3, <2>5
    <2>7. a \in pickPrice(doc, q)
      BY <1>4, <2>2, <2>4, <2>5, Live DEF ps, ts
    <2> QED BY <2>6, <2>7
  <1>7. CASE /\ a = Err
             /\ \A n \in DOMAIN ix : matchesAll(ix[n], q.filters) =>
                  \A k \in DOMAIN ix[n].prices : ~Wanted(ix[n].prices[k], q)
    <2> SUFFICES ASSUME before, NEW d \in pickPrice(doc, q) PROVE FALSE
      <3>1. Section(doc, "products") \in Sections /\ Section(doc, "terms") \in Sections
            /\ Section(doc, "products") # Section(doc, "terms")
        BY SectionsOf
      <3>2. ~before => Section(doc, "terms") < Section(doc, "products")
        BY <3>1 DEF before, Sections
      <3> QED BY <1>7, <3>2
    <2>1. PICK n \in DOMAIN ps, m \in DOMAIN ts :
             /\ Wanted(d, q) /\ matchesAll(ps[n], q.filters)
             /\ ts[m].sku = ps[n].sku /\ d \in ToSet(ts[m].onDemand)
      BY Live DEF ps, ts
    <2>2. ix[n].prices = ts[m].onDemand
      BY <1>3, <1>4, <2>1
    <2>3. PICK k \in DOMAIN ts[m].onDemand : ts[m].onDemand[k] = d
      BY <1>3, <2>1, ListType
    <2> QED BY <1>2, <1>4, <1>7, <2>1, <2>2, <2>3
  <1>8. \/ /\ a = Err
           /\ \A n \in DOMAIN ix : matchesAll(ix[n], q.filters) =>
                  \A k \in DOMAIN ix[n].prices : ~Wanted(ix[n].prices[k], q)
        \/ \E n \in DOMAIN ix : \E k \in DOMAIN ix[n].prices :
               /\ matchesAll(ix[n], q.filters) /\ Wanted(ix[n].prices[k], q)
               /\ a = ix[n].prices[k]
    BY <1>1, <1>2, <1>3, <1>5, Selected
  <1> QED BY <1>6, <1>7, <1>8

\* A process at work on the index has none yet, one that selects has one, and
\* only a query whose fields are indexed gets that far.
Loaded ==
    \A p \in Proc :
        /\ memo[p] # 0 => pc[p] \in {"ready", "select"} /\ Known(sc.query)
        /\ pc[p] = "select" => memo[p] # 0
        /\ pc[p] # "ready" => Known(sc.query)


\* What a step of process p does to its memo.
Moves(p) ==
    \/ /\ pc[p] = "ready" /\ memo'[p] = memo[p]
       /\ IF Known(sc.query) THEN pc'[p] = IF memo[p] # 0 THEN "select" ELSE "stat"
          ELSE pc'[p] = "ready"
    \/ /\ pc[p] \notin {"ready", "select"} /\ pc'[p] # "select"
       /\ memo'[p] = memo[p]
    \/ pc[p] = "read" /\ pc'[p] = "select" /\ memo'[p] # 0
    \/ /\ pc[p] = "select" /\ pc'[p] = "ready" /\ memo'[p] = memo[p]
       /\ ans'[p] = selectPrice(parseBulkFile(sc.docs[memo[p]]), sc.query)
    \/ pc'[p] = "ready" /\ memo'[p] = 0

LEMMA StepMoves ==
  ASSUME IInv, AnswerOK, [Next]_vars
  PROVE  /\ sc' = sc
         /\ \/ UNCHANGED <<pc, memo, ans>>
            \/ \E p \in Proc :
                  /\ \A q \in Proc \ {p} : /\ pc'[q] = pc[q] /\ memo'[q] = memo[q]
                                           /\ ans'[q] = ans[q]
                  /\ Moves(p)
  <1>1. /\ pc \in [Proc -> Labels] /\ memo \in [Proc -> 0..Len(sc.docs)]
        /\ ans = [q \in Proc |-> ans[q]]
    BY DEF IInv, TypeOK, AnswerOK
  <1> DEFINE Only(p) == \A q \in Proc \ {p} : /\ pc'[q] = pc[q] /\ memo'[q] = memo[q]
                                              /\ ans'[q] = ans[q]
  <1>2. ASSUME NEW p \in Proc, Ask(p) PROVE sc' = sc /\ Only(p) /\ Moves(p)
    BY <1>1, <1>2 DEF Ask, Answer, Goto, Moves
  <1>3. ASSUME NEW p \in Proc,
               Stat(p) \/ RequestFails(p) \/ Request(p) \/ Create(p) \/ Copy(p)
               \/ CopyFails(p) \/ Copied(p) \/ Rename(p) \/ Open(p)
        PROVE  sc' = sc /\ Only(p) /\ Moves(p)
    <2>1. /\ sc' = sc /\ memo' = memo /\ pc[p] \notin {"ready", "select"}
          /\ \E l \in Labels \ {"select"} : pc' = [pc EXCEPT ![p] = l]
          /\ ans' = ans \/ \E x : ans' = [ans EXCEPT ![p] = x]
      <3>1. CASE Stat(p)
        BY <3>1 DEF Stat, Goto, Labels
      <3>2. CASE RequestFails(p)
        BY <3>2 DEF RequestFails, Stale, Answer, Goto, Labels
      <3>3. CASE Request(p)
        BY <3>3 DEF Request, Goto, Labels
      <3>4. CASE Create(p)
        BY <3>4 DEF Create, Goto, Labels
      <3>5. CASE Copy(p)
        <4>1. pc[p] = "copy" /\ pc' = pc /\ UNCHANGED <<sc, memo, ans>>
          BY <3>5 DEF Copy
        <4>2. pc' = [pc EXCEPT ![p] = "copy"]
          BY <1>1, <4>1
        <4> QED BY <4>1, <4>2 DEF Labels
      <3>6. CASE CopyFails(p)
        BY <3>6 DEF CopyFails, Stale, Answer, Goto, Labels
      <3>7. CASE Copied(p)
        BY <3>7 DEF Copied, Goto, Labels
      <3>8. CASE Rename(p)
        BY <3>8 DEF Rename, Stale, Answer, Goto, Labels
      <3>9. CASE Open(p)
        BY <3>9 DEF Open, Goto, Labels
      <3> QED BY <1>3, <3>1, <3>2, <3>3, <3>4, <3>5, <3>6, <3>7, <3>8, <3>9
    <2>2. PICK l \in Labels \ {"select"} : pc' = [pc EXCEPT ![p] = l]
      BY <2>1
    <2> QED BY <1>1, <2>1, <2>2 DEF Moves
  <1>4. ASSUME NEW p \in Proc, Parse(p) PROVE sc' = sc /\ Only(p) /\ Moves(p)
    <2>0. \A v \in DOMAIN sc.docs : v # 0
      BY DocsType DEF IInv, Version
    <2>1. CASE \E v \in DOMAIN sc.docs :
                  /\ memo' = [memo EXCEPT ![p] = v]
                  /\ Goto(p, "select") /\ UNCHANGED ans
      BY <1>1, <1>4, <2>0, <2>1 DEF Parse, Goto, Moves
    <2>2. CASE Answer(p, Err) /\ UNCHANGED memo
      BY <1>1, <1>4, <2>2 DEF Parse, Answer, Goto, Moves
    <2> QED BY <1>4, <2>1, <2>2 DEF Parse
  <1>5. ASSUME NEW p \in Proc, Select(p) PROVE sc' = sc /\ Only(p) /\ Moves(p)
    BY <1>1, <1>5 DEF Select, Answer, Goto, Moves
  <1>6. ASSUME NEW p \in Proc, End(p) PROVE sc' = sc /\ Only(p) /\ Moves(p)
    BY <1>1, <1>6 DEF End, Answer, Goto, Moves
  <1>7. ASSUME Publish \/ Expire \/ UNCHANGED vars
        PROVE  sc' = sc /\ UNCHANGED <<pc, memo, ans>>
    BY <1>7 DEF Publish, Expire, vars
  <1> HIDE DEF Only
  <1>8. CASE \E p \in Proc : Only(p) /\ Moves(p)
    BY <1>2, <1>3, <1>4, <1>5, <1>6, <1>7, <1>8 DEF Next, Only
  <1>9. CASE UNCHANGED <<pc, memo, ans>>
    BY <1>2, <1>3, <1>4, <1>5, <1>6, <1>7, <1>9 DEF Next
  <1> QED BY <1>2, <1>3, <1>4, <1>5, <1>6, <1>7, <1>8, <1>9 DEF Next

LEMMA LoadedKeeps ==
  ASSUME IInv, AnswerOK, Loaded, [Next]_vars
  PROVE  Loaded'
  <1>1. sc' = sc /\ Known(sc'.query) = Known(sc.query)
    BY StepMoves
  <1>2. CASE UNCHANGED <<pc, memo, ans>>
    BY <1>1, <1>2 DEF Loaded
  <1>3. ASSUME NEW p \in Proc, Moves(p),
               \A q \in Proc \ {p} : pc'[q] = pc[q] /\ memo'[q] = memo[q]
        PROVE  Loaded'
    BY <1>1, <1>3 DEF Loaded, Moves
  <1> QED BY <1>2, <1>3, StepMoves

LEMMA AgreesKeeps ==
  ASSUME IInv, AnswerOK, Loaded, LiveAgrees, [Next]_vars
  PROVE  LiveAgrees'
  <1> SUFFICES ASSUME NEW p \in Proc, memo'[p] # 0, pc'[p] = "ready", ans'[p] # None
               PROVE  /\ ans'[p] # Err => ans'[p] \in pickPrice(sc'.docs[memo'[p]], sc'.query)
                      /\ (ans'[p] = Err /\ pickPrice(sc'.docs[memo'[p]], sc'.query) # {}) =>
                            Section(sc'.docs[memo'[p]], "terms")
                            < Section(sc'.docs[memo'[p]], "products")
    BY DEF LiveAgrees
  <1>1. sc' = sc
    BY StepMoves
  <1>2. CASE pc'[p] = pc[p] /\ memo'[p] = memo[p] /\ ans'[p] = ans[p]
    BY <1>1, <1>2 DEF LiveAgrees
  <1>3. CASE Moves(p)
    <2>1. /\ pc[p] = "select" /\ memo'[p] = memo[p]
          /\ ans'[p] = selectPrice(parseBulkFile(sc.docs[memo[p]]), sc.query)
      BY <1>3 DEF Moves, Loaded
    <2>2. memo[p] \in DOMAIN sc.docs
      BY <2>1, DocsType DEF IInv, TypeOK, Version
    <2>3. PriceList(sc.docs[memo[p]])
      BY <2>2, BulkAssumption DEF IInv
    <2>4. PICK doc, q : doc = sc.docs[memo[p]] /\ q = sc.query
      OBVIOUS
    <2>5. /\ ans'[p] # Err => ans'[p] \in pickPrice(doc, q)
          /\ (ans'[p] = Err /\ pickPrice(doc, q) # {}) =>
                Section(doc, "terms") < Section(doc, "products")
      BY <2>1, <2>3, <2>4, SelectAgrees
    <2> QED BY <1>1, <2>1, <2>4, <2>5
  <1> QED BY <1>2, <1>3, StepMoves

\* bulk.go:106 selectPrice, price.go pickPrice: for every price list, query and
\* process, what bulk answers is a price the live API could have given, and it
\* has none only if the live API has none or the terms precede the products.
THEOREM BulkAgreesWithLive == Spec => []LiveAgrees
  <1> DEFINE AgreeInv == IInv /\ AnswerOK /\ Loaded /\ LiveAgrees
  <1>1. Init => AgreeInv
    <2>1. Init => AnswerOK /\ Loaded /\ LiveAgrees
      BY DEF Init, AnswerOK, Loaded, LiveAgrees
    <2> QED BY <2>1, InitInv
  <1>2. AgreeInv /\ [Next]_vars => AgreeInv'
    BY NextInv, AnswerKeeps, LoadedKeeps, AgreesKeeps
  <1> QED BY <1>1, <1>2, PTL DEF Spec

-----------------------------------------------------------------------------
(* Loading in one step.                                                    *)

\* What is known of a process while no calls have overlapped: who downloads
\* does so because the cached file is missing or old, for a version that is
\* published now; who reads has found the cached file; who has a list knows
\* when it was published.
Holder(p) ==
    /\ Loading(p) => memo[p] = 0
    /\ pc[p] \in {"stat", "request", "create", "copy", "rename"} => idx[p] = None
    /\ pc[p] \in {"request", "create", "copy", "rename"} => path = None \/ old
    /\ pc[p] \in {"create", "copy", "rename"} => ver[p] <= latest /\ Published(ver[p], now)
    /\ pc[p] \in {"open", "read"} => path # None /\ idx[p] = [asOf |-> mtime, stale |-> old]
    /\ pc[p] = "read" => fd[p] = path
    /\ pc[p] \in {"ready", "select"} =>
          IF memo[p] = 0 THEN idx[p] = None
          ELSE /\ idx[p] \in Index /\ idx[p].asOf <= now
               /\ memo[p] <= latest /\ Published(memo[p], idx[p].asOf)

\* The cached file is the version that was published when it was written.
Listed == path # None =>
    \E v \in Version : v <= latest /\ Whole(data[path], v) /\ Published(v, mtime)

Steady ==
    /\ now \in Nat /\ mtime \in 0..now /\ pub \in [Version -> Nat]
    /\ \A v \in Version : v <= latest => pub[v] <= now
    /\ idx = [p \in Proc |-> idx[p]]
    /\ \A p, q \in Proc : Loading(p) /\ Loading(q) => p = q
    /\ shared = {}
    /\ old = (path # None /\ now > mtime + TTL)
    /\ Listed
    /\ \A p \in Proc : Holder(p)

LoadInv == IInv /\ AnswerOK /\ clash \in BOOLEAN /\ (~clash => Steady)

\* What is remembered as long as calls do not overlap.
LEMMA Remembered ==
  ASSUME Remember, ~clash', clash \in BOOLEAN
  PROVE  /\ ~clash /\ now' = now
         /\ \A p, q \in Proc : Loading(p)' /\ Loading(q)' => p = q
         /\ ~Written => mtime' = mtime
         /\ Written => mtime' = now
         /\ latest' = latest => pub' = pub
         /\ latest' # latest => pub' = [pub EXCEPT ![latest'] = now]
         /\ idx' = [p \in Proc |-> idx'[p]]
         /\ \A p \in Proc :
               idx'[p] = IF Found(p) THEN [asOf |-> mtime', stale |-> old']
                         ELSE IF memo'[p] = 0 /\ pc'[p] \notin {"open", "read"} THEN None
                         ELSE idx[p]
  BY DEF Remember

\* A process that does not move keeps its list.
LEMMA IdxStays ==
  ASSUME Remember, ~clash', clash \in BOOLEAN, NEW q \in Proc, Holder(q),
         pc'[q] = pc[q], memo'[q] = memo[q], TypeOK
  PROVE  idx'[q] = idx[q]
  <1>1. pc[q] \in Labels
    BY DEF TypeOK
  <1>2. ~Found(q)
    BY DEF Found
  <1>3. CASE memo[q] = 0 /\ pc[q] \notin {"open", "read"}
    <2>1. idx'[q] = None
      BY <1>2, <1>3, Remembered
    <2> QED BY <1>1, <1>3, <2>1 DEF Holder, Labels
  <1>4. CASE ~(memo[q] = 0 /\ pc[q] \notin {"open", "read"})
    BY <1>2, <1>4, Remembered
  <1> QED BY <1>3, <1>4

\* A step of p that concerns no other process.
LEMMA HolderStays ==
  ASSUME LoadInv, Remember, ~clash', NEW q \in Proc,
         sc' = sc, latest' = latest, pc'[q] = pc[q], memo'[q] = memo[q],
         fd'[q] = fd[q], ver'[q] = ver[q],
         Loading(q) => path' = path /\ old' = old /\ mtime' = mtime
  PROVE  Holder(q)' /\ idx'[q] = idx[q]
  <1>1. Holder(q) /\ TypeOK
    BY Remembered DEF LoadInv, Steady, IInv
  <1>2. idx'[q] = idx[q] /\ now' = now /\ pub' = pub
    BY <1>1, IdxStays, Remembered DEF LoadInv
  <1>3. \A v, t : Published(v, t)' <=> Published(v, t)
    BY <1>2 DEF Published
  <1>4. Loading(q)' <=> Loading(q)
    BY DEF Loading
  <1>5. pc[q] \in {"stat", "request", "create", "copy", "rename", "open", "read"} => Loading(q)
    BY DEF Loading
  <1> QED BY <1>1, <1>2, <1>3, <1>4, <1>5 DEF Holder

\* The cached file is left alone.
LEMMA Quiet ==
  ASSUME LoadInv, Remember, ~clash', sc' = sc, latest' = latest,
         path' = path, old' = old, path # None => data'[path] = data[path]
  PROVE  /\ mtime' = mtime /\ pub' = pub /\ bulk' = bulk
         /\ Listed' /\ old' = (path' # None /\ now' > mtime' + TTL)
         /\ now' \in Nat /\ mtime' \in 0..now' /\ pub' \in [Version' -> Nat]
         /\ \A v \in Version' : v <= latest' => pub'[v] <= now'
  <1>1. ~Written
    BY DEF Written
  <1>2. mtime' = mtime /\ pub' = pub /\ now' = now /\ Version' = Version /\ Steady
    BY <1>1, Remembered DEF LoadInv, Version
  <1>3. \A v, t : Published(v, t)' <=> Published(v, t)
    BY <1>2 DEF Published
  <1>4. Listed'
    BY <1>2, <1>3 DEF Steady, Listed, Whole
  <1> QED BY <1>2, <1>4 DEF Steady, bulk

\* What a step of p that leaves the cached file alone owes.
LEMMA QuietSteady ==
  ASSUME LoadInv, Remember, ~clash', sc' = sc, latest' = latest, NEW p \in Proc,
         path' = path, old' = old, path # None => data'[path] = data[path],
         \A q \in Proc \ {p} : /\ pc'[q] = pc[q] /\ memo'[q] = memo[q]
                               /\ fd'[q] = fd[q] /\ ver'[q] = ver[q],
         shared' = {}, Holder(p)'
  PROVE  Steady' /\ bulk' = bulk /\ \A q \in Proc \ {p} : idx'[q] = idx[q]
  <1>1. /\ mtime' = mtime /\ bulk' = bulk
        /\ Listed' /\ old' = (path' # None /\ now' > mtime' + TTL)
        /\ now' \in Nat /\ mtime' \in 0..now' /\ pub' \in [Version' -> Nat]
        /\ \A v \in Version' : v <= latest' => pub'[v] <= now'
    BY Quiet
  <1>2. \A q \in Proc \ {p} : Holder(q)' /\ idx'[q] = idx[q]
    BY <1>1, HolderStays
  <1>3. /\ \A q, r \in Proc : Loading(q)' /\ Loading(r)' => q = r
        /\ idx' = [q \in Proc |-> idx'[q]]
    BY Remembered DEF LoadInv
  <1>4. \A q \in Proc : Holder(q)'
    BY <1>2
  <1> QED BY <1>1, <1>2, <1>3, <1>4 DEF Steady

\* A process that has no file open, and comes to none, keeps its list.
LEMMA IdxKept ==
  ASSUME LoadInv, Remember, ~clash', NEW p \in Proc, memo'[p] = memo[p],
         pc[p] \notin {"open", "read"}, pc'[p] \notin {"open", "read"}
  PROVE  idx'[p] = idx[p]
  <1>1. Holder(p) /\ pc[p] \in Labels
    BY Remembered DEF LoadInv, Steady, IInv, TypeOK
  <1>2. idx'[p] = IF memo[p] = 0 THEN None ELSE idx[p]
    BY Remembered DEF LoadInv, Found
  <1>3. memo[p] = 0 => idx[p] = None
    BY <1>1 DEF Holder, Labels
  <1> QED BY <1>2, <1>3

\* What a process finds when it comes to open the cached file.
LEMMA IdxFound ==
  ASSUME LoadInv, Remember, ~clash', NEW p \in Proc,
         pc[p] # "open", pc'[p] = "open"
  PROVE  idx'[p] = [asOf |-> mtime', stale |-> old']
  BY Remembered DEF LoadInv, Found

\* The steps of one call, from the cached file and to it.
LEMMA AskSteady ==
  ASSUME LoadInv, Remember, ~clash', NEW p \in Proc, Ask(p)
  PROVE  Steady' /\ OneStep
  <1>1. /\ Steady /\ TypeOK /\ Holder(p) /\ pc[p] = "ready" /\ pub' = pub /\ now' = now
    BY Remembered DEF LoadInv, Steady, IInv, Ask
  <1>0. PICK l \in {"ready", "stat", "select"} :
            pc' = [pc EXCEPT ![p] = l] /\ (l = "stat" => memo[p] = 0)
    BY DEF Ask, Goto, Answer
  <1>2. /\ UNCHANGED <<sc, latest, disk, fd, at, ver, memo>>
        /\ pc'[p] \in {"ready", "stat", "select"} /\ (pc'[p] = "stat" => memo[p] = 0)
    BY <1>0, <1>1 DEF Ask, TypeOK
  <1>3. idx'[p] = idx[p]
    BY <1>1, <1>2, IdxKept
  <1>4. Holder(p)'
    <2>1. memo[p] = 0 => idx[p] = None
      BY <1>1 DEF Holder
    <2>2. ~Loading(p)' \/ memo[p] = 0
      BY <1>2 DEF Loading
    <2>3. \A v, t : Published(v, t)' <=> Published(v, t)
      BY <1>1, <1>2 DEF Published
    <2> QED BY <1>1, <1>2, <1>3, <2>1, <2>2, <2>3 DEF Holder
  <1>5. \A q \in Proc \ {p} : pc'[q] = pc[q] /\ memo'[q] = memo[q]
                              /\ fd'[q] = fd[q] /\ ver'[q] = ver[q]
    BY <1>0, <1>1, <1>2 DEF TypeOK
  <1>6. Steady' /\ bulk' = bulk /\ \A q \in Proc \ {p} : idx'[q] = idx[q]
    BY <1>1, <1>2, <1>4, <1>5, QuietSteady DEF disk, Steady
  <1>7. idx' = idx
    BY <1>1, <1>3, <1>6 DEF Steady
  <1> QED BY <1>6, <1>7 DEF OneStep

\* The call goes on and nothing is loaded.
LEMMA WorkSteady ==
  ASSUME LoadInv, Remember, ~clash', NEW p \in Proc, NEW l \in Labels,
         Loading(p), pc[p] \notin {"open", "read"},
         l \notin {"open", "read"}, l = "stat" => FALSE,
         pc' = [pc EXCEPT ![p] = l], UNCHANGED <<sc, latest, path, old, memo>>,
         path # None => data'[path] = data[path],
         \A q \in Proc \ {p} : fd'[q] = fd[q] /\ ver'[q] = ver[q],
         shared' = {},
         l \in {"request", "create", "copy", "rename"} => path = None \/ old,
         l \in {"create", "copy", "rename"} => ver'[p] <= latest /\ Published(ver'[p], now)
  PROVE  Steady' /\ OneStep
  <1>1. /\ Steady /\ TypeOK /\ Holder(p) /\ pub' = pub /\ now' = now /\ pc[p] \in Labels
    BY Remembered DEF LoadInv, Steady, IInv, TypeOK
  <1>2. pc'[p] = l /\ \A q \in Proc \ {p} : pc'[q] = pc[q] /\ memo'[q] = memo[q]
    BY <1>1 DEF TypeOK
  <1>3. idx'[p] = idx[p] /\ idx[p] = None /\ memo[p] = 0
    <2>1. idx[p] = None /\ memo[p] = 0
      BY <1>1 DEF Holder, Loading, Labels
    <2> QED BY <1>2, <2>1, IdxKept
  <1>4. Holder(p)'
    <2>1. \A v, t : Published(v, t)' <=> Published(v, t)
      BY <1>1 DEF Published
    <2> QED BY <1>1, <1>2, <1>3, <2>1 DEF Holder
  <1>5. Steady' /\ bulk' = bulk /\ \A q \in Proc \ {p} : idx'[q] = idx[q]
    BY <1>2, <1>4, QuietSteady
  <1>6. idx' = idx
    BY <1>1, <1>3, <1>5 DEF Steady
  <1> QED BY <1>5, <1>6 DEF OneStep

\* What Loads says of a process that has no list.
LEMMA LoadsIs ==
  ASSUME NEW p \in Proc, idx[p] = None
  PROVE  /\ (bulk # None /\ now <= bulk + TTL) =>
               <<[asOf |-> bulk, stale |-> FALSE], bulk>> \in Chain!Loads(p)
         /\ (bulk = None \/ ~(now <= bulk + TTL)) =>
               /\ <<[asOf |-> now, stale |-> FALSE], now>> \in Chain!Loads(p)
               /\ bulk # None => <<[asOf |-> bulk, stale |-> TRUE], bulk>> \in Chain!Loads(p)
  BY DEF Chain!Loads

\* The call has come to the cached file as it is: it has not expired, or the
\* download has failed.
LEMMA FoundSteady ==
  ASSUME LoadInv, Remember, ~clash', NEW p \in Proc,
         Loading(p), pc[p] \notin {"open", "read"}, path # None, old => sc.faults,
         pc' = [pc EXCEPT ![p] = "open"], UNCHANGED <<sc, latest, data, path, old, memo>>,
         \A q \in Proc \ {p} : fd'[q] = fd[q] /\ ver'[q] = ver[q], shared' = {}
  PROVE  Steady' /\ OneStep
  <1>1. /\ Steady /\ TypeOK /\ Holder(p) /\ pub' = pub /\ now' = now /\ pc[p] \in Labels
    BY Remembered DEF LoadInv, Steady, IInv, TypeOK
  <1>2. pc'[p] = "open" /\ \A q \in Proc \ {p} : pc'[q] = pc[q] /\ memo'[q] = memo[q]
    BY <1>1 DEF TypeOK
  <1>3. mtime' = mtime /\ bulk' = bulk /\ bulk = mtime
    BY Quiet DEF bulk
  <1>4. idx'[p] = [asOf |-> mtime, stale |-> old]
    BY <1>2, <1>3, IdxFound
  <1>5. memo[p] = 0 /\ idx[p] = None
    BY <1>1 DEF Holder, Loading, Labels
  <1>6. Holder(p)'
    <2>1. \A v, t : Published(v, t)' <=> Published(v, t)
      BY <1>1 DEF Published
    <2> QED BY <1>1, <1>2, <1>3, <1>4, <1>5, <2>1 DEF Holder
  <1>7. Steady' /\ \A q \in Proc \ {p} : idx'[q] = idx[q]
    BY <1>2, <1>6, QuietSteady
  <1>8. Loads(p)
    <2>1. mtime \in Nat /\ now \in Nat /\ mtime # None /\ old \in BOOLEAN /\ TTL \in Nat
      BY <1>1, LoadAssumption DEF Steady, TypeOK
    <2>2. <<idx'[p], bulk'>> \in Chain!Loads(p)
      <3>0. old = (path # None /\ now > mtime + TTL)
        BY <1>1 DEF Steady
      <3>a. (now > mtime + TTL) <=> ~(now <= mtime + TTL)
        BY <2>1
      <3>b. old <=> now > mtime + TTL
        BY <3>0, Zenon
      <3>1. old <=> ~(now <= mtime + TTL)
        BY <3>a, <3>b, Zenon
      <3>2. CASE old
        BY <1>3, <1>4, <1>5, <2>1, <3>1, <3>2, LoadsIs
      <3>3. CASE ~old
        <4>1. idx'[p] = [asOf |-> bulk, stale |-> FALSE]
          BY <1>3, <1>4, <2>1, <3>3
        <4> QED BY <1>3, <1>5, <2>1, <3>1, <3>3, <4>1, LoadsIs
      <3> QED BY <3>2, <3>3
    <2> QED BY <1>4, <2>2 DEF Loads
  <1> QED BY <1>1, <1>7, <1>8 DEF OneStep

LEMMA StatSteady ==
  ASSUME LoadInv, Remember, ~clash', NEW p \in Proc, Stat(p)
  PROVE  Steady' /\ OneStep
  <1>1. /\ Steady /\ Loading(p) /\ pc[p] \notin {"open", "read"} /\ shared' = {}
        /\ UNCHANGED <<sc, latest, data, path, old, fd, ver, memo>>
    BY Remembered DEF LoadInv, Steady, Stat, Loading, disk
  <1>2. CASE path # None /\ ~old
    <2>1. pc' = [pc EXCEPT ![p] = "open"]
      BY <1>2 DEF Stat, Goto
    <2> QED BY <1>1, <1>2, <2>1, FoundSteady
  <1>3. CASE ~(path # None /\ ~old)
    <2>1. pc' = [pc EXCEPT ![p] = "request"]
      BY <1>3 DEF Stat, Goto
    <2> QED BY <1>1, <1>3, <2>1, WorkSteady DEF Labels
  <1> QED BY <1>2, <1>3

\* A download that fails.
LEMMA StaleSteady ==
  ASSUME LoadInv, Remember, ~clash', NEW p \in Proc, sc.faults,
         pc[p] \in {"request", "create", "copy"}, Close(p), Stale(p),
         UNCHANGED <<sc, latest, data, path, old, shared, memo>>
  PROVE  Steady' /\ OneStep
  <1>1. /\ Steady /\ TypeOK /\ Loading(p) /\ pc[p] \notin {"open", "read"} /\ shared' = {}
    BY Remembered DEF LoadInv, Steady, Loading, IInv
  <1>2. \A q \in Proc \ {p} : fd'[q] = fd[q] /\ ver'[q] = ver[q]
    BY <1>1 DEF Close, TypeOK
  <1>3. CASE path # None
    <2>1. pc' = [pc EXCEPT ![p] = "open"]
      BY <1>3 DEF Stale, Goto
    <2> QED BY <1>1, <1>2, <1>3, <2>1, FoundSteady
  <1>4. CASE path = None
    <2>1. pc' = [pc EXCEPT ![p] = "ready"]
      BY <1>4 DEF Stale, Answer, Goto
    <2> QED BY <1>1, <1>2, <1>4, <2>1, WorkSteady DEF Labels
  <1> QED BY <1>3, <1>4

LEMMA RequestSteady ==
  ASSUME LoadInv, Remember, ~clash', NEW p \in Proc, Request(p)
  PROVE  Steady' /\ OneStep
  <1>1. /\ Steady /\ TypeOK /\ Holder(p) /\ pc[p] = "request" /\ Loading(p) /\ shared' = {}
        /\ UNCHANGED <<sc, latest, data, path, old, fd, memo>>
    BY Remembered DEF LoadInv, Steady, Request, Loading, IInv, disk
  <1>2. pc' = [pc EXCEPT ![p] = "create"] /\ ver' = [ver EXCEPT ![p] = latest]
    BY DEF Request, Goto
  <1>3. latest \in Nat /\ pub[latest] <= now
    BY <1>1, DocsType DEF Steady, TypeOK, LoadInv, IInv
  <1>4. ver'[p] = latest /\ \A q \in Proc \ {p} : ver'[q] = ver[q]
    BY <1>1, <1>2 DEF TypeOK
  <1>5. Published(latest, now)
    BY <1>3 DEF Published
  <1>6. path = None \/ old
    BY <1>1 DEF Holder
  <1>7. ver'[p] <= latest /\ Published(ver'[p], now)
    BY <1>3, <1>4, <1>5
  <1> QED BY <1>1, <1>2, <1>4, <1>6, <1>7, WorkSteady DEF Labels

LEMMA CreateSteady ==
  ASSUME LoadInv, Remember, ~clash', NEW p \in Proc, Create(p)
  PROVE  Steady' /\ OneStep
  <1>1. /\ Steady /\ TypeOK /\ Names /\ Holder(p) /\ pc[p] = "create" /\ Loading(p)
        /\ UNCHANGED <<sc, latest, path, old, ver, memo>>
    BY Remembered DEF LoadInv, Steady, Create, Loading, IInv
  <1>2. PICK i \in Inode :
            /\ IF Target # None THEN i = Target ELSE i # path
            /\ data' = [data EXCEPT ![i] = <<>>] /\ fd' = [fd EXCEPT ![p] = i]
            /\ shared' = IF \E q \in Proc \ {p} : Writing(q)
                         THEN shared \cup {i} ELSE shared \ {i}
    BY DEF Create
  <1>3. i # path
    BY <1>1, <1>2 DEF Target, Names
  <1>4. shared' = {}
    <2>1. \A q \in Proc \ {p} : ~Writing(q)
      BY <1>1 DEF Steady, Loading, Writing
    <2> QED BY <1>1, <1>2, <2>1 DEF Steady
  <1>5. path # None => data'[path] = data[path]
    BY <1>1, <1>2, <1>3 DEF TypeOK
  <1>6. pc' = [pc EXCEPT ![p] = "copy"]
    BY DEF Create, Goto
  <1>7. /\ path = None \/ old
        /\ ver'[p] <= latest /\ Published(ver'[p], now)
    BY <1>1 DEF Holder
  <1>8. \A q \in Proc \ {p} : fd'[q] = fd[q] /\ ver'[q] = ver[q]
    BY <1>1, <1>2 DEF TypeOK
  <1> QED BY <1>1, <1>4, <1>5, <1>6, <1>7, <1>8, WorkSteady DEF Labels

\* A process that writes has the temporary file, which is not the cached one.
LEMMA Writer ==
  ASSUME LoadInv, Steady, NEW p \in Proc, Writing(p)
  PROVE  /\ tmp = fd[p] /\ tmp # None /\ tmp # path /\ data[tmp] = Prefix(ver[p], at[p])
         /\ tmp \in Inode
  BY DEF LoadInv, IInv, Steady, Alone, Names, TypeOK

LEMMA CopySteady ==
  ASSUME LoadInv, Remember, ~clash', NEW p \in Proc, Copy(p)
  PROVE  Steady' /\ OneStep
  <1>1. /\ Steady /\ TypeOK /\ Holder(p) /\ pc[p] = "copy" /\ Loading(p) /\ Writing(p)
        /\ UNCHANGED <<sc, latest, path, shared, pc, fd, ver, memo>>
    BY Remembered DEF LoadInv, Steady, Copy, Loading, Writing, IInv
  <1>2. fd[p] # path
    BY <1>1, Writer
  <1>3. old' = old
    BY <1>1, <1>2 DEF Copy, TypeOK
  <1>4. path # None => data'[path] = data[path]
    BY <1>2 DEF Copy
  <1>5. pc' = [pc EXCEPT ![p] = "copy"]
    BY <1>1 DEF TypeOK
  <1>6. /\ path = None \/ old
        /\ ver'[p] <= latest /\ Published(ver'[p], now) /\ shared' = {}
    BY <1>1 DEF Holder, Steady
  <1> QED BY <1>1, <1>3, <1>4, <1>5, <1>6, WorkSteady DEF Labels

LEMMA CopiedSteady ==
  ASSUME LoadInv, Remember, ~clash', NEW p \in Proc, Copied(p)
  PROVE  Steady' /\ OneStep
  <1>1. /\ Steady /\ Holder(p) /\ pc[p] = "copy" /\ Loading(p) /\ shared' = {}
        /\ UNCHANGED <<sc, latest, data, path, old, fd, ver, memo>>
    BY Remembered DEF LoadInv, Steady, Copied, Loading, disk
  <1>2. pc' = [pc EXCEPT ![p] = "rename"]
    BY DEF Copied, Goto
  <1>3. /\ path = None \/ old
        /\ ver'[p] <= latest /\ Published(ver'[p], now)
    BY <1>1 DEF Holder
  <1> QED BY <1>1, <1>2, <1>3, WorkSteady DEF Labels

\* The download is complete: the cached file is new, and so is the list.
LEMMA RenameSteady ==
  ASSUME LoadInv, Remember, ~clash', NEW p \in Proc, Rename(p)
  PROVE  Steady' /\ OneStep
  <1>1. /\ Steady /\ TypeOK /\ Names /\ Holder(p) /\ pc[p] = "rename" /\ Loading(p) /\ Writing(p)
        /\ UNCHANGED <<sc, latest, data, shared, memo>>
    BY Remembered DEF LoadInv, Steady, Rename, Loading, Writing, IInv
  <1>2. /\ tmp = fd[p] /\ tmp # None /\ tmp # path /\ data[tmp] = Prefix(ver[p], at[p])
    BY <1>1, Writer
  <1>3. /\ path' = tmp /\ old' = FALSE /\ pc' = [pc EXCEPT ![p] = "open"]
        /\ fd' = [fd EXCEPT ![p] = None] /\ ver' = [ver EXCEPT ![p] = 0]
    BY <1>2 DEF Rename, Close, Goto
  <1>4. mtime' = now /\ pub' = pub /\ now' = now
    <2>1. Written
      BY <1>2, <1>3 DEF Written
    <2> QED BY <1>1, <2>1, Remembered DEF LoadInv
  <1>5. now \in Nat /\ TTL \in Nat /\ None \notin Nat
    BY <1>1, LoadAssumption DEF Steady
  <1>6. /\ pc'[p] = "open"
        /\ \A q \in Proc \ {p} : /\ pc'[q] = pc[q] /\ memo'[q] = memo[q]
                                 /\ fd'[q] = fd[q] /\ ver'[q] = ver[q] /\ ~Loading(q)
    BY <1>1, <1>3 DEF TypeOK, Steady
  <1>7. idx'[p] = [asOf |-> now, stale |-> FALSE] /\ idx[p] = None /\ memo[p] = 0
    <2>1. idx'[p] = [asOf |-> mtime', stale |-> old']
      BY <1>1, <1>6, IdxFound
    <2> QED BY <1>1, <1>3, <1>4, <2>1 DEF Holder
  <1>8. \A v, t : Published(v, t)' <=> Published(v, t)
    BY <1>1, <1>4 DEF Published
  <1>9. Listed'
    <2>1. ver[p] \in Version
      BY <1>1, DocsType DEF LoadInv, IInv, TypeOK
    <2>2. Whole(data'[path'], ver[p])
      BY <1>1, <1>2, <1>3 DEF Whole, Prefix, Names, Sections
    <2>3. ver[p] <= latest /\ Published(ver[p], now)
      BY <1>1 DEF Holder
    <2>4. ver[p] \in Version'
      BY <1>1, <2>1 DEF Version
    <2>5. pub'[ver[p]] <= mtime' /\ (ver[p] < latest' => mtime' <= pub'[ver[p] + 1])
      BY <1>1, <1>4, <2>3 DEF Published
    <2>6. ver[p] <= latest'
      BY <1>1, <2>3
    <2> QED BY <2>2, <2>4, <2>5, <2>6 DEF Listed, Whole, Published
  <1>10. ASSUME NEW q \in Proc PROVE Holder(q)'
    <2>1. CASE q = p
      BY <1>1, <1>2, <1>3, <1>4, <1>6, <1>7, <2>1 DEF Holder, Loading
    <2>2. CASE q # p
      BY <1>1, <1>6, <2>2, HolderStays
    <2> QED BY <2>1, <2>2
  <1>11. \A q \in Proc \ {p} : idx'[q] = idx[q]
    BY <1>1, <1>6, HolderStays
  <1>12. bulk' = now
    BY <1>2, <1>3, <1>4 DEF bulk
  <1>13. <<idx'[p], bulk'>> \in Chain!Loads(p)
    <2>1. bulk = None \/ ~(now <= bulk + TTL)
      <3>1. path = None \/ old
        BY <1>1 DEF Holder
      <3>2. old = (path # None /\ now > mtime + TTL) /\ mtime \in Nat
        BY <1>1 DEF Steady
      <3>3. CASE path = None
        BY <3>3 DEF bulk
      <3>4. CASE path # None
        <4>1. now > mtime + TTL
          BY <3>1, <3>2, <3>4, Zenon
        <4> QED BY <1>5, <3>2, <3>4, <4>1 DEF bulk
      <3> QED BY <3>3, <3>4
    <2> QED BY <1>7, <1>12, <2>1, LoadsIs
  <1>14. Loads(p)
    BY <1>7, <1>13 DEF Loads
  <1>15. Steady'
    <2>1. /\ \A q, r \in Proc : Loading(q)' /\ Loading(r)' => q = r
          /\ idx' = [q \in Proc |-> idx'[q]]
      BY Remembered DEF LoadInv
    <2>2. /\ now' \in Nat /\ mtime' \in 0..now' /\ pub' \in [Version' -> Nat] /\ shared' = {}
          /\ \A v \in Version' : v <= latest' => pub'[v] <= now'
      BY <1>1, <1>4, <1>5 DEF Steady, Version
    <2>3. old' = (path' # None /\ now' > mtime' + TTL)
      <3>1. ~(now > now + TTL)
        BY <1>5
      <3>2. ~(now' > mtime' + TTL)
        BY <1>4, <3>1
      <3> QED BY <1>3, <3>2, Zenon
    <2> QED BY <1>9, <1>10, <2>1, <2>2, <2>3 DEF Steady
  <1> QED BY <1>4, <1>11, <1>14, <1>15 DEF OneStep

LEMMA OpenSteady ==
  ASSUME LoadInv, Remember, ~clash', NEW p \in Proc, Open(p)
  PROVE  Steady' /\ OneStep
  <1>1. /\ Steady /\ TypeOK /\ Holder(p) /\ pc[p] = "open" /\ shared' = {}
        /\ UNCHANGED <<sc, latest, data, path, old, ver, memo>> /\ pub' = pub /\ now' = now
    BY Remembered DEF LoadInv, Steady, Open, IInv, disk
  <1>2. /\ pc'[p] = "read" /\ fd'[p] = path
        /\ \A q \in Proc \ {p} : /\ pc'[q] = pc[q] /\ memo'[q] = memo[q]
                                 /\ fd'[q] = fd[q] /\ ver'[q] = ver[q]
    BY <1>1 DEF Open, Goto, TypeOK
  <1>3. idx'[p] = idx[p] /\ mtime' = mtime
    BY <1>1, <1>2, Remembered, Quiet DEF LoadInv, Found
  <1>4. Holder(p)'
    BY <1>1, <1>2, <1>3 DEF Holder, Loading
  <1>5. Steady' /\ bulk' = bulk /\ \A q \in Proc \ {p} : idx'[q] = idx[q]
    BY <1>1, <1>2, <1>4, QuietSteady
  <1>6. idx' = idx
    BY <1>1, <1>3, <1>5 DEF Steady
  <1> QED BY <1>5, <1>6 DEF OneStep

\* The cached file parses, as the version that was published when it was written.
LEMMA ParseSteady ==
  ASSUME LoadInv, Remember, ~clash', NEW p \in Proc, Parse(p)
  PROVE  Steady' /\ OneStep
  <1>1. /\ Steady /\ TypeOK /\ Holder(p) /\ pc[p] = "read" /\ shared' = {}
        /\ UNCHANGED <<sc, latest, data, path, old, at, ver>> /\ pub' = pub /\ now' = now
    BY Remembered DEF LoadInv, Steady, Parse, IInv, disk
  <1>2. fd[p] = path /\ path # None /\ idx[p] = [asOf |-> mtime, stale |-> old]
    BY <1>1 DEF Holder
  <1>3. PICK v \in Version : v <= latest /\ Whole(data[path], v) /\ Published(v, mtime)
    BY <1>1, <1>2 DEF Steady, Listed
  <1>4. memo' = [memo EXCEPT ![p] = v] /\ pc' = [pc EXCEPT ![p] = "select"]
    <2>1. ASSUME NEW w \in DOMAIN sc.docs, Whole(data[fd[p]], w) PROVE w = v
      <3>1. [n \in Sections |-> <<w, n>>][1] = [n \in Sections |-> <<v, n>>][1]
        BY <1>2, <1>3, <2>1 DEF Whole
      <3> QED BY <3>1 DEF Sections
    <2> QED BY <1>2, <1>3, <2>1 DEF Parse, Goto, Version
  <1>5. v # 0 /\ v \in Nat
    BY DocsType DEF LoadInv, IInv
  <1>6. /\ pc'[p] = "select" /\ memo'[p] = v
        /\ \A q \in Proc \ {p} : /\ pc'[q] = pc[q] /\ memo'[q] = memo[q]
                                 /\ fd'[q] = fd[q] /\ ver'[q] = ver[q]
    BY <1>1, <1>4 DEF Parse, TypeOK
  <1>7. idx'[p] = idx[p]
    BY <1>5, <1>6, Remembered DEF LoadInv, Found
  <1>8. Holder(p)'
    <2>0. mtime \in Nat /\ mtime <= now /\ old \in BOOLEAN
      BY <1>1 DEF Steady, TypeOK
    <2>1. idx[p] \in Index /\ idx[p].asOf <= now /\ idx[p].asOf = mtime
      BY <1>2, <2>0 DEF Index
    <2>2. \A u, t : Published(u, t)' <=> Published(u, t)
      BY <1>1 DEF Published
    <2>3. v <= latest /\ Published(v, idx[p].asOf)
      BY <1>3, <2>1
    <2>4. /\ memo'[p] <= latest' /\ memo'[p] # 0 /\ idx'[p] \in Index /\ idx'[p].asOf <= now'
          /\ Published(memo[p], idx[p].asOf)'
      BY <1>1, <1>5, <1>6, <1>7, <2>1, <2>2, <2>3 DEF Published
    <2> QED BY <1>6, <2>4 DEF Holder, Loading
  <1>9. Steady' /\ bulk' = bulk /\ \A q \in Proc \ {p} : idx'[q] = idx[q]
    BY <1>1, <1>6, <1>8, QuietSteady
  <1>10. idx' = idx
    BY <1>1, <1>7, <1>9 DEF Steady
  <1> QED BY <1>9, <1>10 DEF OneStep

LEMMA SelectSteady ==
  ASSUME LoadInv, Remember, ~clash', NEW p \in Proc, Select(p)
  PROVE  Steady' /\ OneStep
  <1>1. /\ Steady /\ TypeOK /\ Holder(p) /\ pc[p] = "select" /\ shared' = {}
        /\ UNCHANGED <<sc, latest, data, path, old, fd, ver, memo>> /\ pub' = pub /\ now' = now
    BY Remembered DEF LoadInv, Steady, Select, IInv, disk
  <1>2. pc'[p] = "ready" /\ \A q \in Proc \ {p} : pc'[q] = pc[q] /\ memo'[q] = memo[q]
    BY <1>1 DEF Select, Answer, Goto, TypeOK
  <1>3. idx'[p] = idx[p]
    BY <1>1, <1>2, IdxKept
  <1>4. Holder(p)'
    <2>1. \A u, t : Published(u, t)' <=> Published(u, t)
      BY <1>1 DEF Published
    <2> QED BY <1>1, <1>2, <1>3, <2>1 DEF Holder, Loading
  <1>5. Steady' /\ bulk' = bulk /\ \A q \in Proc \ {p} : idx'[q] = idx[q]
    BY <1>1, <1>2, <1>4, QuietSteady
  <1>6. idx' = idx
    BY <1>1, <1>3, <1>5 DEF Steady
  <1> QED BY <1>5, <1>6 DEF OneStep

\* A process that is killed leaves the cached file as it is.
LEMMA EndSteady ==
  ASSUME LoadInv, Remember, ~clash', NEW p \in Proc, End(p)
  PROVE  Steady' /\ OneStep
  <1>1. /\ Steady /\ TypeOK /\ AnswerOK /\ shared' = {} /\ now' = now
        /\ UNCHANGED <<sc, latest, data, path, old>>
    BY Remembered DEF LoadInv, Steady, End, IInv, disk
  <1>2. /\ pc'[p] = "ready" /\ memo'[p] = 0 /\ ans'[p] = None
        /\ \A q \in Proc \ {p} : /\ pc'[q] = pc[q] /\ memo'[q] = memo[q]
                                 /\ fd'[q] = fd[q] /\ ver'[q] = ver[q]
    BY <1>1 DEF End, Close, Answer, Goto, TypeOK, AnswerOK
  <1>3. idx'[p] = None
    BY <1>2, Remembered DEF LoadInv, Found
  <1>4. Holder(p)'
    BY <1>2, <1>3 DEF Holder, Loading
  <1>5. Steady' /\ bulk' = bulk /\ \A q \in Proc \ {p} : idx'[q] = idx[q]
    BY <1>1, <1>2, <1>4, QuietSteady
  <1> QED BY <1>1, <1>2, <1>3, <1>5 DEF OneStep, Ends

\* AWS publishes: what was published until now still was.
LEMMA PublishSteady ==
  ASSUME LoadInv, Remember, ~clash', Publish
  PROVE  Steady' /\ OneStep
  <1>1. /\ Steady /\ TypeOK /\ now' = now /\ latest' = latest + 1 /\ latest < Len(sc.docs)
        /\ UNCHANGED <<sc, data, path, tmp, old, shared, pc, fd, at, ver, memo>>
    BY Remembered DEF LoadInv, Steady, Publish, IInv, disk
  <1>2. /\ latest \in Nat /\ latest \in Version /\ latest + 1 \in Version /\ Version' = Version
        /\ Version \subseteq Nat /\ now \in Nat
    BY <1>1, DocsType DEF LoadInv, IInv, TypeOK, Version, Steady
  <1>3. mtime' = mtime /\ pub' = [pub EXCEPT ![latest + 1] = now]
    BY <1>1, <1>2, Remembered DEF LoadInv, Written
  <1>4. pub \in [Version -> Nat] /\ \A v \in Version : v <= latest => pub[v] <= now
    BY <1>1 DEF Steady
  <1>5. ASSUME NEW v \in Version, v <= latest, NEW t \in Nat, t <= now, Published(v, t)
        PROVE  pub'[v] <= t /\ (v < latest' => t <= pub'[v + 1])
    <2>1. pub'[v] = pub[v]
      BY <1>2, <1>3, <1>4, <1>5
    <2>2. CASE v < latest
      <3>1. v + 1 \in Version /\ v + 1 # latest + 1
        BY <1>1, <1>2, <2>2, DocsType DEF LoadInv, IInv
      <3>2. pub'[v + 1] = pub[v + 1]
        BY <1>3, <1>4, <3>1
      <3> QED BY <1>5, <2>1, <2>2, <3>2 DEF Published
    <2>3. CASE v = latest
      <3>1. pub'[v + 1] = now
        BY <1>2, <1>3, <1>4, <2>3
      <3> QED BY <1>5, <2>1, <3>1 DEF Published
    <2> QED BY <1>2, <1>5, <2>2, <2>3
  <1>6. \A q \in Proc : idx'[q] = idx[q]
    BY <1>1, IdxStays DEF Steady, LoadInv
  <1>7. ASSUME NEW q \in Proc PROVE Holder(q)'
    <2>1. Holder(q) /\ memo[q] \in 0..Len(sc.docs) /\ ver[q] \in 0..Len(sc.docs)
      BY <1>1 DEF Steady, TypeOK
    <2>2. idx'[q] = idx[q]
      BY <1>6
    <2>3. CASE pc[q] \in {"ready", "select"} /\ memo[q] # 0
      <3>1. /\ memo[q] \in Version /\ memo[q] <= latest /\ idx[q] \in Index
            /\ idx[q].asOf <= now /\ Published(memo[q], idx[q].asOf)
        BY <2>1, <2>3, DocsType DEF Holder, LoadInv, IInv
      <3>2. idx[q].asOf \in Nat
        BY <3>1 DEF Index
      <3>3. /\ pub'[memo[q]] <= idx[q].asOf
            /\ memo[q] < latest' => idx[q].asOf <= pub'[memo[q] + 1]
        BY <1>5, <3>1, <3>2
      <3>4. memo[q] <= latest'
        BY <1>1, <1>2, <3>1
      <3> QED BY <1>1, <2>2, <2>3, <3>1, <3>3, <3>4 DEF Holder, Loading, Published
    <2>4. CASE pc[q] \in {"create", "copy", "rename"}
      <3>1. ver[q] # 0
        BY <2>4 DEF LoadInv, IInv, Names, TypeOK, Writing
      <3>2. PICK w \in Version : w = ver[q] /\ w <= latest /\ Published(w, now)
        BY <2>1, <2>4, <3>1, DocsType DEF Holder, LoadInv, IInv
      <3>3. pub'[ver[q]] <= now /\ (ver[q] < latest' => now <= pub'[ver[q] + 1])
        <4>1. now <= now
          BY <1>2
        <4>2. pub'[w] <= now /\ (w < latest' => now <= pub'[w + 1])
          BY <1>2, <1>5, <3>2, <4>1
        <4> QED BY <3>2, <4>2
      <3>4. ver[q] <= latest'
        <4>1. w \in Nat /\ latest' = latest + 1 /\ latest \in Nat
          BY <1>1, <1>2, <3>2
        <4> QED BY <3>2, <4>1
      <3> QED BY <1>1, <1>3, <2>1, <2>2, <2>4, <3>3, <3>4 DEF Holder, Loading, Published
    <2>5. CASE ~(pc[q] \in {"ready", "select"} /\ memo[q] # 0)
               /\ pc[q] \notin {"create", "copy", "rename"}
      BY <1>1, <1>3, <2>1, <2>2, <2>5 DEF Holder, Loading
    <2> QED BY <2>3, <2>4, <2>5
  <1>8. Listed'
    <2> SUFFICES ASSUME path # None PROVE Listed'
      BY <1>1 DEF Listed
    <2>1. PICK v \in Version : v <= latest /\ Whole(data[path], v) /\ Published(v, mtime)
      BY <1>1 DEF Steady, Listed
    <2>2. pub'[v] <= mtime /\ (v < latest' => mtime <= pub'[v + 1])
      BY <1>1, <1>5, <2>1 DEF Steady
    <2>3. v <= latest' /\ Whole(data[path], v)'
      BY <1>1, <1>2, <2>1 DEF Whole
    <2> QED BY <1>1, <1>2, <1>3, <2>2, <2>3 DEF Listed, Published, Whole
  <1>9. Steady'
    <2>1. /\ \A q, r \in Proc : Loading(q)' /\ Loading(r)' => q = r
          /\ idx' = [q \in Proc |-> idx'[q]]
      BY Remembered DEF LoadInv
    <2>2. pub' \in [Version' -> Nat] /\ \A v \in Version' : v <= latest' => pub'[v] <= now'
      <3>1. pub' \in [Version -> Nat]
        BY <1>2, <1>3, <1>4
      <3>2. ASSUME NEW v \in Version, v <= latest + 1 PROVE pub'[v] <= now
        <4>1. CASE v = latest + 1
          BY <1>2, <1>3, <1>4, <4>1
        <4>2. CASE v # latest + 1
          BY <1>2, <1>3, <1>4, <3>2, <4>2
        <4> QED BY <4>1, <4>2
      <3> QED BY <1>1, <1>2, <3>1, <3>2
    <2>3. now' \in Nat /\ mtime' \in 0..now' /\ shared' = {}
      BY <1>1, <1>3 DEF Steady
    <2>4. old' = (path' # None /\ now' > mtime' + TTL)
      BY <1>1, <1>3 DEF Steady
    <2> QED BY <1>7, <1>8, <2>1, <2>2, <2>3, <2>4 DEF Steady
  <1>10. UNCHANGED <<idx, bulk>>
    BY <1>1, <1>3, <1>6, <1>9 DEF Steady, bulk
  <1> QED BY <1>9, <1>10 DEF OneStep

\* Time passes while nobody loads.
LEMMA TickSteady ==
  ASSUME LoadInv, Tick
  PROVE  LoadInv' /\ OneStep
  <1>1. /\ ~clash /\ Steady /\ TypeOK /\ now' = now + 1 /\ UNCHANGED <<mtime, pub, idx, clash>>
        /\ \A p \in Proc : ~Loading(p)
    BY DEF Tick, LoadInv, IInv, history
  <1>2. /\ UNCHANGED <<sc, latest, data, path, tmp, shared, pc, fd, at, ver, memo, ans>>
        /\ Publish \/ Expire \/ UNCHANGED vars
    BY DEF Tick, Expire, vars, disk
  <1>3. IInv' /\ AnswerOK'
    BY <1>2, OthersKeep DEF LoadInv, AnswerOK
  <1>4. now \in Nat /\ mtime \in 0..now /\ TTL \in Nat
    BY <1>1, LoadAssumption DEF Steady
  <1>5. old' = (path' # None /\ now' > mtime' + TTL)
    <2>1. old = (path # None /\ now > mtime + TTL) /\ old \in BOOLEAN
      BY <1>1 DEF Steady, TypeOK
    <2>2. (now > mtime + TTL) => now' > mtime + TTL
      BY <1>1, <1>4
    <2>3. CASE path # None /\ ~old /\ now' > mtime + TTL
      <3>1. old' = TRUE
        BY <2>3 DEF Tick, Expire
      <3> QED BY <1>1, <1>2, <2>3, <3>1, Zenon
    <2>4. CASE ~(path # None /\ ~old /\ now' > mtime + TTL)
      <3>1. old' = old
        BY <2>4 DEF Tick, vars, disk
      <3>2. old' = (path # None /\ now' > mtime + TTL)
        BY <2>1, <2>2, <2>4, <3>1, Zenon
      <3> QED BY <1>1, <1>2, <3>2
    <2> QED BY <2>3, <2>4
  <1>6. \A v, t : Published(v, t)' <=> Published(v, t)
    BY <1>1, <1>2 DEF Published
  <1>7. Version' = Version /\ \A v \in Version : pub[v] \in Nat
    BY <1>1, <1>2 DEF Version, Steady
  <1>8. Listed'
    BY <1>1, <1>2, <1>6, <1>7 DEF Steady, Listed, Whole
  <1>9. ASSUME NEW p \in Proc PROVE Holder(p)'
    <2>1. Holder(p) /\ ~Loading(p) /\ ~Loading(p)' /\ pc'[p] \in {"ready", "select"}
      BY <1>1, <1>2 DEF Steady, Loading
    <2>2. (memo[p] # 0) => idx[p].asOf <= now + 1
      <3>1. memo[p] # 0 => idx[p] \in Index /\ idx[p].asOf <= now
        BY <1>2, <2>1 DEF Holder
      <3> QED BY <1>4, <3>1 DEF Index
    <2> QED BY <1>1, <1>2, <1>6, <2>1, <2>2 DEF Holder
  <1>10. Steady'
    <2>1. /\ now' \in Nat /\ mtime' \in 0..now' /\ pub' \in [Version' -> Nat] /\ shared' = {}
          /\ \A v \in Version' : v <= latest' => pub'[v] <= now'
      BY <1>1, <1>2, <1>4, <1>7 DEF Steady
    <2>2. /\ idx' = [p \in Proc |-> idx'[p]]
          /\ \A p, q \in Proc : Loading(p)' /\ Loading(q)' => p = q
      BY <1>1, <1>2 DEF Steady, Loading
    <2> QED BY <1>5, <1>8, <1>9, <2>1, <2>2 DEF Steady
  <1> QED BY <1>1, <1>2, <1>3, <1>10 DEF LoadInv, OneStep, bulk

LEMMA ActSteady ==
  ASSUME LoadInv, Act
  PROVE  LoadInv' /\ (clash' \/ OneStep)
  <1>1. IInv' /\ AnswerOK' /\ clash' \in BOOLEAN
    BY NextInv, AnswerKeeps DEF Act, LoadInv, Remember
  <1>2. ASSUME ~clash' PROVE Steady' /\ OneStep
    <2>1. Remember /\ Next /\ (old' => old)
      BY <1>2, Remembered DEF Act, LoadInv
    <2>2. ~Expire
      BY <2>1 DEF Expire
    <2>3. ASSUME NEW p \in Proc, RequestFails(p) \/ CopyFails(p) PROVE Steady' /\ OneStep
      <3>1. sc.faults /\ pc[p] \in {"request", "create", "copy"} /\ Close(p) /\ Stale(p)
            /\ UNCHANGED <<sc, latest, data, path, old, shared, memo>>
        BY <2>3 DEF RequestFails, CopyFails, disk
      <3> QED BY <1>2, <2>1, <3>1, StaleSteady
    <2> QED BY <1>2, <2>1, <2>2, <2>3, AskSteady, StatSteady, RequestSteady, CreateSteady,
               CopySteady, CopiedSteady, RenameSteady, OpenSteady, ParseSteady,
               SelectSteady, EndSteady, PublishSteady DEF Next
  <1> QED BY <1>1, <1>2 DEF LoadInv

LEMMA LoadInitInv == LoadInit => LoadInv
  <1> SUFFICES ASSUME LoadInit PROVE LoadInv
    OBVIOUS
  <1>1. Init /\ IInv /\ AnswerOK
    BY InitInv DEF LoadInit, Init, AnswerOK
  <1>2. /\ now = 0 /\ mtime = 0 /\ pub = [v \in Version |-> 0] /\ clash = FALSE
        /\ idx = [p \in Proc |-> None]
    BY DEF LoadInit, Unread, Unknown, Version
  <1>3. \A p \in Proc : Holder(p)
    BY <1>1, <1>2 DEF Init, Holder, Loading
  <1>4. Listed /\ old = (path # None /\ now > mtime + TTL)
    BY <1>1 DEF Init, Listed
  <1>5. Steady
    BY <1>1, <1>2, <1>3, <1>4 DEF Steady, Init, Loading
  <1> QED BY <1>1, <1>2, <1>5 DEF LoadInv

\* PriceChain takes a call of loadIndex (bulk.go:148-181) as one step that
\* leaves the cached file and the memoised list as Loads says. For any number
\* of processes, price lists and files and any TTL it is, whatever fails or is
\* killed on the way, as long as calls do not overlap; and a memoised list is
\* the version that was published at the time PriceChain has for it.
THEOREM LoadIsOneStep == LoadSpec => OneStepLoads
  <1> DEFINE x == <<vars, now, history>>
             Apart == clash \/ \A p \in Proc : pc[p] \in {"ready", "select"} => Right(p)
  <1>1. LoadInv /\ [LoadNext]_x => LoadInv' /\ [clash' \/ OneStep]_x
    <2>1. ASSUME LoadInv, UNCHANGED x PROVE LoadInv'
      <3>1. UNCHANGED <<sc, latest, data, path, tmp, old, shared, pc, fd, at, ver, memo, ans,
                        now, mtime, pub, idx, clash>>
        BY <2>1 DEF vars, disk, history
      <3>2. IInv' /\ AnswerOK'
        BY <2>1, NextInv, AnswerKeeps DEF LoadInv
      <3>3. Steady' <=> Steady
        BY <3>1 DEF Steady, Listed, Holder, Loading, Published, Version, Whole
      <3> QED BY <2>1, <3>1, <3>2, <3>3 DEF LoadInv
    <2> QED BY <2>1, ActSteady, TickSteady DEF LoadNext
  <1>2. LoadInv => Apart
    <2> SUFFICES ASSUME LoadInv, ~clash, NEW p \in Proc, pc[p] \in {"ready", "select"}
                 PROVE  Right(p)
      OBVIOUS
    <2>1. Holder(p)
      BY DEF LoadInv, Steady
    <2> QED BY <2>1, LoadAssumption DEF Holder, Right
  <1> QED BY <1>1, <1>2, LoadInitInv, PTL DEF LoadSpec, OneStepLoads

\* The clock and the history change nothing that BulkPrice can do.
THEOREM LoadsHarmless == LoadSpec => Spec
  <1>1. LoadInit => Init
    BY DEF LoadInit
  <1>2. [LoadNext]_<<vars, now, history>> => [Next]_vars
    BY DEF LoadNext, Act, Tick, Next
  <1> QED BY <1>1, <1>2, PTL DEF LoadSpec, Spec
=============================================================================
