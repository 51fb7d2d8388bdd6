--------------------------- MODULE ModuleFetchProofs ---------------------------
(***************************************************************************)
(* ModuleFetch for any number of processes, versions, files and runs: the  *)
(* module cache holds whole modules, and the version used is the right one. *)
(***************************************************************************)
EXTENDS ModuleFetch, FiniteSetTheorems, TLAPS

-----------------------------------------------------------------------------
(* The inductive invariant.                                                *)

Busy == {"fetch", "extract", "remove", "mark"}

\* The loop over the candidates, newest first.
Walk(p) ==
    LET s == st[p]
    IN  /\ s.pc = "idle" => s.got = {}
        /\ s.cur # None => s.pc = "extract"
        /\ s.best \in s.got \cup {None} /\ s.res \in s.got \cup {None}
        /\ s.left \cap s.got = {}
        /\ s.got # {} => s.best # None
        /\ \A g \in s.got : /\ ~versionLess(s.best, g)
                            /\ \A x \in s.left : ~versionLess(g, x)
        /\ s.left \cup s.got \subseteq Candidates
        /\ s.pc \in Busy => /\ s.v \in Candidates \ (s.left \cup s.got)
                            /\ \A x \in s.left : ~versionLess(s.v, x)
                            /\ \A g \in s.got : ~versionLess(g, s.v)

\* How far p is with version x, if nobody else is at work on it.
Progress(p, x) ==
    /\ st[p].pc = "extract" =>
          \A f \in File \ st[p].todo : f # st[p].cur => files[x][f] = "full"
    /\ st[p].cur # None => st[p].fd = "own"
    /\ st[p].pc = "mark" => Complete(x)

\* A version that is not shared has one process at work on it, and is
\* unmarked and in nobody's use while it has.
Private(x) ==
    /\ \A p, q \in Proc : Fetching(p, x) /\ q # p => ~Fetching(q, x) /\ x \notin st[q].got
    /\ \A p \in Proc : Fetching(p, x) => x \notin marker /\ Progress(p, x)
    /\ (x \in marker \/ \E p \in Proc : x \in st[p].got) => Complete(x)
Exclusive == \A x \in Version \ shared : Private(x)

\* What was tried does not fit, and what is used fits or is the best effort.
Tried(p) ==
    LET s == st[p]
    IN  /\ \A g \in s.got \ shared : g \in sc.declares => s.pc = "done" /\ s.res = g
        /\ s.pc = "done" => \/ s.res \in s.got \cap sc.declares
                            \/ s.res = s.best /\ (s.left = {} \/ s.tries = MaxTries)

\* Without faults nothing is removed, and a file that is not whole has a
\* writer whose turn it is.
Settling ==
    ~sc.faults =>
        /\ \A p \in Proc :
              /\ st[p].pc # "remove" /\ st[p].fd # "gone"
              /\ st[p].pc \in {"extract", "mark"} =>
                    \A f \in File \ st[p].todo : files[st[p].v][f] # "absent"
              /\ st[p].pc = "mark" => st[p].todo = {}
        /\ \A x \in Version, f \in File :
              files[x][f] = "partial" =>
                 \E p \in Proc : Fetching(p, x) /\ st[p].cur = f /\ st[p].fd = "own"
        /\ \A x \in marker, f \in File : files[x][f] # "absent"

IInv == /\ TypeOK /\ st \in [Proc -> State]
        /\ \A p \in Proc : Walk(p)
        /\ Exclusive
        /\ \A p \in Proc : Tried(p)
        /\ Settling

-----------------------------------------------------------------------------
(* The order of versions.                                                  *)

LEMMA VersionShape ==
  ASSUME NEW x \in Version
  PROVE  /\ x \in Seq(Nat) /\ Len(x) = 3 /\ x = <<x[1], x[2], x[3]>>
         /\ x[1] \in Nat /\ x[2] \in Nat /\ x[3] \in Nat
  <1>1. x \in Nat \X Nat \X Nat
    BY FetchAssumption
  <1>2. x = <<x[1], x[2], x[3]>> /\ x[1] \in Nat /\ x[2] \in Nat /\ x[3] \in Nat
    BY <1>1
  <1>3. <<x[1], x[2], x[3]>> \in Seq(Nat) /\ Len(<<x[1], x[2], x[3]>>) = 3
    BY <1>2
  <1> QED  BY <1>2, <1>3

\* versionLess: the first component that differs decides, then the length.
LEMMA LessMeans ==
  ASSUME NEW a \in Seq(Nat), NEW b \in Seq(Nat)
  PROVE  LET n == MinOf(Len(a), Len(b))
         IN  versionLess(a, b)
             <=> \/ \E k \in 1..n : a[k] < b[k] /\ \A j \in 1..(k - 1) : a[j] = b[j]
                 \/ (\A k \in 1..n : a[k] = b[k]) /\ Len(a) < Len(b)
  <1> DEFINE n == MinOf(Len(a), Len(b))
             D == {k \in 1..n : a[k] # b[k]}
  <1>1. n \in Nat /\ n <= Len(a) /\ n <= Len(b)
    BY DEF MinOf
  <1>2. \A k \in 1..n : k \in Nat /\ a[k] \in Nat /\ b[k] \in Nat
    BY <1>1
  <1>3. CASE D = {}
    <2>1. \A k \in 1..n : a[k] = b[k]
      BY <1>3
    <2>2. ~\E k \in 1..n : a[k] < b[k]
      BY <1>2, <2>1
    <2> QED  BY <1>3, <2>1, <2>2 DEF versionLess
  <1>4. CASE D # {}
    <2> DEFINE m == CHOOSE x \in D : \A y \in D : x <= y
    <2>1. \E x \in D : \A y \in D : x <= y
      <3> D \subseteq Nat
        BY <1>1
      <3> HIDE DEF D
      <3>1. PICK x \in D : \A y \in D : ~(<<y, x>> \in OpToRel(<, Nat))
        BY <1>4, NatLessThanWellFounded, WFMin
      <3>2. \A y \in D : x \in Nat /\ y \in Nat /\ ~(y < x)
        BY <3>1 DEF OpToRel
      <3>3. \A y \in D : x <= y
        BY <3>2
      <3> QED  BY <3>1, <3>3
    <2>2. m \in D /\ \A y \in D : m <= y
      <3> HIDE DEF D
      <3> QED  BY <2>1
    <2>3. versionLess(a, b) <=> a[m] < b[m]
      BY <1>4 DEF versionLess
    <2> HIDE DEF m
    <2>4. m \in 1..n /\ a[m] # b[m] /\ \A j \in 1..(m - 1) : j \in 1..n /\ ~(m <= j)
      <3>1. m \in 1..n /\ a[m] # b[m]
        BY <2>2
      <3> HIDE DEF n
      <3>2. n \in Nat /\ m \in Nat /\ m <= n
        BY <1>1, <3>1
      <3>3. \A j \in 1..(m - 1) : j \in Nat /\ 1 <= j /\ j < m
        BY <3>2
      <3>4. \A j \in 1..(m - 1) : j \in 1..n /\ ~(m <= j)
        BY <3>2, <3>3
      <3> QED  BY <3>1, <3>4
    <2>5. \A j \in 1..(m - 1) : a[j] = b[j]
      BY <2>2, <2>4
    <2>6. ASSUME NEW k \in 1..n, a[k] < b[k], \A j \in 1..(k - 1) : a[j] = b[j]
          PROVE  k = m
      <3>1. k \in D
        BY <1>2, <2>6
      <3>2. m \notin 1..(k - 1)
        BY <2>4, <2>6
      <3>3. m <= k
        BY <2>2, <3>1
      <3> QED  BY <1>1, <2>4, <3>2, <3>3
    <2> QED  BY <1>4, <2>3, <2>4, <2>5, <2>6
  <1> QED  BY <1>3, <1>4

LEMMA VersionOrder ==
  ASSUME NEW x \in Version, NEW y \in Version
  PROVE  versionLess(x, y)
         <=> \/ x[1] < y[1]
             \/ x[1] = y[1] /\ (x[2] < y[2] \/ (x[2] = y[2] /\ x[3] < y[3]))
  <1>1. /\ x \in Seq(Nat) /\ y \in Seq(Nat) /\ MinOf(Len(x), Len(y)) = 3
        /\ ~(Len(x) < Len(y))
    BY VersionShape DEF MinOf
  <1>2. versionLess(x, y) <=> \E k \in 1..3 : x[k] < y[k] /\ \A j \in 1..(k - 1) : x[j] = y[j]
    BY <1>1, LessMeans
  <1>3. \A k : k \in 1..3 <=> k = 1 \/ k = 2 \/ k = 3
    OBVIOUS
  <1>4. /\ (\A j \in 1..(1 - 1) : x[j] = y[j])
        /\ (\A j \in 1..(2 - 1) : x[j] = y[j]) <=> x[1] = y[1]
        /\ (\A j \in 1..(3 - 1) : x[j] = y[j]) <=> x[1] = y[1] /\ x[2] = y[2]
    <2>1. /\ \A j : j \notin 1..(1 - 1)
          /\ \A j : j \in 1..(2 - 1) <=> j = 1
          /\ \A j : j \in 1..(3 - 1) <=> j = 1 \/ j = 2
      OBVIOUS
    <2> QED  BY <2>1
  <1> QED  BY <1>2, <1>3, <1>4

LEMMA OrderLaws ==
  /\ \A x \in Version : ~versionLess(x, x)
  /\ \A x, y \in Version : versionLess(x, y) \/ versionLess(y, x) \/ x = y
  /\ \A x, y, z \in Version : versionLess(x, y) /\ versionLess(y, z) => versionLess(x, z)
  <1>1. \A x \in Version : ~versionLess(x, x)
    BY VersionOrder, VersionShape
  <1>2. ASSUME NEW x \in Version, NEW y \in Version
        PROVE  versionLess(x, y) \/ versionLess(y, x) \/ x = y
    <2>1. ASSUME x[1] = y[1], x[2] = y[2], x[3] = y[3] PROVE x = y
      BY <2>1, VersionShape
    <2>2. \A k \in {1, 2, 3} : x[k] \in Nat /\ y[k] \in Nat
      BY VersionShape
    <2> QED  BY <2>1, <2>2, VersionOrder
  <1>3. ASSUME NEW x \in Version, NEW y \in Version, NEW z \in Version,
               versionLess(x, y), versionLess(y, z)
        PROVE  versionLess(x, z)
    <2>1. \A k \in {1, 2, 3} : x[k] \in Nat /\ y[k] \in Nat /\ z[k] \in Nat
      BY VersionShape
    <2> QED  BY <1>3, <2>1, VersionOrder
  <1> QED  BY <1>1, <1>2, <1>3

\* A set of subsets of a finite set has a least one.
LEMMA LeastSubset ==
  ASSUME NEW S, IsFiniteSet(S), NEW T, T \subseteq SUBSET S, T # {}
  PROVE  \E t \in T : \A u \in T : u \subseteq t => u = t
  <1>1. FiniteSubsetsOf(S) = SUBSET S
    BY FS_FiniteSubsetsOfFinite
  <1>2. IsWellFoundedOn(StrictSubsetOrdering(S), SUBSET S)
    BY <1>1, FS_StrictSubsetOrderingWellFounded
  <1>3. PICK t \in T : \A u \in T : ~(<<u, t>> \in StrictSubsetOrdering(S))
    BY <1>2, WFMin
  <1> QED  BY <1>3 DEF StrictSubsetOrdering

\* There is a newest version, and only one.
LEMMA NewestIn ==
  ASSUME NEW S \in SUBSET Version, S # {}
  PROVE  /\ Newest(S) \in S /\ \A y \in S : ~versionLess(Newest(S), y)
         /\ \A x \in S : (\A y \in S : ~versionLess(x, y)) => Newest(S) = x
  <1> DEFINE After(x) == {y \in Version : versionLess(x, y)}
             T == {After(x) : x \in S}
  <1>1. PICK t \in T : \A u \in T : u \subseteq t => u = t
    <2>1. T \subseteq SUBSET Version /\ IsFiniteSet(Version)
      BY FetchAssumption
    <2>2. T # {}
      OBVIOUS
    <2> HIDE DEF T
    <2> QED  BY <2>1, <2>2, LeastSubset
  <1>2. PICK x \in S : t = After(x)
    OBVIOUS
  <1>3. ASSUME NEW y \in S, versionLess(x, y) PROVE FALSE
    <2>1. After(y) \subseteq After(x)
      BY <1>3, OrderLaws
    <2>2. After(y) = After(x)
      BY <1>1, <1>2, <2>1
    <2> QED  BY <1>3, <2>2, OrderLaws
  <1>4. Newest(S) \in S /\ \A y \in S : ~versionLess(Newest(S), y)
    BY <1>3 DEF Newest
  <1> HIDE DEF T, After
  <1>5. ASSUME NEW z \in S, \A y \in S : ~versionLess(z, y) PROVE Newest(S) = z
    BY <1>4, <1>5, OrderLaws
  <1> QED  BY <1>4, <1>5

-----------------------------------------------------------------------------
(* The candidates, and what a constraint means.                            *)

LEMMA ScenarioType ==
  ASSUME TypeOK
  PROVE  /\ sc.published \subseteq Version /\ sc.pin \in Pin /\ sc.procs \subseteq Proc
         /\ sc.declares \subseteq Version
         /\ sc.pin \in Seq([op : Ops, ver : Seq(Nat)])
         /\ \A n \in DOMAIN sc.pin : /\ sc.pin[n].op \in Ops /\ sc.pin[n].ver \in Seq(Nat)
                                     /\ Len(sc.pin[n].ver) \in 1..3
                                     /\ Len(sc.pin[n].ver) = 3 => sc.pin[n].ver \in Version
  <1>1. sc \in [procs : SUBSET Proc, published : SUBSET Version,
                declares : SUBSET Version, pin : Pin, faults : BOOLEAN]
    BY FetchAssumption DEF TypeOK
  <1>2. sc.pin \in Pin /\ sc.pin \in Seq([op : Ops, ver : Seq(Nat)])
    BY <1>1, FetchAssumption
  <1>3. \A n \in DOMAIN sc.pin : sc.pin[n] \in [op : Ops, ver : Seq(Nat)]
    <2> DEFINE s == sc.pin
               T == [op : Ops, ver : Seq(Nat)]
    <2>1. s \in Seq(T)
      BY <1>2
    <2> HIDE DEF s, T
    <2>2. \A n \in DOMAIN s : s[n] \in T
      BY <2>1
    <2> QED  BY <2>2 DEF s, T
  <1> QED  BY <1>1, <1>2, <1>3, FetchAssumption

LEMMA CandidatesType ==
  ASSUME TypeOK
  PROVE  /\ Candidates \subseteq Version
         /\ Exact(sc.pin) => 1 \in DOMAIN sc.pin /\ Candidates = {sc.pin[1].ver}
         /\ ~Exact(sc.pin) =>
               Candidates \subseteq LET M == {x \in sc.published : satisfiesAll(x, sc.pin)}
                                    IN  IF M # {} THEN M ELSE sc.published
  <1>1. CASE Exact(sc.pin)
    <2>1. 1 \in DOMAIN sc.pin /\ sc.pin[1].ver \in Version
      BY <1>1, ScenarioType DEF Exact
    <2> QED  BY <1>1, <2>1 DEF Candidates, pickVersions
  <1>2. CASE ~Exact(sc.pin)
    BY <1>2, ScenarioType DEF Candidates, pickVersions, newestPerMajor
  <1> QED  BY <1>1, <1>2

LEMMA BeforeOrder ==
  ASSUME NEW a, NEW b
  PROVE  Before(a, b)
         <=> \/ a[1] < b[1]
             \/ a[1] = b[1] /\ (a[2] < b[2] \/ (a[2] = b[2] /\ a[3] < b[3]))
  <1>1. \A k : k \in 1..3 <=> k = 1 \/ k = 2 \/ k = 3
    OBVIOUS
  <1>2. /\ (\A j \in 1..(1 - 1) : a[j] = b[j])
        /\ (\A j \in 1..(2 - 1) : a[j] = b[j]) <=> a[1] = b[1]
        /\ (\A j \in 1..(3 - 1) : a[j] = b[j]) <=> a[1] = b[1] /\ a[2] = b[2]
    <2>1. /\ \A j : j \notin 1..(1 - 1)
          /\ \A j : j \in 1..(2 - 1) <=> j = 1
          /\ \A j : j \in 1..(3 - 1) <=> j = 1 \/ j = 2
      OBVIOUS
    <2> QED  BY <2>1
  <1> QED  BY <1>1, <1>2 DEF Before

LEMMA PaddedIs ==
  ASSUME NEW t \in Seq(Nat), Len(t) \in 1..3
  PROVE  /\ Padded(t) = <<Padded(t)[1], Padded(t)[2], Padded(t)[3]>>
         /\ Padded(t)[1] = t[1]
         /\ Padded(t)[2] = (IF Len(t) >= 2 THEN t[2] ELSE 0)
         /\ Padded(t)[3] = (IF Len(t) = 3 THEN t[3] ELSE 0)
         /\ \A k \in 1..Len(t) : t[k] \in Nat
  <1>1. Padded(t) \in [1..3 -> Nat] /\ \A k \in 1..Len(t) : t[k] \in Nat
    BY DEF Padded
  <1>2. Padded(t) = <<Padded(t)[1], Padded(t)[2], Padded(t)[3]>>
    BY <1>1
  <1> QED  BY <1>1, <1>2 DEF Padded

\* Comparing with a version that leaves components out.
LEMMA LessPadded ==
  ASSUME NEW x \in Version, NEW t \in Seq(Nat), Len(t) \in 1..3
  PROVE  /\ versionLess(x, t) <=> Before(x, Padded(t))
         /\ Len(t) = 3 => (versionLess(t, x) <=> Before(Padded(t), x))
  <1>1. /\ x \in Seq(Nat) /\ Len(x) = 3 /\ x[1] \in Nat /\ x[2] \in Nat /\ x[3] \in Nat
    BY VersionShape
  <1>2. /\ Padded(t)[1] = t[1]
        /\ Padded(t)[2] = (IF Len(t) >= 2 THEN t[2] ELSE 0)
        /\ Padded(t)[3] = (IF Len(t) = 3 THEN t[3] ELSE 0)
        /\ \A k \in 1..Len(t) : t[k] \in Nat
    BY PaddedIs
  <1>3. MinOf(Len(x), Len(t)) = Len(t) /\ MinOf(Len(t), Len(x)) = Len(t)
    BY <1>1 DEF MinOf
  <1>4. /\ versionLess(x, t)
           <=> \E k \in 1..Len(t) : x[k] < t[k] /\ \A j \in 1..(k - 1) : x[j] = t[j]
        /\ Len(t) = 3 =>
           (versionLess(t, x)
            <=> \E k \in 1..Len(t) : t[k] < x[k] /\ \A j \in 1..(k - 1) : t[j] = x[j])
    <2>1. versionLess(x, t)
          <=> \/ \E k \in 1..Len(t) : x[k] < t[k] /\ \A j \in 1..(k - 1) : x[j] = t[j]
              \/ (\A k \in 1..Len(t) : x[k] = t[k]) /\ Len(x) < Len(t)
      BY <1>1, <1>3, LessMeans
    <2>2. versionLess(t, x)
          <=> \/ \E k \in 1..Len(t) : t[k] < x[k] /\ \A j \in 1..(k - 1) : t[j] = x[j]
              \/ (\A k \in 1..Len(t) : t[k] = x[k]) /\ Len(t) < Len(x)
      BY <1>1, <1>3, LessMeans
    <2>3. ~(Len(x) < Len(t)) /\ (Len(t) = 3 => ~(Len(t) < Len(x)))
      <3>1. \A m \in 1..3 : ~(3 < m) /\ (m = 3 => ~(m < 3))
        OBVIOUS
      <3> QED  BY <1>1, <3>1
    <2> QED  BY <2>1, <2>2, <2>3
  <1>5. \A a, b : /\ (\A j \in 1..(1 - 1) : a[j] = b[j])
                  /\ (\A j \in 1..(2 - 1) : a[j] = b[j]) <=> a[1] = b[1]
                  /\ (\A j \in 1..(3 - 1) : a[j] = b[j]) <=> a[1] = b[1] /\ a[2] = b[2]
    <2>1. /\ \A j : j \notin 1..(1 - 1)
          /\ \A j : j \in 1..(2 - 1) <=> j = 1
          /\ \A j : j \in 1..(3 - 1) <=> j = 1 \/ j = 2
      OBVIOUS
    <2> QED  BY <2>1
  <1>6. /\ Before(x, Padded(t))
           <=> \/ x[1] < Padded(t)[1]
               \/ /\ x[1] = Padded(t)[1]
                  /\ x[2] < Padded(t)[2] \/ (x[2] = Padded(t)[2] /\ x[3] < Padded(t)[3])
        /\ Before(Padded(t), x)
           <=> \/ Padded(t)[1] < x[1]
               \/ /\ Padded(t)[1] = x[1]
                  /\ Padded(t)[2] < x[2] \/ (Padded(t)[2] = x[2] /\ Padded(t)[3] < x[3])
    BY BeforeOrder
  <1>7. CASE Len(t) = 1
    <2>1. \A k : k \in 1..Len(t) <=> k = 1
      BY <1>7
    <2>2. versionLess(x, t) <=> x[1] < t[1]
      BY <1>4, <1>5, <2>1
    <2>3. ~(x[2] < 0) /\ ~(x[3] < 0)
      BY <1>1
    <2> QED  BY <1>2, <1>6, <1>7, <2>2, <2>3
  <1>8. CASE Len(t) = 2
    <2>1. \A k : k \in 1..Len(t) <=> k = 1 \/ k = 2
      BY <1>8
    <2>2. versionLess(x, t) <=> x[1] < t[1] \/ (x[1] = t[1] /\ x[2] < t[2])
      BY <1>4, <1>5, <2>1
    <2>3. ~(x[3] < 0)
      BY <1>1
    <2> QED  BY <1>2, <1>6, <1>8, <2>2, <2>3
  <1>9. CASE Len(t) = 3
    <2>1. \A k : k \in 1..Len(t) <=> k = 1 \/ k = 2 \/ k = 3
      BY <1>9
    <2>2. /\ versionLess(x, t)
             <=> \/ x[1] < t[1]
                 \/ x[1] = t[1] /\ (x[2] < t[2] \/ (x[2] = t[2] /\ x[3] < t[3]))
          /\ versionLess(t, x)
             <=> \/ t[1] < x[1]
                 \/ t[1] = x[1] /\ (t[2] < x[2] \/ (t[2] = x[2] /\ t[3] < x[3]))
      BY <1>4, <1>5, <1>9, <2>1
    <2> QED  BY <1>2, <1>6, <1>9, <2>2
  <1> QED  BY <1>7, <1>8, <1>9

\* Any of these operators, or a version with all its components, means to the
\* code what it means in Terraform.
LEMMA PinMeans ==
  ASSUME NEW x \in Version, NEW t \in Seq(Nat), Len(t) \in 1..3, NEW op \in Ops,
         Len(t) = 3 \/ op \in {"~>", ">=", "<"}
  PROVE  satisfiesOp(x, op, t) <=> Means(x, op, t)
  <1>1. /\ versionLess(x, t) <=> Before(x, Padded(t))
        /\ Len(t) = 3 => (versionLess(t, x) <=> Before(Padded(t), x))
    BY LessPadded
  <1>2. /\ x = <<x[1], x[2], x[3]>> /\ Len(x) = 3
        /\ x[1] \in Nat /\ x[2] \in Nat /\ x[3] \in Nat
    BY VersionShape
  <1>3. /\ Padded(t) = <<Padded(t)[1], Padded(t)[2], Padded(t)[3]>>
        /\ Padded(t)[1] = t[1]
        /\ Padded(t)[2] = (IF Len(t) >= 2 THEN t[2] ELSE 0)
        /\ Padded(t)[3] = (IF Len(t) = 3 THEN t[3] ELSE 0)
        /\ \A k \in 1..Len(t) : t[k] \in Nat
    BY PaddedIs
  <1>4. ASSUME Len(t) = 3
        PROVE  x = Padded(t) <=> ~Before(x, Padded(t)) /\ ~Before(Padded(t), x)
    <2>1. Padded(t)[1] \in Nat /\ Padded(t)[2] \in Nat /\ Padded(t)[3] \in Nat
      BY <1>3, <1>4
    <2>2. x = Padded(t) <=> x[1] = Padded(t)[1] /\ x[2] = Padded(t)[2] /\ x[3] = Padded(t)[3]
      BY <1>2, <1>3
    <2> DEFINE P == Padded(t)
    <2>3. /\ Before(x, P) <=> \/ x[1] < P[1]
                              \/ x[1] = P[1] /\ (x[2] < P[2] \/ (x[2] = P[2] /\ x[3] < P[3]))
          /\ Before(P, x) <=> \/ P[1] < x[1]
                              \/ P[1] = x[1] /\ (P[2] < x[2] \/ (P[2] = x[2] /\ P[3] < x[3]))
      BY BeforeOrder
    <2> HIDE DEF P
    <2>4. x = P <=> ~Before(x, P) /\ ~Before(P, x)
      BY <1>2, <2>1, <2>2, <2>3 DEF P
    <2> QED  BY <2>4 DEF P
  <1>5. CASE op \in {"=", "bare", "!="}
    BY <1>1, <1>4, <1>5 DEF satisfiesOp, Means
  <1>6. CASE op \in {">=", "<=", ">", "<"}
    BY <1>1, <1>6 DEF satisfiesOp, Means
  <1>7. CASE op = "~>"
    <2>1. satisfiesOp(x, op, t) <=> satisfiesPessimistic(t, x)
      BY <1>7 DEF satisfiesOp
    <2>2. Means(x, op, t) <=> ~Before(x, Padded(t)) /\ Before(x, Upper(t))
      BY <1>7 DEF Means
    <2>3. CASE Len(t) = 3
      <3>1. satisfiesPessimistic(t, x) <=> t[1] = x[1] /\ t[2] = x[2] /\ x[3] >= t[3]
        <4>1. \A k : k \in 1..(Len(t) - 1) <=> k = 1 \/ k = 2
          BY <2>3
        <4> QED  BY <1>2, <2>3, <4>1 DEF satisfiesPessimistic
      <3>2. Upper(t)[1] = t[1] /\ Upper(t)[2] = t[2] + 1 /\ Upper(t)[3] = 0
        BY <2>3 DEF Upper
      <3>3. t[1] \in Nat /\ t[2] \in Nat /\ t[3] \in Nat
        BY <1>3, <2>3
      <3>4. Padded(t)[1] = t[1] /\ Padded(t)[2] = t[2] /\ Padded(t)[3] = t[3]
        BY <1>3, <2>3
      <3>5. Before(x, Upper(t)) <=> x[1] < t[1] \/ (x[1] = t[1] /\ x[2] < t[2] + 1)
        <4>1. ~(x[3] < 0)
          BY <1>2
        <4> QED  BY <3>2, <4>1, BeforeOrder
      <3>6. Before(x, Padded(t))
            <=> \/ x[1] < t[1]
                \/ x[1] = t[1] /\ (x[2] < t[2] \/ (x[2] = t[2] /\ x[3] < t[3]))
        BY <3>4, BeforeOrder
      <3> QED  BY <1>2, <2>1, <2>2, <3>1, <3>3, <3>5, <3>6
    <2>4. CASE Len(t) = 2
      <3>1. satisfiesPessimistic(t, x) <=> t[1] = x[1] /\ x[2] >= t[2]
        <4>1. \A k : k \in 1..(Len(t) - 1) <=> k = 1
          BY <2>4
        <4> QED  BY <1>2, <2>4, <4>1 DEF satisfiesPessimistic
      <3>2. Upper(t)[1] = t[1] + 1 /\ Upper(t)[2] = 0 /\ Upper(t)[3] = 0
        BY <2>4 DEF Upper
      <3>3. t[1] \in Nat /\ t[2] \in Nat
        BY <1>3, <2>4
      <3> QED  BY <1>2, <1>3, <2>1, <2>2, <2>4, <3>1, <3>2, <3>3, BeforeOrder
    <2>5. CASE Len(t) = 1
      <3>1. satisfiesPessimistic(t, x) <=> x[1] = t[1]
        <4>1. \A k : k \notin 1..(Len(t) - 1)
          BY <2>5
        <4> QED  BY <1>2, <2>5, <4>1 DEF satisfiesPessimistic
      <3>2. Upper(t)[1] = t[1] + 1 /\ Upper(t)[2] = 0 /\ Upper(t)[3] = 0
        BY <2>5 DEF Upper
      <3>3. t[1] \in Nat
        BY <1>3, <2>5
      <3> QED  BY <1>2, <1>3, <2>1, <2>2, <2>5, <3>1, <3>2, <3>3, BeforeOrder
    <2> QED  BY <2>3, <2>4, <2>5
  <1> QED  BY <1>5, <1>6, <1>7 DEF Ops

-----------------------------------------------------------------------------
(* What the actions do to the processes.                                   *)

Typed == TypeOK /\ st \in [Proc -> State]

Fields == {"pc", "run", "left", "tries", "v", "todo", "cur", "fd", "got", "best", "res"}

\* Only p changes, and only in the fields of F.
Goes(p, F) == /\ \A q \in Proc \ {p} : st'[q] = st[q]
              /\ \A h \in Fields \ F : st'[p][h] = st[p][h]

\* The cache and the scenario stay.
CacheStays == UNCHANGED <<sc, files, dirs, marker, shared>>

LEMMA BecomeDoes ==
  ASSUME Typed, NEW p \in Proc, NEW t \in State, Become(p, t)
  PROVE  /\ st' \in [Proc -> State] /\ st'[p] = t
         /\ \A q \in Proc \ {p} : st'[q] = st[q]
  BY DEF Typed, Become

LEMMA StaysTyped ==
  ASSUME Typed, CacheStays, st' \in [Proc -> State]
  PROVE  Typed'
  BY DEF Typed, TypeOK, CacheStays

LEMMA WalkType ==
  ASSUME Typed, NEW p \in Proc, Walk(p)
  PROVE  /\ st[p].left \subseteq Version /\ st[p].got \subseteq Version
         /\ Candidates \subseteq Version /\ None \notin Version /\ None \notin File
         /\ st[p].pc \in Busy => st[p].v \in Version
         /\ st[p].cur # None => st[p].pc = "extract" /\ st[p].cur \in File
  <1>1. Candidates \subseteq Version /\ None \notin Version /\ None \notin File
    BY CandidatesType, FetchAssumption DEF Typed
  <1>2. st[p] \in State
    BY DEF Typed
  <1> QED  BY <1>1, <1>2 DEF Walk, State

LEMMA StartDoes ==
  ASSUME Typed, NEW p \in Proc, Start(p)
  PROVE  /\ CacheStays /\ Typed' /\ st[p].pc = "idle"
         /\ Goes(p, {"pc", "run", "tries", "left", "best", "res"})
         /\ st'[p].pc = "loop" /\ st'[p].left \in {Candidates, {}}
         /\ st'[p].best = None /\ st'[p].res = None
  <1>1. PICK L \in {Candidates, {}} :
           Become(p, [st[p] EXCEPT !.pc = "loop", !.run = @ + 1, !.tries = 0,
                                   !.left = L, !.best = None, !.res = None])
    BY DEF Start
  <1> DEFINE t == [st[p] EXCEPT !.pc = "loop", !.run = @ + 1, !.tries = 0,
                                !.left = L, !.best = None, !.res = None]
  <1>2. st[p] \in State /\ L \in SUBSET Version /\ st[p].run < MaxRuns
    BY CandidatesType DEF Typed, Start
  <1>3. t \in State
    <2>1. st[p].run + 1 \in 0..MaxRuns /\ 0 \in 0..MaxTries
      BY <1>2, FetchAssumption DEF State
    <2> QED  BY <1>2, <2>1 DEF State
  <1>4. /\ t.pc = "loop" /\ t.left = L /\ t.best = None /\ t.res = None
        /\ \A h \in Fields \ {"pc", "run", "tries", "left", "best", "res"} : t[h] = st[p][h]
    BY <1>2 DEF State, Fields
  <1>5. CacheStays /\ st[p].pc = "idle"
    BY DEF Start, CacheStays
  <1> HIDE DEF t
  <1>6. st'[p] = t /\ (\A q \in Proc \ {p} : st'[q] = st[q]) /\ st' \in [Proc -> State]
    BY <1>1, <1>3, BecomeDoes DEF t
  <1> QED  BY <1>4, <1>5, <1>6, StaysTyped DEF Goes

\* The actions that leave the candidates and the cache alone.
LEMMA PassDoes ==
  ASSUME Typed, NEW p \in Proc,
         Download(p) \/ ExtractFails(p) \/ Extracted(p) \/ RequestFails(p)
  PROVE  /\ CacheStays /\ Typed' /\ Goes(p, {"pc", "todo", "cur", "fd"})
         /\ \/ /\ st[p].pc = "fetch" /\ st'[p].pc = "extract" /\ st'[p].todo = File
               /\ st'[p].cur = st[p].cur /\ st'[p].fd = st[p].fd
            \/ /\ st[p].pc = "extract" /\ sc.faults
               /\ st'[p].pc = "remove" /\ st'[p].cur = None
            \/ /\ st[p].pc = "extract" /\ st[p].cur = None /\ st[p].todo = {}
               /\ st'[p].pc = "mark" /\ st'[p].todo = {}
               /\ st'[p].cur = st[p].cur /\ st'[p].fd = st[p].fd
            \/ /\ st[p].pc = "fetch" /\ st'[p].pc = "loop"
               /\ st'[p].cur = st[p].cur /\ st'[p].fd = st[p].fd
  <1>1. st[p] \in State /\ CacheStays
    BY DEF Typed, Download, ExtractFails, Extracted, RequestFails, CacheStays
  <1>2. CASE Download(p)
    <2> DEFINE t == [st[p] EXCEPT !.pc = "extract", !.todo = File]
    <2>1. t \in State
      BY <1>1 DEF State
    <2>2. /\ t.pc = "extract" /\ t.todo = File /\ t.cur = st[p].cur /\ t.fd = st[p].fd
          /\ \A h \in Fields \ {"pc", "todo", "cur", "fd"} : t[h] = st[p][h]
      BY <1>1 DEF State, Fields
    <2>3. Become(p, t) /\ st[p].pc = "fetch"
      BY <1>2 DEF Download
    <2> HIDE DEF t
    <2>4. st'[p] = t /\ (\A q \in Proc \ {p} : st'[q] = st[q]) /\ st' \in [Proc -> State]
      BY <2>1, <2>3, BecomeDoes
    <2> QED  BY <1>1, <2>2, <2>3, <2>4, StaysTyped DEF Goes
  <1>3. CASE ExtractFails(p)
    <2> DEFINE t == [st[p] EXCEPT !.pc = "remove", !.cur = None, !.fd = "own", !.todo = {}]
    <2>1. t \in State
      BY <1>1 DEF State
    <2>2. /\ t.pc = "remove" /\ t.cur = None
          /\ \A h \in Fields \ {"pc", "todo", "cur", "fd"} : t[h] = st[p][h]
      BY <1>1 DEF State, Fields
    <2>3. Become(p, t) /\ st[p].pc = "extract" /\ sc.faults
      BY <1>3 DEF ExtractFails
    <2> HIDE DEF t
    <2>4. st'[p] = t /\ (\A q \in Proc \ {p} : st'[q] = st[q]) /\ st' \in [Proc -> State]
      BY <2>1, <2>3, BecomeDoes
    <2> QED  BY <1>1, <2>2, <2>3, <2>4, StaysTyped DEF Goes
  <1>4. CASE Extracted(p)
    <2> DEFINE t == [st[p] EXCEPT !.pc = "mark"]
    <2>1. t \in State
      BY <1>1 DEF State
    <2>2. /\ t.pc = "mark" /\ t.todo = st[p].todo /\ t.cur = st[p].cur /\ t.fd = st[p].fd
          /\ \A h \in Fields \ {"pc", "todo", "cur", "fd"} : t[h] = st[p][h]
      BY <1>1 DEF State, Fields
    <2>3. Become(p, t) /\ st[p].pc = "extract" /\ st[p].cur = None /\ st[p].todo = {}
      BY <1>4 DEF Extracted
    <2> HIDE DEF t
    <2>4. st'[p] = t /\ (\A q \in Proc \ {p} : st'[q] = st[q]) /\ st' \in [Proc -> State]
      BY <2>1, <2>3, BecomeDoes
    <2> QED  BY <1>1, <2>2, <2>3, <2>4, StaysTyped DEF Goes
  <1>5. CASE RequestFails(p)
    <2> DEFINE t == [st[p] EXCEPT !.pc = "loop"]
    <2>1. t \in State
      BY <1>1 DEF State
    <2>2. /\ t.pc = "loop" /\ t.cur = st[p].cur /\ t.fd = st[p].fd
          /\ \A h \in Fields \ {"pc", "todo", "cur", "fd"} : t[h] = st[p][h]
      BY <1>1 DEF State, Fields
    <2>3. Become(p, t) /\ st[p].pc = "fetch"
      BY <1>5 DEF RequestFails
    <2> HIDE DEF t
    <2>4. st'[p] = t /\ (\A q \in Proc \ {p} : st'[q] = st[q]) /\ st' \in [Proc -> State]
      BY <2>1, <2>3, BecomeDoes
    <2> QED  BY <1>1, <2>2, <2>3, <2>4, StaysTyped DEF Goes
  <1> QED  BY <1>2, <1>3, <1>4, <1>5

LEMMA GiveUpDoes ==
  ASSUME Typed, NEW p \in Proc, GiveUp(p)
  PROVE  /\ CacheStays /\ Typed' /\ Goes(p, {"pc", "res"})
         /\ st[p].pc = "loop" /\ (st[p].left = {} \/ st[p].tries = MaxTries)
         /\ st'[p].pc = "done" /\ st'[p].res = st[p].best
  <1>1. st[p] \in State /\ CacheStays
    BY DEF Typed, GiveUp, CacheStays
  <1>2. CASE GiveUp(p)
    <2> DEFINE t == [st[p] EXCEPT !.pc = "done", !.res = st[p].best]
    <2>1. t \in State
      BY <1>1 DEF State
    <2>2. /\ t.pc = "done" /\ t.res = st[p].best
          /\ \A h \in Fields \ {"pc", "res"} : t[h] = st[p][h]
      BY <1>1 DEF State, Fields
    <2>3. Become(p, t) /\ st[p].pc = "loop" /\ (st[p].left = {} \/ st[p].tries = MaxTries)
      BY <1>2 DEF GiveUp
    <2> HIDE DEF t
    <2>4. st'[p] = t /\ (\A q \in Proc \ {p} : st'[q] = st[q]) /\ st' \in [Proc -> State]
      BY <2>1, <2>3, BecomeDoes
    <2> QED  BY <1>1, <2>2, <2>3, <2>4, StaysTyped DEF Goes
  <1> QED  BY <1>2

\* A run that ends or is killed.
LEMMA EndDoes ==
  ASSUME Typed, NEW p \in Proc, Crash(p) \/ Finish(p)
  PROVE  /\ CacheStays /\ Typed' /\ Goes(p, Fields)
         /\ Crash(p) => sc.faults
         /\ st[p].pc = "done" \/ sc.faults
         /\ st'[p].pc = "idle" /\ st'[p].left = {} /\ st'[p].got = {} /\ st'[p].todo = {}
         /\ st'[p].v = None /\ st'[p].cur = None /\ st'[p].fd = "own"
         /\ st'[p].best = None /\ st'[p].res = None
  <1>1. st[p] \in State /\ CacheStays
    BY DEF Typed, Crash, Finish, CacheStays
  <1> DEFINE t == Ended(p)
  <1>2. t \in State
    <2>1. 0 \in 0..MaxTries
      BY FetchAssumption
    <2> QED  BY <1>1, <2>1 DEF State, Ended
  <1>3. /\ t.pc = "idle" /\ t.left = {} /\ t.got = {} /\ t.todo = {}
        /\ t.v = None /\ t.cur = None /\ t.fd = "own" /\ t.best = None /\ t.res = None
    BY <1>1 DEF State, Ended
  <1>4. Become(p, t)
    BY DEF Crash, Finish
  <1> HIDE DEF t
  <1>5. st'[p] = t /\ (\A q \in Proc \ {p} : st'[q] = st[q]) /\ st' \in [Proc -> State]
    BY <1>2, <1>4, BecomeDoes
  <1> QED  BY <1>1, <1>3, <1>5, StaysTyped DEF Goes, Crash, Finish

\* fetchRegistryModule returned x.
LEMMA UsedDoes ==
  ASSUME Typed, NEW p \in Proc, NEW s \in State, NEW x \in Version, Used(p, s, x)
  PROVE  /\ st' \in [Proc -> State] /\ \A q \in Proc \ {p} : st'[q] = st[q]
         /\ \A h \in Fields \ {"pc", "got", "best", "res"} : st'[p][h] = s[h]
         /\ st'[p].got = s.got \cup {x}
         /\ st'[p].best = (IF s.best = None THEN x ELSE s.best)
         /\ \/ st'[p].pc = "done" /\ st'[p].res = x /\ x \in sc.declares
            \/ st'[p].pc = "loop" /\ st'[p].res = s.res /\ (x \notin sc.declares \/ ~Complete(x))
  <1> DEFINE t == [s EXCEPT !.got = @ \cup {x}, !.best = IF @ = None THEN x ELSE @]
  <1>1. t \in State
    BY DEF State
  <1>2. /\ t.got = s.got \cup {x} /\ t.best = (IF s.best = None THEN x ELSE s.best)
        /\ \A h \in Fields \ {"got", "best"} : t[h] = s[h]
    BY DEF State, Fields
  <1>3. \/ x \in sc.declares /\ Become(p, [t EXCEPT !.pc = "done", !.res = x])
        \/ (x \notin sc.declares \/ ~Complete(x)) /\ Become(p, [t EXCEPT !.pc = "loop"])
    BY DEF Used
  <1> HIDE DEF t
  <1>4. CASE x \in sc.declares /\ Become(p, [t EXCEPT !.pc = "done", !.res = x])
    <2> DEFINE u == [t EXCEPT !.pc = "done", !.res = x]
    <2>1. u \in State
      BY <1>1 DEF State
    <2>2. /\ u.pc = "done" /\ u.res = x
          /\ \A h \in Fields \ {"pc", "res"} : u[h] = t[h]
      BY <1>1 DEF State, Fields
    <2> HIDE DEF u
    <2>3. st'[p] = u /\ (\A q \in Proc \ {p} : st'[q] = st[q]) /\ st' \in [Proc -> State]
      BY <1>4, <2>1, BecomeDoes DEF u
    <2> QED  BY <1>2, <1>4, <2>2, <2>3 DEF Fields
  <1>5. CASE (x \notin sc.declares \/ ~Complete(x)) /\ Become(p, [t EXCEPT !.pc = "loop"])
    <2> DEFINE u == [t EXCEPT !.pc = "loop"]
    <2>1. u \in State
      BY <1>1 DEF State
    <2>2. /\ u.pc = "loop"
          /\ \A h \in Fields \ {"pc"} : u[h] = t[h]
      BY <1>1 DEF State, Fields
    <2> HIDE DEF u
    <2>3. st'[p] = u /\ (\A q \in Proc \ {p} : st'[q] = st[q]) /\ st' \in [Proc -> State]
      BY <1>5, <2>1, BecomeDoes DEF u
    <2> QED  BY <1>2, <1>5, <2>2, <2>3 DEF Fields
  <1> QED  BY <1>3, <1>4, <1>5

LEMMA TryDoes ==
  ASSUME Typed, NEW p \in Proc, Walk(p), Try(p)
  PROVE  \E x \in st[p].left :
         /\ x = Newest(st[p].left) /\ st[p].pc = "loop"
         /\ UNCHANGED <<sc, files, dirs, marker>> /\ Typed'
         /\ \A q \in Proc \ {p} : st'[q] = st[q]
         /\ st'[p].left = st[p].left \ {x} /\ st'[p].v = x
         /\ st'[p].todo = st[p].todo /\ st'[p].cur = st[p].cur /\ st'[p].fd = st[p].fd
         /\ \/ /\ x \in marker /\ shared' = shared
               /\ st'[p].got = st[p].got \cup {x}
               /\ st'[p].best = (IF st[p].best = None THEN x ELSE st[p].best)
               /\ \/ st'[p].pc = "done" /\ st'[p].res = x /\ x \in sc.declares
                  \/ /\ st'[p].pc = "loop" /\ st'[p].res = st[p].res
                     /\ x \notin sc.declares \/ ~Complete(x)
            \/ /\ x \notin marker
               /\ shared' = IF \E q \in Proc \ {p} : Fetching(q, x) \/ x \in st[q].got
                            THEN shared \cup {x} ELSE shared
               /\ st'[p].pc = "fetch" /\ st'[p].got = st[p].got
               /\ st'[p].best = st[p].best /\ st'[p].res = st[p].res
  <1> DEFINE x == Newest(st[p].left)
             s == [st[p] EXCEPT !.v = x, !.left = @ \ {x}, !.tries = @ + 1]
  <1>1. /\ st[p] \in State /\ st[p].left # {} /\ st[p].left \in SUBSET Version
        /\ st[p].tries < MaxTries /\ st[p].pc = "loop"
    BY WalkType DEF Typed, Try
  <1>2. x \in st[p].left /\ x \in Version
    BY <1>1, NewestIn
  <1>3. UNCHANGED <<sc, files, dirs, marker>>
    BY DEF Try
  <1>4. IF x \in marker THEN Used(p, s, x) /\ UNCHANGED shared
        ELSE /\ Become(p, [s EXCEPT !.pc = "fetch"])
             /\ shared' = IF \E q \in Proc \ {p} : Fetching(q, x) \/ x \in st[q].got
                          THEN shared \cup {x} ELSE shared
    BY DEF Try
  <1> HIDE DEF x
  <1>5. s \in State
    <2>1. st[p].tries + 1 \in 0..MaxTries
      <3>1. st[p].tries \in 0..MaxTries /\ st[p].tries < MaxTries /\ MaxTries \in Nat
        BY <1>1, FetchAssumption DEF State
      <3> QED  BY <3>1
    <2> QED  BY <1>1, <1>2, <2>1 DEF State
  <1>6. /\ s.v = x /\ s.left = st[p].left \ {x} /\ s.todo = st[p].todo /\ s.cur = st[p].cur
        /\ s.fd = st[p].fd /\ s.got = st[p].got /\ s.best = st[p].best /\ s.res = st[p].res
    BY <1>1 DEF State
  <1> HIDE DEF s
  <1>7. shared' \in SUBSET Version
    BY <1>2, <1>4 DEF Typed, TypeOK
  <1>8. CASE x \in marker
    <2>1. Used(p, s, x) /\ shared' = shared
      BY <1>4, <1>8
    <2>2. /\ st' \in [Proc -> State] /\ \A q \in Proc \ {p} : st'[q] = st[q]
          /\ \A h \in Fields \ {"pc", "got", "best", "res"} : st'[p][h] = s[h]
          /\ st'[p].got = s.got \cup {x}
          /\ st'[p].best = (IF s.best = None THEN x ELSE s.best)
          /\ \/ st'[p].pc = "done" /\ st'[p].res = x /\ x \in sc.declares
             \/ /\ st'[p].pc = "loop" /\ st'[p].res = s.res
                /\ x \notin sc.declares \/ ~Complete(x)
      BY <1>2, <1>5, <2>1, UsedDoes
    <2>3. /\ st'[p].left = s.left /\ st'[p].v = s.v /\ st'[p].todo = s.todo
          /\ st'[p].cur = s.cur /\ st'[p].fd = s.fd
      BY <2>2 DEF Fields
    <2>4. Typed'
      BY <1>3, <1>7, <2>2 DEF Typed, TypeOK
    <2> QED  BY <1>1, <1>2, <1>3, <1>6, <1>8, <2>1, <2>2, <2>3, <2>4 DEF x
  <1>9. CASE x \notin marker
    <2> DEFINE t == [s EXCEPT !.pc = "fetch"]
    <2>1. t \in State
      BY <1>5 DEF State
    <2>2. /\ t.pc = "fetch"
          /\ \A h \in Fields \ {"pc"} : t[h] = s[h]
      BY <1>5 DEF State, Fields
    <2>3. Become(p, t)
      BY <1>4, <1>9
    <2> HIDE DEF t
    <2>4. st'[p] = t /\ (\A q \in Proc \ {p} : st'[q] = st[q]) /\ st' \in [Proc -> State]
      BY <2>1, <2>3, BecomeDoes
    <2>5. /\ st'[p].left = s.left /\ st'[p].v = s.v /\ st'[p].todo = s.todo
          /\ st'[p].cur = s.cur /\ st'[p].fd = s.fd /\ st'[p].got = s.got
          /\ st'[p].best = s.best /\ st'[p].res = s.res
      BY <2>2, <2>4 DEF Fields
    <2>6. Typed'
      BY <1>3, <1>7, <2>4 DEF Typed, TypeOK
    <2> QED  BY <1>1, <1>2, <1>3, <1>4, <1>6, <1>9, <2>2, <2>4, <2>5, <2>6 DEF x
  <1> QED  BY <1>8, <1>9

LEMMA MarkDoes ==
  ASSUME Typed, NEW p \in Proc, Walk(p), Mark(p), NEW x, x = st[p].v
  PROVE  /\ UNCHANGED <<sc, files, dirs, shared>> /\ Typed'
         /\ st[p].pc = "mark" /\ x \in Version
         /\ marker' = marker \cup {x} \/ (sc.faults /\ marker' = marker)
         /\ Goes(p, {"pc", "got", "best", "res"})
         /\ st'[p].got = st[p].got \cup {x}
         /\ st'[p].best = (IF st[p].best = None THEN x ELSE st[p].best)
         /\ \/ st'[p].pc = "done" /\ st'[p].res = x /\ x \in sc.declares
            \/ /\ st'[p].pc = "loop" /\ st'[p].res = st[p].res
               /\ x \notin sc.declares \/ ~Complete(x)
  <1>1. st[p] \in State /\ x \in Version /\ st[p].pc = "mark"
    BY WalkType DEF Typed, Mark, Busy
  <1>2. Used(p, st[p], x) /\ UNCHANGED <<sc, files, dirs, shared>>
    BY DEF Mark
  <1>3. \/ x \in dirs /\ marker' = marker \cup {x}
        \/ sc.faults /\ marker' = marker
    BY DEF Mark
  <1>4. /\ st' \in [Proc -> State] /\ \A q \in Proc \ {p} : st'[q] = st[q]
        /\ \A h \in Fields \ {"pc", "got", "best", "res"} : st'[p][h] = st[p][h]
        /\ st'[p].got = st[p].got \cup {x}
        /\ st'[p].best = (IF st[p].best = None THEN x ELSE st[p].best)
        /\ \/ st'[p].pc = "done" /\ st'[p].res = x /\ x \in sc.declares
           \/ /\ st'[p].pc = "loop" /\ st'[p].res = st[p].res
              /\ x \notin sc.declares \/ ~Complete(x)
    BY <1>1, <1>2, UsedDoes
  <1>5. Typed'
    BY <1>2, <1>3, <1>4 DEF Typed, TypeOK
  <1> QED  BY <1>1, <1>2, <1>3, <1>4, <1>5 DEF Goes

-----------------------------------------------------------------------------
(* What the actions do to the files.                                       *)

\* At most file f of version x changes, to become one of the contents S.
Writes(x, f, S) ==
    /\ files'[x][f] \in S
    /\ \A y \in Version, g \in File : y # x \/ g # f => files'[y][g] = files[y][g]

\* Every other process stays where it is, but what it writes to may be disturbed.
Bystanders(p) == \A q \in Proc \ {p} : \A h \in Fields \ {"fd"} : st'[q][h] = st[q][h]

LEMMA OpenDoes ==
  ASSUME Typed, NEW p \in Proc, Walk(p), NEW f \in File, Open(p, f), NEW x, x = st[p].v
  PROVE  /\ UNCHANGED <<sc, marker, shared>> /\ Typed'
         /\ st[p].pc = "extract" /\ x \in Version /\ f \in st[p].todo /\ st[p].cur = None
         /\ Writes(x, f, {"partial"})
         /\ Bystanders(p)
         /\ \A q \in Proc \ {p} : st'[q].fd = (IF st[q].v = x /\ st[q].cur = f /\ st[q].fd # "gone"
                                               THEN "cut" ELSE st[q].fd)
         /\ \A h \in Fields \ {"cur", "fd", "todo"} : st'[p][h] = st[p][h]
         /\ st'[p].cur = f /\ st'[p].fd = "own" /\ st'[p].todo = st[p].todo \ {f}
  <1>1. /\ st[p].pc = "extract" /\ x \in Version /\ f \in st[p].todo /\ st[p].cur = None
        /\ files' = [files EXCEPT ![x][f] = "partial"] /\ dirs' = dirs \cup {x}
        /\ UNCHANGED <<sc, marker, shared>>
    BY WalkType DEF Open, Busy
  <1>2. files' \in [Version -> [File -> {"absent", "partial", "full"}]]
    BY <1>1 DEF Typed, TypeOK
  <1>3. Writes(x, f, {"partial"})
    BY <1>1 DEF Typed, TypeOK, Writes
  <1> DEFINE D == Disturb(p, x, f, "cut")
             t == [st[p] EXCEPT !.cur = f, !.fd = "own", !.todo = @ \ {f}]
  <1>4. \A q \in Proc : st[q] \in State
    BY DEF Typed
  <1>5. D \in [Proc -> State] /\ D[p] = st[p]
    BY <1>4 DEF Disturb, State
  <1>6. \A q \in Proc \ {p} :
           /\ \A h \in Fields \ {"fd"} : D[q][h] = st[q][h]
           /\ D[q].fd = (IF st[q].v = x /\ st[q].cur = f /\ st[q].fd # "gone"
                         THEN "cut" ELSE st[q].fd)
    BY <1>4 DEF Disturb, State, Fields
  <1>7. st' = [D EXCEPT ![p].cur = f, ![p].fd = "own", ![p].todo = @ \ {f}]
    BY DEF Open
  <1> HIDE DEF D
  <1>8. st'[p] = t /\ \A q \in Proc \ {p} : st'[q] = D[q]
    BY <1>4, <1>5, <1>7 DEF State
  <1>9. t \in State
    BY <1>4 DEF State
  <1>10. st' \in [Proc -> State]
    BY <1>5, <1>7, <1>8, <1>9
  <1>11. /\ t.cur = f /\ t.fd = "own" /\ t.todo = st[p].todo \ {f}
         /\ \A h \in Fields \ {"cur", "fd", "todo"} : t[h] = st[p][h]
    BY <1>4 DEF State, Fields
  <1>12. Typed'
    BY <1>1, <1>2, <1>10 DEF Typed, TypeOK
  <1> HIDE DEF t
  <1> QED  BY <1>1, <1>3, <1>6, <1>8, <1>11, <1>12 DEF Bystanders

LEMMA CopyDoes ==
  ASSUME Typed, NEW p \in Proc, Walk(p), Copy(p), NEW x, x = st[p].v, NEW f, f = st[p].cur
  PROVE  /\ UNCHANGED <<sc, dirs, marker, shared>> /\ Typed'
         /\ st[p].pc = "extract" /\ x \in Version /\ f \in File
         /\ Writes(x, f, {files[x][f], "full"})
         /\ st[p].fd = "own" => files'[x][f] = "full"
         /\ Goes(p, {"cur", "fd"})
         /\ st'[p].cur = None /\ st'[p].fd = "own"
  <1>1. /\ st[p] \in State /\ st[p].pc = "extract" /\ x \in Version /\ f \in File
        /\ UNCHANGED <<sc, dirs, marker, shared>>
    BY WalkType DEF Typed, Copy, Busy
  <1>2. PICK end \in CASE st[p].fd = "own"  -> {"full"}
                       [] st[p].fd = "cut"  -> {files[x][f], "full"}
                       [] st[p].fd = "gone" -> {files[x][f]} :
           files' = [files EXCEPT ![x][f] = end]
    BY DEF Copy
  <1>3. /\ end \in {files[x][f], "full"} /\ (st[p].fd = "own" => end = "full")
        /\ end \in {"absent", "partial", "full"}
    BY <1>1, <1>2 DEF Typed, TypeOK, State
  <1>4. files' \in [Version -> [File -> {"absent", "partial", "full"}]]
    BY <1>1, <1>2, <1>3 DEF Typed, TypeOK
  <1>5. /\ Writes(x, f, {files[x][f], "full"})
        /\ st[p].fd = "own" => files'[x][f] = "full"
    BY <1>1, <1>2, <1>3 DEF Typed, TypeOK, Writes
  <1> DEFINE t == [st[p] EXCEPT !.cur = None, !.fd = "own"]
  <1>6. t \in State
    BY <1>1 DEF State
  <1>7. /\ t.cur = None /\ t.fd = "own"
        /\ \A h \in Fields \ {"cur", "fd"} : t[h] = st[p][h]
    BY <1>1 DEF State, Fields
  <1>8. Become(p, t)
    BY DEF Copy
  <1> HIDE DEF t
  <1>9. st'[p] = t /\ (\A q \in Proc \ {p} : st'[q] = st[q]) /\ st' \in [Proc -> State]
    BY <1>6, <1>8, BecomeDoes
  <1>10. Typed'
    BY <1>1, <1>4, <1>9 DEF Typed, TypeOK
  <1> QED  BY <1>1, <1>5, <1>7, <1>9, <1>10 DEF Goes

LEMMA RemoveDoes ==
  ASSUME Typed, NEW p \in Proc, Walk(p), NEW f \in File, Remove(p, f), NEW x, x = st[p].v
  PROVE  /\ UNCHANGED <<sc, dirs, marker, shared>> /\ Typed'
         /\ st[p].pc = "remove" /\ x \in Version
         /\ Writes(x, f, {"absent"})
         /\ Bystanders(p) /\ st'[p] = st[p]
         /\ \A q \in Proc \ {p} : st'[q].fd = (IF st[q].v = x /\ st[q].cur = f /\ st[q].fd # "gone"
                                               THEN "gone" ELSE st[q].fd)
  <1>1. /\ st[p].pc = "remove" /\ x \in Version
        /\ files' = [files EXCEPT ![x][f] = "absent"]
        /\ UNCHANGED <<sc, dirs, marker, shared>>
    BY WalkType DEF Remove, Busy
  <1>2. files' \in [Version -> [File -> {"absent", "partial", "full"}]]
    BY <1>1 DEF Typed, TypeOK
  <1>3. Writes(x, f, {"absent"})
    BY <1>1 DEF Typed, TypeOK, Writes
  <1>4. \A q \in Proc : st[q] \in State
    BY DEF Typed
  <1>5. st' = Disturb(p, x, f, "gone")
    BY DEF Remove
  <1>6. st' \in [Proc -> State] /\ st'[p] = st[p]
    BY <1>4, <1>5 DEF Disturb, State
  <1>7. \A q \in Proc \ {p} :
           /\ \A h \in Fields \ {"fd"} : st'[q][h] = st[q][h]
           /\ st'[q].fd = (IF st[q].v = x /\ st[q].cur = f /\ st[q].fd # "gone"
                           THEN "gone" ELSE st[q].fd)
    BY <1>4, <1>5 DEF Disturb, State, Fields
  <1>8. Typed'
    BY <1>1, <1>2, <1>6 DEF Typed, TypeOK
  <1> QED  BY <1>1, <1>3, <1>6, <1>7, <1>8 DEF Bystanders

LEMMA RemoveMarkerDoes ==
  ASSUME Typed, NEW p \in Proc, RemoveMarker(p)
  PROVE  /\ UNCHANGED <<sc, files, dirs, st, shared>> /\ Typed'
         /\ st[p].pc = "remove" /\ marker' \subseteq marker
  BY DEF RemoveMarker, Typed, TypeOK

LEMMA RemovedDoes ==
  ASSUME Typed, NEW p \in Proc, Walk(p), Removed(p)
  PROVE  /\ UNCHANGED <<sc, files, marker, shared>> /\ Typed'
         /\ Goes(p, {"pc"}) /\ st[p].pc = "remove" /\ st'[p].pc = "loop"
  <1>1. st[p] \in State /\ st[p].pc = "remove" /\ UNCHANGED <<sc, files, marker, shared>>
    BY DEF Typed, Removed
  <1> DEFINE t == [st[p] EXCEPT !.pc = "loop"]
  <1>2. t \in State
    BY <1>1 DEF State
  <1>3. t.pc = "loop" /\ \A h \in Fields \ {"pc"} : t[h] = st[p][h]
    BY <1>1 DEF State, Fields
  <1>4. Become(p, t)
    BY DEF Removed
  <1>5. dirs' = IF Empty(st[p].v) THEN dirs \ {st[p].v} ELSE dirs
    BY DEF Removed
  <1> HIDE DEF t
  <1>6. st'[p] = t /\ (\A q \in Proc \ {p} : st'[q] = st[q]) /\ st' \in [Proc -> State]
    BY <1>2, <1>4, BecomeDoes
  <1>7. marker' \subseteq dirs' /\ dirs' \subseteq Version
    BY <1>1, <1>5 DEF Typed, TypeOK, Empty
  <1>8. Typed'
    BY <1>1, <1>6, <1>7 DEF Typed, TypeOK
  <1> QED  BY <1>1, <1>3, <1>6, <1>8 DEF Goes

-----------------------------------------------------------------------------
(* Walk: the candidates are tried newest first.                            *)

LEMMA SameCandidates ==
  ASSUME sc' = sc
  PROVE  Candidates' = Candidates
  BY DEF Candidates, pickVersions, newestPerMajor, satisfiesAll, Exact

LEMMA WalkStays ==
  ASSUME sc' = sc, NEW q \in Proc, Walk(q),
         \A h \in {"pc", "left", "v", "cur", "got", "best", "res"} : st'[q][h] = st[q][h]
  PROVE  Walk(q)'
  BY SameCandidates DEF Walk

LEMMA WalkBegins ==
  ASSUME Typed, NEW p \in Proc, Walk(p), Start(p) \/ GiveUp(p) \/ Crash(p) \/ Finish(p)
  PROVE  Walk(p)' /\ \A q \in Proc \ {p} : Walk(q) => Walk(q)'
  <1>1. /\ sc' = sc /\ Candidates' = Candidates /\ \A q \in Proc \ {p} : st'[q] = st[q]
        /\ None \notin Version /\ st[p].got \subseteq Version
    BY SameCandidates, StartDoes, GiveUpDoes, EndDoes, WalkType DEF CacheStays, Goes
  <1>2. \A q \in Proc \ {p} : Walk(q) => Walk(q)'
    BY <1>1, WalkStays
  <1>3. CASE Start(p)
    <2>1. /\ st[p].pc = "idle" /\ st'[p].pc = "loop" /\ st'[p].left \in {Candidates, {}}
          /\ st'[p].best = None /\ st'[p].res = None
          /\ st'[p].got = st[p].got /\ st'[p].cur = st[p].cur
      BY <1>3, StartDoes DEF Goes, Fields
    <2>2. st'[p].got = {} /\ st'[p].cur = None
      BY <2>1 DEF Walk
    <2> QED  BY <1>1, <1>2, <2>1, <2>2 DEF Walk, Busy
  <1>4. CASE GiveUp(p)
    <2>1. /\ st'[p].pc = "done" /\ st'[p].res = st[p].best /\ st[p].pc = "loop"
          /\ st'[p].left = st[p].left /\ st'[p].v = st[p].v /\ st'[p].cur = st[p].cur
          /\ st'[p].got = st[p].got /\ st'[p].best = st[p].best
      BY <1>4, GiveUpDoes DEF Goes, Fields
    <2> QED  BY <1>1, <1>2, <2>1 DEF Walk, Busy
  <1>5. CASE Crash(p) \/ Finish(p)
    <2>1. /\ st'[p].pc = "idle" /\ st'[p].left = {} /\ st'[p].got = {} /\ st'[p].cur = None
          /\ st'[p].best = None /\ st'[p].res = None
      BY <1>5, EndDoes
    <2> QED  BY <1>1, <1>2, <2>1 DEF Walk, Busy
  <1> QED  BY <1>3, <1>4, <1>5

\* A version joins those that were fetched.
LEMMA WalkGets ==
  ASSUME Typed, NEW p \in Proc, Walk(p), sc' = sc,
         NEW x \in Candidates, x \notin st[p].got, st[p].cur = None, st'[p].cur = None,
         \A g \in st[p].got : ~versionLess(g, x),
         st'[p].left = st[p].left \ {x},
         \A y \in st'[p].left : ~versionLess(x, y),
         st'[p].got = st[p].got \cup {x},
         st'[p].best = (IF st[p].best = None THEN x ELSE st[p].best),
         \/ st'[p].pc = "done" /\ st'[p].res = x
         \/ st'[p].pc = "loop" /\ st'[p].res = st[p].res
  PROVE  Walk(p)'
  <1>1. Candidates' = Candidates
    BY SameCandidates
  <1>2. /\ x \in Version /\ x # None /\ st[p].got \subseteq Version /\ st[p].left \subseteq Version
        /\ ~versionLess(x, x)
    BY WalkType, OrderLaws
  <1>3. /\ st[p].best \in st[p].got \cup {None} /\ st[p].res \in st[p].got \cup {None}
        /\ st[p].left \cap st[p].got = {} /\ (st[p].got # {} => st[p].best # None)
        /\ \A g \in st[p].got : ~versionLess(st[p].best, g)
        /\ \A g \in st[p].got, y \in st[p].left : ~versionLess(g, y)
        /\ st[p].left \cup st[p].got \subseteq Candidates
    BY DEF Walk
  <1>4. st'[p].best # None /\ st'[p].best \in st'[p].got
    BY <1>2, <1>3
  <1>5. \A g \in st'[p].got : ~versionLess(st'[p].best, g)
    <2>1. CASE st[p].best = None
      BY <1>2, <1>3, <2>1
    <2>2. CASE st[p].best # None
      BY <1>3, <2>2
    <2> QED  BY <2>1, <2>2
  <1>6. \A g \in st'[p].got : \A y \in st'[p].left : ~versionLess(g, y)
    BY <1>3
  <1>7. st'[p].left \cap st'[p].got = {} /\ st'[p].left \cup st'[p].got \subseteq Candidates
    BY <1>3
  <1>8. st'[p].res \in st'[p].got \cup {None}
    BY <1>3
  <1> QED  BY <1>1, <1>4, <1>5, <1>6, <1>7, <1>8 DEF Walk, Busy

LEMMA WalkTries ==
  ASSUME Typed, NEW p \in Proc, Walk(p), Try(p)
  PROVE  Walk(p)' /\ \A q \in Proc \ {p} : Walk(q) => Walk(q)'
  <1>1. PICK x \in st[p].left :
         /\ x = Newest(st[p].left) /\ st[p].pc = "loop"
         /\ UNCHANGED <<sc, files, dirs, marker>> /\ Typed'
         /\ \A q \in Proc \ {p} : st'[q] = st[q]
         /\ st'[p].left = st[p].left \ {x} /\ st'[p].v = x
         /\ st'[p].todo = st[p].todo /\ st'[p].cur = st[p].cur /\ st'[p].fd = st[p].fd
         /\ \/ /\ x \in marker /\ shared' = shared
               /\ st'[p].got = st[p].got \cup {x}
               /\ st'[p].best = (IF st[p].best = None THEN x ELSE st[p].best)
               /\ \/ st'[p].pc = "done" /\ st'[p].res = x /\ x \in sc.declares
                  \/ /\ st'[p].pc = "loop" /\ st'[p].res = st[p].res
                     /\ x \notin sc.declares \/ ~Complete(x)
            \/ /\ x \notin marker
               /\ shared' = IF \E q \in Proc \ {p} : Fetching(q, x) \/ x \in st[q].got
                            THEN shared \cup {x} ELSE shared
               /\ st'[p].pc = "fetch" /\ st'[p].got = st[p].got
               /\ st'[p].best = st[p].best /\ st'[p].res = st[p].res
    BY TryDoes
  <1>2. \A q \in Proc \ {p} : Walk(q) => Walk(q)'
    BY <1>1, WalkStays
  <1>3. \A y \in st[p].left : ~versionLess(x, y)
    BY <1>1, WalkType, NewestIn
  <1>4. /\ x \in Candidates /\ x \notin st[p].got /\ st[p].cur = None
        /\ \A g \in st[p].got : ~versionLess(g, x)
    BY <1>1 DEF Walk
  <1>5. CASE st'[p].got = st[p].got \cup {x}
            /\ st'[p].best = (IF st[p].best = None THEN x ELSE st[p].best)
            /\ \/ st'[p].pc = "done" /\ st'[p].res = x
               \/ st'[p].pc = "loop" /\ st'[p].res = st[p].res
    <2>1. Walk(p)'
      BY <1>1, <1>3, <1>4, <1>5, WalkGets
    <2> QED  BY <1>2, <2>1
  <1>6. CASE /\ st'[p].pc = "fetch" /\ st'[p].got = st[p].got
             /\ st'[p].best = st[p].best /\ st'[p].res = st[p].res
    <2>1. Candidates' = Candidates
      BY <1>1, SameCandidates
    <2>2. st'[p].left \subseteq st[p].left
      BY <1>1
    <2> QED  BY <1>1, <1>2, <1>3, <1>4, <1>6, <2>1, <2>2 DEF Walk, Busy
  <1> QED  BY <1>1, <1>5, <1>6

LEMMA WalkMarks ==
  ASSUME Typed, NEW p \in Proc, Walk(p), Mark(p)
  PROVE  Walk(p)' /\ \A q \in Proc \ {p} : Walk(q) => Walk(q)'
  <1> DEFINE x == st[p].v
  <1>1. /\ sc' = sc /\ st[p].pc = "mark" /\ Goes(p, {"pc", "got", "best", "res"})
        /\ st'[p].got = st[p].got \cup {x}
        /\ st'[p].best = (IF st[p].best = None THEN x ELSE st[p].best)
        /\ \/ st'[p].pc = "done" /\ st'[p].res = x
           \/ st'[p].pc = "loop" /\ st'[p].res = st[p].res
    BY MarkDoes
  <1>2. \A q \in Proc \ {p} : Walk(q) => Walk(q)'
    BY <1>1, WalkStays DEF Goes
  <1>3. /\ x \in Candidates \ (st[p].left \cup st[p].got) /\ st[p].cur = None
        /\ \A y \in st[p].left : ~versionLess(x, y)
        /\ \A g \in st[p].got : ~versionLess(g, x)
    BY <1>1 DEF Walk, Busy
  <1>4. st'[p].left = st[p].left /\ st'[p].cur = st[p].cur
    BY <1>1 DEF Goes, Fields
  <1> HIDE DEF x
  <1>5. Walk(p)'
    BY <1>1, <1>3, <1>4, WalkGets
  <1> QED  BY <1>2, <1>5

LEMMA WalkPasses ==
  ASSUME Typed, NEW p \in Proc, Walk(p),
         Download(p) \/ ExtractFails(p) \/ Extracted(p) \/ RequestFails(p)
  PROVE  Walk(p)' /\ \A q \in Proc \ {p} : Walk(q) => Walk(q)'
  <1>1. /\ sc' = sc /\ Goes(p, {"pc", "todo", "cur", "fd"})
        /\ st[p].pc \in {"fetch", "extract"} /\ st'[p].pc \in {"extract", "remove", "mark", "loop"}
        /\ st'[p].cur = None
    BY PassDoes DEF CacheStays, Walk
  <1>2. \A q \in Proc \ {p} : Walk(q) => Walk(q)'
    BY <1>1, WalkStays DEF Goes
  <1>3. /\ st'[p].left = st[p].left /\ st'[p].v = st[p].v /\ st'[p].got = st[p].got
        /\ st'[p].best = st[p].best /\ st'[p].res = st[p].res
    BY <1>1 DEF Goes, Fields
  <1>4. Candidates' = Candidates
    BY <1>1, SameCandidates
  <1> QED  BY <1>1, <1>2, <1>3, <1>4 DEF Walk, Busy

LEMMA WalkWrites ==
  ASSUME Typed, NEW p \in Proc, Walk(p),
         \/ Copy(p) \/ RemoveMarker(p) \/ Removed(p)
         \/ \E f \in File : Open(p, f) \/ Remove(p, f)
  PROVE  Walk(p)' /\ \A q \in Proc \ {p} : Walk(q) => Walk(q)'
  <1> DEFINE x == st[p].v
  <1>1. CASE Copy(p)
    <2>1. sc' = sc /\ Goes(p, {"cur", "fd"}) /\ st'[p].cur = None /\ st[p].pc = "extract"
      BY <1>1, CopyDoes
    <2>2. /\ st'[p].left = st[p].left /\ st'[p].v = st[p].v /\ st'[p].got = st[p].got
          /\ st'[p].best = st[p].best /\ st'[p].res = st[p].res /\ st'[p].pc = st[p].pc
      BY <2>1 DEF Goes, Fields
    <2>3. Walk(p)'
      BY <2>1, <2>2, SameCandidates DEF Walk
    <2> QED  BY <2>1, <2>3, WalkStays DEF Goes
  <1>2. CASE RemoveMarker(p)
    <2>1. sc' = sc /\ st' = st
      BY <1>2, RemoveMarkerDoes
    <2> QED  BY <2>1, WalkStays
  <1>3. CASE Removed(p)
    <2>1. sc' = sc /\ Goes(p, {"pc"}) /\ st[p].pc = "remove" /\ st'[p].pc = "loop"
      BY <1>3, RemovedDoes
    <2>2. /\ st'[p].left = st[p].left /\ st'[p].v = st[p].v /\ st'[p].got = st[p].got
          /\ st'[p].best = st[p].best /\ st'[p].res = st[p].res /\ st'[p].cur = st[p].cur
      BY <2>1 DEF Goes, Fields
    <2>3. Walk(p)'
      BY <2>1, <2>2, SameCandidates DEF Walk, Busy
    <2> QED  BY <2>1, <2>3, WalkStays DEF Goes
  <1>4. ASSUME NEW f \in File, Open(p, f) PROVE Walk(p)' /\ \A q \in Proc \ {p} : Walk(q) => Walk(q)'
    <2>1. /\ sc' = sc /\ Bystanders(p) /\ st[p].pc = "extract"
          /\ \A h \in Fields \ {"cur", "fd", "todo"} : st'[p][h] = st[p][h]
      BY <1>4, OpenDoes
    <2>2. /\ st'[p].left = st[p].left /\ st'[p].v = st[p].v /\ st'[p].got = st[p].got
          /\ st'[p].best = st[p].best /\ st'[p].res = st[p].res /\ st'[p].pc = st[p].pc
      BY <2>1 DEF Fields
    <2>3. Walk(p)'
      BY <2>1, <2>2, SameCandidates DEF Walk
    <2> QED  BY <2>1, <2>3, WalkStays DEF Bystanders, Fields
  <1>5. ASSUME NEW f \in File, Remove(p, f) PROVE Walk(p)' /\ \A q \in Proc \ {p} : Walk(q) => Walk(q)'
    <2>1. sc' = sc /\ Bystanders(p) /\ st'[p] = st[p]
      BY <1>5, RemoveDoes
    <2> QED  BY <2>1, WalkStays DEF Bystanders, Fields
  <1> QED  BY <1>1, <1>2, <1>3, <1>4, <1>5

-----------------------------------------------------------------------------
(* Exclusive: who is at work on a version, and how far.                    *)

LEMMA PrivateStays ==
  ASSUME NEW x \in Version, Private(x),
         \A f \in File : files'[x][f] = files[x][f],
         x \in marker' => x \in marker,
         \A q \in Proc : /\ Fetching(q, x)' => Fetching(q, x)
                         /\ Fetching(q, x)' /\ Progress(q, x) => Progress(q, x)'
                         /\ x \in st'[q].got => x \in st[q].got
  PROVE  Private(x)'
  <1>1. Complete(x) => Complete(x)'
    BY DEF Complete
  <1>2. /\ \A p, q \in Proc : Fetching(p, x)' /\ q # p => ~Fetching(q, x)' /\ x \notin st'[q].got
        /\ \A p \in Proc : Fetching(p, x)' => x \notin marker' /\ Progress(p, x)'
        /\ (x \in marker' \/ \E p \in Proc : x \in st'[p].got) => Complete(x)'
    BY <1>1 DEF Private
  <1> QED  BY <1>2 DEF Private

\* A process that has not moved, or one that is not at work on x.
LEMMA ProgressStays ==
  ASSUME NEW x \in Version, NEW q \in Proc,
         \A f \in File : files'[x][f] = files[x][f],
         \A h \in {"pc", "v", "todo", "cur", "fd"} : st'[q][h] = st[q][h]
  PROVE  /\ Fetching(q, x)' <=> Fetching(q, x)
         /\ Progress(q, x) => Progress(q, x)'
  <1>1. Complete(x) => Complete(x)'
    BY DEF Complete
  <1> QED  BY <1>1 DEF Fetching, Progress

\* The steps that leave the files alone and fetch nothing.
LEMMA PrivatePasses ==
  ASSUME Typed, NEW p \in Proc, Walk(p), NEW x \in Version, Private(x),
         \/ Start(p) \/ GiveUp(p) \/ RequestFails(p) \/ Download(p) \/ ExtractFails(p)
         \/ Extracted(p) \/ RemoveMarker(p) \/ Removed(p) \/ Crash(p) \/ Finish(p)
  PROVE  Private(x)'
  <1>1. files' = files /\ marker' \subseteq marker /\ \A q \in Proc \ {p} : st'[q] = st[q]
    BY StartDoes, GiveUpDoes, PassDoes, RemoveMarkerDoes, RemovedDoes, EndDoes
       DEF CacheStays, Goes
  <1>2. \A q \in Proc \ {p} : /\ Fetching(q, x)' <=> Fetching(q, x)
                              /\ Progress(q, x) => Progress(q, x)'
    BY <1>1, ProgressStays
  <1>3. /\ Fetching(p, x)' => Fetching(p, x)
        /\ Fetching(p, x)' /\ Progress(p, x) => Progress(p, x)'
        /\ x \in st'[p].got => x \in st[p].got
    <2>1. CASE Start(p) \/ GiveUp(p) \/ Removed(p) \/ Crash(p) \/ Finish(p)
      <3>1. st'[p].pc \in {"loop", "done", "idle"}
        BY <2>1, StartDoes, GiveUpDoes, RemovedDoes, EndDoes
      <3>2. st'[p].got \in {st[p].got, {}}
        BY <2>1, StartDoes, GiveUpDoes, RemovedDoes, EndDoes DEF Goes, Fields
      <3> QED  BY <3>1, <3>2 DEF Fetching
    <2>2. CASE RemoveMarker(p)
      BY <1>1, <2>2, ProgressStays, RemoveMarkerDoes
    <2>3. CASE RequestFails(p) \/ Download(p) \/ ExtractFails(p) \/ Extracted(p)
      <3>1. st'[p].v = st[p].v /\ st'[p].got = st[p].got
        BY <2>3, PassDoes DEF Goes, Fields
      <3>2. None \notin File /\ (st[p].pc # "extract" => st[p].cur = None)
        BY WalkType
      <3>3. Complete(x)' <=> \A f \in File : files[x][f] = "full"
        BY <1>1 DEF Complete
      <3>4. st[p].pc \in Busy /\ st'[p].cur = None
        BY <2>3, <3>2, PassDoes DEF Busy
      <3>5. ASSUME Fetching(p, x)', Progress(p, x) PROVE Progress(p, x)'
        <4>1. CASE st'[p].pc = "extract" /\ st'[p].todo = File
          BY <3>4, <4>1 DEF Progress
        <4>2. CASE st'[p].pc \in {"remove", "loop"}
          BY <3>4, <4>2 DEF Progress
        <4>3. CASE st[p].pc = "extract" /\ st[p].cur = None /\ st[p].todo = {} /\ st'[p].pc = "mark"
          <5>1. \A f \in File : files[x][f] = "full"
            BY <3>2, <3>5, <4>3 DEF Progress
          <5> QED  BY <3>3, <3>4, <4>3, <5>1 DEF Progress
        <4> QED  BY <2>3, <4>1, <4>2, <4>3, PassDoes
      <3> QED  BY <3>1, <3>4, <3>5 DEF Fetching, Busy
    <2> QED  BY <2>1, <2>2, <2>3
  <1> QED  BY <1>1, <1>2, <1>3, PrivateStays

\* A step that works on another version.
LEMMA PrivateElsewhere ==
  ASSUME Typed, NEW p \in Proc, Walk(p), NEW x \in Version, Private(x),
         \/ Try(p) /\ x # Newest(st[p].left)
         \/ Mark(p) /\ x # st[p].v
         \/ Copy(p) /\ x # st[p].v
         \/ \E f \in File : Open(p, f) /\ x # st[p].v
         \/ \E f \in File : Remove(p, f) /\ x # st[p].v
  PROVE  Private(x)'
  <1>1. CASE Try(p) /\ x # Newest(st[p].left)
    <2>1. /\ files' = files /\ marker' = marker /\ \A q \in Proc \ {p} : st'[q] = st[q]
          /\ st'[p].v # x /\ st'[p].got \subseteq st[p].got \cup {Newest(st[p].left)}
      BY <1>1, TryDoes
    <2>2. \A q \in Proc \ {p} : /\ Fetching(q, x)' <=> Fetching(q, x)
                                /\ Progress(q, x) => Progress(q, x)'
      BY <2>1, ProgressStays
    <2>3. ~Fetching(p, x)' /\ (x \in st'[p].got => x \in st[p].got)
      BY <1>1, <2>1 DEF Fetching
    <2> QED  BY <2>1, <2>2, <2>3, PrivateStays
  <1>2. CASE Mark(p) /\ x # st[p].v
    <2>1. /\ files' = files /\ marker' \subseteq marker \cup {st[p].v}
          /\ \A q \in Proc \ {p} : st'[q] = st[q]
          /\ st'[p].pc \in {"done", "loop"} /\ st'[p].got = st[p].got \cup {st[p].v}
      BY <1>2, MarkDoes DEF Goes
    <2>2. \A q \in Proc \ {p} : /\ Fetching(q, x)' <=> Fetching(q, x)
                                /\ Progress(q, x) => Progress(q, x)'
      BY <2>1, ProgressStays
    <2>3. ~Fetching(p, x)' /\ (x \in st'[p].got => x \in st[p].got)
      BY <1>2, <2>1 DEF Fetching
    <2> QED  BY <1>2, <2>1, <2>2, <2>3, PrivateStays
  <1>3. CASE Copy(p) /\ x # st[p].v
    <2>1. /\ marker' = marker /\ Goes(p, {"cur", "fd"})
          /\ st[p].cur \in File /\ Writes(st[p].v, st[p].cur, {files[st[p].v][st[p].cur], "full"})
      BY <1>3, CopyDoes
    <2>2. /\ \A q \in Proc \ {p} : st'[q] = st[q]
          /\ st'[p].v = st[p].v /\ st'[p].got = st[p].got
          /\ \A f \in File : files'[x][f] = files[x][f]
      BY <1>3, <2>1 DEF Goes, Fields, Writes
    <2>3. \A q \in Proc \ {p} : /\ Fetching(q, x)' <=> Fetching(q, x)
                                /\ Progress(q, x) => Progress(q, x)'
      BY <2>2, ProgressStays
    <2>4. ~Fetching(p, x)'
      BY <1>3, <2>2 DEF Fetching
    <2> QED  BY <2>1, <2>2, <2>3, <2>4, PrivateStays
  <1>4. ASSUME NEW f \in File, Open(p, f) \/ Remove(p, f), x # st[p].v PROVE Private(x)'
    <2>1. /\ marker' = marker /\ Bystanders(p) /\ st'[p].v = st[p].v /\ st'[p].got = st[p].got
          /\ \A q \in Proc \ {p} : st'[q].fd = st[q].fd \/ st[q].v = st[p].v
          /\ \A g \in File : files'[x][g] = files[x][g]
      <3>1. CASE Open(p, f)
        BY <1>4, <3>1, OpenDoes DEF Fields, Writes
      <3>2. CASE Remove(p, f)
        BY <1>4, <3>2, RemoveDoes DEF Fields, Writes
      <3> QED  BY <1>4, <3>1, <3>2
    <2>2. \A q \in Proc \ {p} : \A h \in {"pc", "v", "todo", "cur", "got"} : st'[q][h] = st[q][h]
      BY <2>1 DEF Bystanders, Fields
    <2>3. \A q \in Proc \ {p} : /\ Fetching(q, x)' => Fetching(q, x)
                                /\ Fetching(q, x)' /\ Progress(q, x) => Progress(q, x)'
      <3> SUFFICES ASSUME NEW q \in Proc \ {p}, Fetching(q, x)'
                   PROVE  Fetching(q, x) /\ (Progress(q, x) => Progress(q, x)')
        OBVIOUS
      <3>1. st[q].v = x
        BY <2>2 DEF Fetching
      <3>2. \A h \in {"pc", "v", "todo", "cur", "fd"} : st'[q][h] = st[q][h]
        BY <1>4, <2>1, <2>2, <3>1
      <3> QED  BY <2>1, <3>2, ProgressStays
    <2>4. ~Fetching(p, x)'
      BY <1>4, <2>1 DEF Fetching
    <2>5. \A q \in Proc : x \in st'[q].got => x \in st[q].got
      BY <2>1, <2>2
    <2> QED  BY <2>1, <2>3, <2>4, <2>5, PrivateStays
  <1> QED  BY <1>1, <1>2, <1>3, <1>4

LEMMA PrivateTries ==
  ASSUME Typed, NEW p \in Proc, Walk(p), Try(p), NEW x \in Version, x = Newest(st[p].left),
         Private(x), x \notin shared'
  PROVE  Private(x)'
  <1>1. /\ st[p].pc = "loop" /\ x \in st[p].left /\ files' = files /\ marker' = marker
        /\ \A q \in Proc \ {p} : st'[q] = st[q]
        /\ st'[p].v = x /\ st'[p].cur = st[p].cur
        /\ \/ x \in marker /\ st'[p].got = st[p].got \cup {x} /\ st'[p].pc \in {"done", "loop"}
           \/ /\ x \notin marker /\ st'[p].pc = "fetch" /\ st'[p].got = st[p].got
              /\ ~\E q \in Proc \ {p} : Fetching(q, x) \/ x \in st[q].got
    BY TryDoes
  <1>2. /\ ~Fetching(p, x) /\ st[p].cur = None /\ x \notin st[p].got
    BY <1>1 DEF Fetching, Walk
  <1>3. \A q \in Proc \ {p} : Fetching(q, x)' <=> Fetching(q, x)
    BY <1>1, ProgressStays
  <1>4. Complete(x)' <=> Complete(x)
    BY <1>1 DEF Complete
  <1>5. CASE x \in marker /\ st'[p].got = st[p].got \cup {x} /\ st'[p].pc \in {"done", "loop"}
    <2>1. Complete(x)' /\ \A q \in Proc : ~Fetching(q, x)
      BY <1>4, <1>5 DEF Private
    <2>2. \A q \in Proc : ~Fetching(q, x)'
      BY <1>3, <1>5, <2>1 DEF Fetching
    <2> QED  BY <2>1, <2>2 DEF Private
  <1>6. CASE /\ x \notin marker /\ st'[p].pc = "fetch" /\ st'[p].got = st[p].got
             /\ ~\E q \in Proc \ {p} : Fetching(q, x) \/ x \in st[q].got
    <2>1. \A q \in Proc \ {p} : ~Fetching(q, x)' /\ x \notin st'[q].got
      BY <1>1, <1>3, <1>6
    <2>2. Progress(p, x)' /\ x \notin st'[p].got /\ x \notin marker'
      BY <1>1, <1>2, <1>6 DEF Progress
    <2> QED  BY <2>1, <2>2 DEF Private
  <1> QED  BY <1>1, <1>5, <1>6

LEMMA PrivateMarks ==
  ASSUME Typed, NEW p \in Proc, Walk(p), Mark(p), NEW x \in Version, x = st[p].v, Private(x)
  PROVE  Private(x)' /\ Complete(x)
  <1>1. /\ st[p].pc = "mark" /\ files' = files /\ st'[p].pc \in {"done", "loop"}
        /\ \A q \in Proc \ {p} : st'[q] = st[q]
    BY MarkDoes DEF Goes
  <1>2. Fetching(p, x) /\ Complete(x)
    BY <1>1 DEF Fetching, Private, Progress
  <1>3. \A q \in Proc : ~Fetching(q, x)'
    <2>1. \A q \in Proc \ {p} : Fetching(q, x)' <=> Fetching(q, x)
      BY <1>1, ProgressStays
    <2>2. \A q \in Proc \ {p} : ~Fetching(q, x)
      BY <1>2 DEF Private
    <2> QED  BY <1>1, <2>1, <2>2 DEF Fetching
  <1>4. Complete(x)'
    BY <1>1, <1>2 DEF Complete
  <1> QED  BY <1>2, <1>3, <1>4 DEF Private

\* The files of a version change while one process is at work on it.
LEMMA PrivateWrites ==
  ASSUME Typed, NEW p \in Proc, Walk(p), NEW x \in Version, x = st[p].v, Private(x),
         Copy(p) \/ \E f \in File : Open(p, f) \/ Remove(p, f)
  PROVE  Private(x)'
  <1>1. /\ marker' = marker /\ Bystanders(p) /\ st[p].pc \in {"extract", "remove"}
        /\ st'[p].v = st[p].v /\ st'[p].got = st[p].got /\ st'[p].pc = st[p].pc
    <2>1. CASE Copy(p)
      <3>1. marker' = marker /\ st[p].pc = "extract" /\ Goes(p, {"cur", "fd"})
        BY <2>1, CopyDoes
      <3> QED  BY <3>1 DEF Goes, Fields, Bystanders
    <2>2. ASSUME NEW f \in File, Open(p, f)
          PROVE  /\ marker' = marker /\ Bystanders(p) /\ st[p].pc = "extract"
                 /\ st'[p].v = st[p].v /\ st'[p].got = st[p].got /\ st'[p].pc = st[p].pc
      BY <2>2, OpenDoes DEF Fields
    <2>3. ASSUME NEW f \in File, Remove(p, f)
          PROVE  /\ marker' = marker /\ Bystanders(p) /\ st[p].pc = "remove"
                 /\ st'[p].v = st[p].v /\ st'[p].got = st[p].got /\ st'[p].pc = st[p].pc
      BY <2>3, RemoveDoes
    <2> QED  BY <2>1, <2>2, <2>3
  <1>2. \A q \in Proc \ {p} : \A h \in {"pc", "v", "got"} : st'[q][h] = st[q][h]
    BY <1>1 DEF Bystanders, Fields
  <1>3. Fetching(p, x) /\ x \notin st[p].got
    BY <1>1 DEF Fetching, Walk, Busy
  <1>4. /\ x \notin marker /\ Progress(p, x)
        /\ \A q \in Proc \ {p} : ~Fetching(q, x) /\ x \notin st[q].got
    BY <1>3 DEF Private
  <1>5. \A q \in Proc \ {p} : ~Fetching(q, x)' /\ x \notin st'[q].got
    BY <1>2, <1>4 DEF Fetching
  <1>6. Progress(p, x)'
    <2>1. CASE Copy(p)
      <3> DEFINE f == st[p].cur
      <3>1. /\ st[p].pc = "extract" /\ f \in File /\ f # None
            /\ Writes(x, f, {files[x][f], "full"})
            /\ st[p].fd = "own" => files'[x][f] = "full"
            /\ Goes(p, {"cur", "fd"}) /\ st'[p].cur = None /\ st'[p].fd = "own"
        BY <2>1, CopyDoes, WalkType
      <3>2. st'[p].todo = st[p].todo
        BY <3>1 DEF Goes, Fields
      <3>3. files'[x][f] = "full" /\ \A g \in File \ st[p].todo : g # f => files[x][g] = "full"
        BY <1>4, <3>1 DEF Progress
      <3>4. \A g \in File \ st[p].todo : files'[x][g] = "full"
        BY <3>1, <3>3 DEF Writes
      <3> QED  BY <1>1, <3>1, <3>2, <3>4 DEF Progress
    <2>2. ASSUME NEW f \in File, Open(p, f) PROVE Progress(p, x)'
      <3>1. /\ st[p].pc = "extract" /\ st[p].cur = None /\ Writes(x, f, {"partial"})
            /\ st'[p].cur = f /\ st'[p].fd = "own" /\ st'[p].todo = st[p].todo \ {f}
        BY <2>2, OpenDoes
      <3>2. None \notin File
        BY WalkType
      <3>3. \A g \in File \ st'[p].todo : g # f => files'[x][g] = "full"
        BY <1>4, <3>1, <3>2 DEF Progress, Writes
      <3> QED  BY <1>1, <3>1, <3>3 DEF Progress
    <2>3. ASSUME NEW f \in File, Remove(p, f) PROVE Progress(p, x)'
      <3>1. st[p].pc = "remove" /\ st'[p] = st[p] /\ st[p].cur = None
        BY <2>3, RemoveDoes, WalkType
      <3> QED  BY <3>1 DEF Progress
    <2> QED  BY <2>1, <2>2, <2>3
  <1>7. x \notin marker' /\ \A q \in Proc : x \notin st'[q].got
    BY <1>1, <1>3, <1>4, <1>5
  <1> QED  BY <1>5, <1>6, <1>7 DEF Private

-----------------------------------------------------------------------------
(* Tried: what is used fits, or nothing that was fetched does.             *)

LEMMA TriedStays ==
  ASSUME sc' = sc, shared \subseteq shared', NEW q \in Proc, Tried(q),
         \A h \in {"pc", "left", "tries", "got", "best", "res"} : st'[q][h] = st[q][h]
  PROVE  Tried(q)'
  BY DEF Tried

\* Before the end of a run nothing that was fetched fits.
LEMMA TriedGoesOn ==
  ASSUME sc' = sc, shared \subseteq shared', NEW p \in Proc, Tried(p),
         st[p].pc # "done", st'[p].pc # "done", st'[p].got \in {st[p].got, {}}
  PROVE  Tried(p)'
  BY DEF Tried

\* A version joins those that were fetched.
LEMMA TriedGets ==
  ASSUME sc' = sc, shared' = shared, NEW p \in Proc, Tried(p), st[p].pc # "done",
         NEW x \in Version, x \notin shared => Complete(x),
         st'[p].got = st[p].got \cup {x},
         \/ st'[p].pc = "done" /\ st'[p].res = x /\ x \in sc.declares
         \/ st'[p].pc = "loop" /\ (x \notin sc.declares \/ ~Complete(x))
  PROVE  Tried(p)'
  <1>1. \A g \in st[p].got \ shared : g \notin sc.declares
    BY DEF Tried
  <1> QED  BY <1>1 DEF Tried

LEMMA TriedStep ==
  ASSUME Typed, NEW p \in Proc, Walk(p), Exclusive, Tried(p),
         \/ Start(p) \/ Try(p) \/ GiveUp(p) \/ RequestFails(p) \/ Download(p)
         \/ \E f \in File : Open(p, f) \/ Remove(p, f)
         \/ Copy(p) \/ ExtractFails(p) \/ RemoveMarker(p) \/ Removed(p)
         \/ Extracted(p) \/ Mark(p) \/ Crash(p) \/ Finish(p)
  PROVE  Tried(p)' /\ \A q \in Proc \ {p} : Tried(q) => Tried(q)'
  <1>1. CASE Start(p) \/ GiveUp(p) \/ Crash(p) \/ Finish(p)
    <2>1. /\ sc' = sc /\ shared' = shared /\ \A q \in Proc \ {p} : st'[q] = st[q]
      BY <1>1, StartDoes, GiveUpDoes, EndDoes DEF CacheStays, Goes
    <2>2. CASE Start(p)
      <3>1. st[p].pc = "idle" /\ st'[p].pc = "loop" /\ st'[p].got = st[p].got
        BY <2>2, StartDoes DEF Goes, Fields
      <3> QED  BY <2>1, <3>1, TriedGoesOn, TriedStays
    <2>3. CASE GiveUp(p)
      <3>1. /\ st[p].pc = "loop" /\ (st[p].left = {} \/ st[p].tries = MaxTries)
            /\ st'[p].pc = "done" /\ st'[p].res = st[p].best
            /\ st'[p].left = st[p].left /\ st'[p].tries = st[p].tries
            /\ st'[p].got = st[p].got /\ st'[p].best = st[p].best
        BY <2>3, GiveUpDoes DEF Goes, Fields
      <3>2. Tried(p)'
        BY <2>1, <3>1 DEF Tried
      <3> QED  BY <2>1, <3>2, TriedStays
    <2>4. CASE Crash(p) \/ Finish(p)
      <3>1. st'[p].pc = "idle" /\ st'[p].got = {}
        BY <2>4, EndDoes
      <3>2. Tried(p)'
        BY <3>1 DEF Tried
      <3> QED  BY <2>1, <3>2, TriedStays
    <2> QED  BY <1>1, <2>2, <2>3, <2>4
  <1>2. CASE Try(p)
    <2>1. PICK x \in st[p].left :
           /\ x = Newest(st[p].left) /\ st[p].pc = "loop"
           /\ UNCHANGED <<sc, files, dirs, marker>> /\ Typed'
           /\ \A q \in Proc \ {p} : st'[q] = st[q]
           /\ st'[p].left = st[p].left \ {x} /\ st'[p].v = x
           /\ st'[p].todo = st[p].todo /\ st'[p].cur = st[p].cur /\ st'[p].fd = st[p].fd
           /\ \/ /\ x \in marker /\ shared' = shared
                 /\ st'[p].got = st[p].got \cup {x}
                 /\ st'[p].best = (IF st[p].best = None THEN x ELSE st[p].best)
                 /\ \/ st'[p].pc = "done" /\ st'[p].res = x /\ x \in sc.declares
                    \/ /\ st'[p].pc = "loop" /\ st'[p].res = st[p].res
                       /\ x \notin sc.declares \/ ~Complete(x)
              \/ /\ x \notin marker
                 /\ shared' = IF \E q \in Proc \ {p} : Fetching(q, x) \/ x \in st[q].got
                              THEN shared \cup {x} ELSE shared
                 /\ st'[p].pc = "fetch" /\ st'[p].got = st[p].got
                 /\ st'[p].best = st[p].best /\ st'[p].res = st[p].res
      BY <1>2, TryDoes
    <2>2. x \in Version /\ shared \subseteq shared'
      BY <2>1, WalkType
    <2>3. Tried(p)'
      <3>1. CASE x \in marker
        <4>1. x \notin shared => Complete(x)
          BY <2>2, <3>1 DEF Exclusive, Private
        <4> QED  BY <2>1, <2>2, <3>1, <4>1, TriedGets
      <3>2. CASE x \notin marker
        BY <2>1, <2>2, <3>2, TriedGoesOn
      <3> QED  BY <3>1, <3>2
    <2> QED  BY <2>1, <2>2, <2>3, TriedStays
  <1>3. CASE Mark(p)
    <2> DEFINE x == st[p].v
    <2>1. /\ sc' = sc /\ shared' = shared /\ st[p].pc = "mark" /\ x \in Version
          /\ \A q \in Proc \ {p} : st'[q] = st[q]
          /\ st'[p].got = st[p].got \cup {x}
          /\ \/ st'[p].pc = "done" /\ st'[p].res = x /\ x \in sc.declares
             \/ st'[p].pc = "loop" /\ (x \notin sc.declares \/ ~Complete(x))
      BY <1>3, MarkDoes DEF Goes
    <2>2. x \notin shared => Complete(x)
      BY <1>3, <2>1, PrivateMarks DEF Exclusive
    <2> HIDE DEF x
    <2>3. Tried(p)'
      BY <2>1, <2>2, TriedGets
    <2> QED  BY <2>1, <2>3, TriedStays
  <1>4. CASE \/ RequestFails(p) \/ Download(p) \/ ExtractFails(p) \/ Extracted(p)
             \/ Removed(p) \/ Copy(p)
    <2>1. CASE RequestFails(p) \/ Download(p) \/ ExtractFails(p) \/ Extracted(p)
      <3>1. /\ sc' = sc /\ shared' = shared /\ Goes(p, {"pc", "todo", "cur", "fd"})
            /\ st[p].pc # "done" /\ st'[p].pc # "done"
        BY <2>1, PassDoes DEF CacheStays
      <3>2. st'[p].got = st[p].got /\ \A q \in Proc \ {p} : st'[q] = st[q]
        BY <3>1 DEF Goes, Fields
      <3> QED  BY <3>1, <3>2, TriedGoesOn, TriedStays
    <2>2. CASE Removed(p)
      <3>1. /\ sc' = sc /\ shared' = shared /\ Goes(p, {"pc"})
            /\ st[p].pc # "done" /\ st'[p].pc # "done"
        BY <2>2, RemovedDoes
      <3>2. st'[p].got = st[p].got /\ \A q \in Proc \ {p} : st'[q] = st[q]
        BY <3>1 DEF Goes, Fields
      <3> QED  BY <3>1, <3>2, TriedGoesOn, TriedStays
    <2>3. CASE Copy(p)
      <3>1. /\ sc' = sc /\ shared' = shared /\ Goes(p, {"cur", "fd"}) /\ st[p].pc = "extract"
        BY <2>3, CopyDoes
      <3>2. /\ st'[p].got = st[p].got /\ st'[p].pc = st[p].pc
            /\ \A q \in Proc \ {p} : st'[q] = st[q]
        BY <3>1 DEF Goes, Fields
      <3> QED  BY <3>1, <3>2, TriedGoesOn, TriedStays
    <2> QED  BY <1>4, <2>1, <2>2, <2>3
  <1>5. CASE RemoveMarker(p)
    BY <1>5, RemoveMarkerDoes, TriedStays
  <1>6. ASSUME NEW f \in File, Open(p, f) \/ Remove(p, f)
        PROVE  Tried(p)' /\ \A q \in Proc \ {p} : Tried(q) => Tried(q)'
    <2>1. /\ sc' = sc /\ shared' = shared /\ Bystanders(p) /\ st[p].pc # "done"
          /\ st'[p].pc = st[p].pc /\ st'[p].got = st[p].got
      <3>1. CASE Open(p, f)
        BY <3>1, OpenDoes DEF Fields
      <3>2. CASE Remove(p, f)
        BY <3>2, RemoveDoes
      <3> QED  BY <1>6, <3>1, <3>2
    <2> QED  BY <2>1, TriedGoesOn, TriedStays DEF Bystanders, Fields
  <1> QED  BY <1>1, <1>2, <1>3, <1>4, <1>5, <1>6

-----------------------------------------------------------------------------
(* Settling: without faults the last writer makes every file whole.        *)

Calm(q) == /\ st[q].pc # "remove" /\ st[q].fd # "gone"
           /\ st[q].pc \in {"extract", "mark"} =>
                 \A f \in File \ st[q].todo : files[st[q].v][f] # "absent"
           /\ st[q].pc = "mark" => st[q].todo = {}
Writer(q, x, f) == Fetching(q, x) /\ st[q].cur = f /\ st[q].fd = "own"
Seeded == \A x \in marker, f \in File : files[x][f] # "absent"

LEMMA SettlingIs ==
  Settling <=> (~sc.faults =>
                  /\ \A q \in Proc : Calm(q)
                  /\ \A x \in Version, f \in File :
                        files[x][f] = "partial" => \E q \in Proc : Writer(q, x, f)
                  /\ Seeded)
  BY DEF Settling, Calm, Writer, Seeded

\* The steps that leave the files alone.
LEMMA SettlingPasses ==
  ASSUME Typed, NEW p \in Proc, Walk(p), Settling, \A q \in Proc : Walk(q),
         \/ Start(p) \/ Try(p) \/ GiveUp(p) \/ RequestFails(p) \/ Download(p) \/ ExtractFails(p)
         \/ Extracted(p) \/ RemoveMarker(p) \/ Removed(p) \/ Mark(p) \/ Crash(p) \/ Finish(p)
  PROVE  Settling'
  <1>1. sc' = sc /\ files' = files
    BY StartDoes, TryDoes, GiveUpDoes, PassDoes, RemoveMarkerDoes, RemovedDoes, MarkDoes, EndDoes
       DEF CacheStays
  <1> SUFFICES ASSUME ~sc.faults
               PROVE  Settling'
    BY <1>1 DEF Settling
  <1>2. /\ \A q \in Proc : Calm(q)
        /\ \A x \in Version, f \in File :
              files[x][f] = "partial" => \E q \in Proc : Writer(q, x, f)
        /\ Seeded
    BY SettlingIs
  <1>3. ~ExtractFails(p) /\ ~RemoveMarker(p) /\ ~Removed(p) /\ ~Crash(p)
    BY <1>2, RemoveMarkerDoes, RemovedDoes DEF Calm, ExtractFails, Crash
  <1>4. \A q \in Proc \ {p} : st'[q] = st[q]
    BY <1>3, StartDoes, TryDoes, GiveUpDoes, PassDoes, MarkDoes, EndDoes DEF Goes
  <1>5. \A q \in Proc \ {p} : Calm(q)'
    BY <1>1, <1>2, <1>4 DEF Calm
  <1>6. Calm(p)' /\ \A x \in Version, f \in File : Writer(p, x, f) => Writer(p, x, f)'
    <2>1. None \notin File /\ (st[p].pc # "extract" => st[p].cur = None)
      BY WalkType
    <2>2. CASE Extracted(p)
      <3>1. /\ st[p].pc = "extract" /\ st[p].cur = None /\ st[p].todo = {}
            /\ st'[p].pc = "mark" /\ st'[p].todo = {} /\ st'[p].fd = st[p].fd
            /\ Goes(p, {"pc", "todo", "cur", "fd"})
        BY <2>2, PassDoes DEF Extracted
      <3>2. st'[p].v = st[p].v
        BY <3>1 DEF Goes, Fields
      <3>3. \A f \in File : files'[st'[p].v][f] # "absent"
        BY <1>1, <1>2, <3>1, <3>2 DEF Calm
      <3>4. \A x \in Version, f \in File : ~Writer(p, x, f)
        BY <2>1, <3>1 DEF Writer
      <3> QED  BY <1>2, <3>1, <3>3, <3>4 DEF Calm
    <2>3. CASE Download(p)
      <3>1. st[p].pc = "fetch" /\ st'[p].pc = "extract" /\ st'[p].todo = File /\ st'[p].fd = st[p].fd
        BY <2>3 DEF Download, Become, Typed, State
      <3>2. \A x \in Version, f \in File : ~Writer(p, x, f)
        BY <2>1, <3>1 DEF Writer
      <3> QED  BY <1>2, <3>1, <3>2 DEF Calm
    <2>4. CASE Start(p) \/ Try(p) \/ GiveUp(p) \/ RequestFails(p) \/ Mark(p) \/ Finish(p)
      <3>1. st'[p].pc \notin {"remove", "extract", "mark"} /\ st'[p].fd \in {st[p].fd, "own"}
        <4>1. CASE Start(p)
          BY <4>1, StartDoes DEF Goes, Fields
        <4>2. CASE Try(p)
          BY <4>2, TryDoes
        <4>3. CASE GiveUp(p)
          BY <4>3, GiveUpDoes DEF Goes, Fields
        <4>4. CASE RequestFails(p)
          BY <4>4 DEF RequestFails, Become, Typed, State
        <4>5. CASE Mark(p)
          BY <4>5, MarkDoes DEF Goes, Fields
        <4>6. CASE Finish(p)
          BY <4>6, EndDoes
        <4> QED  BY <2>4, <4>1, <4>2, <4>3, <4>4, <4>5, <4>6
      <3>2. st[p].pc # "extract"
        BY <2>4 DEF Start, Try, GiveUp, RequestFails, Mark, Finish
      <3>3. \A x \in Version, f \in File : ~Writer(p, x, f)
        BY <2>1, <3>2 DEF Writer
      <3> QED  BY <1>2, <3>1, <3>3 DEF Calm
    <2> QED  BY <1>3, <2>2, <2>3, <2>4
  <1>7. \A x \in Version, f \in File :
           files'[x][f] = "partial" => \E q \in Proc : Writer(q, x, f)'
    <2>1. \A x \in Version, f \in File, q \in Proc : Writer(q, x, f) => Writer(q, x, f)'
      BY <1>4, <1>6 DEF Writer, Fetching
    <2> QED  BY <1>1, <1>2, <2>1
  <1>8. Seeded'
    <2>1. CASE Mark(p)
      <3>1. /\ st[p].pc = "mark" /\ marker' \subseteq marker \cup {st[p].v}
        BY <2>1, MarkDoes
      <3>2. \A f \in File : files[st[p].v][f] # "absent"
        BY <1>2, <3>1 DEF Calm
      <3> QED  BY <1>1, <1>2, <3>1, <3>2 DEF Seeded
    <2>2. CASE ~Mark(p)
      <3>1. marker' = marker
        BY <1>3, <2>2, StartDoes, TryDoes, GiveUpDoes, PassDoes, EndDoes DEF CacheStays
      <3> QED  BY <1>1, <1>2, <3>1 DEF Seeded
    <2> QED  BY <2>1, <2>2
  <1>9. \A q \in Proc : Calm(q)'
    BY <1>5, <1>6
  <1>10. Settling' <=> (~sc'.faults =>
                  /\ \A q \in Proc : Calm(q)'
                  /\ \A x \in Version, f \in File :
                        files'[x][f] = "partial" => \E q \in Proc : Writer(q, x, f)'
                  /\ Seeded')
    BY DEF Settling, Calm, Writer, Seeded
  <1> QED  BY <1>7, <1>8, <1>9, <1>10

LEMMA SettlingWrites ==
  ASSUME Typed, NEW p \in Proc, Walk(p), Settling, \A q \in Proc : Walk(q),
         Copy(p) \/ \E f \in File : Open(p, f) \/ Remove(p, f)
  PROVE  Settling'
  <1>1. sc' = sc /\ marker' = marker
    BY CopyDoes, OpenDoes, RemoveDoes
  <1> SUFFICES ASSUME ~sc.faults
               PROVE  Settling'
    BY <1>1 DEF Settling
  <1>2. /\ \A q \in Proc : Calm(q)
        /\ \A x \in Version, f \in File :
              files[x][f] = "partial" => \E q \in Proc : Writer(q, x, f)
        /\ Seeded
    BY SettlingIs
  <1>3. Settling' <=> (~sc'.faults =>
                  /\ \A q \in Proc : Calm(q)'
                  /\ \A x \in Version, f \in File :
                        files'[x][f] = "partial" => \E q \in Proc : Writer(q, x, f)'
                  /\ Seeded')
    BY DEF Settling, Calm, Writer, Seeded
  <1> DEFINE x == st[p].v
  <1>4. ASSUME NEW f \in File, Open(p, f) PROVE Settling'
    <2>1. /\ st[p].pc = "extract" /\ st[p].cur = None /\ x \in Version
          /\ Writes(x, f, {"partial"}) /\ Bystanders(p)
          /\ \A q \in Proc \ {p} : st'[q].fd = (IF st[q].v = x /\ st[q].cur = f /\ st[q].fd # "gone"
                                                THEN "cut" ELSE st[q].fd)
          /\ st'[p].pc = st[p].pc /\ st'[p].v = x
          /\ st'[p].cur = f /\ st'[p].fd = "own" /\ st'[p].todo = st[p].todo \ {f}
      BY <1>4, OpenDoes DEF Fields
    <2> HIDE DEF x
    <2>2. /\ files'[x][f] = "partial"
          /\ \A y \in Version, g \in File : y # x \/ g # f => files'[y][g] = files[y][g]
      BY <2>1 DEF Writes
    <2>3. \A y \in Version, g \in File : files[y][g] # "absent" => files'[y][g] # "absent"
      BY <2>2
    <2>4. \A q \in Proc \ {p} : \A h \in {"pc", "v", "todo", "cur"} : st'[q][h] = st[q][h]
      BY <2>1 DEF Bystanders, Fields
    <2>5. \A q \in Proc : st[q].pc \in Busy => st[q].v \in Version
      BY WalkType
    <2>6. ASSUME NEW q \in Proc PROVE Calm(q)'
      <3>1. CASE q = p
        <4>1. \A g \in File \ st'[p].todo : files'[x][g] # "absent"
          BY <1>2, <2>1, <2>2 DEF Calm, x
        <4> QED  BY <2>1, <3>1, <4>1 DEF Calm
      <3>2. CASE q # p
        <4>1. st'[q].fd # "gone"
          BY <1>2, <2>1, <3>2 DEF Calm
        <4>2. st[q].pc \in {"extract", "mark"} =>
                 \A g \in File \ st[q].todo : files'[st[q].v][g] # "absent"
          BY <1>2, <2>3, <2>5 DEF Calm, Busy
        <4> QED  BY <1>2, <2>4, <3>2, <4>1, <4>2 DEF Calm
      <3> QED  BY <3>1, <3>2
    <2>7. ASSUME NEW y \in Version, NEW g \in File, files'[y][g] = "partial"
          PROVE  \E q \in Proc : Writer(q, y, g)'
      <3>1. CASE y = x /\ g = f
        <4>1. Writer(p, y, g)'
          BY <2>1, <3>1 DEF Writer, Fetching
        <4> QED  BY <4>1
      <3>2. CASE y # x \/ g # f
        <4>1. PICK q \in Proc : Writer(q, y, g)
          BY <1>2, <2>2, <2>7, <3>2
        <4>2. q # p
          BY <2>1, <4>1, WalkType DEF Writer
        <4>3. Writer(q, y, g)'
          BY <2>1, <2>4, <3>2, <4>1, <4>2 DEF Writer, Fetching
        <4> QED  BY <4>3
      <3> QED  BY <3>1, <3>2
    <2>8. Seeded'
      BY <1>1, <1>2, <2>3 DEF Seeded, Typed, TypeOK
    <2> QED  BY <1>3, <2>6, <2>7, <2>8
  <1>5. CASE Copy(p)
    <2> DEFINE f == st[p].cur
    <2>1. /\ st[p].pc = "extract" /\ x \in Version /\ f \in File
          /\ Writes(x, f, {files[x][f], "full"})
          /\ st[p].fd = "own" => files'[x][f] = "full"
          /\ Goes(p, {"cur", "fd"}) /\ st'[p].cur = None /\ st'[p].fd = "own"
      BY <1>5, CopyDoes
    <2>2. /\ st'[p].pc = st[p].pc /\ st'[p].v = x /\ st'[p].todo = st[p].todo
          /\ \A q \in Proc \ {p} : st'[q] = st[q]
      BY <2>1 DEF Goes, Fields
    <2>3. /\ files'[x][f] \in {files[x][f], "full"}
          /\ \A y \in Version, g \in File : y # x \/ g # f => files'[y][g] = files[y][g]
      BY <2>1 DEF Writes
    <2>4. \A y \in Version, g \in File : files[y][g] # "absent" => files'[y][g] # "absent"
      BY <2>3
    <2>5. \A q \in Proc : st[q].pc \in Busy => st[q].v \in Version
      BY WalkType
    <2>6. ASSUME NEW q \in Proc PROVE Calm(q)'
      <3>1. /\ st'[q].pc = st[q].pc /\ st'[q].v = st[q].v /\ st'[q].todo = st[q].todo
            /\ st'[q].fd \in {st[q].fd, "own"}
        BY <2>1, <2>2
      <3>2. st[q].pc \in {"extract", "mark"} =>
               \A g \in File \ st[q].todo : files'[st[q].v][g] # "absent"
        BY <1>2, <2>4, <2>5 DEF Calm, Busy
      <3> QED  BY <1>2, <3>1, <3>2 DEF Calm
    <2>7. ASSUME NEW y \in Version, NEW g \in File, files'[y][g] = "partial"
          PROVE  \E q \in Proc : Writer(q, y, g)'
      <3>1. files[y][g] = "partial"
        <4>1. CASE y = x /\ g = f
          BY <2>3, <2>7, <4>1
        <4>2. CASE y # x \/ g # f
          BY <2>3, <2>7, <4>2
        <4> QED  BY <4>1, <4>2
      <3>2. PICK q \in Proc : Writer(q, y, g)
        BY <1>2, <3>1
      <3>3. q # p
        BY <2>1, <2>7, <3>2 DEF Writer, Fetching
      <3>4. Writer(q, y, g)'
        BY <2>2, <3>2, <3>3 DEF Writer, Fetching
      <3> QED  BY <3>4
    <2>8. Seeded'
      BY <1>1, <1>2, <2>4 DEF Seeded, Typed, TypeOK
    <2> QED  BY <1>3, <2>6, <2>7, <2>8
  <1>6. ASSUME NEW f \in File, Remove(p, f) PROVE Settling'
    BY <1>2, <1>6, RemoveDoes DEF Calm
  <1> QED  BY <1>4, <1>5, <1>6

-----------------------------------------------------------------------------
(* The invariant is inductive.                                             *)

LEMMA InitHolds == Init => IInv
  <1> SUFFICES ASSUME Init PROVE IInv
    OBVIOUS
  <1>1. /\ \A p \in Proc : st[p] = [pc |-> "idle", run |-> 0, left |-> {}, tries |-> 0, v |-> None,
                                    todo |-> {}, cur |-> None, fd |-> "own", got |-> {},
                                    best |-> None, res |-> None]
        /\ files = [x \in Version |-> [f \in File |-> "absent"]]
        /\ sc \in Scenarios /\ dirs = {} /\ marker = {} /\ shared = {}
    BY DEF Init
  <1>2. st \in [Proc -> State]
    <2>1. 0 \in 0..MaxRuns /\ 0 \in 0..MaxTries
      BY FetchAssumption
    <2> QED  BY <2>1 DEF Init, State
  <1>3. TypeOK
    BY <1>1, <1>2 DEF TypeOK
  <1>4. \A p \in Proc : Walk(p)
    BY <1>1 DEF Walk, Busy
  <1>5. Exclusive
    BY <1>1 DEF Exclusive, Private, Fetching
  <1>6. \A p \in Proc : Tried(p)
    BY <1>1 DEF Tried
  <1>7. Settling
    BY <1>1 DEF Settling
  <1> QED  BY <1>2, <1>3, <1>4, <1>5, <1>6, <1>7 DEF IInv

LEMMA ExclusiveStep ==
  ASSUME Typed, NEW p \in Proc, Walk(p), Exclusive,
         \/ Start(p) \/ Try(p) \/ GiveUp(p) \/ RequestFails(p) \/ Download(p)
         \/ \E f \in File : Open(p, f) \/ Remove(p, f)
         \/ Copy(p) \/ ExtractFails(p) \/ RemoveMarker(p) \/ Removed(p)
         \/ Extracted(p) \/ Mark(p) \/ Crash(p) \/ Finish(p)
  PROVE  Exclusive'
  <1>1. shared \subseteq shared'
    <2>1. CASE Try(p)
      BY <2>1, TryDoes
    <2>2. CASE ~Try(p)
      BY <2>2, StartDoes, GiveUpDoes, PassDoes, OpenDoes, RemoveDoes, CopyDoes,
         RemoveMarkerDoes, RemovedDoes, MarkDoes, EndDoes DEF CacheStays
    <2> QED  BY <2>1, <2>2
  <1>2. ASSUME NEW x \in Version, x \notin shared' PROVE Private(x)'
    <2>1. Private(x)
      BY <1>1, <1>2 DEF Exclusive
    <2>2. CASE \/ Start(p) \/ GiveUp(p) \/ RequestFails(p) \/ Download(p) \/ ExtractFails(p)
               \/ Extracted(p) \/ RemoveMarker(p) \/ Removed(p) \/ Crash(p) \/ Finish(p)
      BY <2>1, <2>2, PrivatePasses
    <2>3. CASE Try(p)
      BY <1>2, <2>1, <2>3, PrivateTries, PrivateElsewhere
    <2>4. CASE Mark(p)
      BY <2>1, <2>4, PrivateMarks, PrivateElsewhere
    <2>5. CASE Copy(p) \/ \E f \in File : Open(p, f) \/ Remove(p, f)
      BY <2>1, <2>5, PrivateWrites, PrivateElsewhere
    <2> QED  BY <2>2, <2>3, <2>4, <2>5
  <1> QED  BY <1>2 DEF Exclusive

LEMMA NextHolds == IInv /\ [Next]_vars => IInv'
  <1> SUFFICES ASSUME IInv, [Next]_vars PROVE IInv'
    OBVIOUS
  <1>1. Typed /\ (\A p \in Proc : Walk(p) /\ Tried(p)) /\ Exclusive /\ Settling
    BY DEF IInv, Typed
  <1>2. CASE UNCHANGED vars
    <2>1. Candidates' = Candidates
      BY <1>2, SameCandidates DEF vars
    <2>2. Typed'
      BY <1>1, <1>2 DEF vars, Typed, TypeOK
    <2>3. \A p \in Proc : Walk(p)'
      BY <1>1, <1>2, <2>1 DEF vars, Walk
    <2>4. \A p \in Proc : Tried(p)'
      BY <1>1, <1>2 DEF vars, Tried
    <2>5. Exclusive'
      BY <1>1, <1>2 DEF vars, Exclusive, Private, Progress, Fetching, Complete
    <2>6. Settling'
      BY <1>1, <1>2 DEF vars, Settling, Fetching
    <2> QED  BY <2>2, <2>3, <2>4, <2>5, <2>6 DEF IInv, Typed
  <1>3. CASE Next
    <2>1. PICK p \in Proc :
             \/ Start(p) \/ Try(p) \/ GiveUp(p) \/ RequestFails(p) \/ Download(p)
             \/ \E f \in File : Open(p, f) \/ Remove(p, f)
             \/ Copy(p) \/ ExtractFails(p) \/ RemoveMarker(p) \/ Removed(p)
             \/ Extracted(p) \/ Mark(p) \/ Crash(p) \/ Finish(p)
      BY <1>1, <1>3, ScenarioType DEF Next, Typed
    <2>2. Walk(p) /\ Tried(p)
      BY <1>1
    <2>3. Typed'
      BY <1>1, <2>1, <2>2, StartDoes, TryDoes, GiveUpDoes, PassDoes, OpenDoes, RemoveDoes,
         CopyDoes, RemoveMarkerDoes, RemovedDoes, MarkDoes, EndDoes
    <2>4. Walk(p)' /\ \A q \in Proc \ {p} : Walk(q) => Walk(q)'
      BY <1>1, <2>1, <2>2, WalkBegins, WalkTries, WalkMarks, WalkPasses, WalkWrites
    <2>5. Tried(p)' /\ \A q \in Proc \ {p} : Tried(q) => Tried(q)'
      BY <1>1, <2>1, <2>2, TriedStep
    <2>6. Exclusive'
      BY <1>1, <2>1, <2>2, ExclusiveStep
    <2>7. Settling'
      BY <1>1, <2>1, <2>2, SettlingPasses, SettlingWrites
    <2>8. \A q \in Proc : Walk(q)' /\ Tried(q)'
      BY <1>1, <2>4, <2>5
    <2> QED  BY <2>3, <2>6, <2>7, <2>8 DEF IInv, Typed
  <1> QED  BY <1>2, <1>3

LEMMA Inductive == Spec => []IInv
  BY InitHolds, NextHolds, PTL DEF Spec

-----------------------------------------------------------------------------
(* The theorems.                                                           *)

\* The cache and the processes keep to their types: a marker lies in a
\* directory that exists, whatever RemoveAll, crashes and other processes do.
THEOREM TypeCorrect == Spec => []TypeOK
  <1>1. IInv => TypeOK
    BY DEF IInv
  <1> QED  BY <1>1, Inductive, PTL

\* fetchRegistryModule trusts a marker without looking: what it marks, and what
\* registryModuleDir returns, is complete for any number of processes and runs,
\* killed or failed anywhere, unless two of them fetched that version at once.
THEOREM WholeModules == Spec => []WholeUnlessShared
  <1>1. ASSUME IInv, NEW x \in Version \ shared,
               x \in marker \/ \E p \in Proc : Using(p, x)
        PROVE  Complete(x)
    <2>1. Private(x) /\ None \notin Version
      BY <1>1, FetchAssumption DEF IInv, Exclusive
    <2>2. ASSUME NEW p \in Proc, Using(p, x) PROVE x \in st[p].got
      BY <1>1, <2>1, <2>2 DEF IInv, Walk, Using
    <2> QED  BY <1>1, <2>1, <2>2 DEF Private
  <1>2. IInv => WholeUnlessShared
    BY <1>1 DEF WholeUnlessShared
  <1> QED  BY <1>2, Inductive, PTL

\* extractTarGz of the same version by any number of processes at once leaves
\* whole files behind its marker once the last of them is done, when no
\* extraction fails: each O_TRUNC is followed by a write of the whole file.
THEOREM SharingSettles == Spec => []SharedSettles
  <1>1. ASSUME IInv, ~sc.faults, NEW x \in Version, x \in marker,
               ~\E p \in Proc : Fetching(p, x), NEW f \in File
        PROVE  files[x][f] = "full"
    <2>1. files[x][f] # "absent" /\ files[x][f] # "partial"
      BY <1>1 DEF IInv, Settling
    <2>2. files[x][f] \in {"absent", "partial", "full"}
      BY <1>1 DEF IInv, TypeOK
    <2> QED  BY <2>1, <2>2
  <1>2. IInv => SharedSettles
    BY <1>1 DEF SharedSettles, Complete
  <1> QED  BY <1>2, Inductive, PTL

\* The loop of registryModuleDir ends with the newest fetched version that
\* declares every input, with the newest fetched one when none does and no
\* candidate is left to try, and with nothing when nothing could be fetched,
\* for every set of versions, every registry and every number of tries.
THEOREM NewestUsed == Spec => []NewestThatFits
  <1>1. ASSUME IInv, NEW p \in Proc, st[p].pc = "done", st[p].got \cap shared = {}
        PROVE  LET fits == st[p].got \cap sc.declares
               IN  /\ st[p].res = IF st[p].got = {} THEN None
                                  ELSE Newest(IF fits = {} THEN st[p].got ELSE fits)
                   /\ fits = {} => (st[p].left = {} \/ st[p].tries = MaxTries)
    <2> DEFINE fits == st[p].got \cap sc.declares
    <2>1. Typed /\ Walk(p) /\ Tried(p)
      BY <1>1 DEF IInv, Typed
    <2>2. st[p].got \subseteq Version /\ None \notin Version
      BY <2>1, WalkType
    <2>3. /\ \A g \in fits : st[p].res = g
          /\ \/ st[p].res \in fits
             \/ st[p].res = st[p].best /\ (st[p].left = {} \/ st[p].tries = MaxTries)
      BY <1>1, <2>1 DEF Tried
    <2>4. CASE fits # {}
      <3>1. fits = {st[p].res} /\ st[p].res \in Version
        BY <2>2, <2>3, <2>4
      <3>2. Newest({st[p].res}) = st[p].res
        <4>1. {st[p].res} \in SUBSET Version /\ {st[p].res} # {}
          BY <3>1
        <4>2. Newest({st[p].res}) \in {st[p].res}
          BY <4>1, NewestIn
        <4> QED  BY <4>2
      <3> QED  BY <2>4, <3>1, <3>2
    <2>5. CASE fits = {}
      <3>1. st[p].res = st[p].best /\ (st[p].left = {} \/ st[p].tries = MaxTries)
        BY <2>3, <2>5
      <3>2. CASE st[p].got = {}
        BY <2>1, <2>5, <3>1, <3>2 DEF Walk
      <3>3. CASE st[p].got # {}
        <4>1. st[p].best \in st[p].got /\ \A g \in st[p].got : ~versionLess(st[p].best, g)
          BY <2>1, <3>3 DEF Walk
        <4>2. Newest(st[p].got) = st[p].best
          BY <2>2, <3>3, <4>1, NewestIn
        <4> QED  BY <2>5, <3>1, <3>3, <4>2
      <3> QED  BY <3>2, <3>3
    <2> QED  BY <2>4, <2>5
  <1>2. IInv => NewestThatFits
    BY <1>1 DEF NewestThatFits
  <1> QED  BY <1>2, Inductive, PTL

\* satisfies, versionLess and pickVersions: for every published set and every
\* constraint of the forms PinHonoured names, with any number of conditions on
\* any numbers, the version used is one that Terraform would admit whenever
\* the registry has such a version.
THEOREM PinsHonoured == Spec => []PinHonoured
  <1>1. ASSUME IInv, NEW p \in Proc, st[p].res # None,
               \A n \in DOMAIN sc.pin :
                  Len(sc.pin[n].ver) = 3 \/ sc.pin[n].op \in {"~>", ">=", "<"},
               \E x \in sc.published : Fits(x, sc.pin)
        PROVE  Fits(st[p].res, sc.pin)
    <2> DEFINE x == st[p].res
    <2>1. TypeOK /\ Walk(p)
      BY <1>1 DEF IInv
    <2>2. x \in Candidates /\ x \in Version
      BY <1>1, <2>1, CandidatesType DEF Walk
    <2>3. \A y \in Version : satisfiesAll(y, sc.pin) <=> Fits(y, sc.pin)
      <3> SUFFICES ASSUME NEW y \in Version, NEW n \in DOMAIN sc.pin
                   PROVE  satisfiesOp(y, sc.pin[n].op, sc.pin[n].ver)
                          <=> Means(y, sc.pin[n].op, sc.pin[n].ver)
        BY DEF satisfiesAll, Fits
      <3> DEFINE op == sc.pin[n].op
                 t == sc.pin[n].ver
      <3>1. /\ op \in Ops /\ t \in Seq(Nat) /\ Len(t) \in 1..3
            /\ Len(t) = 3 \/ op \in {"~>", ">=", "<"}
        BY <1>1, <2>1, ScenarioType
      <3> HIDE DEF op, t
      <3>2. satisfiesOp(y, op, t) <=> Means(y, op, t)
        BY <3>1, PinMeans
      <3> QED  BY <3>2 DEF op, t
    <2> HIDE DEF x
    <2>4. CASE Exact(sc.pin)
      <3> DEFINE t == sc.pin[1].ver
      <3>1. x = t /\ sc.pin[1].op = "bare" /\ Len(sc.pin) = 1 /\ Len(t) = 3
        BY <2>1, <2>2, <2>4, CandidatesType DEF Exact
      <3>2. \A n \in DOMAIN sc.pin : n = 1
        BY <2>1, <3>1, ScenarioType
      <3>3. x = Padded(x)
        <4>1. /\ x \in Seq(Nat) /\ Len(x) = 3 /\ x = <<x[1], x[2], x[3]>>
          BY <2>2, VersionShape
        <4>2. /\ Padded(x) = <<Padded(x)[1], Padded(x)[2], Padded(x)[3]>>
              /\ Padded(x)[1] = x[1] /\ Padded(x)[2] = x[2] /\ Padded(x)[3] = x[3]
          BY <4>1, PaddedIs
        <4> QED  BY <4>1, <4>2
      <3>4. Means(x, "bare", x)
        BY <3>3 DEF Means
      <3>5. Fits(x, sc.pin)
        BY <3>1, <3>2, <3>4 DEF Fits
      <3> QED  BY <3>5 DEF x
    <2>5. CASE ~Exact(sc.pin)
      <3>1. {y \in sc.published : satisfiesAll(y, sc.pin)} # {}
        BY <1>1, <2>1, <2>3, ScenarioType
      <3>2. x \in {y \in sc.published : satisfiesAll(y, sc.pin)}
        BY <2>1, <2>2, <2>5, <3>1, CandidatesType
      <3>3. Fits(x, sc.pin)
        BY <2>2, <2>3, <3>2
      <3> QED  BY <3>3 DEF x
    <2> QED  BY <2>4, <2>5
  <1>2. IInv => PinHonoured
    BY <1>1 DEF PinHonoured, Honoured
  <1> QED  BY <1>2, Inductive, PTL
=============================================================================
