----------------------------- MODULE ModuleFetch -----------------------------
(***************************************************************************)
(* registryModuleDir (cmd/terraform-price/analyze.go) and modfetch.go: a   *)
(* registry module is resolved to the versions its constraint admits, and  *)
(* the newest that can be fetched and declares the inputs of the call is   *)
(* used.  A fetched version is extracted file by file into a cache         *)
(* directory that the next run uses again once a marker file says that it  *)
(* is complete.  Processes share one cache, each for several runs, and a   *)
(* run may be killed at any point.                                         *)
(*                                                                         *)
(* A version is a sequence of numbers, <<major, minor, patch>>; a pin is a *)
(* sequence of tokens [op, ver], the op of a bare version being "bare".    *)
(***************************************************************************)
EXTENDS Naturals, Sequences, FiniteSets

CONSTANTS
    Version,   \* the versions a registry may publish or a pin name
    Pin,       \* the version arguments a call may have; <<>> is none
    File,      \* the files of a module
    Proc,      \* the processes
    Scenarios, \* [procs, published, declares, pin, faults]: what a behaviour is about
    MaxTries,  \* the 10 of registryModuleDir
    MaxRuns,   \* bound: runs of a process
    None       \* no version

Ops == {"bare", "~>", ">=", "<=", "!=", ">", "<", "="}

ASSUME FetchAssumption ==
    /\ Version \subseteq Nat \X Nat \X Nat /\ IsFiniteSet(Version)
    /\ Pin \subseteq Seq([op : Ops, ver : Seq(Nat)])
    /\ \A p \in Pin : \A n \in DOMAIN p :
          Len(p[n].ver) \in 1..3 /\ (Len(p[n].ver) = 3 => p[n].ver \in Version)
    /\ Scenarios \subseteq [procs : SUBSET Proc, published : SUBSET Version,
                            declares : SUBSET Version, pin : Pin, faults : BOOLEAN]
    /\ MaxTries \in Nat /\ MaxRuns \in Nat
    /\ None \notin Version \cup File

VARIABLES
    sc,      \* the scenario (never changes)
    files,   \* the cache: the state of each file of each version
    dirs,    \* versions with a directory
    marker,  \* versions with a .tfprice-ok file in it
    st,      \* the state of each process, a State
    shared   \* history: versions two processes fetched, or fetched and used, at once

vars == <<sc, files, dirs, marker, st, shared>>

-----------------------------------------------------------------------------
(* Versions.                                                               *)

MinOf(a, b) == IF a < b THEN a ELSE b

\* The first component that differs decides; a prefix is less.
versionLess(a, b) ==
    LET n == MinOf(Len(a), Len(b))
        D == {k \in 1..n : a[k] # b[k]}
    IN  IF D = {} THEN Len(a) < Len(b)
        ELSE LET k == CHOOSE x \in D : \A y \in D : x <= y IN a[k] < b[k]

\* MUTANT of satisfiesPessimistic: the last component is compared for equality.
satisfiesPessimisticEqual(want, x) ==
    /\ Len(x) >= Len(want)
    /\ \A k \in 1..Len(want) : want[k] = x[k]

satisfiesPessimistic(want, x) ==
    /\ Len(x) >= Len(want)
    /\ \A k \in 1..(Len(want) - 1) : want[k] = x[k]
    /\ IF Len(want) = 1 THEN x[1] = want[1]
       ELSE x[Len(want)] >= want[Len(want)]

satisfiesOp(x, op, target) ==
    CASE op = "~>" -> satisfiesPessimistic(target, x)
      [] op \in {"=", "bare"} -> ~versionLess(x, target) /\ ~versionLess(target, x)
      [] op = "!=" -> versionLess(x, target) \/ versionLess(target, x)
      [] op = ">=" -> ~versionLess(x, target)
      [] op = "<=" -> ~versionLess(target, x)
      [] op = ">"  -> versionLess(target, x)
      [] op = "<"  -> versionLess(x, target)

satisfiesAll(x, pin) == \A n \in DOMAIN pin : satisfiesOp(x, pin[n].op, pin[n].ver)

Exact(pin) == Len(pin) = 1 /\ pin[1].op = "bare" /\ Len(pin[1].ver) = 3

\* pickVersions: an exact pin is not looked up, a constraint nothing
\* satisfies is ignored.
pickVersions(pin, published) ==
    LET matched == {x \in published : satisfiesAll(x, pin)}
    IN  IF Exact(pin) THEN {pin[1].ver}
        ELSE IF matched # {} THEN matched ELSE published

newestPerMajor(S) == {x \in S : \A y \in S : y[1] = x[1] => ~versionLess(x, y)}

Candidates == LET S == pickVersions(sc.pin, sc.published)
              IN  IF Exact(sc.pin) THEN S ELSE newestPerMajor(S)

Newest(S) == CHOOSE x \in S : \A y \in S : ~versionLess(x, y)

-----------------------------------------------------------------------------
(* The loop over the candidates.                                           *)

Complete(x) == \A f \in File : files[x][f] = "full"
Empty(x)    == x \notin marker /\ \A f \in File : files[x][f] = "absent"

\* pc and run: where a run is, and how many there have been.  left: candidates
\* the loop has not come to; tries: its index; v: the candidate at work.
\* todo: files of the tarball not yet extracted; cur: the one being written,
\* and fd what became of it since it was opened: "cut" by another process's
\* O_TRUNC, or "gone" by its RemoveAll.  got: versions fetchRegistryModule
\* returned in this run; best: bestEffort; res: what registryModuleDir returned.
State == [pc : {"idle", "loop", "fetch", "extract", "remove", "mark", "done"},
          run : 0..MaxRuns, left : SUBSET Version, tries : 0..MaxTries,
          v : Version \cup {None}, todo : SUBSET File, cur : File \cup {None},
          fd : {"own", "cut", "gone"}, got : SUBSET Version,
          best : Version \cup {None}, res : Version \cup {None}]

Init ==
    /\ sc \in Scenarios
    /\ files = [x \in Version |-> [f \in File |-> "absent"]]
    /\ dirs = {} /\ marker = {} /\ shared = {}
    /\ st = [p \in Proc |->
               [pc |-> "idle", run |-> 0, left |-> {}, tries |-> 0, v |-> None,
                todo |-> {}, cur |-> None, fd |-> "own", got |-> {},
                best |-> None, res |-> None]]

Become(p, s) == st' = [st EXCEPT ![p] = s]

\* pickVersions fails when the registry does not answer or has no version.
Start(p) ==
    /\ st[p].pc = "idle" /\ st[p].run < MaxRuns
    /\ \E L \in {Candidates} \cup (IF sc.faults /\ ~Exact(sc.pin) THEN {{}} ELSE {}) :
          Become(p, [st[p] EXCEPT !.pc = "loop", !.run = @ + 1, !.tries = 0,
                                  !.left = L, !.best = None, !.res = None])
    /\ UNCHANGED <<sc, files, dirs, marker, shared>>

\* MUTANT of Used: a version that lacks an input is used at once.
UsedFirst(p, s, x) ==
    Become(p, [s EXCEPT !.got = @ \cup {x}, !.best = IF @ = None THEN x ELSE @,
                        !.pc = "done", !.res = x])

\* fetchRegistryModule returned x to a process in state s: it is used if it
\* declares the inputs, and is the best effort if it is the first.  What an
\* incomplete module declares is anybody's guess.
Used(p, s, x) ==
    LET t == [s EXCEPT !.got = @ \cup {x}, !.best = IF @ = None THEN x ELSE @]
    IN  \/ /\ x \in sc.declares
           /\ Become(p, [t EXCEPT !.pc = "done", !.res = x])
        \/ /\ x \notin sc.declares \/ ~Complete(x)
           /\ Become(p, [t EXCEPT !.pc = "loop"])

Fetching(q, x) == st[q].v = x /\ st[q].pc \in {"fetch", "extract", "remove", "mark"}

\* MUTANT of Try: the bound is off by one.
TryOneMore(p) ==
    /\ st[p].pc = "loop" /\ st[p].left # {} /\ st[p].tries <= MaxTries
    /\ LET x == Newest(st[p].left)
           s == [st[p] EXCEPT !.v = x, !.left = @ \ {x}, !.tries = @ + 1]
       IN  Become(p, [s EXCEPT !.pc = "fetch"])
    /\ UNCHANGED <<sc, files, dirs, marker, shared>>

\* The next candidate, newest first; from the cache if the marker is there.
Try(p) ==
    /\ st[p].pc = "loop" /\ st[p].left # {} /\ st[p].tries < MaxTries
    /\ LET x == Newest(st[p].left)
           s == [st[p] EXCEPT !.v = x, !.left = @ \ {x}, !.tries = @ + 1]
       IN  IF x \in marker
           THEN Used(p, s, x) /\ UNCHANGED shared
           ELSE /\ Become(p, [s EXCEPT !.pc = "fetch"])
                /\ shared' = IF \E q \in Proc \ {p} : Fetching(q, x) \/ x \in st[q].got
                             THEN shared \cup {x} ELSE shared
    /\ UNCHANGED <<sc, files, dirs, marker>>

\* No more candidates: the best effort, or nothing.
GiveUp(p) ==
    /\ st[p].pc = "loop" /\ (st[p].left = {} \/ st[p].tries = MaxTries)
    /\ Become(p, [st[p] EXCEPT !.pc = "done", !.res = st[p].best])
    /\ UNCHANGED <<sc, files, dirs, marker, shared>>

-----------------------------------------------------------------------------
(* fetchRegistryModule and extractTarGz.                                   *)

\* Any of the requests fails: the cache is not touched.
RequestFails(p) ==
    /\ st[p].pc = "fetch"
    /\ sc.faults \/ st[p].v \notin sc.published
    /\ Become(p, [st[p] EXCEPT !.pc = "loop"])
    /\ UNCHANGED <<sc, files, dirs, marker, shared>>

Download(p) ==
    /\ st[p].pc = "fetch" /\ st[p].v \in sc.published
    /\ Become(p, [st[p] EXCEPT !.pc = "extract", !.todo = File])
    /\ UNCHANGED <<sc, files, dirs, marker, shared>>

\* What p does to file f of version x happens to a process that is writing it.
Disturb(p, x, f, how) ==
    [q \in Proc |-> IF q # p /\ st[q].v = x /\ st[q].cur = f /\ st[q].fd # "gone"
                    THEN [st[q] EXCEPT !.fd = how] ELSE st[q]]

\* MkdirAll, and OpenFile with O_CREATE and O_TRUNC.
Open(p, f) ==
    /\ st[p].pc = "extract" /\ st[p].cur = None /\ f \in st[p].todo
    /\ files' = [files EXCEPT ![st[p].v][f] = "partial"]
    /\ dirs' = dirs \cup {st[p].v}
    /\ st' = [Disturb(p, st[p].v, f, "cut") EXCEPT
                 ![p].cur = f, ![p].fd = "own", ![p].todo = @ \ {f}]
    /\ UNCHANGED <<sc, marker, shared>>

\* The writer keeps its offset when the file is cut: what it wrote before the
\* cut is missing until the other one has written it.
Copy(p) ==
    /\ st[p].pc = "extract" /\ st[p].cur # None
    /\ LET now == files[st[p].v][st[p].cur]
       IN  \E end \in CASE st[p].fd = "own"  -> {"full"}
                       [] st[p].fd = "cut"  -> {now, "full"}
                       [] st[p].fd = "gone" -> {now} :
              files' = [files EXCEPT ![st[p].v][st[p].cur] = end]
    /\ Become(p, [st[p] EXCEPT !.cur = None, !.fd = "own"])
    /\ UNCHANGED <<sc, dirs, marker, shared>>

\* MUTANT of ExtractFails: what was extracted is kept and the error lost.
ExtractIgnored(p) ==
    /\ st[p].pc = "extract" /\ sc.faults
    /\ Become(p, [st[p] EXCEPT !.pc = "mark", !.cur = None, !.fd = "own", !.todo = {}])
    /\ UNCHANGED <<sc, files, dirs, marker, shared>>

\* The stream breaks, or a file cannot be written.
ExtractFails(p) ==
    /\ st[p].pc = "extract" /\ sc.faults
    /\ Become(p, [st[p] EXCEPT !.pc = "remove", !.cur = None, !.fd = "own", !.todo = {}])
    /\ UNCHANGED <<sc, files, dirs, marker, shared>>

\* os.RemoveAll, one entry at a time, the marker of another process included.
Remove(p, f) ==
    /\ st[p].pc = "remove" /\ files[st[p].v][f] # "absent"
    /\ files' = [files EXCEPT ![st[p].v][f] = "absent"]
    /\ st' = Disturb(p, st[p].v, f, "gone")
    /\ UNCHANGED <<sc, dirs, marker, shared>>

RemoveMarker(p) ==
    /\ st[p].pc = "remove" /\ st[p].v \in marker
    /\ marker' = marker \ {st[p].v}
    /\ UNCHANGED <<sc, files, dirs, st, shared>>

\* Its error is ignored.
Removed(p) ==
    /\ st[p].pc = "remove"
    /\ dirs' = IF Empty(st[p].v) THEN dirs \ {st[p].v} ELSE dirs
    /\ Become(p, [st[p] EXCEPT !.pc = "loop"])
    /\ UNCHANGED <<sc, files, marker, shared>>

\* MUTANT of Extracted: the end of the tarball is not waited for.
ExtractedEarly(p) ==
    /\ st[p].pc = "extract" /\ st[p].cur = None
    /\ Become(p, [st[p] EXCEPT !.pc = "mark", !.todo = {}])
    /\ UNCHANGED <<sc, files, dirs, marker, shared>>

Extracted(p) ==
    /\ st[p].pc = "extract" /\ st[p].cur = None /\ st[p].todo = {}
    /\ Become(p, [st[p] EXCEPT !.pc = "mark"])
    /\ UNCHANGED <<sc, files, dirs, marker, shared>>

\* The error of writing the marker is ignored: the directory may be gone.
Mark(p) ==
    /\ st[p].pc = "mark"
    /\ \/ st[p].v \in dirs /\ marker' = marker \cup {st[p].v}
       \/ sc.faults /\ UNCHANGED marker
    /\ Used(p, st[p], st[p].v)
    /\ UNCHANGED <<sc, files, dirs, shared>>

Ended(p) == [st[p] EXCEPT !.pc = "idle", !.left = {}, !.tries = 0, !.v = None, !.todo = {},
                          !.cur = None, !.fd = "own", !.got = {}, !.best = None, !.res = None]

\* The process is killed; what it wrote stays.
Crash(p) ==
    /\ sc.faults /\ st[p].pc \notin {"idle", "done"}
    /\ Become(p, Ended(p))
    /\ UNCHANGED <<sc, files, dirs, marker, shared>>

Finish(p) ==
    /\ st[p].pc = "done"
    /\ Become(p, Ended(p))
    /\ UNCHANGED <<sc, files, dirs, marker, shared>>

Next == \E p \in sc.procs :
          \/ Start(p) \/ Try(p) \/ GiveUp(p) \/ RequestFails(p) \/ Download(p)
          \/ \E f \in File : Open(p, f) \/ Remove(p, f)
          \/ Copy(p) \/ ExtractFails(p) \/ RemoveMarker(p) \/ Removed(p)
          \/ Extracted(p) \/ Mark(p) \/ Crash(p) \/ Finish(p)

Spec == Init /\ [][Next]_vars

-----------------------------------------------------------------------------
(* Properties.                                                             *)

TypeOK ==
    /\ sc \in Scenarios
    /\ files \in [Version -> [File -> {"absent", "partial", "full"}]]
    /\ marker \subseteq dirs /\ dirs \subseteq Version /\ shared \subseteq Version
    /\ \A p \in Proc : st[p] \in State

Using(p, x) == st[p].pc = "done" /\ st[p].res = x

\* A version is complete when it has a marker, and when it is analysed with or
\* without one, whatever run was killed or failed before or is at work on
\* another version: a marker is trusted without looking.  Excepted are the
\* versions two processes fetched at once (modfetch.go:205 looks, 230 writes).
WholeUnlessShared ==
    \A x \in Version \ shared :
        (x \in marker \/ \E p \in Proc : Using(p, x)) => Complete(x)

\* Two processes that extract the same version at once cut each other's files,
\* and one may analyse what the other is writing; but when no extraction
\* fails, what is left once both have written is complete.
SharedSettles ==
    ~sc.faults =>
        \A x \in Version :
            (x \in marker /\ ~\E p \in Proc : Fetching(p, x)) => Complete(x)

\* The walk back by majors (analyze.go:545-547): the newest fetched version
\* that declares every input is used, and the newest fetched one if none does,
\* which is known only once there is no candidate left to try; no version is
\* used that was not fetched in this run.
NewestThatFits ==
    \A p \in Proc :
        (st[p].pc = "done" /\ st[p].got \cap shared = {}) =>
            LET fits == st[p].got \cap sc.declares
            IN  /\ st[p].res = IF st[p].got = {} THEN None
                               ELSE Newest(IF fits = {} THEN st[p].got ELSE fits)
                /\ fits = {} => (st[p].left = {} \/ st[p].tries = MaxTries)

\* What a constraint means in Terraform: missing components are zero, and
\* ~> lets its last component grow (modfetch.go:145-148).
Padded(x) == [k \in 1..3 |-> IF k <= Len(x) THEN x[k] ELSE 0]
Before(a, b) == \E k \in 1..3 : a[k] < b[k] /\ \A j \in 1..(k - 1) : a[j] = b[j]
Upper(t) == IF Len(t) = 3 THEN <<t[1], t[2] + 1, 0>> ELSE <<t[1] + 1, 0, 0>>
Means(x, op, t) ==
    LET p == Padded(t)
    IN  CASE op \in {"=", "bare"} -> x = p
          [] op = "!=" -> x # p
          [] op = ">=" -> ~Before(x, p)
          [] op = "<=" -> ~Before(p, x)
          [] op = ">"  -> Before(p, x)
          [] op = "<"  -> Before(x, p)
          [] op = "~>" -> ~Before(x, p) /\ Before(x, Upper(t))
Fits(x, pin) == \A n \in DOMAIN pin : Means(x, pin[n].op, pin[n].ver)

Honoured ==
    \A p \in Proc : (st[p].res # None /\ \E x \in sc.published : Fits(x, sc.pin))
                        => Fits(st[p].res, sc.pin)

\* When the registry has a version that satisfies the constraint, the version
\* used does, if the constraint names all components or is a ~>, >= or <.
PinHonoured ==
    (\A n \in DOMAIN sc.pin :
        Len(sc.pin[n].ver) = 3 \/ sc.pin[n].op \in {"~>", ">=", "<"}) => Honoured

\* modfetch.go:50, 100-102: a constraint "yields the satisfying versions"; "A
\* bare version means exact match, as in Terraform".
PinRespected == Honoured
=============================================================================
