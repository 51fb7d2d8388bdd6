------------------------------ MODULE DirScope ------------------------------
(***************************************************************************)
(* The evaluation of one Terraform directory: dirScope (cmd/terraform-     *)
(* price/analyze.go) and the Resolver it drives (internal/tf/resolver).    *)
(* Locals are retried to a fixpoint, resource attributes are resolved      *)
(* against them, module calls are registered, forced in order or by the    *)
(* first direct reference, and the fixpoint is run again.                  *)
(*                                                                         *)
(* A value is the set of leaves it is built from; {} is "not known".  The  *)
(* directory of a called module is a function of its inputs: its output    *)
(* carries every input, or that input's variable default.  References      *)
(* between resources are the subject of RefResolve; here a resource refers *)
(* to locals and modules only.                                             *)
(***************************************************************************)
EXTENDS Naturals, Sequences, FiniteSets

CONSTANTS
    Local, Rsrc, Mod,   \* names of locals, resources and module calls
    Order,              \* the module calls in the order of the files
    Input,              \* input names of a module call
    Dirs,               \* the directories: <<expressions, calls with a source>>
    None                \* no expression at work

Op   == {"absent", "direct", "template", "try"}
Expr == {e \in [op : Op, refs : SUBSET (Local \cup Rsrc \cup Mod)] :
            /\ e.op = "absent" => e.refs = {}
            /\ e.op = "direct" => \E x \in e.refs : e.refs = {x}}
Dir  == [local : [Local -> Expr], rsrc : [Rsrc -> Expr],
         in : [Mod -> [Input -> Expr]], each : [Mod -> Expr]] \X SUBSET Mod

ASSUME ScopeAssumption ==
    /\ Local \cap Rsrc = {} /\ Local \cap Mod = {} /\ Rsrc \cap Mod = {}
    /\ IsFiniteSet(Mod)
    /\ Order \in Seq(Mod) /\ \A m \in Mod : \E n \in DOMAIN Order : Order[n] = m
    /\ \A n, k \in DOMAIN Order : Order[n] = Order[k] => n = k
    /\ "each" \notin Input /\ None \notin Input \cup {"each"}
    /\ Dirs \subseteq Dir

Leaf == {"lit", "fallback", "own", "default"} \X
        (Local \cup Rsrc \cup Mod \cup (Mod \X (Input \cup {"each"})))
Val  == SUBSET Leaf

VARIABLES
    expr,     \* the parsed directory (never changes)
    fetch,    \* the calls whose source can be found (never changes)
    locals,   \* Resolver.locals; {} is pending
    rsrc,     \* Resolver.resources and resScope
    entry,    \* Resolver.modules: the state of each moduleEntry
    out,      \* moduleEntry.vals
    insts,    \* dirScope.children: instances of each call
    built,    \* moduleInstance.built
    given,    \* the inputs each instance was built with, and its for_each
    stack,    \* expressions and modules being forced, innermost last
    pc, i,    \* the step of analyze at work and its loop index
    todo, changed  \* RetryLocals: names left in the sweep, its result

dir  == <<expr, fetch>>
vars == <<dir, locals, rsrc, entry, out, insts, built, given, stack,
          pc, i, todo, changed>>

Names  == Input \cup {"each"}
Nums   == 1..2                          \* bound: items of a for_each

NoInputs == [a \in Names |-> {}]

Init ==
    /\ \E d \in Dirs : expr = d[1] /\ fetch = d[2]
    /\ locals = [l \in Local |-> {}] /\ rsrc = [r \in Rsrc |-> {}]
    /\ entry = [m \in Mod |-> "unregistered"] /\ out = [m \in Mod |-> {}]
    /\ insts = [m \in Mod |-> 0] /\ built = {}
    /\ given = [m \in Mod |-> [k \in Nums |-> NoInputs]]
    /\ stack = <<>> /\ pc = "new" /\ i = 1
    /\ todo = Local /\ changed = FALSE

-----------------------------------------------------------------------------
(* Evaluation.                                                             *)

\* evalOutputs: an input that is left out is backed by its variable default.
Outputs(m, k) ==
    IF m \notin fetch THEN {}
    ELSE {<<"own", m>>} \cup
         UNION {IF given[m][k][a] = {} THEN {<<"default", <<m, a>>>>}
                ELSE given[m][k][a] : a \in Input}

\* MUTANT of Scope: a module in the middle of its build is included.
ScopeMidBuild(x) == IF x \in Local THEN locals[x]
                    ELSE IF x \in Rsrc THEN rsrc[x]
                    ELSE IF entry[x] = "running" THEN Outputs(x, 1) ELSE out[x]

\* Resolver.scope: only settled modules are included.
Scope(x) == IF x \in Local THEN locals[x]
            ELSE IF x \in Rsrc THEN rsrc[x]
            ELSE IF entry[x] = "done" THEN out[x] ELSE {}

\* The value of an expression of owner o when a reference x is worth v[x].
Eval(e, o, v) ==
    IF e.op = "absent" THEN {}
    ELSE IF e.refs = {} THEN {<<"lit", o>>}
    ELSE IF \A x \in e.refs : v[x] # {} THEN UNION {v[x] : x \in e.refs}
    ELSE IF e.op = "try" THEN {<<"fallback", o>>} ELSE {}

InScope(e, o) == Eval(e, o, [x \in e.refs |-> Scope(x)])

\* RefResolver.AllResolved after Reset: the attributes see variables and
\* locals, but there is no module object in the scope they are given.
Resources(locs) ==
    [r \in Rsrc |-> Eval(expr.rsrc[r], r, [x \in expr.rsrc[r].refs |->
                                              IF x \in Local THEN locs[x] ELSE {}])]

-----------------------------------------------------------------------------
(* RetryLocals and the loops around it.                                    *)

Pending == {l \in Local : locals[l] = {}}
Sweeping == pc \in {"new", "build", "final"}

\* One name of the range over pendingLocs.
Retry(l) ==
    /\ Sweeping /\ l \in todo
    /\ todo' = todo \ {l}
    /\ locals' = [locals EXCEPT ![l] = InScope(expr.local[l], l)]
    /\ changed' = (changed \/ locals'[l] # {})
    /\ UNCHANGED <<dir, rsrc, entry, out, insts, built, given, stack, pc, i>>

Sweep(next) ==
    /\ pc' = next /\ i' = 1 /\ changed' = FALSE
    /\ todo' = IF next \in {"new", "build", "final"} THEN Pending ELSE {}
    /\ UNCHANGED <<dir, locals, entry, out, insts, built, given, stack>>

\* MUTANT of SweepAgain: the memo table is not reset.
SweepAgainKeeps ==
    /\ Sweeping /\ todo = {} /\ changed
    /\ Sweep(pc)
    /\ UNCHANGED rsrc

\* A sweep that resolved something: NewResolverWithVars only tries again,
\* fixpoint resets the resources first.
SweepAgain ==
    /\ Sweeping /\ todo = {} /\ changed
    /\ rsrc' = IF pc = "new" THEN rsrc ELSE Resources(locals)
    /\ Sweep(pc)

\* A sweep without a change ends the loop; after the first one the resources
\* are resolved for the first time.
SweepDone ==
    /\ Sweeping /\ todo = {} /\ ~changed
    /\ rsrc' = IF pc = "new" THEN Resources(locals) ELSE rsrc
    /\ Sweep(CASE pc = "new" -> "build" [] pc = "build" -> "register"
               [] pc = "final" -> "price")

-----------------------------------------------------------------------------
(* Forcing modules.                                                        *)

Top == stack[Len(stack)]
Replace(f) == [stack EXCEPT ![Len(stack)] = f]
Pop == SubSeq(stack, 1, Len(stack) - 1)

ExprOf(m, a) == IF a = "each" THEN expr.each[m] ELSE expr.in[m][a]
Present(m, S) == {a \in S : ExprOf(m, a).op # "absent"}

\* MUTANT of ForceInstance: the built flag is not consulted.
ForceAgain(m, k, via) ==
    [mod |-> m, k |-> k, via |-> via, cur |-> None, asked |-> FALSE,
     todo |-> IF m \notin fetch THEN {} ELSE Present(m, Input)]

\* moduleInstance.force of instance k: nothing when it is built or has no
\* source.
ForceInstance(m, k, via) ==
    [mod |-> m, k |-> k, via |-> via, cur |-> None, asked |-> FALSE,
     todo |-> IF <<m, k>> \in built \/ m \notin fetch THEN {}
              ELSE Present(m, Input)]

\* moduleOutputs of an idle entry; the caller's frame waits for the answer.
Enter(m, below) ==
    /\ entry' = [entry EXCEPT ![m] = "running"]
    /\ stack' = Append(below, ForceInstance(m, 1, "entry"))
    /\ built' = built \cup {<<m, 1>>}

\* registerModules, first loop: forEachItems of the next call.
Register ==
    /\ pc = "register" /\ stack = <<>> /\ i <= Len(Order)
    /\ stack' = <<[ForceInstance(Order[i], 1, "each") EXCEPT
                      !.todo = Present(Order[i], {"each"})]>>
    /\ UNCHANGED <<dir, locals, rsrc, entry, out, insts, built, given,
                   pc, i, todo, changed>>

\* MUTANT of Settle: modules are left to the first reference.
SettleLazily ==
    /\ pc = "settle" /\ stack = <<>> /\ i <= Len(Order)
    /\ i' = i + 1
    /\ UNCHANGED <<dir, locals, rsrc, entry, out, insts, built, given, stack,
                   pc, todo, changed>>

\* registerModules, second loop: ForceModule in registration order.
Settle ==
    /\ pc = "settle" /\ stack = <<>> /\ i <= Len(Order)
    /\ i' = i + 1
    /\ IF entry[Order[i]] = "idle" THEN Enter(Order[i], <<>>)
       ELSE UNCHANGED <<entry, stack, built>>
    /\ UNCHANGED <<dir, locals, rsrc, out, insts, given, pc, todo, changed>>

LoopDone ==
    /\ pc \in {"register", "settle"} /\ stack = <<>> /\ i > Len(Order)
    /\ Sweep(IF pc = "register" THEN "settle" ELSE "final")
    /\ UNCHANGED rsrc

\* priceModule forces the instances of the next call once more.
Price ==
    /\ pc = "price" /\ stack = <<>> /\ i <= Len(Order)
    /\ i' = i + 1
    /\ stack' = <<ForceInstance(Order[i], 1, "price")>>
    /\ built' = built \cup {<<Order[i], 1>>}
    /\ UNCHANGED <<dir, locals, rsrc, entry, out, insts, given,
                   pc, todo, changed>>

\* The next expression of the call: a range over a map.
Choose(a) ==
    /\ stack # <<>> /\ Top.cur = None /\ a \in Top.todo
    /\ stack' = Replace([Top EXCEPT !.cur = a, !.asked = FALSE])
    /\ UNCHANGED <<dir, locals, rsrc, entry, out, insts, built, given,
                   pc, i, todo, changed>>

\* MUTANT of Asks: the running flag is not consulted.
AsksRunning(x) ==
    /\ stack # <<>> /\ Top.cur # None /\ ~Top.asked
    /\ ExprOf(Top.mod, Top.cur).op = "direct"
    /\ ExprOf(Top.mod, Top.cur).refs = {x}
    /\ x \in Mod /\ entry[x] \in {"idle", "running"}

\* MUTANT of Asks: an answer of nil is asked for again.
AsksAgain(x) ==
    /\ stack # <<>> /\ Top.cur # None
    /\ ExprOf(Top.mod, Top.cur).op = "direct"
    /\ ExprOf(Top.mod, Top.cur).refs = {x}
    /\ x \in Mod /\ entry[x] = "idle"

\* resolveTraversal of module.x.o: x is forced by its first reference, unless
\* it is settled, running, or not registered.
Asks(x) ==
    /\ stack # <<>> /\ Top.cur # None /\ ~Top.asked
    /\ ExprOf(Top.mod, Top.cur).op = "direct"
    /\ ExprOf(Top.mod, Top.cur).refs = {x}
    /\ x \in Mod /\ entry[x] = "idle"

Ask(x) ==
    /\ Asks(x)
    /\ Enter(x, Replace([Top EXCEPT !.asked = TRUE]))
    /\ UNCHANGED <<dir, locals, rsrc, out, insts, given, pc, i, todo, changed>>

\* MUTANT of Answer: the reference is looked up in the scope, not forced.
AnswerEarly ==
    /\ stack # <<>> /\ Top.cur # None
    /\ given' = [given EXCEPT ![Top.mod][Top.k][Top.cur] =
                    InScope(ExprOf(Top.mod, Top.cur), <<Top.mod, Top.cur>>)]
    /\ stack' = Replace([Top EXCEPT !.todo = @ \ {Top.cur}, !.cur = None])
    /\ UNCHANGED <<dir, locals, rsrc, entry, out, insts, built,
                   pc, i, todo, changed>>

\* The value of the expression becomes an input, or is left out for good.
Answer ==
    /\ stack # <<>> /\ Top.cur # None /\ \A x \in Mod : ~Asks(x)
    /\ given' = [given EXCEPT ![Top.mod][Top.k][Top.cur] =
                    InScope(ExprOf(Top.mod, Top.cur), <<Top.mod, Top.cur>>)]
    /\ stack' = Replace([Top EXCEPT !.todo = @ \ {Top.cur}, !.cur = None])
    /\ UNCHANGED <<dir, locals, rsrc, entry, out, insts, built,
                   pc, i, todo, changed>>

Returning(via) ==
    stack # <<>> /\ Top.cur = None /\ Top.todo = {} /\ Top.via = via

\* moduleInstances and RegisterModule, once for_each is evaluated.
EachKnown ==
    /\ Returning("each")
    /\ insts' = [insts EXCEPT ![Top.mod] =
                    IF given[Top.mod][1]["each"] = {} THEN 1 ELSE 2]
    /\ entry' = [entry EXCEPT ![Top.mod] = "idle"]
    /\ stack' = <<>> /\ i' = i + 1
    /\ UNCHANGED <<dir, locals, rsrc, out, built, given, pc, todo, changed>>

\* MUTANT of NextInstance: one instance too many.
NextInstanceExtra ==
    /\ Returning("entry") \/ Returning("price")
    /\ Top.k <= insts[Top.mod]
    /\ stack' = Replace(ForceInstance(Top.mod, Top.k + 1, Top.via))
    /\ built' = built \cup {<<Top.mod, Top.k + 1>>}
    /\ UNCHANGED <<dir, locals, rsrc, entry, out, insts, given,
                   pc, i, todo, changed>>

\* mergeModuleFns and priceDir go on with the next instance.
NextInstance ==
    /\ Returning("entry") \/ Returning("price")
    /\ Top.k < insts[Top.mod]
    /\ stack' = Replace(ForceInstance(Top.mod, Top.k + 1, Top.via))
    /\ built' = built \cup {<<Top.mod, Top.k + 1>>}
    /\ UNCHANGED <<dir, locals, rsrc, entry, out, insts, given,
                   pc, i, todo, changed>>

\* moduleOutputs stores what fn returned.  The merged map of several
\* instances is never nil, and the last instance wins; the outputs of one
\* instance are nil if it has no source, and the entry stays retryable.
EntryDone ==
    /\ Returning("entry") /\ Top.k = insts[Top.mod]
    /\ out' = [out EXCEPT ![Top.mod] = Outputs(Top.mod, Top.k)]
    /\ entry' = [entry EXCEPT ![Top.mod] =
                    IF Top.mod \in fetch \/ insts[Top.mod] > 1 THEN "done"
                    ELSE "idle"]
    /\ stack' = Pop
    /\ UNCHANGED <<dir, locals, rsrc, insts, built, given, pc, i, todo, changed>>

PriceDone ==
    /\ Returning("price") /\ Top.k = insts[Top.mod]
    /\ stack' = Pop
    /\ UNCHANGED <<dir, locals, rsrc, entry, out, insts, built, given,
                   pc, i, todo, changed>>

Next == \/ \E l \in Local : Retry(l)
        \/ SweepAgain \/ SweepDone
        \/ Register \/ Settle \/ LoopDone \/ Price
        \/ \E a \in Names : Choose(a)
        \/ \E x \in Mod : Ask(x)
        \/ Answer \/ EachKnown \/ NextInstance \/ EntryDone \/ PriceDone

Spec     == Init /\ [][Next]_vars
FairSpec == Spec /\ WF_vars(Next)

-----------------------------------------------------------------------------
(* Properties.                                                             *)

Done == pc = "price" /\ stack = <<>> /\ i > Len(Order)

Frame == [mod : Mod, k : Nums, via : {"each", "entry", "price"},
          cur : Names \cup {None}, asked : BOOLEAN, todo : SUBSET Names]

TypeOK ==
    /\ dir \in Dir
    /\ locals \in [Local -> Val] /\ rsrc \in [Rsrc -> Val]
    /\ entry \in [Mod -> {"unregistered", "idle", "running", "done"}]
    /\ out \in [Mod -> Val]
    /\ insts \in [Mod -> {0} \cup Nums] /\ built \in SUBSET (Mod \X Nums)
    /\ given \in [Mod -> [Nums -> [Names -> Val]]]
    /\ stack \in Seq(Frame)
    /\ pc \in {"new", "build", "register", "settle", "final", "price"}
    /\ i \in 1..(Len(Order) + 1)
    /\ todo \in SUBSET Local /\ changed \in BOOLEAN

\* The running flag and the call stack agree: a module is running exactly
\* while one call of its outputs is in flight, however the references between
\* modules loop ("the running guard must keep this terminating",
\* moduleoutput_test.go:75).
RunningOnce ==
    \A m \in Mod :
        Cardinality({n \in DOMAIN stack : stack[n].via = "entry" /\ stack[n].mod = m})
        = IF entry[m] = "running" THEN 1 ELSE 0

\* Once the modules are forced in order, every one that has a source is
\* settled: no nil seen in the middle of a build is kept (resolver.go:61-62).
SettledAll ==
    pc \in {"final", "price"} => \A m \in fetch : entry[m] = "done"

Forcing(m, k) == \E n \in DOMAIN stack :
    stack[n].via = "entry" /\ stack[n].mod = m /\ stack[n].k = k

\* A module call is evaluated once: outputs that were seen are never
\* replaced, and once the call that built an instance is over its inputs stay
\* as they are, pricing included ("output references and the pricing pass
\* share a single evaluation", analyze.go:240-241).
EvaluatedOnce ==
    [][\A m \in Mod :
          /\ entry[m] = "done" => entry'[m] = "done" /\ out'[m] = out[m]
          /\ \A k \in Nums : (<<m, k>> \in built /\ ~Forcing(m, k))
                             => given'[m][k] = given[m][k]]_vars

TryFree(e) == e.op # "try"

\* What an expression means in the directory as it is at the end.
Means(e) == IF \A x \in e.refs : Scope(x) # {} THEN UNION {Scope(x) : x \in e.refs}
            ELSE {}

\* A resource without a value for its try() is worth the fallback of it.
Fallback(x) == {<<"fallback", x>>}
Fallible(e) == {r \in e.refs \cap Rsrc : ~TryFree(expr.rsrc[r])}

\* e as it was read when the resources S were at their fallbacks.
MeansWith(e, S) == UNION {IF x \in S THEN Fallback(x) ELSE Scope(x) : x \in e.refs}

\* v, the value of the expression e of owner o, is accounted for.
Stands(e, o, v) ==
    (e.refs # {} /\ v # {}) =>
        \/ ~TryFree(e) /\ v = Fallback(o)
        \/ /\ \A x \in e.refs : Scope(x) # {}
           /\ \E S \in SUBSET Fallible(e) : v = MeansWith(e, S)

\* Whatever the order of evaluation was, only a fallback that was read early
\* can be stale at the end: a local or a module input that has a value is what
\* its references mean in the finished directory, or its own fallback, or a
\* resource it refers to is in it with the fallback of a try() and everything
\* else as it is at the end.  Those fallbacks do become stale: with the
\* resource r = try(local.l, x) and l waiting for a module, a local that
\* refers to r is committed to x in the first fixpoint and is not revisited
\* when l and r have their values (resolver.go:147-157).
Coherent ==
    Done => /\ \A l \in Local : Stands(expr.local[l], l, locals[l])
            /\ \A m \in Mod, k \in Nums, a \in Input :
                   Stands(expr.in[m][a], <<m, a>>, given[m][k][a])

\* The last fixpoint is one: no pending local could still be resolved, and
\* the resources were resolved with all the locals there are.
FixpointComplete ==
    Done => /\ \A l \in Pending : InScope(expr.local[l], l) = {}
            /\ \A r \in Rsrc : LET e == expr.rsrc[r]
                               IN  (e.refs # {} /\ e.refs \subseteq Local /\ Means(e) # {})
                                   => rsrc[r] = Means(e)

Uses(m, x) == \E a \in Names : x \in ExprOf(m, a).refs
Ranks == [Mod -> 1..Cardinality(Mod)]
Acyclic == \E rank \in Ranks : \A m, x \in Mod : Uses(m, x) => rank[x] < rank[m]

Available(m, a) == /\ m \in fetch /\ ExprOf(m, a).op # "absent"
                   /\ ExprOf(m, a).refs \subseteq fetch

\* The input is a direct reference to a module that has outputs.
Direct(m, a) == Available(m, a) /\ expr.in[m][a].op = "direct"

\* A direct reference to the output of a module is seen, in whatever order
\* the modules are declared, when they do not refer to each other in a loop
\* and no for_each is evaluated among their registrations.
DirectSeen ==
    (Done /\ Acyclic /\ \A m \in Mod : expr.each[m].op = "absent") =>
        \A m \in Mod : \A k \in 1..insts[m], a \in Input :
            Direct(m, a) => given[m][k][a] # {}

\* analyze.go:127: "Settle in registration order so later modules see earlier
\* ones' outputs" (also resolver.go:43-44), in templates, too.
LaterSeesEarlier ==
    (Done /\ Acyclic) =>
        \A n \in DOMAIN Order : \A k \in 1..insts[Order[n]], a \in Input :
            (/\ Available(Order[n], a)
             /\ ExprOf(Order[n], a).refs \subseteq {Order[p] : p \in 1..(n - 1)})
            => given[Order[n]][k][a] # {}

\* The evaluation ends, on directories with reference loops, too.
Terminates == <>Done
=============================================================================
